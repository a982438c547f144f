------------------------------- MODULE Backoff -------------------------------
(***************************************************************************)
(* internal/retry/backoff.go: how long to wait before the next attempt.    *)
(* Durations are whole units up to MaxDuration, which stands for the       *)
(* largest int64; multipliers and jitter are in tenths, and the curve is   *)
(* computed in numbers wide enough to hold it, as float64 is.              *)
(***************************************************************************)
EXTENDS Integers

CONSTANT MaxDuration

ASSUME DurationAssumption == MaxDuration \in Nat \ {0}

(* clamp: within the ceiling, or within what a duration can hold.          *)
clamp(grown, ceiling) ==
  LET limit == IF ceiling > 0 THEN ceiling ELSE MaxDuration
  IN  IF grown <= 0 THEN 0 ELSE IF grown >= limit THEN limit ELSE grown

(* The curve is computed in the width of a duration, and wraps.            *)
curve_Wraps(b, attempt) ==
  CASE b.type = "fixed" -> b.initial
    [] b.type = "linear" -> (attempt * b.initial) % (MaxDuration + 1)
    [] OTHER -> ((b.initial * b.multiplier ^ (attempt - 1)) \div 10 ^ (attempt - 1)) % (MaxDuration + 1)

(* Delay's curve before it is bounded.                                     *)
curve(b, attempt) ==
  CASE b.type = "fixed" -> b.initial
    [] b.type = "linear" -> attempt * b.initial
    [] OTHER -> (b.initial * b.multiplier ^ (attempt - 1)) \div 10 ^ (attempt - 1)

(* The upper half of the window may leave the range of a duration.         *)
applyJitter_Unclamped(delay, jitter, factor) ==
  IF jitter <= 0 \/ delay <= 0 THEN delay ELSE (delay * factor) \div 10

(* applyJitter, given where in its window the random factor fell.          *)
applyJitter(delay, jitter, factor) ==
  IF jitter <= 0 \/ delay <= 0 THEN delay ELSE clamp((delay * factor) \div 10, 0)

Factors(b) == {10 - b.jitter, 10, 10 + b.jitter}

Delay(b, attempt, factor) == applyJitter(clamp(curve(b, attempt), b.max), b.jitter, factor)
=============================================================================
