------------------------------- MODULE Retry -------------------------------
(***************************************************************************)
(* What an attempt's end means: the retry policy (internal/retry,          *)
(* internal/config) and the supervisor's pure decisions classify, settle   *)
(* and classifyShutdown, which turn (intent, exit, policy) into the state  *)
(* the execution is persisted in.                                          *)
(***************************************************************************)
EXTENDS Core

Triggers == {"nonzero_exit", "signal", "start_error", "timeout", "exit"}

AttemptsUnlimited == -1

(* resets: reset_after is set.  Whether an attempt ran that long is time,  *)
(* which the model does not measure: see Resets below.                     *)
Policy == [enabled: BOOLEAN, on: SUBSET Triggers, max: Int,
           resets: BOOLEAN, onShutdown: BOOLEAN]

EffectiveAttempts(r) ==
  IF ~r.enabled THEN 1
  ELSE IF r.max = AttemptsUnlimited THEN AttemptsUnlimited
  ELSE IF r.max < 1 THEN 1 ELSE r.max

(* An off-by-one in the ceiling, the budget read as retries after the first. *)
Allowed_OffByOne(r, trigger, attempt) ==
  /\ r.enabled
  /\ trigger \in r.on
  /\ \/ EffectiveAttempts(r) = AttemptsUnlimited
     \/ attempt <= EffectiveAttempts(r)

Allowed(r, trigger, attempt) ==
  /\ r.enabled
  /\ trigger \in r.on
  /\ \/ EffectiveAttempts(r) = AttemptsUnlimited
     \/ attempt < EffectiveAttempts(r)

(***************************************************************************)
(* How an attempt ended, by what the policy can tell apart: an exit code   *)
(* in success_exit_codes, one in no_retry_exit_codes (128+N of a signal    *)
(* may be one too), any other code, or any other signal.  A Wait that      *)
(* fails reports exit code 0.                                              *)
(***************************************************************************)
Results == {"success", "fatal", "failure", "signaled"}

Succeeded(result) == result = "success"

Fatal(result) == result = "fatal"

exitTrigger(type, result) ==
  IF result = "signaled" THEN "signal"
  ELSE IF type = "service" THEN "exit" ELSE "nonzero_exit"

(* CounterReset is a question about elapsed time: without reset_after the  *)
(* answer is no, with it the model explores both answers.                  *)
Resets(r) == IF r.resets THEN BOOLEAN ELSE {FALSE}

(* A CRASHED execution becomes a retry or a definitive failure.            *)
settle(p, r, trigger, failureReason, reset) ==
  LET q == IF reset THEN [p EXCEPT !.attempt = 0] ELSE p
  IN  IF Allowed(r, trigger, q.attempt)
      THEN TransitionTo(q, "RETRYING", "")
      ELSE TransitionTo(q, "FAILED", failureReason)

classifyShutdown(p, r) ==
  IF r.enabled /\ r.onShutdown
  THEN TransitionTo(p, "QUEUED", "shutdown")
  ELSE TransitionTo(p, "CANCELED", "shutdown")

(* An intent may be recorded before beginStop applied it: the execution is  *)
(* then still RUNNING, and its outcome is routed through STOPPING.          *)
viaStopping(p, intent) ==
  IF intent # "" /\ p.state = "RUNNING"
  THEN TransitionTo(p, "STOPPING", intent) ELSE p

(***************************************************************************)
(* The outcome of an attempt.  In the code each branch that ends in a      *)
(* terminal state also releases the execution's lock and no other branch   *)
(* does, so the caller derives the release from the state.                 *)
(***************************************************************************)
classify(p, type, r, intent, result, reset) ==
  LET q       == viaStopping(p, intent)
      crashed == TransitionTo(q, "CRASHED", "")
  IN  CASE intent = "user_request" -> TransitionTo(q, "CANCELED", "user_request")
        [] intent = "shutdown" -> classifyShutdown(q, r)
        [] intent = "timeout" /\ Allowed(r, "timeout", q.attempt) ->
             settle(TransitionTo(q, "CRASHED", "timeout"), r, "timeout", "timeout", reset)
        [] intent = "timeout" /\ ~Allowed(r, "timeout", q.attempt) ->
             TransitionTo(q, "FAILED", "timeout")
        [] intent = "" /\ type # "service" /\ Succeeded(result) ->
             TransitionTo(q, "COMPLETED", "")
        [] intent = "" /\ ~(type # "service" /\ Succeeded(result)) /\ Fatal(result) ->
             TransitionTo(crashed, "FAILED", "no_retry_exit_code")
        [] OTHER -> settle(crashed, r, exitTrigger(type, result), "max_attempts", reset)
=============================================================================
