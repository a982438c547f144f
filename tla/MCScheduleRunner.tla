--------------------------- MODULE MCScheduleRunner ---------------------------
(* Occurrences close enough for the jitter of one to reach the next, and a  *)
(* clock that falls back between two of them.                               *)
EXTENDS ScheduleRunner

MCWall == [t \in 0..Horizon |-> IF t >= 4 THEN t - 1 ELSE t]
=============================================================================
