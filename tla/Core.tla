------------------------------- MODULE Core -------------------------------
(***************************************************************************)
(* The domain package of processd (internal/core): the lifecycle of an     *)
(* execution and the process record every other component copies around.   *)
(* It has no state of its own and performs no I/O.                         *)
(***************************************************************************)
EXTENDS Integers, FiniteSets

CONSTANT Procs  \* execution ids, numbered in created_at order

ASSUME ProcsAssumption == Procs \subseteq Nat \ {0} /\ IsFiniteSet(Procs)

(* The states of core/state.go, and NONE for an id no row exists for.      *)
States == {"CREATED", "QUEUED", "STARTING", "RUNNING", "STOPPING",
           "CRASHED", "RETRYING", "COMPLETED", "FAILED", "CANCELED"}
NONE == "NONE"

allowedTransitions ==
  [s \in States |->
     CASE s = "CREATED"  -> {"QUEUED", "STARTING", "CANCELED"}
       [] s = "QUEUED"   -> {"STARTING", "CANCELED", "FAILED"}
       [] s = "STARTING" -> {"RUNNING", "CRASHED"}
       [] s = "RUNNING"  -> {"COMPLETED", "CRASHED", "STOPPING"}
       [] s = "STOPPING" -> {"CANCELED", "FAILED", "CRASHED", "QUEUED"}
       [] s = "CRASHED"  -> {"RETRYING", "FAILED"}
       [] s = "RETRYING" -> {"STARTING", "QUEUED", "CANCELED"}
       [] OTHER          -> {}]

IsTerminal(s) == s \in {"COMPLETED", "FAILED", "CANCELED"}

IsActive(s) == s \in {"STARTING", "RUNNING", "STOPPING"}

CanTransition(from, to) == from \in States /\ to \in allowedTransitions[from]

Types == {"task", "service"}

Reasons == {"", "user_request", "timeout", "max_attempts", "queue_timeout",
            "shutdown", "daemon_restart", "start_error", "no_retry_exit_code",
            "lock_conflict", "orphaned", "no_capacity"}

(***************************************************************************)
(* What the model keeps of core.Process.  The pid is the number of the     *)
(* launch that forked it (0: no process), which stands for the pair        *)
(* (PID, PIDStartTime): like the pair it is never reused.  The definition  *)
(* frozen at creation (type, worker, lock, timeout, retry policy) does not *)
(* change and is a constant of the modules that need it; timestamps,       *)
(* arguments, exit codes and log flags decide nothing here.                *)
(***************************************************************************)
Process == [state: States \cup {NONE}, reason: Reasons, attempt: Nat, pid: Nat]

NoProcess == [state |-> NONE, reason |-> "", attempt |-> 0, pid |-> 0]

NewProcess == [NoProcess EXCEPT !.state = "CREATED"]

(* An undefined edge leaves the process as it is: the callers report it.   *)
TransitionTo(p, to, reason) ==
  IF CanTransition(p.state, to)
  THEN [p EXCEPT !.state = to, !.reason = IF reason = "" THEN @ ELSE reason]
  ELSE p

ClearAttempt(p) == [p EXCEPT !.pid = 0]
=============================================================================
