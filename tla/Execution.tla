----------------------------- MODULE Execution -----------------------------
(***************************************************************************)
(* What the daemon promises about an execution, seen from the store: each  *)
(* execution moves through the lifecycle of core/state.go independently of *)
(* the others.  CRASHED is passed through in memory and never persisted,   *)
(* and an outcome may be persisted without the STOPPING before it, so the  *)
(* steps here are the paths of the state machine between two writes.       *)
(***************************************************************************)
EXTENDS Retry

CONSTANT Budget  \* Budget[id]: attempts in total, or AttemptsUnlimited

VARIABLES state, attempt

Become(id, from, to) ==
  /\ state[id] \in from
  /\ state' = [state EXCEPT ![id] = to]

KeepAttempt == UNCHANGED attempt

(* reset_after may forgive the attempts made so far.                       *)
MayForgive(id) ==
  \/ UNCHANGED attempt
  \/ attempt' = [attempt EXCEPT ![id] = 0]

Submitted(id) == Become(id, {NONE}, "CREATED") /\ KeepAttempt

Waits(id) == Become(id, {"CREATED"}, "QUEUED") /\ KeepAttempt

Starts(id) ==
  /\ Become(id, {"CREATED", "QUEUED", "RETRYING"}, "STARTING")
  /\ attempt' = [attempt EXCEPT ![id] = @ + 1]

Runs(id) == Become(id, {"STARTING"}, "RUNNING") /\ KeepAttempt

Stops(id) == Become(id, {"RUNNING"}, "STOPPING") /\ KeepAttempt

Completes(id) == Become(id, {"RUNNING"}, "COMPLETED") /\ KeepAttempt

(* Another attempt follows only within the budget.                         *)
Retries(id) ==
  /\ Become(id, {"STARTING", "RUNNING", "STOPPING"}, "RETRYING")
  /\ MayForgive(id)
  /\ Budget[id] = AttemptsUnlimited \/ attempt'[id] < Budget[id]

Fails(id) ==
  /\ Become(id, {"QUEUED", "STARTING", "RUNNING", "STOPPING"}, "FAILED")
  /\ MayForgive(id)

(* Interrupted by a shutdown the worker asked to survive.                  *)
Requeues(id) == Become(id, {"RUNNING", "STOPPING"}, "QUEUED") /\ KeepAttempt

Cancels(id) ==
  /\ Become(id, {"CREATED", "QUEUED", "RETRYING", "RUNNING", "STOPPING"}, "CANCELED")
  /\ KeepAttempt

Init ==
  /\ state = [id \in Procs |-> NONE]
  /\ attempt = [id \in Procs |-> 0]

Next ==
  \E id \in Procs :
     \/ Submitted(id) \/ Waits(id) \/ Starts(id) \/ Runs(id) \/ Stops(id)
     \/ Completes(id) \/ Retries(id) \/ Fails(id) \/ Requeues(id) \/ Cancels(id)

Spec == Init /\ [][Next]_<<state, attempt>>
=============================================================================
