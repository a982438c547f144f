---------------------------- MODULE MCProcessd ----------------------------
(* Instances of the daemon for TLC: what each execution was defined as.    *)
EXTENDS Processd

NoRetry == [enabled |-> FALSE, on |-> {}, max |-> 1, resets |-> FALSE, onShutdown |-> FALSE]

Retries(max) == [enabled |-> TRUE, on |-> {"nonzero_exit", "signal", "start_error"},
                 max |-> max, resets |-> FALSE, onShutdown |-> FALSE]

Task == [type |-> "task", worker |-> "w", lock |-> NoLock, reject |-> FALSE,
         timeout |-> FALSE, retry |-> NoRetry]

Service == [Task EXCEPT !.type = "service",
              !.retry = [Retries(AttemptsUnlimited) EXCEPT !.on = @ \cup {"exit"}]]

LockedTask == [Task EXCEPT !.lock = "k", !.retry = Retries(2)]

(* A retried task whose attempts are forgiven after a while, and one that  *)
(* is refused on a conflict, for the same lock.                            *)
DefContend == <<[LockedTask EXCEPT !.retry.resets = TRUE], [LockedTask EXCEPT !.reject = TRUE, !.retry = NoRetry]>>

(* A retried task with a timeout and a lock, and a service.                *)
TimedTask == [LockedTask EXCEPT !.timeout = TRUE]

DefMixed == <<[TimedTask EXCEPT !.retry.on = @ \cup {"timeout"}], Service>>

(* A single task that goes back to the queue on shutdown.                  *)
DefOne == <<[TimedTask EXCEPT !.retry.onShutdown = TRUE]>>

(* A service with a lock.                                                  *)
DefService == <<[Service EXCEPT !.lock = "k"]>>

(* Tasks for one lock that end whatever they do, because they time out:    *)
(* one goes back to the queue on shutdown, the other is retried when it    *)
(* could not be started.                                                   *)
DefRequeue ==
  <<[TimedTask EXCEPT !.retry = [Retries(1) EXCEPT !.onShutdown = TRUE]],
    [TimedTask EXCEPT !.retry.on = {"start_error"}]>>
=============================================================================
