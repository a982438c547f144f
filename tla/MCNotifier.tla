----------------------------- MODULE MCNotifier -----------------------------
(* A worker with a policy of its own, one under the daemon-wide policy, and *)
(* the worker both policies run, which is under the daemon-wide one too.    *)
EXTENDS Notifier

MCOwn == [own |-> [on |-> {"crashed"}, webhook |-> TRUE, target |-> "tell"],
          plain |-> Unset, tell |-> Unset]
MCFallback == [on |-> {"failed"}, webhook |-> TRUE, target |-> "tell"]
MCWorkerOf == <<"own", "plain">>
=============================================================================
