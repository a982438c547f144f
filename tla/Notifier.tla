------------------------------ MODULE Notifier ------------------------------
(***************************************************************************)
(* internal/notify: outcomes are queued by the supervise goroutines,       *)
(* delivered by a fixed set of delivery goroutines, and given a budget     *)
(* when the daemon stops.  An execution the notifier submits is supervised *)
(* like any other, so its own outcomes come back to Notify.                *)
(***************************************************************************)
EXTENDS Naturals, Sequences, FiniteSets

CONSTANTS Clients,         \* executions clients submitted, by id
          Spares,          \* ids the executions submitted by the notifier get
          WorkerOf,        \* the worker of each client execution
          Own,             \* the notify policy of each worker
          Fallback,        \* the daemon-wide policy
          Nobody,          \* no worker
          QueueDepth,      \* queueDepth
          DeliveryWorkers, \* deliveryWorkers
          Retry,           \* webhook.retry
          MaxAttempts,     \* bound: attempts of an execution
          Happening        \* bound: the events that happen

Ids == Clients \cup Spares
Events == {"failed", "crashed", "retries_exhausted", "timeout"}

(* What classify answers for an outcome nobody is told of.                 *)
NoEvent == ""

Unset == [on |-> {}, webhook |-> FALSE, target |-> Nobody]

IsSet(policy) == policy.on # {} \/ policy.webhook \/ policy.target # Nobody

Delivers(policy) == policy.webhook \/ policy.target # Nobody

(* What validate accepts: a policy with events and somebody to tell.       *)
Policies ==
  {policy \in [on : SUBSET Events, webhook : BOOLEAN, target : DOMAIN Own \cup {Nobody}] :
     IsSet(policy) => policy.on # {} /\ Delivers(policy)}

(* The workers that deliver notifications.                                 *)
Targets == {p.target : p \in {Fallback} \cup {Own[w] : w \in DOMAIN Own}} \ {Nobody}

(* What the loader and validateNotifyTarget accept: the target of a        *)
(* notification is a worker that declares no policy of its own.            *)
ASSUME PolicyAssumption ==
  /\ \A w \in DOMAIN Own : Own[w] \in Policies
  /\ Fallback \in Policies
  /\ \A p \in {Fallback} \cup {Own[w] : w \in DOMAIN Own} :
        p.target # Nobody => ~IsSet(Own[p.target])
ASSUME IdAssumption ==
  /\ IsFiniteSet(Ids) /\ Clients \cap Spares = {}
  /\ WorkerOf \in [Clients -> DOMAIN Own]
  /\ Nobody \notin DOMAIN Own /\ Nobody \notin Ids
ASSUME BoundAssumption ==
  /\ QueueDepth \in Nat \ {0} /\ DeliveryWorkers \in Nat \ {0}
  /\ Retry \in Nat /\ MaxAttempts \in Nat \ {0}
  /\ Happening \subseteq Events

VARIABLES
  proc,     \* per id: phase, worker, who asked for it, attempt, last event,
            \* and whether the wait group of the attempts counts it
  jobs,     \* the channel
  closed,   \* Notifier.closed, and with it the channel
  dropped,  \* jobs there was no room for
  late,     \* jobs refused because the notifier was closed
  worker,   \* per delivery goroutine: pc, job, webhook attempts made
  fate,     \* what became of each job taken from the channel
  daemon,   \* how far Daemon.Run is into its shutdown
  aborted,  \* Notifier.abort closed: every delivery context is cancelled
  missing,  \* workers a reload removed or disabled
  awaited   \* attempts counted when Shutdown looked, unless it gave up on them

notifyVars == <<jobs, closed, dropped, late, worker, fate>>
vars == <<proc, jobs, closed, dropped, late, worker, fate, daemon, aborted, missing, awaited>>

NoJob == [id |-> Nobody]
IdleWorker == [pc |-> "take", job |-> NoJob, posts |-> 0]

Init ==
  /\ proc = [i \in Ids |->
       [phase |-> IF i \in Clients THEN "running" ELSE "none", attempt |-> 1, event |-> NoEvent,
        worker |-> IF i \in Clients THEN WorkerOf[i] ELSE Nobody, source |-> Nobody,
        counted |-> i \in Clients]]
  /\ jobs = <<>> /\ closed = FALSE /\ dropped = {} /\ late = {} /\ fate = {}
  /\ worker = [k \in 1..DeliveryWorkers |-> IdleWorker]
  /\ daemon = "up" /\ aborted = FALSE /\ missing = {} /\ awaited = {}

----------------------------------------------------------------------------
(* Supervisor.Start and the supervise goroutine of one attempt.            *)

(* Nothing but the record of the execution changes.                         *)
OnlyProc == UNCHANGED <<notifyVars, daemon, aborted, missing, awaited>>

(* The outcome of an attempt, and whether it is worth a notification.      *)
Settle(i, event) ==
  proc' = [proc EXCEPT ![i].event = event,
                       ![i].phase = IF event = NoEvent THEN "settled" ELSE "notify",
                       ![i].counted = @ /\ event # NoEvent]

(* Notify has returned; attempts.Done follows.                             *)
Settled(i) == [proc EXCEPT ![i].phase = "settled", ![i].counted = FALSE]

(* A dispatch starts a queued execution, or the next attempt of one; a     *)
(* pass that scheduler.Drain meets half way goes on until the supervisor   *)
(* refuses.                                                                *)
StartBegins(i) ==
  /\ daemon \in {"up", "draining"}
  /\ \/ proc[i].phase = "queued" /\ proc' = [proc EXCEPT ![i].phase = "starting"]
     \/ /\ proc[i].phase = "settled" /\ proc[i].event = "crashed"
        /\ proc[i].attempt < MaxAttempts
        /\ proc' = [proc EXCEPT ![i].phase = "starting", ![i].attempt = @ + 1, ![i].event = NoEvent]
  /\ OnlyProc

(* startFailed reports on the goroutine of the dispatch, which nothing     *)
(* waits for; NoEvent when the row cannot be written.                      *)
StartFails(i, event) ==
  /\ proc[i].phase = "starting"
  /\ Settle(i, event)
  /\ OnlyProc

(* The attempt enters the running map, and only then the wait group.       *)
Register(i) ==
  /\ proc[i].phase = "starting"
  /\ proc' = [proc EXCEPT ![i].phase = "mapped"]
  /\ OnlyProc

Count(i) ==
  /\ proc[i].phase = "mapped"
  /\ proc' = [proc EXCEPT ![i].phase = "running", ![i].counted = TRUE]
  /\ OnlyProc

(* An attempt ends and leaves the running map; a shutdown reads the map.   *)
Leave(i) ==
  /\ proc[i].phase = "running"
  /\ proc' = [proc EXCEPT ![i].phase = "left"]
  /\ OnlyProc

(* finish classifies the outcome.  NoEvent is a success, a user's stop or  *)
(* a shutdown; a retry is reported as crashed, everything else is final.   *)
Finish(i, event) ==
  /\ proc[i].phase = "left"
  /\ Settle(i, event)
  /\ OnlyProc

----------------------------------------------------------------------------
(* Notify, called on the supervise goroutine.                              *)

policyFor(i) ==
  IF IsSet(Own[proc[i].worker]) THEN Own[proc[i].worker] ELSE Fallback

Notifies(policy, event) == event \in policy.on

Job(i) == [id |-> i, attempt |-> proc[i].attempt, event |-> proc[i].event]

Wanted(i) ==
  /\ proc[i].source = Nobody
  /\ Notifies(policyFor(i), proc[i].event)

(* The early returns.                                                      *)
Unwanted(i) ==
  /\ proc[i].phase = "notify" /\ ~Wanted(i)
  /\ proc' = Settled(i)
  /\ OnlyProc

(* RLock, then the look at closed.                                         *)
CheckClosed(i) ==
  /\ proc[i].phase = "notify" /\ Wanted(i)
  /\ IF closed THEN /\ proc' = Settled(i)
                    /\ late' = late \cup {Job(i)}
               ELSE /\ proc' = [proc EXCEPT ![i].phase = "send"]
                    /\ UNCHANGED late
  /\ UNCHANGED <<jobs, closed, dropped, worker, fate, daemon, aborted, missing, awaited>>

(* A send on a full channel forgets the job without counting it.           *)
Send_Uncounted(i) ==
  /\ proc[i].phase = "send"
  /\ jobs' = IF Len(jobs) < QueueDepth THEN Append(jobs, Job(i)) ELSE jobs
  /\ proc' = Settled(i)
  /\ UNCHANGED <<closed, dropped, late, worker, fate, daemon, aborted, missing, awaited>>

(* The send that never blocks.                                             *)
Send(i) ==
  /\ proc[i].phase = "send"
  /\ IF Len(jobs) < QueueDepth
     THEN jobs' = Append(jobs, Job(i)) /\ UNCHANGED dropped
     ELSE dropped' = dropped \cup {Job(i)} /\ UNCHANGED jobs
  /\ proc' = Settled(i)
  /\ UNCHANGED <<closed, late, worker, fate, daemon, aborted, missing, awaited>>

----------------------------------------------------------------------------
(* The delivery goroutines of Run.                                         *)

PolicyOf(job) == policyFor(job.id)

(* The two deliveries of a job run in this order, and one failing does not *)
(* skip the other.                                                         *)
AfterPost(k) ==
  worker' = [worker EXCEPT ![k] =
    IF PolicyOf(@.job).target # Nobody THEN [@ EXCEPT !.pc = "run"] ELSE IdleWorker]

(* The goroutine never notices that the channel was closed.                *)
Take_Stays(k) ==
  /\ worker[k].pc = "take" /\ jobs # <<>> /\ jobs' = Tail(jobs)
  /\ worker' = [worker EXCEPT ![k] =
       [pc |-> IF PolicyOf(Head(jobs)).webhook THEN "post" ELSE "run",
        job |-> Head(jobs), posts |-> 0]]
  /\ UNCHANGED <<proc, closed, dropped, late, fate, daemon, aborted, missing, awaited>>

(* range n.jobs: the next job, or the end of a closed channel.             *)
Take(k) ==
  /\ worker[k].pc = "take"
  /\ \/ /\ jobs # <<>> /\ jobs' = Tail(jobs)
        /\ worker' = [worker EXCEPT ![k] =
             [pc |-> IF PolicyOf(Head(jobs)).webhook THEN "post" ELSE "run",
              job |-> Head(jobs), posts |-> 0]]
     \/ /\ jobs = <<>> /\ closed
        /\ worker' = [worker EXCEPT ![k].pc = "exited"] /\ UNCHANGED jobs
  /\ UNCHANGED <<proc, closed, dropped, late, fate, daemon, aborted, missing, awaited>>

(* A delivery is over.  Whether it succeeded is only logged: an endpoint    *)
(* that does not answer in time may have got the request all the same.     *)
Record(job, by) == fate' = fate \cup {[job |-> job, by |-> by]}

LastPost(k) == worker[k].posts >= Retry

(* post: up to Retry further attempts, each bounded by the timeout; once   *)
(* the deliveries are aborted every attempt fails at once.                 *)
PostOnce(k, ok) ==
  /\ worker[k].pc = "post"
  /\ ok => ~aborted
  /\ IF ok \/ LastPost(k)
     THEN Record(worker[k].job, "webhook") /\ AfterPost(k)
     ELSE /\ worker' = [worker EXCEPT ![k].pc = "wait", ![k].posts = @ + 1]
          /\ UNCHANGED fate
  /\ UNCHANGED <<proc, jobs, closed, dropped, late, daemon, aborted, missing, awaited>>

(* retryDelay passes, or the deliveries are aborted.                       *)
RetryDelay(k) ==
  /\ worker[k].pc = "wait"
  /\ worker' = [worker EXCEPT ![k].pc = "post"]
  /\ UNCHANGED <<proc, jobs, closed, dropped, late, fate, daemon, aborted, missing, awaited>>

(* run: the target is looked up in the registry of this moment, then       *)
(* submitted.  A draining scheduler and an aborted context refuse it; a    *)
(* full queue or the store may.                                            *)
RunExec(k, i, ok) ==
  /\ worker[k].pc = "run"
  /\ LET target == PolicyOf(worker[k].job).target
         accept == ok /\ target \notin missing /\ daemon = "up" /\ ~aborted
     IN  /\ accept <=> i \in Spares
         /\ IF accept
            THEN /\ proc[i].phase = "none"
                 /\ proc' = [proc EXCEPT ![i] =
                      [phase |-> "queued", attempt |-> 1, event |-> NoEvent, worker |-> target,
                       source |-> worker[k].job.id, counted |-> FALSE]]
            ELSE UNCHANGED proc
         /\ Record(worker[k].job, "exec")
  /\ worker' = [worker EXCEPT ![k] = IdleWorker]
  /\ UNCHANGED <<jobs, closed, dropped, late, daemon, aborted, missing, awaited>>

----------------------------------------------------------------------------
(* The daemon around it.                                                   *)

(* A reload removes or disables workers, or brings them back.  The target  *)
(* of a worker's own policy always exists; the daemon-wide one is only     *)
(* checked at boot.                                                        *)
Reload(gone) ==
  /\ daemon = "up" /\ gone # missing
  /\ missing' = gone
  /\ UNCHANGED <<proc, notifyVars, daemon, aborted, awaited>>

(* scheduler.Drain: nothing is admitted or started from here on.           *)
Drain ==
  /\ daemon = "up" /\ daemon' = "draining"
  /\ UNCHANGED <<proc, notifyVars, aborted, missing, awaited>>

Running == {i \in Ids : proc[i].phase \in {"mapped", "running"}}
Supervising == {i \in Ids : proc[i].counted}

(* supervisor.Shutdown looks at the running map, and returns at once when  *)
(* it is empty; the executions in it are told to stop.                     *)
Shutdown ==
  /\ daemon = "draining"
  /\ IF Running = {} THEN daemon' = "stopped" /\ UNCHANGED awaited
                     ELSE daemon' = "waiting" /\ awaited' = Supervising
  /\ UNCHANGED <<proc, notifyVars, aborted, missing>>

(* Waits for the running map instead of the goroutines.                    *)
Awaited_Map == Running = {}

(* The wait group of the supervise goroutines.                             *)
Awaited == Supervising = {}

(* It waits for every attempt to be settled, or until the grace is over.   *)
ShutdownReturns(timeout) ==
  /\ daemon = "waiting" /\ daemon' = "stopped"
  /\ timeout \/ Awaited
  /\ awaited' = IF timeout THEN {} ELSE awaited
  /\ UNCHANGED <<proc, notifyVars, aborted, missing>>

(* notifier.Close takes the lock for writing, so no Notify is between its  *)
(* look at closed and its send.                                            *)
CloseLock_Unordered == daemon = "stopped"

CloseLock == daemon = "stopped" /\ \A i \in Ids : proc[i].phase # "send"

Close ==
  /\ CloseLock
  /\ closed' = TRUE /\ daemon' = "closing"
  /\ UNCHANGED <<proc, jobs, dropped, late, worker, fate, aborted, missing, awaited>>

(* The budget is over: what is still in flight is given up.                *)
Budget ==
  /\ daemon = "closing" /\ ~aborted
  /\ aborted' = TRUE
  /\ UNCHANGED <<proc, notifyVars, daemon, missing, awaited>>

Drained == \A k \in 1..DeliveryWorkers : worker[k].pc = "exited"

CloseReturns ==
  /\ daemon = "closing" /\ Drained
  /\ daemon' = "closed"
  /\ UNCHANGED <<proc, notifyVars, aborted, missing, awaited>>

Delivery(k) ==
  \/ Take(k) \/ RetryDelay(k)
  \/ \E ok \in BOOLEAN : PostOnce(k, ok)
  \/ \E ok \in BOOLEAN, i \in Spares \cup {Nobody} : RunExec(k, i, ok)

Supervise(i) ==
  \/ StartBegins(i) \/ Register(i) \/ Count(i) \/ Leave(i)
  \/ \E event \in Happening \cup {NoEvent} : StartFails(i, event) \/ Finish(i, event)
  \/ Unwanted(i) \/ CheckClosed(i) \/ Send(i)

(* Daemon.Run once the API has stopped serving.                            *)
Stop ==
  \/ Shutdown \/ Close \/ Budget \/ CloseReturns
  \/ \E timeout \in BOOLEAN : ShutdownReturns(timeout)

Next ==
  \/ \E i \in Ids : Supervise(i)
  \/ \E k \in 1..DeliveryWorkers : Delivery(k)
  \/ \E gone \in SUBSET Targets : Reload(gone)
  \/ Drain \/ Stop

(* Goroutines run, a webhook attempt ends by its timeout, the timers of    *)
(* the grace and the budget fire.  Nothing makes the daemon stop.          *)
Fairness ==
  /\ \A k \in 1..DeliveryWorkers : WF_vars(Delivery(k))
  /\ \A i \in Ids : WF_vars(Unwanted(i) \/ CheckClosed(i) \/ Send(i))
  /\ WF_vars(Stop)

Spec == Init /\ [][Next]_vars
FairSpec == Spec /\ Fairness

----------------------------------------------------------------------------
(* The channel is never longer than queueDepth, no goroutine posts more    *)
(* often than webhook.retry allows, and every field has its type.          *)
NotifierTypeOK ==
  /\ proc \in [Ids -> [phase : {"none", "queued", "starting", "mapped", "running", "left",
                                "notify", "send", "settled"},
                       attempt : 1..MaxAttempts, event : Events \cup {NoEvent},
                       worker : DOMAIN Own \cup {Nobody}, source : Ids \cup {Nobody},
                       counted : BOOLEAN]]
  /\ Len(jobs) <= QueueDepth
  /\ daemon \in {"up", "draining", "waiting", "stopped", "closing", "closed"}
  /\ \A k \in 1..DeliveryWorkers :
        worker[k].pc \in {"take", "post", "wait", "run", "exited"} /\ worker[k].posts <= Retry

InFlight(j) ==
  \E k \in 1..DeliveryWorkers : worker[k].pc \in {"post", "wait", "run"} /\ worker[k].job = j
Waiting(j) == \E n \in DOMAIN jobs : jobs[n] = j
Delivered(j) == \E f \in fate : f.job = j

(* The notifier never reports about an execution it started itself, though *)
(* the daemon-wide policy applies to its target too: that would be a loop. *)
NoNotificationLoop ==
  \A f \in fate \cup {[job |-> jobs[n]] : n \in DOMAIN jobs} : proc[f.job.id].source = Nobody

(* A wanted outcome is, from the moment Notify returns, in exactly one     *)
(* place: queued, being delivered, done with, counted as dropped, or       *)
(* refused by the closed notifier.  None is lost on the way or sent twice. *)
Accounted ==
  \A i \in Ids : proc[i].phase = "settled" /\ proc[i].event # NoEvent /\ Wanted(i) =>
     LET j == Job(i)
         places == {<<"queue", n>> : n \in {n \in DOMAIN jobs : jobs[n] = j}}
                   \cup (IF InFlight(j) \/ Delivered(j) THEN {"taken"} ELSE {})
                   \cup (IF j \in dropped THEN {"dropped"} ELSE {})
                   \cup (IF j \in late THEN {"late"} ELSE {})
     IN  Cardinality(places) = 1

(* What is delivered is the outcome that was reported, although the        *)
(* execution goes on to other attempts meanwhile (p.Clone).                *)
PayloadIsTheOutcome ==
  \A f \in fate :
     LET p == proc[f.job.id]
     IN  f.job.event = IF f.job.attempt < p.attempt THEN "crashed" ELSE p.event

(* One delivery failing does not skip the other.                           *)
BothDeliveries ==
  \A f \in fate :
     LET policy == PolicyOf(f.job)
     IN  \/ InFlight(f.job)
         \/ /\ policy.webhook => \E g \in fate : g.job = f.job /\ g.by = "webhook"
            /\ policy.target # Nobody => \E g \in fate : g.job = f.job /\ g.by = "exec"

(* No goroutine is about to send on the closed channel, which would panic. *)
SendsAreOrdered == \A i \in Ids : proc[i].phase = "send" => ~closed

(* The outcomes of the attempts Shutdown waited for were offered to the    *)
(* queue; only those of others can come after it was closed.               *)
WaitedOutcomesReported == \A j \in late : j.id \notin awaited

(* Once Close returns nothing is in flight, so the store can be closed.    *)
ClosedIsQuiet ==
  daemon = "closed"
    => jobs = <<>> /\ \A k \in 1..DeliveryWorkers : worker[k].pc = "exited"

(* The notifier at every moment, part by part: its types and bounds, who   *)
(* is reported about and what is delivered, the channel and its end.       *)
NotifierInv ==
  /\ NotifierTypeOK
  /\ NoNotificationLoop /\ PayloadIsTheOutcome /\ BothDeliveries
  /\ SendsAreOrdered /\ ClosedIsQuiet

(* A shutdown is never held up by an endpoint, nor by the queue.           *)
CloseEnds == daemon = "draining" ~> daemon = "closed"

(* The outcomes settled on the way down are still reported (daemon.go).    *)
OutcomesReported == late = {}
=============================================================================
