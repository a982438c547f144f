--------------------------- MODULE NotifierProofs ---------------------------
(***************************************************************************)
(* The safety of the notifier, for every set of executions, every policy   *)
(* the loader accepts, every queue and any number of delivery goroutines.  *)
(*                                                                         *)
(* Job(i) names an outcome by execution, attempt and event.  The argument: *)
(* an execution moves on to another attempt only from a settled one, so a  *)
(* job that exists is about an attempt that is over (JobInv), a job about  *)
(* to be sent exists nowhere yet, and every later step moves it from one   *)
(* place to the next (PlaceInv).                                           *)
(***************************************************************************)
EXTENDS Notifier, FiniteSetTheorems, TLAPS

Jobs == [id : Ids, attempt : 1..MaxAttempts, event : Events]
Busy == {"post", "wait", "run"}

(* The types of everything NotifierTypeOK leaves out.                      *)
FieldTypes ==
  /\ NotifierTypeOK
  /\ jobs \in Seq(Jobs) /\ dropped \subseteq Jobs /\ late \subseteq Jobs
  /\ fate \subseteq [job : Jobs, by : {"webhook", "exec"}]
  /\ worker \in [1..DeliveryWorkers ->
       [pc : Busy \cup {"take", "exited"}, job : Jobs \cup {NoJob}, posts : Nat]]
  /\ \A k \in 1..DeliveryWorkers : worker[k].pc \in Busy => worker[k].job \in Jobs
  /\ closed \in BOOLEAN /\ awaited \subseteq Ids

(* An execution that exists has a worker; only an outcome is notified, and *)
(* only the attempts under supervision are counted.                        *)
ProcInv ==
  \A i \in Ids :
    /\ proc[i].phase # "none" => proc[i].worker \in DOMAIN Own
    /\ proc[i].phase \in {"notify", "send"} => proc[i].event # NoEvent
    /\ proc[i].phase = "send" => Wanted(i)
    /\ proc[i].counted => proc[i].phase \in {"running", "left", "notify", "send"}

(* The shutdown: what is awaited is settled when the channel closes.       *)
StopInv ==
  /\ daemon \in {"up", "draining"} => awaited = {}
  /\ closed <=> daemon \in {"closing", "closed"}
  /\ late # {} => closed
  /\ \A i \in awaited : proc[i].phase = "settled" \/ (daemon = "waiting" /\ proc[i].counted)
  /\ SendsAreOrdered

(* A job is about an attempt that is over, with its outcome, and somebody  *)
(* is to be told of it.                                                    *)
Settles(j) ==
  /\ proc[j.id].source = Nobody /\ proc[j.id].phase # "none"
  /\ Notifies(PolicyOf(j), j.event)
  /\ j.attempt <= proc[j.id].attempt
  /\ j.attempt < proc[j.id].attempt => j.event = "crashed"
  /\ j.attempt = proc[j.id].attempt => proc[j.id].phase = "settled" /\ j.event = proc[j.id].event

Taken(j) == InFlight(j) \/ Delivered(j)

JobInv == \A j \in Jobs : Waiting(j) \/ Taken(j) \/ j \in dropped \/ j \in late => Settles(j)

(* No job is in two places, nor twice in the channel.                      *)
PlaceInv ==
  /\ \A m, n \in DOMAIN jobs : jobs[m] = jobs[n] => m = n
  /\ \A j \in Jobs :
       /\ Waiting(j) => ~Taken(j) /\ j \notin dropped /\ j \notin late
       /\ Taken(j) => j \notin dropped /\ j \notin late
       /\ j \in dropped => j \notin late

(* Every wanted outcome that is settled is in some place.                  *)
Offered ==
  \A i \in Ids : proc[i].phase = "settled" /\ proc[i].event # NoEvent /\ Wanted(i) =>
     Waiting(Job(i)) \/ Taken(Job(i)) \/ Job(i) \in dropped \/ Job(i) \in late

Got(j, by) == \E f \in fate : f.job = j /\ f.by = by

(* What a delivery goroutine still has to do, and what it has done.        *)
DeliveryInv ==
  /\ \A k \in 1..DeliveryWorkers :
       LET policy == PolicyOf(worker[k].job)
       IN  /\ worker[k].pc \in {"post", "wait"} => policy.webhook
           /\ worker[k].pc = "run" =>
                policy.target # Nobody /\ (policy.webhook => Got(worker[k].job, "webhook"))
           /\ worker[k].pc = "exited" => jobs = <<>> /\ closed
  /\ BothDeliveries
  /\ daemon = "closed" => Drained

Inductive ==
  /\ FieldTypes /\ ProcInv /\ StopInv /\ JobInv /\ PlaceInv /\ Offered /\ DeliveryInv
  /\ WaitedOutcomesReported

----------------------------------------------------------------------------
(* Types.                                                                  *)

(* The policy of an execution that exists is one the loader accepted.      *)
LEMMA PolicyTyped ==
  ASSUME NEW i \in Ids, proc[i].worker \in DOMAIN Own
  PROVE  /\ policyFor(i) \in Policies
         /\ policyFor(i).target \in DOMAIN Own \cup {Nobody}
         /\ policyFor(i).webhook \/ policyFor(i).target # Nobody
              \/ policyFor(i).on = {}
<1>1. policyFor(i) \in Policies
  BY PolicyAssumption DEF policyFor
<1>2. QED
  BY <1>1 DEF Policies, IsSet, Delivers

(* What is noted of a wanted outcome is a job.                             *)
LEMMA JobTyped ==
  ASSUME FieldTypes, NEW i \in Ids, proc[i].event # NoEvent
  PROVE  Job(i) \in Jobs
BY DEF FieldTypes, NotifierTypeOK, Job, Jobs

(* The first state has its types.                                          *)
LEMMA TypesInit == Init => FieldTypes /\ ProcInv
<1> SUFFICES ASSUME Init PROVE FieldTypes /\ ProcInv
  OBVIOUS
<1> USE DEF Init
<1>1. NotifierTypeOK
  <2>1. \A i \in Clients : WorkerOf[i] \in DOMAIN Own
    BY IdAssumption
  <2>2. 1 \in 1..MaxAttempts
    BY BoundAssumption
  <2>3. Len(jobs) <= QueueDepth
    BY BoundAssumption
  <2>4. \A k \in 1..DeliveryWorkers : worker[k].pc = "take" /\ worker[k].posts <= Retry
    BY BoundAssumption DEF IdleWorker
  <2>5. QED
    BY <2>1, <2>2, <2>3, <2>4 DEF NotifierTypeOK, Ids
<1>2. worker \in [1..DeliveryWorkers ->
         [pc : Busy \cup {"take", "exited"}, job : Jobs \cup {NoJob}, posts : Nat]]
  BY DEF IdleWorker
<1>3. \A k \in 1..DeliveryWorkers : worker[k].pc \notin Busy
  BY DEF IdleWorker, Busy
<1>4. ProcInv
  BY IdAssumption DEF ProcInv, Ids
<1>5. jobs \in Seq(Jobs)
  OBVIOUS
<1>6. QED
  BY <1>1, <1>2, <1>3, <1>4, <1>5 DEF FieldTypes

(* The actions of an execution that touch nothing of the notifier.         *)
Attempts(i) ==
  \/ StartBegins(i) \/ Register(i) \/ Count(i) \/ Leave(i) \/ Unwanted(i)
  \/ \E event \in Happening \cup {NoEvent} : StartFails(i, event) \/ Finish(i, event)

(* The actions that change none of the executions and none of the jobs.    *)
Around ==
  \/ Drain \/ Stop \/ UNCHANGED vars
  \/ \E gone \in SUBSET Targets : Reload(gone)

(* The steps, in the groups the proofs take them.                          *)
LEMMA Cases ==
  ASSUME [Next]_vars
  PROVE  \/ Around
         \/ \E i \in Ids : Attempts(i) \/ CheckClosed(i) \/ Send(i)
         \/ \E k \in 1..DeliveryWorkers :
              \/ Take(k) \/ RetryDelay(k)
              \/ \E ok \in BOOLEAN : PostOnce(k, ok)
              \/ \E ok \in BOOLEAN, i \in Spares \cup {Nobody} : RunExec(k, i, ok)
BY DEF Next, Around, Attempts, Supervise, Delivery

(* Around an execution: nothing moves but the shutdown.                    *)
LEMMA AroundKeeps ==
  ASSUME Around
  PROVE  UNCHANGED <<proc, jobs, dropped, late, worker, fate>>
BY DEF Around, Drain, Stop, Shutdown, ShutdownReturns, Close, Budget, CloseReturns, Reload,
       vars, notifyVars

(* The fields of an execution after a step of one of its attempts.         *)
LEMMA AttemptStep ==
  ASSUME FieldTypes, ProcInv, NEW i \in Ids, Attempts(i)
  PROVE  /\ UNCHANGED <<jobs, closed, dropped, late, worker, fate, daemon, awaited>>
         /\ proc' = [proc EXCEPT ![i] = proc'[i]]
         /\ proc'[i] \in [phase : {"starting", "mapped", "running", "left", "notify", "settled"},
                          attempt : 1..MaxAttempts, event : Events \cup {NoEvent},
                          worker : {proc[i].worker}, source : {proc[i].source},
                          counted : BOOLEAN]
         /\ proc[i].phase \notin {"none", "send"}
         /\ proc[i].phase = "settled" => proc'[i].phase = "starting"
                /\ proc[i].event = "crashed" /\ proc'[i].attempt = proc[i].attempt + 1
                /\ daemon \in {"up", "draining"}
         /\ proc[i].phase # "settled" => proc'[i].attempt = proc[i].attempt
         /\ proc'[i].phase = "settled" =>
              proc'[i].event = NoEvent \/ (proc'[i].event = proc[i].event /\ ~Wanted(i))
         /\ proc'[i].phase = "notify" => proc'[i].event # NoEvent
         /\ proc'[i].counted => proc'[i].phase \in {"running", "left", "notify"}
         /\ proc[i].counted => proc'[i].counted \/ proc'[i].phase = "settled"
<1> USE DEF Attempts, OnlyProc, notifyVars
<1>1. proc \in [Ids -> [phase : {"none", "queued", "starting", "mapped", "running", "left",
                                "notify", "send", "settled"},
                       attempt : 1..MaxAttempts, event : Events \cup {NoEvent},
                       worker : DOMAIN Own \cup {Nobody}, source : Ids \cup {Nobody},
                       counted : BOOLEAN]]
  BY DEF FieldTypes, NotifierTypeOK
<1>2. proc[i].counted => proc[i].phase \in {"running", "left", "notify", "send"}
  BY DEF ProcInv
<1>3. proc[i].phase = "notify" => proc[i].event # NoEvent
  BY DEF ProcInv
<1>4. CASE StartBegins(i)
  BY <1>1, <1>2, <1>4, BoundAssumption DEF StartBegins
<1>5. CASE Register(i)
  BY <1>1, <1>2, <1>5 DEF Register
<1>6. CASE Count(i)
  BY <1>1, <1>2, <1>6 DEF Count
<1>7. CASE Leave(i)
  BY <1>1, <1>2, <1>7 DEF Leave
<1>8. CASE Unwanted(i)
  BY <1>1, <1>2, <1>3, <1>8 DEF Unwanted, Settled
<1>9. ASSUME NEW event \in Happening \cup {NoEvent}, StartFails(i, event) \/ Finish(i, event)
      PROVE  /\ proc[i].phase \in {"starting", "left"}
             /\ proc' = [proc EXCEPT ![i].event = event,
                       ![i].phase = IF event = NoEvent THEN "settled" ELSE "notify",
                       ![i].counted = @ /\ event # NoEvent]
             /\ UNCHANGED <<jobs, closed, dropped, late, worker, fate, daemon, awaited>>
             /\ event \in Events \cup {NoEvent}
  BY <1>9, BoundAssumption DEF StartFails, Finish, Settle
<1>10. QED
  <2>1. CASE \E event \in Happening \cup {NoEvent} : StartFails(i, event) \/ Finish(i, event)
    <3>1. PICK event \in Happening \cup {NoEvent} : StartFails(i, event) \/ Finish(i, event)
      BY <2>1
    <3>2. /\ proc[i].phase \in {"starting", "left"}
          /\ proc' = [proc EXCEPT ![i].event = event,
                    ![i].phase = IF event = NoEvent THEN "settled" ELSE "notify",
                    ![i].counted = @ /\ event # NoEvent]
          /\ UNCHANGED <<jobs, closed, dropped, late, worker, fate, daemon, awaited>>
          /\ event \in Events \cup {NoEvent}
      BY <3>1, <1>9
    <3>3. CASE event = NoEvent
      <4>1. proc' = [proc EXCEPT ![i].event = NoEvent, ![i].phase = "settled",
                                 ![i].counted = FALSE]
        BY <1>1, <3>2, <3>3
      <4>2. QED
        BY <1>1, <3>2, <4>1
    <3>4. CASE event # NoEvent
      <4>1. proc' = [proc EXCEPT ![i].event = event, ![i].phase = "notify"]
        BY <1>1, <3>2, <3>4
      <4>2. QED
        BY <1>1, <1>2, <3>2, <3>4, <4>1
    <3>5. QED
      BY <3>3, <3>4
  <2>2. QED
    BY <1>4, <1>5, <1>6, <1>7, <1>8, <2>1

(* A job that is being delivered is about an execution that exists, so its *)
(* policy is one the loader accepted.                                      *)
LEMMA BusyPolicy ==
  ASSUME FieldTypes, ProcInv, JobInv, NEW k \in 1..DeliveryWorkers, worker[k].pc \in Busy
  PROVE  /\ worker[k].job \in Jobs /\ worker[k].job.id \in Ids
         /\ Settles(worker[k].job)
         /\ PolicyOf(worker[k].job) \in Policies
         /\ PolicyOf(worker[k].job).target \in DOMAIN Own \cup {Nobody}
<1>1. worker[k].job \in Jobs /\ worker[k].job.id \in Ids
  BY DEF FieldTypes, Jobs
<1>2. InFlight(worker[k].job)
  BY DEF InFlight, Busy
<1>3. Settles(worker[k].job)
  BY <1>1, <1>2 DEF JobInv, Taken
<1>4. proc[worker[k].job.id].worker \in DOMAIN Own
  BY <1>1, <1>3 DEF Settles, ProcInv
<1>5. QED
  BY <1>1, <1>3, <1>4, PolicyTyped DEF PolicyOf

(* What RunExec does to the executions.                                    *)
LEMMA RunExecStep ==
  ASSUME FieldTypes, ProcInv, JobInv, DeliveryInv, NEW k \in 1..DeliveryWorkers,
         NEW ok \in BOOLEAN, NEW i \in Spares \cup {Nobody}, RunExec(k, i, ok)
  PROVE  /\ worker[k].pc = "run" /\ worker[k].job \in Jobs
         /\ \/ UNCHANGED proc
            \/ /\ i \in Ids /\ proc[i].phase = "none"
               /\ proc' = [proc EXCEPT ![i] = proc'[i]]
               /\ proc'[i] \in [phase : {"queued"}, attempt : 1..MaxAttempts,
                                event : {NoEvent}, worker : DOMAIN Own, source : Ids,
                                counted : {FALSE}]
<1> DEFINE target == PolicyOf(worker[k].job).target
           accept == ok /\ target \notin missing /\ daemon = "up" /\ ~aborted
<1>1. worker[k].pc = "run" /\ worker[k].pc \in Busy
  BY DEF RunExec, Busy
<1>2. worker[k].job \in Jobs /\ worker[k].job.id \in Ids /\ target \in DOMAIN Own \cup {Nobody}
  BY <1>1, BusyPolicy
<1>3. target # Nobody
  BY <1>1 DEF DeliveryInv
<1>4. CASE ~accept
  <2>1. UNCHANGED proc
    BY <1>4 DEF RunExec
  <2>2. QED
    BY <1>1, <1>2, <2>1
<1>5. CASE accept
  <2>1. /\ i \in Spares /\ proc[i].phase = "none"
        /\ proc' = [proc EXCEPT ![i] =
                      [phase |-> "queued", attempt |-> 1, event |-> NoEvent, worker |-> target,
                       source |-> worker[k].job.id, counted |-> FALSE]]
    BY <1>5 DEF RunExec
  <2> HIDE DEF target, accept
  <2>2. i \in Ids /\ 1 \in 1..MaxAttempts
    BY <2>1, BoundAssumption DEF Ids
  <2>3. proc \in [Ids -> [phase : {"none", "queued", "starting", "mapped", "running", "left",
                                "notify", "send", "settled"},
                       attempt : 1..MaxAttempts, event : Events \cup {NoEvent},
                       worker : DOMAIN Own \cup {Nobody}, source : Ids \cup {Nobody},
                       counted : BOOLEAN]]
    BY DEF FieldTypes, NotifierTypeOK
  <2>4. proc'[i] = [phase |-> "queued", attempt |-> 1, event |-> NoEvent, worker |-> target,
                       source |-> worker[k].job.id, counted |-> FALSE]
    BY <2>1, <2>2, <2>3
  <2>5. QED
    BY <1>1, <1>2, <1>3, <2>1, <2>2, <2>3, <2>4
<1>6. QED
  BY <1>4, <1>5

(* The two steps of Notify that touch an execution.                        *)
LEMMA NotifyStep ==
  ASSUME FieldTypes, ProcInv, NEW i \in Ids, CheckClosed(i) \/ Send(i)
  PROVE  /\ proc[i].phase \in {"notify", "send"} /\ Wanted(i)
         /\ proc[i].event # NoEvent /\ Job(i) \in Jobs
         /\ \/ proc' = [proc EXCEPT ![i].phase = "settled", ![i].counted = FALSE]
            \/ /\ proc' = [proc EXCEPT ![i].phase = "send"]
               /\ ~closed /\ UNCHANGED <<jobs, dropped, late>>
         /\ UNCHANGED <<closed, worker, fate, daemon, awaited>>
<1>1. proc[i].phase \in {"notify", "send"} /\ Wanted(i)
  BY DEF CheckClosed, Send, ProcInv
<1>2. proc[i].event # NoEvent
  BY <1>1 DEF ProcInv
<1>3. QED
  BY <1>1, <1>2, JobTyped DEF CheckClosed, Send, Settled

ProcRecord ==
  [phase : {"none", "queued", "starting", "mapped", "running", "left", "notify", "send",
            "settled"},
   attempt : 1..MaxAttempts, event : Events \cup {NoEvent}, worker : DOMAIN Own \cup {Nobody},
   source : Ids \cup {Nobody}, counted : BOOLEAN]

GoesOn(i) ==
  /\ proc'[i].worker = proc[i].worker /\ proc'[i].source = proc[i].source
  /\ proc'[i].phase # "none"
  /\ \/ /\ proc[i].phase = "settled" /\ proc[i].event = "crashed"
        /\ proc'[i].attempt = proc[i].attempt + 1
     \/ /\ proc'[i].attempt = proc[i].attempt
        /\ proc[i].phase = "settled" =>
             proc'[i].phase = "settled" /\ proc'[i].event = proc[i].event

(* A step changes one execution at most.  One that exists keeps its worker *)
(* and who asked for it; a settled one stays so until its next attempt.    *)
LEMMA Moves ==
  ASSUME FieldTypes, ProcInv, JobInv, DeliveryInv, [Next]_vars
  PROVE  /\ proc' \in [Ids -> ProcRecord]
         /\ \A i \in Ids : proc[i].phase # "none" => GoesOn(i)
<1>1. proc \in [Ids -> ProcRecord]
  BY DEF FieldTypes, NotifierTypeOK, ProcRecord
<1>2. CASE UNCHANGED proc
  BY <1>1, <1>2 DEF GoesOn
<1>3. ASSUME NEW i \in Ids, Attempts(i)
      PROVE  /\ proc' \in [Ids -> ProcRecord]
             /\ \A h \in Ids : proc[h].phase # "none" => GoesOn(h)
  <2>1. /\ proc' = [proc EXCEPT ![i] = proc'[i]]
        /\ proc'[i] \in ProcRecord
        /\ proc'[i].worker = proc[i].worker /\ proc'[i].source = proc[i].source
        /\ proc'[i].phase # "none"
    BY <1>1, <1>3, AttemptStep DEF ProcRecord
  <2>2. GoesOn(i)
    BY <1>1, <1>3, <2>1, AttemptStep DEF GoesOn
  <2>3. QED
    BY <1>1, <2>1, <2>2 DEF GoesOn
<1>4. ASSUME NEW i \in Ids, CheckClosed(i) \/ Send(i)
      PROVE  /\ proc' \in [Ids -> ProcRecord]
             /\ \A h \in Ids : proc[h].phase # "none" => GoesOn(h)
  <2>1. /\ proc[i].phase \in {"notify", "send"}
        /\ \/ proc' = [proc EXCEPT ![i].phase = "settled", ![i].counted = FALSE]
           \/ proc' = [proc EXCEPT ![i].phase = "send"]
    BY <1>4, NotifyStep
  <2>2. QED
    BY <1>1, <2>1 DEF GoesOn, ProcRecord
<1>5. ASSUME NEW k \in 1..DeliveryWorkers, NEW ok \in BOOLEAN, NEW i \in Spares \cup {Nobody},
             RunExec(k, i, ok)
      PROVE  /\ proc' \in [Ids -> ProcRecord]
             /\ \A h \in Ids : proc[h].phase # "none" => GoesOn(h)
  <2>1. CASE UNCHANGED proc
    BY <1>2, <2>1
  <2>2. CASE ~UNCHANGED proc
    <3>1. /\ i \in Ids /\ proc[i].phase = "none"
          /\ proc' = [proc EXCEPT ![i] = proc'[i]]
          /\ proc'[i] \in ProcRecord
      <4>1. /\ i \in Ids /\ proc[i].phase = "none"
            /\ proc' = [proc EXCEPT ![i] = proc'[i]]
            /\ proc'[i] \in [phase : {"queued"}, attempt : 1..MaxAttempts,
                             event : {NoEvent}, worker : DOMAIN Own, source : Ids,
                             counted : {FALSE}]
        BY <1>5, <2>2, RunExecStep
      <4>2. QED
        BY <4>1 DEF ProcRecord
    <3>2. QED
      BY <1>1, <3>1 DEF GoesOn
  <2>3. QED
    BY <2>1, <2>2
<1>6. CASE \E k \in 1..DeliveryWorkers :
             Take(k) \/ RetryDelay(k) \/ \E ok \in BOOLEAN : PostOnce(k, ok)
  BY <1>2, <1>6 DEF Take, RetryDelay, PostOnce
<1>7. CASE Around
  BY <1>2, <1>7, AroundKeeps
<1>8. QED
  BY <1>3, <1>4, <1>5, <1>6, <1>7, Cases

(* What a job is about stays settled, and its policy the same.             *)
LEMMA SettlesStays ==
  ASSUME FieldTypes, ProcInv, JobInv, DeliveryInv, [Next]_vars, NEW j \in Jobs, Settles(j)
  PROVE  Settles(j)' /\ PolicyOf(j)' = PolicyOf(j)
<1>1. j.id \in Ids /\ j.attempt \in 1..MaxAttempts
  BY DEF Jobs
<1>2. proc[j.id].phase # "none" /\ GoesOn(j.id)
  BY <1>1, Moves DEF Settles
<1>3. proc[j.id].attempt \in 1..MaxAttempts
  BY <1>1 DEF FieldTypes, NotifierTypeOK
<1>4. PolicyOf(j)' = PolicyOf(j)
  BY <1>2 DEF PolicyOf, policyFor, GoesOn
<1>5. Settles(j)'
  BY <1>1, <1>2, <1>3, <1>4 DEF Settles, GoesOn, Notifies
<1>6. QED
  BY <1>4, <1>5

----------------------------------------------------------------------------
(* The types again, after a step.                                          *)

WorkerRecord ==
  [pc : Busy \cup {"take", "exited"}, job : Jobs \cup {NoJob}, posts : Nat]

(* FieldTypes without the executions, by variable.                         *)
ChannelTypes ==
  /\ jobs \in Seq(Jobs) /\ Len(jobs) <= QueueDepth
  /\ dropped \subseteq Jobs /\ late \subseteq Jobs
  /\ fate \subseteq [job : Jobs, by : {"webhook", "exec"}]

WorkerTypes ==
  /\ worker \in [1..DeliveryWorkers -> WorkerRecord]
  /\ \A k \in 1..DeliveryWorkers :
       (worker[k].pc \in Busy => worker[k].job \in Jobs) /\ worker[k].posts <= Retry

DaemonTypes ==
  /\ daemon \in {"up", "draining", "waiting", "stopped", "closing", "closed"}
  /\ closed \in BOOLEAN /\ awaited \subseteq Ids

(* FieldTypes is the types of the executions and of the other variables.   *)
LEMMA TypesSplit ==
  FieldTypes <=> proc \in [Ids -> ProcRecord] /\ ChannelTypes /\ WorkerTypes /\ DaemonTypes
<1>1. Busy \cup {"take", "exited"} = {"take", "post", "wait", "run", "exited"}
  BY DEF Busy
<1>2. ASSUME WorkerTypes, NEW k \in 1..DeliveryWorkers
      PROVE  worker[k].pc \in Busy \cup {"take", "exited"}
  BY <1>2 DEF WorkerTypes, WorkerRecord
<1>3. QED
  BY <1>1, <1>2
  DEF FieldTypes, NotifierTypeOK, ProcRecord, ChannelTypes, WorkerTypes, DaemonTypes,
      WorkerRecord

(* The steps of a delivery goroutine, seen from its record.                *)
LEMMA TakeStep ==
  ASSUME FieldTypes, NEW k \in 1..DeliveryWorkers, Take(k)
  PROVE  /\ UNCHANGED <<proc, closed, dropped, late, fate, daemon, awaited>>
         /\ worker[k].pc = "take"
         /\ \/ /\ jobs # <<>> /\ jobs' = Tail(jobs) /\ Head(jobs) \in Jobs
               /\ worker' = [worker EXCEPT ![k] = worker'[k]]
               /\ worker'[k] = [pc |-> IF PolicyOf(Head(jobs)).webhook THEN "post" ELSE "run",
                                job |-> Head(jobs), posts |-> 0]
            \/ /\ jobs = <<>> /\ closed /\ UNCHANGED jobs
               /\ worker' = [worker EXCEPT ![k].pc = "exited"]
<1>1. worker \in [1..DeliveryWorkers -> WorkerRecord] /\ jobs \in Seq(Jobs)
  BY TypesSplit DEF WorkerTypes, ChannelTypes
<1>2. jobs # <<>> => Head(jobs) \in Jobs
  BY <1>1
<1>3. QED
  BY <1>1, <1>2 DEF Take

(* A webhook attempt ends in a wait, in the other delivery, or for good.   *)
LEMMA PostStep ==
  ASSUME FieldTypes, NEW k \in 1..DeliveryWorkers, NEW ok \in BOOLEAN, PostOnce(k, ok)
  PROVE  /\ UNCHANGED <<proc, jobs, closed, dropped, late, daemon, awaited>>
         /\ worker[k].pc = "post" /\ worker[k].job \in Jobs
         /\ \/ /\ worker' = [worker EXCEPT ![k].pc = "wait", ![k].posts = @ + 1]
               /\ worker[k].posts < Retry /\ UNCHANGED fate
            \/ /\ fate' = fate \cup {[job |-> worker[k].job, by |-> "webhook"]}
               /\ \/ /\ PolicyOf(worker[k].job).target # Nobody
                     /\ worker' = [worker EXCEPT ![k].pc = "run"]
                  \/ /\ PolicyOf(worker[k].job).target = Nobody
                     /\ worker' = [worker EXCEPT ![k] = IdleWorker]
<1>1. /\ worker \in [1..DeliveryWorkers -> WorkerRecord]
      /\ worker[k].pc = "post" /\ worker[k].job \in Jobs /\ worker[k].posts \in Nat
  BY TypesSplit DEF WorkerTypes, WorkerRecord, PostOnce, Busy
<1>2. CASE ok \/ LastPost(k)
  BY <1>1, <1>2 DEF PostOnce, Record, AfterPost
<1>3. CASE ~(ok \/ LastPost(k))
  BY <1>1, <1>3, BoundAssumption DEF PostOnce, LastPost
<1>4. QED
  BY <1>2, <1>3

(* The exec delivery is the last of a job.                                 *)
LEMMA ExecStep ==
  ASSUME FieldTypes, NEW k \in 1..DeliveryWorkers, NEW ok \in BOOLEAN,
         NEW i \in Spares \cup {Nobody}, RunExec(k, i, ok)
  PROVE  /\ UNCHANGED <<jobs, closed, dropped, late, daemon, awaited>>
         /\ worker[k].pc = "run" /\ worker[k].job \in Jobs
         /\ worker' = [worker EXCEPT ![k] = IdleWorker]
         /\ fate' = fate \cup {[job |-> worker[k].job, by |-> "exec"]}
<1>1. worker[k].pc = "run" => worker[k].job \in Jobs
  BY TypesSplit DEF WorkerTypes, Busy
<1>2. QED
  BY <1>1 DEF RunExec, Record

(* What the two steps of Notify do to the places of a job.                 *)
LEMMA OfferStep ==
  ASSUME FieldTypes, ProcInv, NEW i \in Ids, CheckClosed(i) \/ Send(i)
  PROVE  \/ /\ proc' = [proc EXCEPT ![i].phase = "send"] /\ proc[i].phase = "notify"
            /\ ~closed /\ UNCHANGED <<jobs, dropped, late>>
         \/ /\ proc' = [proc EXCEPT ![i].phase = "settled", ![i].counted = FALSE]
            /\ \/ /\ late' = late \cup {Job(i)} /\ UNCHANGED <<jobs, dropped>>
                  /\ closed /\ proc[i].phase = "notify"
               \/ /\ dropped' = dropped \cup {Job(i)} /\ UNCHANGED <<jobs, late>>
                  /\ proc[i].phase = "send"
               \/ /\ jobs' = Append(jobs, Job(i)) /\ UNCHANGED <<dropped, late>>
                  /\ Len(jobs) < QueueDepth /\ proc[i].phase = "send"
BY DEF CheckClosed, Send, Settled

(* Every step keeps the types.                                             *)
LEMMA TypesNext ==
  ASSUME FieldTypes, ProcInv, JobInv, DeliveryInv, [Next]_vars
  PROVE  FieldTypes'
<1>1. proc' \in [Ids -> ProcRecord]
  BY Moves
<1>2. ChannelTypes /\ WorkerTypes /\ DaemonTypes /\ proc \in [Ids -> ProcRecord]
  BY TypesSplit
<1>3. IdleWorker \in WorkerRecord /\ IdleWorker.pc \notin Busy /\ IdleWorker.posts <= Retry
  BY BoundAssumption DEF IdleWorker, WorkerRecord, Busy
<1>4. ASSUME Around
      PROVE  ChannelTypes' /\ WorkerTypes' /\ DaemonTypes'
  <2>1. ChannelTypes' /\ WorkerTypes'
    BY <1>2, <1>4, AroundKeeps DEF ChannelTypes, WorkerTypes
  <2>2. DaemonTypes'
    BY <1>2, <1>4 DEF DaemonTypes, Around, Drain, Stop, Shutdown, ShutdownReturns, Close, Budget,
       CloseReturns, Reload, Supervising, vars, notifyVars
  <2>3. QED
    BY <2>1, <2>2
<1>5. ASSUME NEW i \in Ids, Attempts(i)
      PROVE  ChannelTypes' /\ WorkerTypes' /\ DaemonTypes'
  BY <1>2, <1>5, AttemptStep DEF ChannelTypes, WorkerTypes, DaemonTypes
<1>6. ASSUME NEW i \in Ids, CheckClosed(i) \/ Send(i)
      PROVE  ChannelTypes' /\ WorkerTypes' /\ DaemonTypes'
  <2>1. Job(i) \in Jobs /\ UNCHANGED <<closed, worker, fate, daemon, awaited>>
    BY <1>6, NotifyStep
  <2>2. \/ UNCHANGED <<jobs, dropped, late>>
        \/ late' = late \cup {Job(i)} /\ UNCHANGED <<jobs, dropped>>
        \/ dropped' = dropped \cup {Job(i)} /\ UNCHANGED <<jobs, late>>
        \/ /\ jobs' = Append(jobs, Job(i)) /\ UNCHANGED <<dropped, late>>
           /\ Len(jobs) < QueueDepth
    BY <1>6, OfferStep
  <2>3. ChannelTypes'
    BY <1>2, <2>1, <2>2, BoundAssumption DEF ChannelTypes
  <2>4. QED
    BY <1>2, <2>1, <2>3 DEF WorkerTypes, DaemonTypes
<1>7. ASSUME NEW k \in 1..DeliveryWorkers, Take(k)
      PROVE  ChannelTypes' /\ WorkerTypes' /\ DaemonTypes'
  <2>1. DaemonTypes' /\ UNCHANGED <<dropped, late, fate>>
    BY <1>2, <1>7, TakeStep DEF DaemonTypes
  <2>2. CASE /\ jobs # <<>> /\ jobs' = Tail(jobs) /\ Head(jobs) \in Jobs
             /\ worker' = [worker EXCEPT ![k] = worker'[k]]
             /\ worker'[k] = [pc |-> IF PolicyOf(Head(jobs)).webhook THEN "post" ELSE "run",
                                job |-> Head(jobs), posts |-> 0]
    <3>1. ChannelTypes'
      BY <1>2, <2>1, <2>2, BoundAssumption DEF ChannelTypes
    <3>2. worker'[k] \in WorkerRecord /\ worker'[k].job \in Jobs /\ worker'[k].posts <= Retry
      BY <2>2, BoundAssumption DEF WorkerRecord, Busy
    <3>3. WorkerTypes'
      BY <1>2, <2>2, <3>2 DEF WorkerTypes
    <3>4. QED
      BY <2>1, <3>1, <3>3
  <2>3. CASE UNCHANGED jobs /\ worker' = [worker EXCEPT ![k].pc = "exited"]
    <3>1. "exited" \notin Busy
      BY DEF Busy
    <3>2. QED
      BY <1>2, <2>1, <2>3, <3>1 DEF ChannelTypes, WorkerTypes, WorkerRecord
  <2>4. QED
    BY <1>7, <2>2, <2>3, TakeStep
<1>8. ASSUME NEW k \in 1..DeliveryWorkers, RetryDelay(k)
      PROVE  ChannelTypes' /\ WorkerTypes' /\ DaemonTypes'
  BY <1>2, <1>8 DEF RetryDelay, ChannelTypes, WorkerTypes, DaemonTypes, WorkerRecord, Busy
<1>9. ASSUME NEW k \in 1..DeliveryWorkers, NEW ok \in BOOLEAN, PostOnce(k, ok)
      PROVE  ChannelTypes' /\ WorkerTypes' /\ DaemonTypes'
  <2>1. UNCHANGED <<jobs, dropped, late>> /\ DaemonTypes'
    BY <1>2, <1>9, PostStep DEF DaemonTypes
  <2>2. worker[k].job \in Jobs /\ worker[k].posts \in Nat /\ worker[k].pc = "post"
    BY <1>2, <1>9, PostStep DEF WorkerTypes, WorkerRecord
  <2>3. \/ UNCHANGED fate
        \/ fate' = fate \cup {[job |-> worker[k].job, by |-> "webhook"]}
    BY <1>9, PostStep
  <2>4. \/ /\ worker' = [worker EXCEPT ![k].pc = "wait", ![k].posts = @ + 1]
           /\ worker[k].posts < Retry
        \/ worker' = [worker EXCEPT ![k].pc = "run"]
        \/ worker' = [worker EXCEPT ![k] = IdleWorker]
    BY <1>9, PostStep
  <2>5. ChannelTypes'
    BY <1>2, <2>1, <2>2, <2>3 DEF ChannelTypes
  <2>6. WorkerTypes'
    <3>1. /\ worker'[k] \in WorkerRecord /\ worker'[k].posts <= Retry
          /\ worker'[k].pc \in Busy => worker'[k].job \in Jobs
          /\ worker' = [worker EXCEPT ![k] = worker'[k]]
      <4>1. worker[k] \in WorkerRecord /\ worker[k].posts <= Retry
        BY <1>2 DEF WorkerTypes
      <4>2. worker \in [1..DeliveryWorkers -> WorkerRecord]
        BY <1>2 DEF WorkerTypes
      <4>3. CASE /\ worker' = [worker EXCEPT ![k].pc = "wait", ![k].posts = @ + 1]
                 /\ worker[k].posts < Retry
        BY <2>2, <4>1, <4>2, <4>3, BoundAssumption DEF WorkerRecord, Busy
      <4>4. CASE worker' = [worker EXCEPT ![k].pc = "run"]
        BY <2>2, <4>1, <4>2, <4>4, BoundAssumption DEF WorkerRecord, Busy
      <4>5. CASE worker' = [worker EXCEPT ![k] = IdleWorker]
        BY <1>3, <4>2, <4>5
      <4>6. QED
        BY <2>4, <4>3, <4>4, <4>5
    <3>2. QED
      BY <1>2, <3>1 DEF WorkerTypes
  <2>7. QED
    BY <2>1, <2>5, <2>6
<1>10. ASSUME NEW k \in 1..DeliveryWorkers, NEW ok \in BOOLEAN, NEW i \in Spares \cup {Nobody},
              RunExec(k, i, ok)
       PROVE  ChannelTypes' /\ WorkerTypes' /\ DaemonTypes'
  <2>1. /\ UNCHANGED <<jobs, closed, dropped, late, daemon, awaited>>
        /\ worker[k].job \in Jobs /\ worker' = [worker EXCEPT ![k] = IdleWorker]
        /\ fate' = fate \cup {[job |-> worker[k].job, by |-> "exec"]}
    BY <1>10, ExecStep
  <2>2. ChannelTypes' /\ DaemonTypes'
    BY <1>2, <2>1 DEF ChannelTypes, DaemonTypes
  <2>3. WorkerTypes'
    BY <1>2, <1>3, <2>1 DEF WorkerTypes
  <2>4. QED
    BY <2>2, <2>3
<1>11. ChannelTypes' /\ WorkerTypes' /\ DaemonTypes'
  BY <1>4, <1>5, <1>6, <1>7, <1>8, <1>9, <1>10, Cases
<1>12. (FieldTypes <=> proc \in [Ids -> ProcRecord] /\ ChannelTypes /\ WorkerTypes
                         /\ DaemonTypes)'
  BY TypesSplit, PTL
<1>13. QED
  BY <1>1, <1>11, <1>12

----------------------------------------------------------------------------
(* The executions and the shutdown.                                        *)

(* Every step keeps what is known of the executions.                       *)
LEMMA ProcInvNext ==
  ASSUME FieldTypes, ProcInv, JobInv, DeliveryInv, [Next]_vars
  PROVE  ProcInv'
<1> DEFINE Good(i) ==
      /\ proc[i].phase # "none" => proc[i].worker \in DOMAIN Own
      /\ proc[i].phase \in {"notify", "send"} => proc[i].event # NoEvent
      /\ proc[i].phase = "send" => Wanted(i)
      /\ proc[i].counted => proc[i].phase \in {"running", "left", "notify", "send"}
<1>1. \A i \in Ids : Good(i)
  BY DEF ProcInv
<1>2. proc \in [Ids -> ProcRecord]
  BY TypesSplit
<1>3. ASSUME NEW h \in Ids, proc'[h] = proc[h]
      PROVE  Good(h)'
  BY <1>1, <1>3 DEF Wanted, policyFor
<1>4. ASSUME NEW i \in Ids, Attempts(i)
      PROVE  \A h \in Ids : Good(h)'
  <2>1. /\ proc' = [proc EXCEPT ![i] = proc'[i]]
        /\ proc'[i].worker = proc[i].worker /\ proc[i].phase # "none"
        /\ proc'[i].phase # "send"
        /\ proc'[i].phase = "notify" => proc'[i].event # NoEvent
        /\ proc'[i].counted => proc'[i].phase \in {"running", "left", "notify"}
    BY <1>4, AttemptStep
  <2>2. Good(i)'
    BY <1>1, <2>1
  <2>3. QED
    BY <1>2, <1>3, <2>1, <2>2
<1>5. ASSUME NEW i \in Ids, CheckClosed(i) \/ Send(i)
      PROVE  \A h \in Ids : Good(h)'
  <2>1. /\ proc[i].phase \in {"notify", "send"} /\ Wanted(i) /\ proc[i].event # NoEvent
        /\ \/ proc' = [proc EXCEPT ![i].phase = "settled", ![i].counted = FALSE]
           \/ proc' = [proc EXCEPT ![i].phase = "send"]
    BY <1>5, NotifyStep
  <2>2. /\ proc'[i].worker = proc[i].worker /\ proc'[i].event = proc[i].event
        /\ proc'[i].source = proc[i].source
        /\ \/ proc'[i].phase = "settled" /\ ~proc'[i].counted
           \/ proc'[i].phase = "send"
        /\ \A h \in Ids \ {i} : proc'[h] = proc[h]
    BY <1>2, <2>1 DEF ProcRecord
  <2>3. Wanted(i)'
    BY <2>1, <2>2 DEF Wanted, policyFor
  <2>4. Good(i)'
    BY <1>1, <2>1, <2>2, <2>3
  <2>5. QED
    BY <1>3, <2>2, <2>4
<1>6. ASSUME NEW k \in 1..DeliveryWorkers, NEW ok \in BOOLEAN, NEW i \in Spares \cup {Nobody},
             RunExec(k, i, ok)
      PROVE  \A h \in Ids : Good(h)'
  <2>1. CASE UNCHANGED proc
    BY <1>3, <2>1
  <2>2. CASE ~UNCHANGED proc
    <3>1. /\ i \in Ids /\ proc[i].phase = "none"
          /\ proc' = [proc EXCEPT ![i] = proc'[i]]
          /\ proc'[i] \in [phase : {"queued"}, attempt : 1..MaxAttempts,
                           event : {NoEvent}, worker : DOMAIN Own, source : Ids,
                           counted : {FALSE}]
      BY <1>6, <2>2, RunExecStep
    <3>2. Good(i)'
      BY <3>1
    <3>3. QED
      BY <1>2, <1>3, <3>1, <3>2
  <2>3. QED
    BY <2>1, <2>2
<1>7. ASSUME UNCHANGED proc
      PROVE  \A h \in Ids : Good(h)'
  BY <1>3, <1>7
<1>8. ASSUME \/ Around
             \/ \E k \in 1..DeliveryWorkers :
                  Take(k) \/ RetryDelay(k) \/ \E ok \in BOOLEAN : PostOnce(k, ok)
      PROVE  UNCHANGED proc
  BY <1>8, AroundKeeps DEF Take, RetryDelay, PostOnce
<1>9. \A i \in Ids : Good(i)'
  <2> HIDE DEF Good
  <2>1. QED
    BY <1>4, <1>5, <1>6, <1>7, <1>8, Cases
<1>10. QED
  BY <1>9 DEF ProcInv

(* An awaited attempt stays counted until it settles, and what is settled  *)
(* does not start again once the supervisor drains.                        *)
LEMMA StopInvNext ==
  ASSUME FieldTypes, ProcInv, StopInv, JobInv, DeliveryInv, [Next]_vars
  PROVE  StopInv'
<1>1. proc \in [Ids -> ProcRecord] /\ awaited \subseteq Ids
  BY TypesSplit DEF DaemonTypes
<1>2. \A i \in awaited : proc[i].phase = "settled" \/ (daemon = "waiting" /\ proc[i].counted)
  BY DEF StopInv
<1>3. CASE Around
  <2>1. UNCHANGED <<proc, late>>
    BY <1>3, AroundKeeps
  <2>2. \/ UNCHANGED <<daemon, closed, awaited>>
        \/ daemon = "up" /\ daemon' = "draining" /\ UNCHANGED <<closed, awaited>>
        \/ daemon = "draining" /\ daemon' = "stopped" /\ UNCHANGED <<closed, awaited>>
        \/ /\ daemon = "draining" /\ daemon' = "waiting" /\ awaited' = Supervising
           /\ UNCHANGED closed
        \/ /\ daemon = "waiting" /\ daemon' = "stopped" /\ UNCHANGED closed
           /\ awaited' = {} \/ (Supervising = {} /\ UNCHANGED awaited)
        \/ /\ daemon = "stopped" /\ daemon' = "closing" /\ closed' = TRUE /\ UNCHANGED awaited
           /\ \A i \in Ids : proc[i].phase # "send"
        \/ daemon = "closing" /\ daemon' = "closed" /\ UNCHANGED <<closed, awaited>>
    BY <1>3 DEF Around, Drain, Stop, Shutdown, ShutdownReturns, Awaited, Close, CloseLock, Budget,
       CloseReturns, Reload, vars, notifyVars
  <2>3. QED
    BY <1>1, <2>1, <2>2 DEF StopInv, SendsAreOrdered, Supervising
<1>4. ASSUME NEW i \in Ids, Attempts(i)
      PROVE  StopInv'
  <2>1. /\ UNCHANGED <<closed, late, daemon, awaited>>
        /\ proc' = [proc EXCEPT ![i] = proc'[i]]
        /\ proc'[i].phase # "send"
        /\ proc[i].phase = "settled" => daemon \in {"up", "draining"}
        /\ proc[i].counted => proc'[i].counted \/ proc'[i].phase = "settled"
    BY <1>4, AttemptStep
  <2>2. \A h \in Ids \ {i} : proc'[h] = proc[h]
    BY <1>1, <2>1
  <2>3. QED
    BY <1>1, <2>1, <2>2 DEF StopInv, SendsAreOrdered
<1>5. ASSUME NEW i \in Ids, CheckClosed(i) \/ Send(i)
      PROVE  StopInv'
  <2>1. /\ proc[i].phase \in {"notify", "send"} /\ UNCHANGED <<closed, daemon, awaited>>
        /\ \/ proc' = [proc EXCEPT ![i].phase = "settled", ![i].counted = FALSE]
           \/ proc' = [proc EXCEPT ![i].phase = "send"] /\ ~closed /\ UNCHANGED late
    BY <1>5, NotifyStep
  <2>2. UNCHANGED late \/ closed
    BY <1>5, OfferStep
  <2>3. /\ \A h \in Ids \ {i} : proc'[h] = proc[h]
        /\ \/ proc'[i].phase = "settled"
           \/ proc'[i].phase = "send" /\ ~closed /\ proc'[i].counted = proc[i].counted
    BY <1>1, <2>1 DEF ProcRecord
  <2>4. QED
    BY <1>1, <2>1, <2>2, <2>3 DEF StopInv, SendsAreOrdered
<1>6. ASSUME NEW k \in 1..DeliveryWorkers, NEW ok \in BOOLEAN, NEW i \in Spares \cup {Nobody},
             RunExec(k, i, ok)
      PROVE  StopInv'
  <2>1. UNCHANGED <<closed, late, daemon, awaited>>
    BY <1>6, ExecStep
  <2>2. \A h \in Ids : \/ proc'[h] = proc[h]
                       \/ proc[h].phase = "none" /\ proc'[h].phase = "queued"
    BY <1>1, <1>6, RunExecStep
  <2>3. \A h \in Ids : proc[h].counted => proc[h].phase # "none"
    BY DEF ProcInv
  <2>4. QED
    BY <1>1, <2>1, <2>2, <2>3 DEF StopInv, SendsAreOrdered
<1>7. ASSUME \E k \in 1..DeliveryWorkers :
               Take(k) \/ RetryDelay(k) \/ \E ok \in BOOLEAN : PostOnce(k, ok)
      PROVE  UNCHANGED <<proc, closed, late, daemon, awaited>>
  BY <1>7 DEF Take, RetryDelay, PostOnce
<1>8. QED
  <2>1. CASE UNCHANGED <<proc, closed, late, daemon, awaited>>
    BY <2>1 DEF StopInv, SendsAreOrdered
  <2>2. QED
    BY <1>3, <1>4, <1>5, <1>6, <1>7, <2>1, Cases

----------------------------------------------------------------------------
(* The places of the jobs.                                                 *)

Placed(j) == Waiting(j) \/ Taken(j) \/ j \in dropped \/ j \in late

SamePlaces ==
  UNCHANGED <<jobs, dropped, late>> /\ \A j \in Jobs : Taken(j)' <=> Taken(j)

(* A goroutine that ends a delivery leaves the job in fate.                *)
LEMMA HandOver ==
  ASSUME FieldTypes, NEW k \in 1..DeliveryWorkers, worker[k].pc \in Busy,
         worker' = [worker EXCEPT ![k] = worker'[k]],
         worker'[k].pc \in Busy => worker'[k].job = worker[k].job,
         NEW by, fate' = fate \cup {[job |-> worker[k].job, by |-> by]}
  PROVE  \A j \in Jobs : Taken(j)' <=> Taken(j)
<1>1. \A h \in 1..DeliveryWorkers \ {k} : worker'[h] = worker[h]
  BY TypesSplit DEF WorkerTypes
<1>2. ASSUME NEW j \in Jobs
      PROVE  Taken(j)' <=> Taken(j)
  <2>1. CASE j = worker[k].job
    <3>1. InFlight(j)
      BY <2>1 DEF InFlight, Busy
    <3>2. Delivered(j)'
      <4>1. [job |-> worker[k].job, by |-> by] \in fate'
        OBVIOUS
      <4>2. [job |-> worker[k].job, by |-> by].job = j
        BY <2>1
      <4>3. QED
        BY <4>1, <4>2 DEF Delivered
    <3>3. QED
      BY <3>1, <3>2 DEF Taken
  <2>2. CASE j # worker[k].job
    <3>1. InFlight(j)' <=> InFlight(j)
      BY <1>1, <2>2 DEF InFlight, Busy
    <3>2. Delivered(j)' <=> Delivered(j)
      BY <2>2 DEF Delivered
    <3>3. QED
      BY <3>1, <3>2 DEF Taken
  <2>3. QED
    BY <2>1, <2>2
<1>3. QED
  BY <1>2

(* A goroutine that goes on with the same delivery keeps its job.          *)
LEMMA GoOn ==
  ASSUME FieldTypes, NEW k \in 1..DeliveryWorkers, UNCHANGED fate,
         worker' = [worker EXCEPT ![k] = worker'[k]],
         worker'[k].pc \in Busy <=> worker[k].pc \in Busy,
         worker'[k].job = worker[k].job
  PROVE  \A j \in Jobs : Taken(j)' <=> Taken(j)
<1>1. \A h \in 1..DeliveryWorkers \ {k} : worker'[h] = worker[h]
  BY TypesSplit DEF WorkerTypes
<1>2. QED
  BY <1>1 DEF Taken, InFlight, Delivered, Busy

(* No delivery step moves a job to another place.                          *)
LEMMA DeliveryPlaces ==
  ASSUME FieldTypes, NEW k \in 1..DeliveryWorkers,
         \/ RetryDelay(k)
         \/ \E ok \in BOOLEAN : PostOnce(k, ok)
         \/ \E ok \in BOOLEAN, i \in Spares \cup {Nobody} : RunExec(k, i, ok)
  PROVE  SamePlaces
<1>1. worker \in [1..DeliveryWorkers -> WorkerRecord] /\ worker[k] \in WorkerRecord
  BY TypesSplit DEF WorkerTypes
<1>2. IdleWorker.pc \notin Busy
  BY DEF IdleWorker, Busy
<1>3. CASE RetryDelay(k)
  <2>1. /\ UNCHANGED <<fate, jobs, dropped, late>> /\ worker[k].pc = "wait"
        /\ worker' = [worker EXCEPT ![k].pc = "post"]
    BY <1>3 DEF RetryDelay
  <2>2. /\ worker' = [worker EXCEPT ![k] = worker'[k]] /\ worker'[k].pc = "post"
        /\ worker'[k].job = worker[k].job
    BY <1>1, <2>1 DEF WorkerRecord
  <2>3. worker'[k].pc \in Busy <=> worker[k].pc \in Busy
    BY <2>1, <2>2 DEF Busy
  <2>4. QED
    BY <2>1, <2>2, <2>3, GoOn DEF SamePlaces
<1>4. ASSUME NEW ok \in BOOLEAN, PostOnce(k, ok)
      PROVE  SamePlaces
  <2>1. UNCHANGED <<jobs, dropped, late>> /\ worker[k].pc = "post"
    BY <1>4, PostStep
  <2>2. CASE UNCHANGED fate /\ worker' = [worker EXCEPT ![k].pc = "wait", ![k].posts = @ + 1]
    <3>1. /\ worker' = [worker EXCEPT ![k] = worker'[k]] /\ worker'[k].pc = "wait"
          /\ worker'[k].job = worker[k].job
      BY <1>1, <2>2 DEF WorkerRecord
    <3>2. worker'[k].pc \in Busy <=> worker[k].pc \in Busy
      BY <2>1, <3>1 DEF Busy
    <3>3. QED
      BY <2>1, <2>2, <3>1, <3>2, GoOn DEF SamePlaces
  <2>3. CASE /\ fate' = fate \cup {[job |-> worker[k].job, by |-> "webhook"]}
             /\ \/ worker' = [worker EXCEPT ![k].pc = "run"]
                \/ worker' = [worker EXCEPT ![k] = IdleWorker]
    <3>1. /\ worker' = [worker EXCEPT ![k] = worker'[k]]
          /\ worker'[k].pc \in Busy => worker'[k].job = worker[k].job
      BY <1>1, <1>2, <2>3 DEF WorkerRecord
    <3>2. worker[k].pc \in Busy
      BY <2>1 DEF Busy
    <3>3. QED
      BY <2>1, <2>3, <3>1, <3>2, HandOver DEF SamePlaces
  <2>4. QED
    BY <1>4, <2>2, <2>3, PostStep
<1>5. ASSUME NEW ok \in BOOLEAN, NEW i \in Spares \cup {Nobody}, RunExec(k, i, ok)
      PROVE  SamePlaces
  <2>1. /\ UNCHANGED <<jobs, dropped, late>> /\ worker[k].pc = "run"
        /\ worker' = [worker EXCEPT ![k] = IdleWorker]
        /\ fate' = fate \cup {[job |-> worker[k].job, by |-> "exec"]}
    BY <1>5, ExecStep
  <2>2. worker'[k] = IdleWorker /\ worker[k].pc \in Busy
    BY <1>1, <2>1 DEF Busy
  <2>3. QED
    BY <1>2, <2>1, <2>2, HandOver DEF SamePlaces
<1>6. QED
  BY <1>3, <1>4, <1>5

(* The goroutine that takes the head of the channel has it from then on.   *)
LEMMA TakePlaces ==
  ASSUME FieldTypes, PlaceInv, NEW k \in 1..DeliveryWorkers, Take(k)
  PROVE  /\ UNCHANGED <<dropped, late>>
         /\ \A j \in Jobs : Placed(j)' <=> Placed(j)
         /\ PlaceInv'
<1>1. /\ worker \in [1..DeliveryWorkers -> WorkerRecord] /\ jobs \in Seq(Jobs)
      /\ worker[k] \in WorkerRecord
  BY TypesSplit DEF WorkerTypes, ChannelTypes
<1>2. /\ UNCHANGED <<dropped, late, fate>> /\ worker[k].pc = "take"
  BY TakeStep
<1>3. CASE UNCHANGED jobs /\ worker' = [worker EXCEPT ![k].pc = "exited"]
  <2>1. /\ worker' = [worker EXCEPT ![k] = worker'[k]] /\ worker'[k].pc = "exited"
        /\ worker'[k].job = worker[k].job
    BY <1>1, <1>3 DEF WorkerRecord
  <2>2. worker'[k].pc \in Busy <=> worker[k].pc \in Busy
    BY <1>2, <2>1 DEF Busy
  <2>3. \A j \in Jobs : Taken(j)' <=> Taken(j)
    BY <1>2, <2>1, <2>2, GoOn
  <2>4. \A j \in Jobs : Waiting(j)' <=> Waiting(j)
    BY <1>3 DEF Waiting
  <2>5. QED
    BY <1>2, <1>3, <2>3, <2>4 DEF Placed, PlaceInv
<1>4. CASE /\ jobs # <<>> /\ jobs' = Tail(jobs) /\ Head(jobs) \in Jobs
           /\ worker' = [worker EXCEPT ![k] = worker'[k]]
           /\ worker'[k] = [pc |-> IF PolicyOf(Head(jobs)).webhook THEN "post" ELSE "run",
                            job |-> Head(jobs), posts |-> 0]
  <2>1. /\ 1 \in DOMAIN jobs /\ Head(jobs) = jobs[1]
        /\ DOMAIN jobs = 1..Len(jobs) /\ Len(jobs) \in Nat \ {0}
        /\ DOMAIN jobs' = 1..(Len(jobs) - 1)
        /\ \A n \in DOMAIN jobs' : n + 1 \in DOMAIN jobs /\ jobs'[n] = jobs[n + 1]
    BY <1>1, <1>4
  <2>2. \A m, n \in DOMAIN jobs : jobs[m] = jobs[n] => m = n
    BY DEF PlaceInv
  <2>3. ASSUME NEW j \in Jobs
        PROVE  Waiting(j)' <=> Waiting(j) /\ j # Head(jobs)
    <3>1. ASSUME Waiting(j)'
          PROVE  Waiting(j) /\ j # Head(jobs)
      <4>1. PICK n \in DOMAIN jobs' : jobs'[n] = j
        BY <3>1 DEF Waiting
      <4>2. n + 1 \in DOMAIN jobs /\ jobs[n + 1] = j /\ n + 1 # 1
        BY <2>1, <4>1
      <4>3. QED
        BY <2>1, <2>2, <4>2 DEF Waiting
    <3>2. ASSUME Waiting(j), j # Head(jobs)
          PROVE  Waiting(j)'
      <4>1. PICK n \in DOMAIN jobs : jobs[n] = j
        BY <3>2 DEF Waiting
      <4>2. n - 1 \in DOMAIN jobs' /\ (n - 1) + 1 = n
        BY <2>1, <3>2, <4>1
      <4>3. jobs'[n - 1] = j
        BY <2>1, <4>1, <4>2
      <4>4. QED
        BY <4>2, <4>3 DEF Waiting
    <3>3. QED
      BY <3>1, <3>2
  <2>4. Waiting(Head(jobs))
    BY <2>1 DEF Waiting
  <2>5. ASSUME NEW j \in Jobs
        PROVE  Taken(j)' <=> Taken(j) \/ j = Head(jobs)
    <3>1. worker'[k].pc \in {"post", "run"} /\ worker'[k].job = Head(jobs)
      BY <1>4
    <3>2. \A h \in 1..DeliveryWorkers \ {k} : worker'[h] = worker[h]
      BY <1>1, <1>4
    <3>3. InFlight(j)' <=> InFlight(j) \/ j = Head(jobs)
      BY <1>2, <3>1, <3>2 DEF InFlight
    <3>4. Delivered(j)' <=> Delivered(j)
      BY <1>2 DEF Delivered
    <3>5. QED
      BY <3>3, <3>4 DEF Taken
  <2>6. \A m, n \in DOMAIN jobs' : jobs'[m] = jobs'[n] => m = n
    <3>1. TAKE m, n \in DOMAIN jobs'
    <3>2. HAVE jobs'[m] = jobs'[n]
    <3>3. m + 1 = n + 1
      BY <2>1, <2>2, <3>2
    <3>4. QED
      BY <2>1, <3>3
  <2>7. PlaceInv'
    <3>1. \A j \in Jobs :
             /\ Waiting(j)' => ~Taken(j)' /\ j \notin dropped' /\ j \notin late'
             /\ Taken(j)' => j \notin dropped' /\ j \notin late'
             /\ j \in dropped' => j \notin late'
      BY <1>2, <1>4, <2>3, <2>4, <2>5 DEF PlaceInv
    <3>2. QED
      BY <2>6, <3>1 DEF PlaceInv
  <2>8. \A j \in Jobs : Placed(j)' <=> Placed(j)
    BY <1>2, <1>4, <2>3, <2>4, <2>5 DEF Placed
  <2>9. QED
    BY <1>2, <2>7, <2>8
<1>5. QED
  BY <1>3, <1>4, TakeStep

(* A job that is offered was in no place, and then is in one.              *)
LEMMA OfferPlaces ==
  ASSUME FieldTypes, ProcInv, JobInv, PlaceInv, NEW i \in Ids, CheckClosed(i) \/ Send(i)
  PROVE  /\ \A j \in Jobs : Placed(j)' <=> Placed(j) \/ (j = Job(i) /\ proc'[i].phase = "settled")
         /\ PlaceInv'
<1>1. /\ proc \in [Ids -> ProcRecord] /\ jobs \in Seq(Jobs)
  BY TypesSplit DEF ChannelTypes
<1>2. /\ proc[i].phase \in {"notify", "send"} /\ Job(i) \in Jobs /\ UNCHANGED <<worker, fate>>
  BY NotifyStep
<1>3. ~Placed(Job(i))
  <2>1. ~Settles(Job(i))
    BY <1>1, <1>2 DEF Settles, Job
  <2>2. QED
    BY <1>2, <2>1 DEF JobInv, Placed
<1>4. \A j \in Jobs : Taken(j)' <=> Taken(j)
  BY <1>2 DEF Taken, InFlight, Delivered
<1>5. CASE /\ proc' = [proc EXCEPT ![i].phase = "send"] /\ UNCHANGED <<jobs, dropped, late>>
  <2>1. proc'[i].phase = "send"
    BY <1>1, <1>5 DEF ProcRecord
  <2>2. \A j \in Jobs : Waiting(j)' <=> Waiting(j)
    BY <1>5 DEF Waiting
  <2>3. QED
    BY <1>4, <1>5, <2>1, <2>2 DEF Placed, PlaceInv
<1>6. CASE proc' = [proc EXCEPT ![i].phase = "settled", ![i].counted = FALSE]
  <2>1. proc'[i].phase = "settled"
    BY <1>1, <1>6 DEF ProcRecord
  <2>2. CASE /\ UNCHANGED jobs
             /\ \/ late' = late \cup {Job(i)} /\ UNCHANGED dropped
                \/ dropped' = dropped \cup {Job(i)} /\ UNCHANGED late
    <3>1. \A j \in Jobs : Waiting(j)' <=> Waiting(j)
      BY <2>2 DEF Waiting
    <3>2. \A j \in Jobs : Placed(j)' <=> Placed(j) \/ (j = Job(i) /\ proc'[i].phase = "settled")
      BY <1>2, <1>4, <2>1, <2>2, <3>1 DEF Placed
    <3>3. PlaceInv'
      BY <1>2, <1>3, <1>4, <2>2, <3>1 DEF Placed, PlaceInv
    <3>4. QED
      BY <3>2, <3>3
  <2>3. CASE jobs' = Append(jobs, Job(i)) /\ UNCHANGED <<dropped, late>>
    <3>1. /\ DOMAIN jobs = 1..Len(jobs) /\ Len(jobs) \in Nat
          /\ DOMAIN jobs' = 1..(Len(jobs) + 1)
          /\ \A n \in DOMAIN jobs : jobs'[n] = jobs[n]
          /\ jobs'[Len(jobs) + 1] = Job(i)
      BY <1>1, <1>2, <2>3
    <3>2. \A n \in DOMAIN jobs' : n \in DOMAIN jobs \/ n = Len(jobs) + 1
      BY <3>1
    <3>3. \A n \in DOMAIN jobs : jobs[n] # Job(i)
      BY <1>3 DEF Placed, Waiting
    <3>4. \A m, n \in DOMAIN jobs' : jobs'[m] = jobs'[n] => m = n
      <4>1. \A m, n \in DOMAIN jobs : jobs[m] = jobs[n] => m = n
        BY DEF PlaceInv
      <4>2. QED
        BY <3>1, <3>2, <3>3, <4>1
    <3>5. Len(jobs) + 1 \in DOMAIN jobs' /\ \A n \in DOMAIN jobs : n \in DOMAIN jobs'
      BY <3>1
    <3>6. \A j \in Jobs : Waiting(j)' <=> Waiting(j) \/ j = Job(i)
      BY <3>1, <3>2, <3>5 DEF Waiting
    <3>7. \A j \in Jobs : Placed(j)' <=> Placed(j) \/ (j = Job(i) /\ proc'[i].phase = "settled")
      BY <1>4, <2>1, <2>3, <3>6 DEF Placed
    <3>8. PlaceInv'
      BY <1>3, <1>4, <2>3, <3>4, <3>6 DEF Placed, PlaceInv
    <3>9. QED
      BY <3>7, <3>8
  <2>4. QED
    <3>1. proc' # [proc EXCEPT ![i].phase = "send"]
      BY <1>1, <1>6, <2>1 DEF ProcRecord
    <3>2. QED
      BY <2>2, <2>3, <3>1, OfferStep
<1>7. QED
  BY <1>5, <1>6, OfferStep

(* What a step does to the places, whichever it is.                        *)
LEMMA PlacesNext ==
  ASSUME FieldTypes, ProcInv, JobInv, PlaceInv, [Next]_vars
  PROVE  /\ PlaceInv'
         /\ \A j \in Jobs : Placed(j) => Placed(j)'
         /\ \A j \in Jobs : Placed(j)' /\ ~Placed(j) =>
              \E i \in Ids : /\ CheckClosed(i) \/ Send(i)
                             /\ j = Job(i) /\ proc'[i].phase = "settled"
<1> DEFINE Good == /\ PlaceInv'
                   /\ \A j \in Jobs : Placed(j) => Placed(j)'
                   /\ \A j \in Jobs : Placed(j)' /\ ~Placed(j) =>
                        \E i \in Ids : /\ CheckClosed(i) \/ Send(i)
                                       /\ j = Job(i) /\ proc'[i].phase = "settled"
<1>1. ASSUME SamePlaces
      PROVE  Good
  <2>1. \A j \in Jobs : Waiting(j)' <=> Waiting(j)
    BY <1>1 DEF SamePlaces, Waiting
  <2>2. \A j \in Jobs : Placed(j)' <=> Placed(j)
    BY <1>1, <2>1 DEF SamePlaces, Placed
  <2>3. PlaceInv'
    BY <1>1, <2>1 DEF SamePlaces, PlaceInv
  <2>4. QED
    BY <2>2, <2>3
<1>2. ASSUME UNCHANGED <<jobs, dropped, late, worker, fate>>
      PROVE  SamePlaces
  BY <1>2 DEF SamePlaces, Taken, InFlight, Delivered
<1>3. ASSUME NEW i \in Ids, CheckClosed(i) \/ Send(i)
      PROVE  Good
  BY <1>3, OfferPlaces
<1>4. ASSUME NEW k \in 1..DeliveryWorkers, Take(k)
      PROVE  Good
  BY <1>4, TakePlaces
<1>5. ASSUME NEW k \in 1..DeliveryWorkers,
             \/ RetryDelay(k)
             \/ \E ok \in BOOLEAN : PostOnce(k, ok)
             \/ \E ok \in BOOLEAN, i \in Spares \cup {Nobody} : RunExec(k, i, ok)
      PROVE  Good
  BY <1>1, <1>5, DeliveryPlaces
<1>6. ASSUME NEW i \in Ids, Attempts(i)
      PROVE  Good
  BY <1>1, <1>2, <1>6, AttemptStep
<1>7. ASSUME Around
      PROVE  Good
  BY <1>1, <1>2, <1>7, AroundKeeps
<1> HIDE DEF Good
<1>8. Good
  BY <1>3, <1>4, <1>5, <1>6, <1>7, Cases
<1>9. QED
  BY <1>8 DEF Good

(* A job that is new is about the attempt that just settled; the others    *)
(* stay about what they were about.                                        *)
LEMMA JobInvNext ==
  ASSUME FieldTypes, ProcInv, JobInv, PlaceInv, DeliveryInv, [Next]_vars
  PROVE  JobInv'
<1>1. ASSUME NEW j \in Jobs, Placed(j)
      PROVE  Settles(j)'
  <2>1. Settles(j)
    BY <1>1 DEF JobInv, Placed
  <2>2. QED
    BY <2>1, SettlesStays
<1>2. ASSUME NEW i \in Ids, CheckClosed(i) \/ Send(i), proc'[i].phase = "settled",
             NEW j \in Jobs, j = Job(i)
      PROVE  Settles(j)'
  <2>1. proc \in [Ids -> ProcRecord]
    BY TypesSplit
  <2>2. Wanted(i) /\ proc[i].phase # "none"
    BY <1>2, NotifyStep
  <2>3. proc' = [proc EXCEPT ![i].phase = "settled", ![i].counted = FALSE]
    <3>1. proc' # [proc EXCEPT ![i].phase = "send"]
      BY <1>2, <2>1 DEF ProcRecord
    <3>2. QED
      BY <1>2, <3>1, NotifyStep
  <2>4. /\ proc'[i].source = proc[i].source /\ proc'[i].attempt = proc[i].attempt
        /\ proc'[i].event = proc[i].event /\ proc[i].attempt \in 1..MaxAttempts
    BY <2>1, <2>3 DEF ProcRecord
  <2>5. j.id = i /\ j.attempt = proc[i].attempt /\ j.event = proc[i].event
    BY <1>2 DEF Job
  <2>6. proc[i].source = Nobody /\ Notifies(policyFor(i), proc[i].event)
    BY <2>2 DEF Wanted
  <2>7. PolicyOf(j)' = policyFor(i)
    BY <2>1, <2>3, <2>5 DEF PolicyOf, policyFor, ProcRecord
  <2>8. QED
    BY <1>2, <2>4, <2>5, <2>6, <2>7 DEF Settles, Notifies
<1>3. ASSUME NEW j \in Jobs, Placed(j)'
      PROVE  Settles(j)'
  <2>1. CASE Placed(j)
    BY <1>1, <2>1
  <2>2. CASE ~Placed(j)
    <3>1. PICK i \in Ids : /\ CheckClosed(i) \/ Send(i)
                           /\ j = Job(i) /\ proc'[i].phase = "settled"
      BY <1>3, <2>2, PlacesNext
    <3>2. QED
      BY <1>2, <3>1
  <2>3. QED
    BY <2>1, <2>2
<1>4. QED
  BY <1>3 DEF JobInv, Placed

(* Notify leaves no wanted outcome behind.                                 *)
LEMMA OfferedNext ==
  ASSUME FieldTypes, ProcInv, JobInv, PlaceInv, Offered, DeliveryInv, FieldTypes', [Next]_vars
  PROVE  Offered'
<1> DEFINE Open(i) == proc[i].phase = "settled" /\ proc[i].event # NoEvent /\ Wanted(i)
<1>1. \A i \in Ids : Open(i) => Placed(Job(i))
  BY DEF Offered, Placed
<1>2. proc \in [Ids -> ProcRecord]
  BY TypesSplit
<1>3. ASSUME NEW i \in Ids, proc[i].event # NoEvent
      PROVE  Job(i) \in Jobs
  BY <1>3, JobTyped
<1>4. ASSUME NEW h \in Ids, Open(h)', proc'[h] = proc[h]
      PROVE  Placed(Job(h))'
  <2>1. Open(h) /\ Job(h) \in Jobs
    BY <1>3, <1>4 DEF Wanted, policyFor
  <2>2. Placed(Job(h))
    BY <1>1, <2>1
  <2>3. Job(h)' = Job(h)
    BY <1>4 DEF Job
  <2>4. \A j \in Jobs : Placed(j) => Placed(j)'
    BY PlacesNext
  <2> HIDE DEF Open
  <2>5. PICK j \in Jobs : j = Job(h)
    BY <2>1
  <2>6. Placed(j)' /\ j = Job(h)'
    BY <2>2, <2>3, <2>4, <2>5
  <2>7. QED
    BY <2>6 DEF Placed, Waiting, Taken, InFlight, Delivered
<1>5. ASSUME NEW i \in Ids, Attempts(i), Open(i)'
      PROVE  FALSE
  <2>1. /\ proc' = [proc EXCEPT ![i] = proc'[i]]
        /\ proc'[i].worker = proc[i].worker /\ proc'[i].source = proc[i].source
        /\ proc'[i].event = NoEvent \/ (proc'[i].event = proc[i].event /\ ~Wanted(i))
    BY <1>5, AttemptStep
  <2>2. QED
    BY <1>5, <2>1 DEF Wanted, policyFor
<1>6. ASSUME NEW i \in Ids, CheckClosed(i) \/ Send(i), Open(i)'
      PROVE  Placed(Job(i))'
  <2>1. /\ \/ proc' = [proc EXCEPT ![i].phase = "settled", ![i].counted = FALSE]
           \/ proc' = [proc EXCEPT ![i].phase = "send"]
        /\ Job(i) \in Jobs
    BY <1>6, NotifyStep
  <2>2. Job(i)' = Job(i)
    BY <1>2, <2>1 DEF Job, ProcRecord
  <2>3. \A j \in Jobs : Placed(j)' <=> Placed(j) \/ (j = Job(i) /\ proc'[i].phase = "settled")
    BY <1>6, OfferPlaces
  <2>4. PICK j \in Jobs : j = Job(i)
    BY <2>1
  <2>5. Placed(j)' /\ j = Job(i)'
    BY <1>6, <2>2, <2>3, <2>4
  <2>6. QED
    BY <2>5 DEF Placed, Waiting, Taken, InFlight, Delivered
<1>7. ASSUME NEW i \in Ids, Attempts(i) \/ CheckClosed(i) \/ Send(i)
      PROVE  \A h \in Ids \ {i} : proc'[h] = proc[h]
  <2>1. CASE Attempts(i)
    BY <1>2, <2>1, AttemptStep
  <2>2. CASE CheckClosed(i) \/ Send(i)
    BY <1>2, <2>2, NotifyStep
  <2>3. QED
    BY <1>7, <2>1, <2>2
<1>8. ASSUME NEW k \in 1..DeliveryWorkers, NEW ok \in BOOLEAN, NEW i \in Spares \cup {Nobody},
             RunExec(k, i, ok)
      PROVE  \A h \in Ids : proc'[h] = proc[h] \/ proc'[h].phase = "queued"
  <2>1. \/ UNCHANGED proc
        \/ /\ i \in Ids /\ proc[i].phase = "none"
           /\ proc' = [proc EXCEPT ![i] = proc'[i]]
           /\ proc'[i] \in [phase : {"queued"}, attempt : 1..MaxAttempts,
                            event : {NoEvent}, worker : DOMAIN Own, source : Ids,
                            counted : {FALSE}]
    BY <1>8, RunExecStep
  <2>2. QED
    BY <1>2, <2>1
<1>9. ASSUME \/ Around
             \/ \E k \in 1..DeliveryWorkers :
                  Take(k) \/ RetryDelay(k) \/ \E ok \in BOOLEAN : PostOnce(k, ok)
      PROVE  UNCHANGED proc
  BY <1>9, AroundKeeps DEF Take, RetryDelay, PostOnce
<1>10. ASSUME NEW h \in Ids, Open(h)'
       PROVE  Placed(Job(h))'
  <2>1. CASE proc'[h] = proc[h]
    BY <1>4, <1>10, <2>1
  <2>2. CASE proc'[h] # proc[h]
    <3>1. proc'[h].phase # "queued"
      BY <1>10
    <3> HIDE DEF Open
    <3>2. PICK i \in Ids : Attempts(i) \/ CheckClosed(i) \/ Send(i)
      BY <1>8, <1>9, <2>2, <3>1, Cases
    <3>3. i = h
      BY <1>7, <2>2, <3>2
    <3>4. QED
      BY <1>5, <1>6, <1>10, <3>2, <3>3
  <2>3. QED
    BY <2>1, <2>2
<1>11. QED
  BY <1>10 DEF Offered, Placed

----------------------------------------------------------------------------
(* The delivery goroutines.                                                *)

(* What DeliveryInv says of one goroutine, and of one delivery.            *)
Duty(k) ==
  LET policy == PolicyOf(worker[k].job)
  IN  /\ worker[k].pc \in {"post", "wait"} => policy.webhook
      /\ worker[k].pc = "run" =>
           policy.target # Nobody /\ (policy.webhook => Got(worker[k].job, "webhook"))
      /\ worker[k].pc = "exited" => jobs = <<>> /\ closed

Complete(j) ==
  \/ InFlight(j)
  \/ /\ PolicyOf(j).webhook => Got(j, "webhook")
     /\ PolicyOf(j).target # Nobody => Got(j, "exec")

(* DeliveryInv, goroutine by goroutine and delivery by delivery.           *)
LEMMA DeliverySplit ==
  DeliveryInv <=> /\ \A k \in 1..DeliveryWorkers : Duty(k)
                  /\ \A f \in fate : Complete(f.job)
                  /\ daemon = "closed" => Drained
BY DEF DeliveryInv, Duty, Complete, BothDeliveries, Got

(* What is sure of the channel's end after any step: only a goroutine that *)
(* is not done changes, and nothing is sent once the channel is closed.    *)
LEMMA EndStays ==
  ASSUME FieldTypes, ProcInv, StopInv, DeliveryInv, [Next]_vars
  PROVE  /\ closed => closed'
         /\ closed /\ jobs = <<>> => jobs' = <<>>
         /\ daemon' = "closed" => \/ daemon = "closed"
                                  \/ Drained /\ UNCHANGED worker
<1>1. CASE Around
  <2>1. UNCHANGED <<jobs, worker>>
    BY <1>1, AroundKeeps
  <2>2. QED
    BY <1>1, <2>1 DEF Around, Drain, Stop, Shutdown, ShutdownReturns, Close, Budget, CloseReturns,
       Reload, vars, notifyVars
<1>2. ASSUME NEW i \in Ids, Attempts(i)
      PROVE  UNCHANGED <<closed, jobs, daemon>>
  BY <1>2, AttemptStep
<1>3. ASSUME NEW i \in Ids, CheckClosed(i) \/ Send(i)
      PROVE  UNCHANGED <<closed, daemon>> /\ (closed => UNCHANGED jobs)
  <2>1. UNCHANGED <<closed, daemon>>
    BY <1>3, NotifyStep
  <2>2. proc[i].phase = "send" => ~closed
    BY DEF StopInv, SendsAreOrdered
  <2>3. QED
    BY <1>3, <2>1, <2>2, OfferStep
<1>4. ASSUME NEW k \in 1..DeliveryWorkers, Take(k)
      PROVE  UNCHANGED <<closed, daemon>> /\ (jobs = <<>> => UNCHANGED jobs)
  BY <1>4, TakeStep
<1>5. ASSUME NEW k \in 1..DeliveryWorkers,
             \/ RetryDelay(k)
             \/ \E ok \in BOOLEAN : PostOnce(k, ok)
             \/ \E ok \in BOOLEAN, i \in Spares \cup {Nobody} : RunExec(k, i, ok)
      PROVE  UNCHANGED <<closed, jobs, daemon>>
  BY <1>5 DEF RetryDelay, PostOnce, RunExec
<1>6. QED
  BY <1>1, <1>2, <1>3, <1>4, <1>5, Cases

(* A goroutine that does not move keeps its duty: its job's policy stays,  *)
(* and what was received stays received.                                   *)
LEMMA DutyStays ==
  ASSUME FieldTypes, ProcInv, StopInv, JobInv, DeliveryInv, [Next]_vars,
         NEW k \in 1..DeliveryWorkers, worker'[k] = worker[k], fate \subseteq fate'
  PROVE  Duty(k)'
<1>1. Duty(k)
  BY DeliverySplit
<1>2. CASE worker[k].pc \in Busy
  <2>1. worker[k].job \in Jobs /\ Settles(worker[k].job)
    BY <1>2, BusyPolicy
  <2>2. PICK j \in Jobs : j = worker[k].job
    BY <2>1
  <2>3. PolicyOf(j)' = PolicyOf(j)
    BY <2>1, <2>2, SettlesStays
  <2>4. Got(j, "webhook") => Got(j, "webhook")'
    BY DEF Got
  <2>5. worker'[k].job = j
    BY <2>2
  <2>6. PolicyOf(worker[k].job)' = PolicyOf(worker[k].job)
    BY <2>2, <2>3, <2>5 DEF PolicyOf, policyFor
  <2>7. Got(worker[k].job, "webhook") => Got(worker[k].job, "webhook")'
    BY <2>2, <2>4, <2>5 DEF Got
  <2>8. QED
    BY <1>1, <1>2, <2>6, <2>7 DEF Duty, Busy
<1>3. CASE worker[k].pc \notin Busy
  BY <1>1, <1>3, EndStays DEF Duty, Busy
<1>4. QED
  BY <1>2, <1>3

(* A delivery that was complete, or went on in another goroutine, is so    *)
(* after the step.                                                         *)
LEMMA CompleteStays ==
  ASSUME FieldTypes, ProcInv, JobInv, DeliveryInv, [Next]_vars, fate \subseteq fate',
         NEW j \in Jobs, Placed(j), Complete(j),
         InFlight(j) => Complete(j)'
  PROVE  Complete(j)'
<1>1. CASE InFlight(j)
  BY <1>1
<1>2. CASE ~InFlight(j)
  <2>1. Settles(j)
    BY DEF JobInv, Placed
  <2>2. PolicyOf(j)' = PolicyOf(j)
    BY <2>1, SettlesStays
  <2>3. \A by \in {"webhook", "exec"} : Got(j, by) => Got(j, by)'
    BY DEF Got
  <2>4. QED
    BY <1>2, <2>2, <2>3 DEF Complete
<1>3. QED
  BY <1>1, <1>2

(* The policy of a job that exists has somebody to tell.                   *)
LEMMA JobDelivers ==
  ASSUME FieldTypes, ProcInv, NEW j \in Jobs, Settles(j)
  PROVE  PolicyOf(j).webhook \/ PolicyOf(j).target # Nobody
<1>1. j.id \in Ids /\ proc[j.id].worker \in DOMAIN Own
  BY DEF Settles, ProcInv, Jobs
<1>2. PolicyOf(j).webhook \/ PolicyOf(j).target # Nobody \/ PolicyOf(j).on = {}
  BY <1>1, PolicyTyped DEF PolicyOf
<1>3. QED
  BY <1>2 DEF Settles, Notifies

(* A step of a delivery goroutine: only its own record changes, it has its *)
(* new duty, and the delivery it leaves is complete.                       *)
LEMMA TakeDuty ==
  ASSUME FieldTypes, ProcInv, StopInv, JobInv, DeliveryInv, [Next]_vars,
         NEW k \in 1..DeliveryWorkers, Take(k)
  PROVE  /\ \A h \in 1..DeliveryWorkers \ {k} : worker'[h] = worker[h]
         /\ Duty(k)' /\ UNCHANGED fate /\ worker[k].pc = "take"
<1>1. /\ worker \in [1..DeliveryWorkers -> WorkerRecord] /\ jobs \in Seq(Jobs)
      /\ worker[k] \in WorkerRecord
  BY TypesSplit DEF WorkerTypes, ChannelTypes
<1>2. UNCHANGED <<proc, fate, closed>> /\ worker[k].pc = "take"
  BY TakeStep
<1>3. CASE jobs = <<>> /\ closed /\ UNCHANGED jobs /\ worker' = [worker EXCEPT ![k].pc = "exited"]
  <2>1. worker'[k].pc = "exited" /\ jobs' = <<>> /\ closed'
    BY <1>1, <1>2, <1>3 DEF WorkerRecord
  <2>2. QED
    BY <1>1, <1>2, <1>3, <2>1 DEF Duty
<1>4. CASE /\ jobs # <<>> /\ jobs' = Tail(jobs) /\ Head(jobs) \in Jobs
           /\ worker' = [worker EXCEPT ![k] = worker'[k]]
           /\ worker'[k] = [pc |-> IF PolicyOf(Head(jobs)).webhook THEN "post" ELSE "run",
                            job |-> Head(jobs), posts |-> 0]
  <2>1. PICK j \in Jobs : j = Head(jobs)
    BY <1>4
  <2>2. 1 \in DOMAIN jobs /\ jobs[1] = j
    BY <1>1, <1>4, <2>1
  <2>3. Settles(j)
    BY <2>2 DEF JobInv, Waiting
  <2>4. PolicyOf(j).webhook \/ PolicyOf(j).target # Nobody
    BY <2>3, JobDelivers
  <2>5. worker'[k].job = j /\ worker'[k].pc = IF PolicyOf(j).webhook THEN "post" ELSE "run"
    BY <1>4, <2>1
  <2>6. PolicyOf(worker[k].job)' = PolicyOf(j)
    BY <1>2, <2>5 DEF PolicyOf, policyFor
  <2>7. Duty(k)'
    BY <2>4, <2>5, <2>6 DEF Duty
  <2>8. QED
    BY <1>1, <1>2, <1>4, <2>7
<1>5. QED
  BY <1>3, <1>4, TakeStep

(* The same for the steps that deliver.                                    *)
LEMMA DeliveryDuty ==
  ASSUME FieldTypes, ProcInv, StopInv, JobInv, DeliveryInv, [Next]_vars,
         NEW k \in 1..DeliveryWorkers,
         \/ RetryDelay(k)
         \/ \E ok \in BOOLEAN : PostOnce(k, ok)
         \/ \E ok \in BOOLEAN, i \in Spares \cup {Nobody} : RunExec(k, i, ok)
  PROVE  /\ \A h \in 1..DeliveryWorkers \ {k} : worker'[h] = worker[h]
         /\ Duty(k)' /\ worker[k].pc \in Busy /\ worker[k].job \in Jobs
         /\ \/ UNCHANGED fate
            \/ \E by \in {"webhook", "exec"} :
                 fate' = fate \cup {[job |-> worker[k].job, by |-> by]}
         /\ \E j \in Jobs : j = worker[k].job /\ Complete(j)'
<1>1. worker \in [1..DeliveryWorkers -> WorkerRecord] /\ worker[k] \in WorkerRecord
  BY TypesSplit DEF WorkerTypes
<1>2. Duty(k)
  BY DeliverySplit
<1>3. worker[k].pc \in Busy
  BY DEF RetryDelay, PostOnce, RunExec, Busy
<1>4. worker[k].job \in Jobs /\ Settles(worker[k].job)
  BY <1>3, BusyPolicy
<1>5. PICK j \in Jobs : j = worker[k].job
  BY <1>4
<1>6. PolicyOf(j)' = PolicyOf(j)
  BY <1>4, <1>5, SettlesStays
<1>7. ASSUME worker'[k].job = j
      PROVE  PolicyOf(worker[k].job)' = PolicyOf(j)
  BY <1>6, <1>7 DEF PolicyOf, policyFor
<1>8. ASSUME worker'[k].pc \in Busy, worker'[k].job = j
      PROVE  InFlight(j)'
  BY <1>8 DEF InFlight, Busy
<1>9. CASE RetryDelay(k)
  <2>1. /\ UNCHANGED fate /\ worker[k].pc = "wait"
        /\ worker' = [worker EXCEPT ![k].pc = "post"]
    BY <1>9 DEF RetryDelay
  <2>2. worker'[k].pc = "post" /\ worker'[k].job = j
    BY <1>1, <1>5, <2>1 DEF WorkerRecord
  <2>3. Duty(k)'
    BY <1>2, <1>5, <1>7, <2>1, <2>2 DEF Duty
  <2>4. Complete(j)'
    BY <1>8, <2>2 DEF Complete, Busy
  <2>5. QED
    BY <1>1, <1>3, <1>5, <2>1, <2>3, <2>4
<1>10. ASSUME NEW ok \in BOOLEAN, PostOnce(k, ok)
       PROVE  /\ \A h \in 1..DeliveryWorkers \ {k} : worker'[h] = worker[h]
              /\ Duty(k)' /\ Complete(j)'
              /\ \/ UNCHANGED fate
                 \/ fate' = fate \cup {[job |-> j, by |-> "webhook"]}
  <2>1. CASE /\ UNCHANGED fate
             /\ worker' = [worker EXCEPT ![k].pc = "wait", ![k].posts = @ + 1]
    <3>1. worker'[k].pc = "wait" /\ worker'[k].job = j
      BY <1>1, <1>5, <2>1 DEF WorkerRecord
    <3>2. worker[k].pc = "post"
      BY <1>10, PostStep
    <3>3. Duty(k)'
      BY <1>2, <1>5, <1>7, <3>1, <3>2 DEF Duty
    <3>4. Complete(j)'
      BY <1>8, <3>1 DEF Complete, Busy
    <3>5. QED
      BY <1>1, <2>1, <3>3, <3>4
  <2>2. CASE /\ fate' = fate \cup {[job |-> worker[k].job, by |-> "webhook"]}
             /\ PolicyOf(worker[k].job).target # Nobody
             /\ worker' = [worker EXCEPT ![k].pc = "run"]
    <3>1. worker'[k].pc = "run" /\ worker'[k].job = j
      BY <1>1, <1>5, <2>2 DEF WorkerRecord
    <3>2. [job |-> j, by |-> "webhook"] \in fate'
      BY <1>5, <2>2
    <3>3. \E f \in fate' : f.job = j /\ f.by = "webhook"
      BY <3>2
    <3>4. Got(worker[k].job, "webhook")'
      BY <3>1, <3>3 DEF Got
    <3>5. Duty(k)'
      BY <1>5, <1>7, <2>2, <3>1, <3>4 DEF Duty
    <3>6. Complete(j)'
      BY <1>8, <3>1 DEF Complete, Busy
    <3>7. QED
      BY <1>1, <1>5, <2>2, <3>5, <3>6
  <2>3. CASE /\ fate' = fate \cup {[job |-> worker[k].job, by |-> "webhook"]}
             /\ PolicyOf(worker[k].job).target = Nobody
             /\ worker' = [worker EXCEPT ![k] = IdleWorker]
    <3>1. worker'[k] = IdleWorker /\ worker'[k].pc = "take"
      BY <1>1, <2>3 DEF IdleWorker
    <3>2. Duty(k)'
      BY <3>1 DEF Duty
    <3>3. [job |-> j, by |-> "webhook"] \in fate'
      BY <1>5, <2>3
    <3>4. Got(j, "webhook")'
      BY <3>3 DEF Got
    <3>5. Complete(j)'
      BY <1>5, <1>6, <2>3, <3>4 DEF Complete
    <3>6. QED
      BY <1>1, <1>5, <2>3, <3>2, <3>5
  <2>4. QED
    BY <1>10, <2>1, <2>2, <2>3, PostStep
<1>11. ASSUME NEW ok \in BOOLEAN, NEW i \in Spares \cup {Nobody}, RunExec(k, i, ok)
       PROVE  /\ \A h \in 1..DeliveryWorkers \ {k} : worker'[h] = worker[h]
              /\ Duty(k)' /\ Complete(j)'
              /\ fate' = fate \cup {[job |-> j, by |-> "exec"]}
  <2>1. /\ worker[k].pc = "run" /\ worker' = [worker EXCEPT ![k] = IdleWorker]
        /\ fate' = fate \cup {[job |-> j, by |-> "exec"]}
    BY <1>5, <1>11, ExecStep
  <2>2. worker'[k] = IdleWorker /\ worker'[k].pc = "take"
    BY <1>1, <2>1 DEF IdleWorker
  <2>3. Duty(k)'
    BY <2>2 DEF Duty
  <2>4. [job |-> j, by |-> "exec"] \in fate'
    BY <2>1
  <2>5. Got(j, "exec")'
    BY <2>4 DEF Got
  <2>6. PolicyOf(j).webhook => Got(j, "webhook")
    BY <1>2, <1>5, <2>1 DEF Duty
  <2>7. Got(j, "webhook") => Got(j, "webhook")'
    BY <2>1 DEF Got
  <2>8. Complete(j)'
    BY <1>6, <2>5, <2>6, <2>7 DEF Complete
  <2>9. QED
    BY <1>1, <2>1, <2>3, <2>8
<1>12. QED
  BY <1>3, <1>4, <1>5, <1>9, <1>10, <1>11

(* Every delivery goroutine has its duty after the step, and every job     *)
(* that fate knows is complete.                                            *)
LEMMA DeliveryInvNext ==
  ASSUME FieldTypes, ProcInv, StopInv, JobInv, PlaceInv, DeliveryInv, FieldTypes', [Next]_vars
  PROVE  DeliveryInv'
<1>1. /\ worker \in [1..DeliveryWorkers -> WorkerRecord]
      /\ fate \subseteq [job : Jobs, by : {"webhook", "exec"}]
  BY TypesSplit DEF WorkerTypes, ChannelTypes
<1>2. /\ \A k \in 1..DeliveryWorkers : Duty(k)
      /\ \A f \in fate : Complete(f.job)
      /\ daemon = "closed" => Drained
  BY DeliverySplit
<1>3. ASSUME NEW j \in Jobs, NEW f \in fate, f.job = j
      PROVE  Placed(j) /\ Complete(j)
  <2>1. Complete(f.job)
    BY <1>2
  <2>2. Complete(j)
    BY <1>3, <2>1 DEF Complete, InFlight, Got
  <2>3. QED
    BY <1>3, <2>2 DEF Placed, Taken, Delivered
<1>4. ASSUME \A k \in 1..DeliveryWorkers : worker'[k] = worker[k], UNCHANGED fate
      PROVE  /\ \A k \in 1..DeliveryWorkers : Duty(k)'
             /\ \A j \in Jobs : (\E f \in fate' : f.job = j) => Complete(j)'
  <2>1. \A k \in 1..DeliveryWorkers : Duty(k)'
    BY <1>4, DutyStays
  <2>2. ASSUME NEW j \in Jobs, NEW f \in fate, f.job = j
        PROVE  Complete(j)'
    <3>1. InFlight(j) => Complete(j)'
      BY <1>4 DEF Complete, InFlight
    <3>2. QED
      BY <1>3, <1>4, <2>2, <3>1, CompleteStays
  <2>3. QED
    BY <1>4, <2>1, <2>2
<1>5. ASSUME NEW k \in 1..DeliveryWorkers, Take(k)
      PROVE  /\ \A h \in 1..DeliveryWorkers : Duty(h)'
             /\ \A j \in Jobs : (\E f \in fate' : f.job = j) => Complete(j)'
  <2>1. /\ \A h \in 1..DeliveryWorkers \ {k} : worker'[h] = worker[h]
        /\ Duty(k)' /\ UNCHANGED fate /\ worker[k].pc = "take"
    BY <1>5, TakeDuty
  <2>2. ASSUME NEW h \in 1..DeliveryWorkers
        PROVE  Duty(h)'
    <3>1. CASE h = k
      BY <2>1, <3>1 DEF Duty, Got, PolicyOf, policyFor
    <3>2. CASE h # k
      BY <2>1, <3>2, DutyStays
    <3>3. QED
      BY <3>1, <3>2
  <2>3. ASSUME NEW j \in Jobs, NEW f \in fate, f.job = j
        PROVE  Complete(j)'
    <3>1. InFlight(j) => Complete(j)'
      BY <2>1 DEF Complete, InFlight
    <3>2. QED
      BY <1>3, <2>1, <2>3, <3>1, CompleteStays
  <2>4. QED
    BY <2>1, <2>2, <2>3
<1>6. ASSUME NEW k \in 1..DeliveryWorkers,
             \/ RetryDelay(k)
             \/ \E ok \in BOOLEAN : PostOnce(k, ok)
             \/ \E ok \in BOOLEAN, i \in Spares \cup {Nobody} : RunExec(k, i, ok)
      PROVE  /\ \A h \in 1..DeliveryWorkers : Duty(h)'
             /\ \A j \in Jobs : (\E f \in fate' : f.job = j) => Complete(j)'
  <2>1. /\ \A h \in 1..DeliveryWorkers \ {k} : worker'[h] = worker[h]
        /\ Duty(k)'
        /\ \/ UNCHANGED fate
           \/ \E by \in {"webhook", "exec"} : fate' = fate \cup {[job |-> worker[k].job, by |-> by]}
        /\ \E j \in Jobs : j = worker[k].job /\ Complete(j)'
    BY <1>6, DeliveryDuty
  <2>2. ASSUME NEW h \in 1..DeliveryWorkers
        PROVE  Duty(h)'
    <3>1. CASE h = k
      BY <2>1, <3>1 DEF Duty, Got, PolicyOf, policyFor
    <3>2. CASE h # k
      BY <2>1, <3>2, DutyStays
    <3>3. QED
      BY <3>1, <3>2
  <2>3. PICK j0 \in Jobs : j0 = worker[k].job /\ Complete(j0)'
    BY <2>1
  <2>4. ASSUME NEW j \in Jobs, NEW f \in fate', f.job = j
        PROVE  Complete(j)'
    <3>1. CASE j = j0
      BY <2>3, <3>1 DEF Complete, InFlight, Got, PolicyOf, policyFor
    <3>2. CASE j # j0
      <4>1. f \in fate
        BY <2>1, <2>3, <2>4, <3>2
      <4>2. InFlight(j) => InFlight(j)'
        BY <2>1, <2>3, <3>2 DEF InFlight
      <4>3. InFlight(j) => Complete(j)'
        BY <4>2 DEF Complete
      <4>4. fate \subseteq fate'
        BY <2>1
      <4>5. QED
        BY <1>3, <2>4, <4>1, <4>3, <4>4, CompleteStays
    <3>3. QED
      BY <3>1, <3>2
  <2>5. QED
    BY <2>2, <2>4
<1>7. ASSUME \/ Around \/ \E i \in Ids : Attempts(i) \/ CheckClosed(i) \/ Send(i)
      PROVE  UNCHANGED <<worker, fate>>
  BY <1>7, AroundKeeps, AttemptStep, NotifyStep
<1>8. /\ \A h \in 1..DeliveryWorkers : Duty(h)'
      /\ \A j \in Jobs : (\E f \in fate' : f.job = j) => Complete(j)'
  BY <1>4, <1>5, <1>6, <1>7, Cases
<1>9. \A f \in fate' : Complete(f.job)'
  <2>1. TAKE f \in fate'
  <2>2. fate' \subseteq [job : Jobs, by : {"webhook", "exec"}]
    BY DEF FieldTypes
  <2>3. f.job \in Jobs
    BY <2>2
  <2>4. QED
    BY <1>8, <2>3
<1>10. daemon' = "closed" => Drained'
  <2>1. ASSUME daemon' = "closed"
        PROVE  Drained'
    <3>1. Drained
      BY <1>2, <2>1, EndStays
    <3>2. \A k \in 1..DeliveryWorkers : worker[k].pc = "exited"
      BY <3>1 DEF Drained
    <3>3. UNCHANGED worker
      <4>1. ASSUME NEW k \in 1..DeliveryWorkers, Take(k)
            PROVE  FALSE
        BY <3>2, <4>1 DEF Take
      <4>2. ASSUME NEW k \in 1..DeliveryWorkers,
             \/ RetryDelay(k)
             \/ \E ok \in BOOLEAN : PostOnce(k, ok)
             \/ \E ok \in BOOLEAN, i \in Spares \cup {Nobody} : RunExec(k, i, ok)
            PROVE  FALSE
        BY <3>2, <4>2 DEF RetryDelay, PostOnce, RunExec
      <4>3. QED
        BY <1>7, <4>1, <4>2, Cases
    <3>4. QED
      BY <3>1, <3>3 DEF Drained
  <2>2. QED
    BY <2>1
<1>11. (DeliveryInv <=> /\ \A k \in 1..DeliveryWorkers : Duty(k)
                        /\ \A f \in fate : Complete(f.job)
                        /\ daemon = "closed" => Drained)'
  BY DeliverySplit, PTL
<1>12. QED
  BY <1>8, <1>9, <1>10, <1>11

(* Only a closed notifier refuses, and what was awaited settled before.    *)
LEMMA WaitedNext ==
  ASSUME FieldTypes, ProcInv, StopInv, WaitedOutcomesReported, [Next]_vars
  PROVE  WaitedOutcomesReported'
<1>1. CASE Around
  <2>1. UNCHANGED late
    BY <1>1, AroundKeeps
  <2>2. \/ UNCHANGED awaited \/ awaited' = {}
        \/ daemon = "draining"
    BY <1>1 DEF Around, Drain, Stop, Shutdown, ShutdownReturns, Close, Budget, CloseReturns,
       Reload, vars, notifyVars
  <2>3. daemon = "draining" => late = {}
    BY DEF StopInv
  <2>4. QED
    BY <2>1, <2>2, <2>3 DEF WaitedOutcomesReported
<1>2. ASSUME NEW i \in Ids, Attempts(i)
      PROVE  UNCHANGED <<late, awaited>>
  BY <1>2, AttemptStep
<1>3. ASSUME NEW i \in Ids, CheckClosed(i) \/ Send(i)
      PROVE  WaitedOutcomesReported'
  <2>1. UNCHANGED awaited
    BY <1>3, NotifyStep
  <2>2. CASE UNCHANGED late
    BY <2>1, <2>2 DEF WaitedOutcomesReported
  <2>3. CASE late' = late \cup {Job(i)} /\ closed /\ proc[i].phase = "notify"
    <3>1. i \notin awaited
      BY <2>3 DEF StopInv
    <3>2. Job(i).id = i
      BY DEF Job
    <3>3. QED
      BY <2>1, <2>3, <3>1, <3>2 DEF WaitedOutcomesReported
  <2>4. QED
    BY <1>3, <2>2, <2>3, OfferStep
<1>4. ASSUME \E k \in 1..DeliveryWorkers :
               \/ Take(k) \/ RetryDelay(k)
               \/ \E ok \in BOOLEAN : PostOnce(k, ok)
               \/ \E ok \in BOOLEAN, i \in Spares \cup {Nobody} : RunExec(k, i, ok)
      PROVE  UNCHANGED <<late, awaited>>
  BY <1>4 DEF Take, RetryDelay, PostOnce, RunExec
<1>5. CASE UNCHANGED <<late, awaited>>
  BY <1>5 DEF WaitedOutcomesReported
<1>6. QED
  BY <1>1, <1>2, <1>3, <1>4, <1>5, Cases

----------------------------------------------------------------------------
(* The theorems.                                                           *)

(* The invariant holds in the first state,                                 *)
LEMMA InductiveInit == Init => Inductive
<1> SUFFICES ASSUME Init PROVE Inductive
  OBVIOUS
<1>1. FieldTypes /\ ProcInv
  BY TypesInit
<1>2. /\ jobs = <<>> /\ dropped = {} /\ late = {} /\ fate = {} /\ awaited = {} /\ ~closed
      /\ daemon = "up" /\ \A i \in Ids : proc[i].phase \in {"running", "none"}
      /\ \A k \in 1..DeliveryWorkers : worker[k].pc = "take"
  BY DEF Init, IdleWorker
<1>3. DOMAIN jobs = {}
  BY <1>2
<1>4. \A j \in Jobs : ~Waiting(j) /\ ~Taken(j)
  BY <1>2, <1>3 DEF Waiting, Taken, InFlight, Delivered
<1>5. JobInv /\ PlaceInv
  BY <1>2, <1>3, <1>4 DEF JobInv, PlaceInv
<1>6. StopInv /\ Offered /\ WaitedOutcomesReported
  BY <1>2 DEF StopInv, SendsAreOrdered, Offered, WaitedOutcomesReported
<1>7. DeliveryInv
  BY <1>2 DEF DeliveryInv, BothDeliveries
<1>8. QED
  BY <1>1, <1>5, <1>6, <1>7 DEF Inductive

(* and every step keeps it.                                                *)
LEMMA InductiveNext == Inductive /\ [Next]_vars => Inductive'
<1> SUFFICES ASSUME FieldTypes, ProcInv, StopInv, JobInv, PlaceInv, Offered, DeliveryInv,
                    WaitedOutcomesReported, [Next]_vars
             PROVE  Inductive'
  BY DEF Inductive
<1>1. FieldTypes'
  BY TypesNext
<1>2. ProcInv' /\ StopInv'
  BY ProcInvNext, StopInvNext
<1>3. JobInv' /\ PlaceInv'
  BY JobInvNext, PlacesNext
<1>4. Offered' /\ DeliveryInv'
  BY <1>1, OfferedNext, DeliveryInvNext
<1>5. WaitedOutcomesReported'
  BY WaitedNext
<1>6. QED
  BY <1>1, <1>2, <1>3, <1>4, <1>5 DEF Inductive

(* The notifier's inductive invariant, through every interleaving of the   *)
(* supervise and delivery goroutines, reloads and a shutdown.              *)
THEOREM NotifierIsSound == Spec => []Inductive
BY InductiveInit, InductiveNext, PTL DEF Spec

(* A settled, wanted outcome is in exactly one place: Notify loses none    *)
(* without counting it, and no job is delivered twice.                     *)
LEMMA InductiveAccounted == Inductive => Accounted
<1> SUFFICES ASSUME Inductive, NEW i \in Ids,
                    proc[i].phase = "settled", proc[i].event # NoEvent, Wanted(i)
             PROVE  Cardinality({<<"queue", n>> : n \in {n \in DOMAIN jobs : jobs[n] = Job(i)}}
                      \cup (IF InFlight(Job(i)) \/ Delivered(Job(i)) THEN {"taken"} ELSE {})
                      \cup (IF Job(i) \in dropped THEN {"dropped"} ELSE {})
                      \cup (IF Job(i) \in late THEN {"late"} ELSE {})) = 1
  BY DEF Accounted
<1> DEFINE j == Job(i)
           queue == {<<"queue", n>> : n \in {n \in DOMAIN jobs : jobs[n] = j}}
           taken == IF InFlight(j) \/ Delivered(j) THEN {"taken"} ELSE {}
           gone == IF j \in dropped THEN {"dropped"} ELSE {}
           refused == IF j \in late THEN {"late"} ELSE {}
           places == queue \cup taken \cup gone \cup refused
<1>1. j \in Jobs
  BY JobTyped DEF Inductive
<1>2. Waiting(j) \/ Taken(j) \/ j \in dropped \/ j \in late
  BY DEF Inductive, Offered
<1>3. /\ Waiting(j) => ~Taken(j) /\ j \notin dropped /\ j \notin late
      /\ Taken(j) => j \notin dropped /\ j \notin late
      /\ j \in dropped => j \notin late
  BY <1>1 DEF Inductive, PlaceInv
<1>4. \A m, n \in DOMAIN jobs : jobs[m] = jobs[n] => m = n
  BY DEF Inductive, PlaceInv
<1>5. ~Waiting(j) => queue = {}
  BY DEF Waiting
<1>6. \E x : places = {x}
  <2>1. CASE Waiting(j)
    <3>1. PICK n \in DOMAIN jobs : jobs[n] = j
      BY <2>1 DEF Waiting
    <3>2. {m \in DOMAIN jobs : jobs[m] = j} = {n}
      BY <1>4, <3>1
    <3>3. queue = {<<"queue", n>>}
      BY <3>2
    <3>4. taken = {} /\ gone = {} /\ refused = {}
      BY <1>3, <2>1 DEF Taken
    <3>5. QED
      BY <3>3, <3>4
  <2>2. CASE Taken(j)
    <3>1. queue = {} /\ taken = {"taken"} /\ gone = {} /\ refused = {}
      BY <1>3, <1>5, <2>2 DEF Taken
    <3>2. QED
      BY <3>1
  <2>3. CASE j \in dropped
    <3>1. queue = {} /\ taken = {} /\ gone = {"dropped"} /\ refused = {}
      BY <1>3, <1>5, <2>3 DEF Taken
    <3>2. QED
      BY <3>1
  <2>4. CASE j \in late
    <3>1. queue = {} /\ taken = {} /\ gone = {} /\ refused = {"late"}
      BY <1>3, <1>5, <2>4 DEF Taken
    <3>2. QED
      BY <3>1
  <2>5. QED
    BY <1>2, <2>1, <2>2, <2>3, <2>4
<1> HIDE DEF queue, taken, gone, refused
<1>7. Cardinality(places) = 1
  BY <1>6, FS_Singleton
<1>8. QED
  BY <1>7 DEF places, queue, taken, gone, refused

(* No outcome is lost in silence and none is delivered twice.              *)
THEOREM OutcomesAreAccounted == Spec => []Accounted
BY NotifierIsSound, InductiveAccounted, PTL

(* Payloads, the order of send and close, both deliveries, no loop, quiet  *)
(* after Close: what the run checks as NotifierInv.                        *)
LEMMA InductiveNotifierInv == Inductive => NotifierInv
<1> SUFFICES ASSUME Inductive PROVE NotifierInv
  OBVIOUS
<1>1. FieldTypes /\ StopInv /\ JobInv /\ DeliveryInv
  BY DEF Inductive
<1>2. /\ fate \subseteq [job : Jobs, by : {"webhook", "exec"}] /\ jobs \in Seq(Jobs)
      /\ proc \in [Ids -> ProcRecord]
  BY <1>1, TypesSplit DEF ChannelTypes
<1>3. ASSUME NEW f \in fate
      PROVE  f.job \in Jobs /\ Settles(f.job)
  BY <1>1, <1>2 DEF JobInv, Taken, Delivered
<1>4. NoNotificationLoop
  <2>1. \A f \in fate : proc[f.job.id].source = Nobody
    BY <1>3 DEF Settles
  <2>2. ASSUME NEW n \in DOMAIN jobs
        PROVE  proc[jobs[n].id].source = Nobody
    <3>1. jobs[n] \in Jobs /\ Waiting(jobs[n])
      BY <1>2 DEF Waiting
    <3>2. QED
      BY <1>1, <3>1 DEF JobInv, Settles
  <2>3. QED
    BY <2>1, <2>2 DEF NoNotificationLoop
<1>5. PayloadIsTheOutcome
  <2>1. ASSUME NEW f \in fate
        PROVE  f.job.event = IF f.job.attempt < proc[f.job.id].attempt THEN "crashed"
                             ELSE proc[f.job.id].event
    <3>1. Settles(f.job) /\ f.job.id \in Ids /\ f.job.attempt \in 1..MaxAttempts
      BY <1>3 DEF Jobs
    <3>2. proc[f.job.id].attempt \in 1..MaxAttempts
      BY <1>2, <3>1 DEF ProcRecord
    <3>3. QED
      BY <3>1, <3>2, BoundAssumption DEF Settles
  <2>2. QED
    BY <2>1 DEF PayloadIsTheOutcome
<1>6. ClosedIsQuiet
  <2>1. 1 \in 1..DeliveryWorkers
    BY BoundAssumption
  <2>2. QED
    BY <1>1, <2>1 DEF DeliveryInv, Drained, ClosedIsQuiet
<1>7. NotifierTypeOK /\ BothDeliveries /\ SendsAreOrdered
  BY <1>1 DEF FieldTypes, DeliveryInv, StopInv
<1>8. QED
  BY <1>4, <1>5, <1>6, <1>7 DEF NotifierInv

(* The notifier never loops, never sends on the closed channel, delivers   *)
(* the outcome it was given both ways, and is quiet once Close returned.   *)
THEOREM NotifierHolds == Spec => []NotifierInv
BY NotifierIsSound, InductiveNotifierInv, PTL

(* When Shutdown waited for an attempt, its outcome was not refused by the *)
(* closed notifier.                                                        *)
THEOREM WaitedAreReported == Spec => []WaitedOutcomesReported
<1>1. Inductive => WaitedOutcomesReported
  BY DEF Inductive
<1>2. QED
  BY <1>1, NotifierIsSound, PTL
=============================================================================
