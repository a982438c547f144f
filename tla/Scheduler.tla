----------------------------- MODULE Scheduler -----------------------------
(***************************************************************************)
(* The scheduler (internal/queue/scheduler.go): admission of a submitted   *)
(* execution and the dispatch loop, each up to the call of                 *)
(* Supervisor.Start and back.  Both are launchers of the module            *)
(* Supervisor; the dispatch loop works through a snapshot of the pending   *)
(* rows it read at the start of its pass.                                  *)
(***************************************************************************)
EXTENDS Supervisor

CONSTANTS MaxDepth, \* queue.max_depth
          ItemTTL   \* whether queue.item_ttl is set

ASSUME SchedulerAssumption == MaxDepth \in Nat /\ ItemTTL \in BOOLEAN

VARIABLES todo,  \* the ids the current pass (or Reconcile) still has to visit
          snap   \* the copies PendingProcesses returned for them

schedulerVars == <<todo, snap>>

SchedulerTypeOK ==
  /\ todo \subseteq Procs
  /\ snap \in [Procs -> Process]

SchedulerInit == todo = {} /\ snap = [id \in Procs |-> NoProcess]

----------------------------------------------------------------------------
(* Submit and admit.                                                       *)

(* Submit's checks; a submission refused here leaves no row.               *)
Submit(t) ==
  /\ t \in Procs /\ At(t, "idle")
  /\ IF \/ SchedulerDraining
        \/ Def[t].type # "service" /\ (CtxDone(t) \/ PendingCount >= MaxDepth)
     THEN Return(t)
     ELSE launcher' = [launcher EXCEPT ![t].pc = "create", ![t].id = t]
  /\ UNCHANGED <<storeVars, slotVars, exec, launches, running, stopper, mode, hungup>>

Create(t) ==
  /\ At(t, "create")
  /\ IF CtxDone(t)
     THEN Return(t) /\ UNCHANGED row
     ELSE /\ CreateProcess(t)
          /\ GotoWith(t, IF Def[t].lock # NoLock /\ Def[t].reject THEN "claim" ELSE "slot",
                      NewProcess)
  /\ UNCHANGED <<locks, slotVars, exec, launches, running, stopper, mode, hungup>>

(* A worker with lock_conflict: reject claims the lock before the slot.    *)
Claim(t) ==
  /\ At(t, "claim")
  /\ IF CtxDone(t) THEN Return(t) /\ UNCHANGED locks
     ELSE IF LockAvailable(t) THEN Goto(t, "slot") /\ AcquireLock(t)
     ELSE GotoWith(t, "conflict", TransitionTo(launcher[t].p, "CANCELED", "lock_conflict"))
          /\ UNCHANGED locks
  /\ UNCHANGED <<row, slotVars, exec, launches, running, stopper, mode, hungup>>

(* rejectLocked, reject and enqueue each end in one write of the row.      *)
WriteAndReturn(t, pc) ==
  /\ At(t, pc)
  /\ IF CtxDone(t) THEN UNCHANGED row ELSE UpdateProcess(launcher[t].id, launcher[t].p)
  /\ Return(t)
  /\ UNCHANGED <<locks, slotVars, exec, launches, running, stopper, mode, hungup>>

rejectLocked(t) == WriteAndReturn(t, "conflict")

(* park: a service is refused, a task is queued.                           *)
Parked(id, p) ==
  IF Def[id].type = "service"
  THEN TransitionTo(p, "CANCELED", "no_capacity")
  ELSE TransitionTo(p, "QUEUED", "")

GotoPark(t) == GotoWith(t, "park", Parked(launcher[t].id, launcher[t].p))

park(t) == WriteAndReturn(t, "park")

(* TryAcquire: the dispatch loop skips what finds no slot, a submission    *)
(* gives back the lock it claimed and parks.                               *)
TakeSlot(t) ==
  LET id == launcher[t].id
  IN  /\ At(t, "slot")
      /\ \/ /\ CanAcquire(id, Def[id].worker)
            /\ Acquire(id, Def[id].worker)
            /\ Goto(t, "lock")
         \/ /\ ~CanAcquire(id, Def[id].worker)
            /\ UNCHANGED slotVars
            /\ IF t = Dispatcher THEN Return(t)
               ELSE IF Def[id].lock # NoLock /\ Def[id].reject THEN Goto(t, "unclaim")
               ELSE GotoPark(t)
      /\ UNCHANGED <<storeVars, exec, launches, running, stopper, mode, hungup>>

Unclaim(t) ==
  /\ At(t, "unclaim")
  /\ IF CtxDone(t) THEN UNCHANGED locks ELSE ReleaseLock(launcher[t].id)
  /\ GotoPark(t)
  /\ UNCHANGED <<row, slotVars, exec, launches, running, stopper, mode, hungup>>

(* AcquireLock; without a key it succeeds before it looks at its context.  *)
TakeLock(t) ==
  LET id == launcher[t].id
      NoAnswer == CtxDone(t) /\ Def[id].lock # NoLock
  IN  /\ At(t, "lock")
      /\ \/ ~NoAnswer /\ LockAvailable(id) /\ AcquireLock(id) /\ Goto(t, "starting")
         \/ /\ ~NoAnswer /\ ~LockAvailable(id) /\ UNCHANGED locks
            /\ Goto(t, IF t = Dispatcher THEN "unslot" ELSE "yield")
         \/ NoAnswer /\ UNCHANGED locks /\ Goto(t, "unslot")
      /\ UNCHANGED <<row, slotVars, exec, launches, running, stopper, mode, hungup>>

(* An execution waiting for its lock keeps the slot it took.               *)
YieldSlot_Keeps(t) ==
  /\ At(t, "yield") \/ At(t, "unslot")
  /\ IF launcher[t].pc = "yield" THEN GotoPark(t) ELSE Return(t)
  /\ UNCHANGED <<storeVars, slotVars, exec, launches, running, stopper, mode, hungup>>

(* The slot taken for a lock that is held, or could not be asked for, goes *)
(* back; a submission whose lock is held then parks.                       *)
YieldSlot(t) ==
  /\ At(t, "yield") \/ At(t, "unslot")
  /\ Release(launcher[t].id)
  /\ IF launcher[t].pc = "yield" THEN GotoPark(t) ELSE Return(t)
  /\ UNCHANGED <<storeVars, exec, launches, running, stopper, mode, hungup>>

(* launch: the next attempt is written down as STARTING.                   *)
Launched(p) ==
  TransitionTo(ClearAttempt([p EXCEPT !.attempt = @ + 1]), "STARTING", "")

WriteStarting(t) ==
  LET id == launcher[t].id
  IN  /\ At(t, "starting")
      /\ IF CtxDone(t)
         THEN Goto(t, "release") /\ UNCHANGED <<row, launches>>
         ELSE /\ launches[id] < MaxLaunches
              /\ UpdateProcess(id, Launched(launcher[t].p))
              /\ launches' = [launches EXCEPT ![id] = @ + 1]
              /\ GotoWith(t, "start", Launched(launcher[t].p))
      /\ UNCHANGED <<locks, slotVars, exec, running, stopper, mode, hungup>>

ReleaseSlot_Keeps(t) ==
  /\ At(t, "release")
  /\ Goto(t, "unlock")
  /\ UNCHANGED <<storeVars, slotVars, exec, launches, running, stopper, mode, hungup>>

(* releaseAll, after a start that failed without an outcome of its own.    *)
ReleaseSlot(t) ==
  /\ At(t, "release")
  /\ Release(launcher[t].id)
  /\ Goto(t, "unlock")
  /\ UNCHANGED <<storeVars, exec, launches, running, stopper, mode, hungup>>

Unlock(t) ==
  /\ At(t, "unlock")
  /\ IF CtxDone(t) THEN UNCHANGED locks ELSE ReleaseLock(launcher[t].id)
  /\ Return(t)
  /\ UNCHANGED <<row, slotVars, exec, launches, running, stopper, mode, hungup>>

----------------------------------------------------------------------------
(* dispatch.                                                               *)

(* Some goroutine of an earlier attempt has yet to write or hand back.     *)
Unsettled(id) ==
  \/ \E n \in 1..MaxLaunches :
       \/ exec[<<id, n>>].sup = "persisted"
       \/ exec[<<id, n>>].stop = "begin"
       \/ exec[<<id, n>>].timer = "fired"
  \/ launcher[id].pc = "failsettle"
  \/ stopper[id].pc = "intent"

Cancelling(id) == stopper[id].pc \in {"release", "write", "settle"}

(* Which RETRYING rows may have passed their retry_at.                     *)
CanBeDue(id) == "stall" \in Faults \/ ~Unsettled(id)

(* Whether this instance lets a pass see the row at all: the bound on      *)
(* launches, and the overlap with a cancellation.                          *)
Visible(id) ==
  /\ launches[id] < MaxLaunches
  /\ "cancelrace" \in Faults \/ ~Cancelling(id)

(* A pass begins: PendingProcesses returns the queued rows and those whose *)
(* backoff has elapsed.                                                    *)
DispatchScan(due) ==
  LET pending == {id \in Queued \cup due : Visible(id)}
  IN  /\ At(Dispatcher, "idle") /\ todo = {}
      /\ mode = "up"
      /\ due \subseteq {id \in Retrying : CanBeDue(id)}
      /\ pending # {}
      /\ todo' = pending
      /\ snap' = [id \in Procs |-> IF id \in pending THEN row[id] ELSE NoProcess]
      /\ UNCHANGED <<storeVars, slotVars, superVars>>

(* The next row of the pass, oldest first: expired, or on to admission.    *)
Oldest(id) == id \in todo /\ \A other \in todo : id <= other

DispatchNext(id, expired) ==
  LET p == snap[id]
  IN  /\ At(Dispatcher, "idle") /\ Oldest(id)
      /\ expired => ItemTTL /\ p.state = "QUEUED" /\ Def[id].type # "service"
      /\ launcher' = [launcher EXCEPT ![Dispatcher] =
           [IdleLauncher EXCEPT
              !.id = id,
              !.pc = IF expired THEN "expire" ELSE "slot",
              !.p = IF expired THEN TransitionTo(p, "FAILED", "queue_timeout") ELSE p]]
      /\ todo' = todo \ {id}
      /\ snap' = [snap EXCEPT ![id] = NoProcess]
      /\ UNCHANGED <<storeVars, slotVars, exec, launches, running, stopper, mode, hungup>>

(* expire: the lock first, then the row.                                   *)
ExpireUnlock(t) ==
  /\ At(t, "expire")
  /\ IF CtxDone(t) THEN UNCHANGED locks ELSE ReleaseLock(launcher[t].id)
  /\ Goto(t, "expired")
  /\ UNCHANGED <<row, slotVars, exec, launches, running, stopper, mode, hungup>>

ExpireWrite(t) == WriteAndReturn(t, "expired")

Hangup(t) ==
  /\ "hangup" \in Faults
  /\ Live /\ launcher[t].pc \notin {"idle", "done"} /\ t \notin hungup
  /\ hungup' = hungup \cup {t}
  /\ UNCHANGED <<storeVars, slotVars, exec, launches, running, launcher, stopper, mode>>

AdmitNext(t) ==
  \/ TakeSlot(t) \/ TakeLock(t) \/ YieldSlot(t) \/ WriteStarting(t)
  \/ ReleaseSlot(t) \/ Unlock(t)

SubmitNext(t) ==
  \/ Submit(t) \/ Create(t) \/ Claim(t) \/ rejectLocked(t) \/ Unclaim(t) \/ park(t)
  \/ Hangup(t)

(* An execution is being started, or is about to be by the current pass.   *)
BeingStarted(id) ==
  \/ id \in todo
  \/ \E t \in Launchers :
        launcher[t].id = id /\ launcher[t].pc \notin {"idle", "done"}
=============================================================================
