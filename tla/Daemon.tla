------------------------------ MODULE Daemon ------------------------------
(***************************************************************************)
(* The daemon (internal/daemon, with supervisor/reconcile.go): it composes *)
(* store, slots, scheduler and supervisor, and adds what happens to all of *)
(* them at once: reload, SIGTERM and the shutdown sequence, a crash, and   *)
(* the reconciliation of the next start.  The store and the OS processes   *)
(* outlive the daemon; everything else is lost with it.                    *)
(***************************************************************************)
EXTENDS Scheduler

CONSTANTS OrphanPolicy, \* orphan_policy: "kill" or "leave"
          MaxBoots      \* bound: how often the daemon is started

ASSUME DaemonAssumption == OrphanPolicy \in {"kill", "leave"} /\ MaxBoots \in Nat \ {0}

VARIABLES shut,  \* the attempts Shutdown still has to give its intent to
          boots  \* how often the daemon was started

daemonVars == <<shut, boots>>

vars == <<storeVars, slotVars, superVars, schedulerVars, daemonVars>>

(* Every copy of a process record that a row, an attempt, a launcher, a    *)
(* stop request or a dispatch pass holds is well typed.                    *)
TypeOK ==
  /\ StoreTypeOK
  /\ SlotsTypeOK
  /\ SupervisorTypeOK
  /\ SchedulerTypeOK
  /\ shut \subseteq Handles
  /\ boots \in Nat

Init ==
  /\ StoreInit
  /\ NewSlots
  /\ SupervisorInit
  /\ SchedulerInit
  /\ shut = {}
  /\ boots = 1

----------------------------------------------------------------------------
(* Reload: SetRegistry sets the limits one worker at a time.               *)
Reload(w, limit) ==
  /\ mode = "up"
  /\ SetWorkerLimit(w, limit)
  /\ UNCHANGED <<storeVars, superVars, schedulerVars, daemonVars>>

----------------------------------------------------------------------------
(* The shutdown sequence of Daemon.Run.                                    *)

OthersUnchanged == UNCHANGED <<storeVars, slotVars, launches, running, launcher,
                               stopper, hungup, schedulerVars, boots>>

(* SIGTERM cancels the context every request and the dispatch loop use.    *)
Sigterm ==
  /\ "term" \in Faults /\ mode = "up" /\ boots < MaxBoots
  /\ mode' = "term"
  /\ OthersUnchanged /\ UNCHANGED <<exec, shut>>

(* The API stops serving once its requests are answered, or by force when  *)
(* its budget is over; then scheduler.Drain.                               *)
Drain ==
  /\ mode = "term"
  /\ \/ "slowstop" \in Faults
     \/ \A id \in Procs : /\ launcher[id].pc \in {"idle", "done"}
                          /\ stopper[id].pc \in {"idle", "done"}
  /\ mode' = "drain"
  /\ OthersUnchanged /\ UNCHANGED <<exec, shut>>

RunningHandles == {h \in Handles : running[h[1]] = h[2]}

(* Supervisor.Shutdown: draining, and a snapshot of the running map; with  *)
(* nothing in it there is nothing to wait for.                             *)
ShutdownBegins ==
  /\ mode = "drain"
  /\ shut' = RunningHandles
  /\ mode' = IF RunningHandles = {} THEN "exit" ELSE "stop"
  /\ OthersUnchanged /\ UNCHANGED exec

ShutdownIntent(h) ==
  /\ mode = "stop" /\ h \in shut /\ MuFree(h)
  /\ exec' = [exec EXCEPT ![h] = setIntent(@, "shutdown")]
  /\ shut' = shut \ {h}
  /\ OthersUnchanged /\ UNCHANGED mode

(* Every supervise goroutine has returned, or the grace and its slack are  *)
(* over.                                                                   *)
ShutdownEnds ==
  /\ mode = "stop" /\ shut = {}
  /\ \/ "slowstop" \in Faults
     \/ \A h \in Handles : exec[h].sup \in {"none", "done"}
  /\ mode' = "exit"
  /\ OthersUnchanged /\ UNCHANGED <<exec, shut>>

(* What is left when the daemon is gone: a process still alive becomes an  *)
(* orphan, requests and goroutines end where they were.                    *)
PowerOff ==
  /\ mode' = "down"
  /\ exec' = [h \in Handles |->
                CASE exec[h].proc \in {"alive", "orphan"} -> [NoExec EXCEPT !.proc = "orphan"]
                  [] exec[h].proc \in {"zombie", "gone"} -> [NoExec EXCEPT !.proc = "gone"]
                  [] OTHER -> NoExec]
  /\ running' = [id \in Procs |-> 0]
  /\ launcher' = [t \in Launchers |->
                    IF t = Dispatcher \/ launcher[t].pc = "idle" THEN IdleLauncher
                    ELSE DoneLauncher]
  /\ stopper' = [id \in Procs |->
                   IF stopper[id].pc = "idle" THEN IdleStopper ELSE DoneStopper]
  /\ hungup' = {}
  /\ globalUsed' = 0
  /\ workerUsed' = [w \in Workers |-> 0]
  /\ holders' = [id \in Procs |-> NoWorker]
  /\ todo' = {} /\ snap' = [id \in Procs |-> NoProcess]
  /\ shut' = {}
  /\ UNCHANGED <<storeVars, workerMax, launches, boots>>

(* Run returns once the dispatch loop has.                                 *)
Exit ==
  /\ mode = "exit"
  /\ launcher[Dispatcher].pc = "idle" /\ todo = {}
  /\ PowerOff

Crash ==
  /\ "crash" \in Faults /\ mode # "down" /\ boots < MaxBoots
  /\ PowerOff

----------------------------------------------------------------------------
(* The next start: Reconcile visits every unfinished row before anything   *)
(* else runs, so a visit is one step; a crash within one leaves what the   *)
(* next start visits the same way.                                         *)

Boot ==
  /\ mode = "down" /\ boots < MaxBoots
  /\ mode' = "boot"
  /\ boots' = boots + 1
  /\ todo' = UnfinishedProcesses
  /\ UNCHANGED <<storeVars, slotVars, exec, launches, running, launcher, stopper,
                 hungup, snap, shut>>

(* runner.SameProcess: the pid and its start time still name that process. *)
SameProcess(id) ==
  row[id].pid \in 1..MaxLaunches /\ exec[<<id, row[id].pid>>].proc = "orphan"

(* An orphan left alone is retried all the same.                           *)
LeaveOrphan_Retried(id) ==
  /\ UpdateProcess(id, TransitionTo(TransitionTo(row[id], "CRASHED", "daemon_restart"),
                                    "RETRYING", ""))
  /\ UNCHANGED <<locks, exec>>

(* handleOrphan under orphan_policy leave: the work is given up, not redone. *)
LeaveOrphan(id) ==
  /\ UpdateProcess(id, TransitionTo(TransitionTo(row[id], "CRASHED", "daemon_restart"),
                                    "FAILED", "orphaned"))
  /\ ReleaseLock(id)
  /\ UNCHANGED exec

(* The interrupted attempt is recorded, what follows it is not decided.    *)
Recovered_NotSettled(id, reset) == TransitionTo(row[id], "CRASHED", "daemon_restart")

(* recoverInterrupted: a surviving orphan is killed, and the attempt       *)
(* counts as a crash.                                                      *)
Recovered(id, reset) ==
  settle(TransitionTo(row[id], "CRASHED", "daemon_restart"), Def[id].retry,
         exitTrigger(Def[id].type, "failure"), "daemon_restart", reset)

Recover(id, reset) ==
  /\ reset => row[id].pid # 0
  /\ UpdateProcess(id, Recovered(id, reset))
  /\ IF IsTerminal(Recovered(id, reset).state) THEN ReleaseLock(id) ELSE UNCHANGED locks
  /\ IF SameProcess(id)
     THEN exec' = [exec EXCEPT ![<<id, row[id].pid>>].proc = "gone"]
     ELSE UNCHANGED exec

reconcileOne(id, reset) ==
  /\ mode = "boot" /\ Oldest(id)
  /\ \/ /\ row[id].state = "CREATED" /\ ~reset
        /\ UpdateProcess(id, TransitionTo(row[id], "QUEUED", ""))
        /\ UNCHANGED <<locks, exec>>
     \/ /\ row[id].state \in {"QUEUED", "RETRYING"} /\ ~reset
        /\ UNCHANGED <<storeVars, exec>>
     \/ /\ IsActive(row[id].state) /\ SameProcess(id) /\ OrphanPolicy = "leave" /\ ~reset
        /\ LeaveOrphan(id)
     \/ /\ IsActive(row[id].state) /\ ~(SameProcess(id) /\ OrphanPolicy = "leave")
        /\ reset \in Resets(Def[id].retry)
        /\ Recover(id, reset)
  /\ todo' = todo \ {id}
  /\ UNCHANGED <<slotVars, launches, running, launcher, stopper, mode, hungup, snap, daemonVars>>

ReconcileDone ==
  /\ mode = "boot" /\ todo = {}
  /\ mode' = "up"
  /\ UNCHANGED <<storeVars, slotVars, exec, launches, running, launcher, stopper,
                 hungup, schedulerVars, daemonVars>>

----------------------------------------------------------------------------
LauncherStep(t) ==
  /\ \/ StartNext(t) \/ AdmitNext(t)
     \/ t \in Procs /\ SubmitNext(t)
     \/ t = Dispatcher /\ (ExpireUnlock(t) \/ ExpireWrite(t))
  /\ UNCHANGED <<schedulerVars, daemonVars>>

AttemptStep(h) == AttemptNext(h) /\ UNCHANGED <<schedulerVars, daemonVars>>

StopStep(id) ==
  /\ \/ StopNext(id)
     \/ /\ "cancelrace" \in Faults \/ ~BeingStarted(id)
        /\ "stall" \in Faults \/ ~Unsettled(id)
        /\ CancelGet(id)
  /\ UNCHANGED <<schedulerVars, daemonVars>>

DispatchStep ==
  /\ \/ \E due \in SUBSET Retrying : DispatchScan(due)
     \/ \E id \in todo, expired \in BOOLEAN : DispatchNext(id, expired)
  /\ UNCHANGED daemonVars

LifecycleStep ==
  \/ Sigterm \/ Drain \/ ShutdownBegins \/ ShutdownEnds \/ Exit \/ Crash
  \/ \E h \in Handles : ShutdownIntent(h)
  \/ Boot \/ ReconcileDone
  \/ \E id \in todo, reset \in BOOLEAN : reconcileOne(id, reset)

Next ==
  \/ \E t \in Launchers : LauncherStep(t)
  \/ \E h \in Handles : AttemptStep(h)
  \/ \E id \in Procs : StopStep(id)
  \/ DispatchStep
  \/ LifecycleStep
  \/ \E w \in Workers, limit \in Limits : Reload(w, limit)

Spec == Init /\ [][Next]_vars
=============================================================================
