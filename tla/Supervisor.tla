----------------------------- MODULE Supervisor -----------------------------
(***************************************************************************)
(* The supervisor (internal/supervisor): it forks one attempt of an        *)
(* execution, waits for it, classifies its end and persists the outcome,   *)
(* and it carries out stops and timeouts.  The goroutines that take part   *)
(* interleave between any two store calls and between any two critical     *)
(* sections, so each store call and each critical section is one action.   *)
(*                                                                         *)
(*   launcher[t]  a goroutine inside Scheduler.Submit (t an execution id)  *)
(*                or the dispatch loop (t = Dispatcher): where it is, the  *)
(*                execution it is starting and its own copy of it          *)
(*   exec[h]      a supervised attempt: h = <<id, n>> is the n-th launch   *)
(*                of id, together with the OS process it forked, its       *)
(*                supervise goroutine, its timer and the goroutine that    *)
(*                carries out beginStop                                    *)
(*   running[id]  Supervisor.running: the launch registered for id, or 0   *)
(*   stopper[id]  the goroutine serving a user's stop request for id       *)
(*   mode         how far the daemon is from start to exit                 *)
(*   hungup       the submissions whose client went away                   *)
(***************************************************************************)
EXTENDS Store, Slots

CONSTANTS MaxLaunches, \* bound: launches of one execution that are modelled
          Stoppable,   \* the executions a user may ask to stop, once each
          Faults       \* what may go wrong in this instance, see below

(***************************************************************************)
(* Faults and schedules an instance may switch on:                         *)
(*   hangup      the client of a submission disconnects                    *)
(*   starterror  the log files or the process cannot be created            *)
(*   crash       the daemon dies at any point                              *)
(*   term        the daemon is asked to stop (SIGTERM)                     *)
(*   slowstop    a grace runs out: the API closes before its requests are  *)
(*               answered, Shutdown ends before every attempt is recorded  *)
(*   stall       a goroutine that still has to write down or hand back an  *)
(*               attempt is delayed past the backoff of that attempt's     *)
(*               retry, or past a later stop request                       *)
(*   cancelrace  a stop request for an execution that is not running       *)
(*               overlaps the dispatch loop starting that execution        *)
(***************************************************************************)
AllFaults == {"hangup", "starterror", "crash", "term", "slowstop", "stall", "cancelrace"}

ASSUME SupervisorAssumption ==
  /\ MaxLaunches \in Nat \ {0}
  /\ Stoppable \subseteq Procs
  /\ Faults \subseteq AllFaults
  /\ \A id \in Procs : Def[id].worker \in Workers

Dispatcher == 0

Launchers == Procs \cup {Dispatcher}

Handles == Procs \X (1..MaxLaunches)

VARIABLES exec, launches, running, launcher, stopper, mode, hungup

superVars == <<exec, launches, running, launcher, stopper, mode, hungup>>

LauncherPCs ==
  {"idle", "create", "claim", "conflict", "slot", "unclaim", "park", "lock",
   "yield", "unslot", "starting", "start", "fork", "running", "register",
   "abandon", "failunlock", "failwrite", "failsettle", "release", "unlock",
   "expire", "expired", "done"}

Launcher == [pc: LauncherPCs, id: Procs \cup {0}, p: Process, detached: BOOLEAN]

IdleLauncher == [pc |-> "idle", id |-> 0, p |-> NoProcess, detached |-> FALSE]

DoneLauncher == [IdleLauncher EXCEPT !.pc = "done"]

(***************************************************************************)
(* proc: the OS process (alive, exited but not waited for, or alive under  *)
(* a daemon that is gone).  sup: the supervise goroutine, through Wait,    *)
(* delete(running), classify (exec.mu is held from here to the store       *)
(* write), the store write and onSettle.  stop: beginStop, started by      *)
(* whoever won setIntent.                                                  *)
(***************************************************************************)
Exec == [p: Process,
         intent: {"", "user_request", "timeout", "shutdown"},
         proc: {"none", "alive", "zombie", "orphan", "gone"},
         result: Results \cup {"none"},
         timer: {"off", "armed", "fired"},
         sup: {"none", "wait", "reaped", "deleted", "classified", "persisted", "done"},
         stop: {"none", "begin", "signal", "done"}]

NoExec == [p |-> NoProcess, intent |-> "", proc |-> "none", result |-> "none",
           timer |-> "off", sup |-> "none", stop |-> "none"]

Stopper == [pc: {"idle", "lookup", "intent", "get", "release", "write", "settle", "done"},
            pid: Nat, p: Process]

IdleStopper == [pc |-> "idle", pid |-> 0, p |-> NoProcess]

DoneStopper == [IdleStopper EXCEPT !.pc = "done"]

Modes == {"boot", "up", "term", "drain", "stop", "exit", "down"}

SupervisorTypeOK ==
  /\ exec \in [Handles -> Exec]
  /\ launches \in [Procs -> 0..MaxLaunches]
  /\ running \in [Procs -> Nat]
  /\ launcher \in [Launchers -> Launcher]
  /\ stopper \in [Procs -> Stopper]
  /\ mode \in Modes
  /\ hungup \subseteq Procs

SupervisorInit ==
  /\ exec = [h \in Handles |-> NoExec]
  /\ launches = [id \in Procs |-> 0]
  /\ running = [id \in Procs |-> 0]
  /\ launcher = [t \in Launchers |-> IdleLauncher]
  /\ stopper = [id \in Procs |-> IdleStopper]
  /\ mode = "up"
  /\ hungup = {}

Live == mode \notin {"boot", "down"}

SchedulerDraining == mode \in {"drain", "stop", "exit"}

SupervisorDraining == mode \in {"stop", "exit"}

(* A request's context derives from the daemon's, which SIGTERM cancels;   *)
(* a store call or a fork under a cancelled context fails.                 *)
CtxDone(t) == ~launcher[t].detached /\ (mode # "up" \/ t \in hungup)

Handle(t) == <<launcher[t].id, launcher[t].p.pid>>

At(t, pc) == Live /\ launcher[t].pc = pc

Goto(t, pc) == launcher' = [launcher EXCEPT ![t].pc = pc]

GotoWith(t, pc, p) == launcher' = [launcher EXCEPT ![t].pc = pc, ![t].p = p]

Return(t) ==
  launcher' = [launcher EXCEPT ![t] =
                 IF t = Dispatcher THEN IdleLauncher ELSE DoneLauncher]

(* exec.mu is free unless finish is between classify and its store write.  *)
MuFree(h) == exec[h].sup # "classified"

(* A service gives its slot up between a crash and its restart.            *)
OnExecutionSettled_Always(id, state) == Release(id)

(* Scheduler.OnExecutionSettled, the supervisor's onSettle callback.       *)
OnExecutionSettled(id, state) ==
  IF Def[id].type = "service" /\ state = "RETRYING"
  THEN UNCHANGED slotVars
  ELSE Release(id)

----------------------------------------------------------------------------
(* Supervisor.Start, called by a launcher that holds slot and lock.        *)

StartDraining(t) ==
  /\ At(t, "start") /\ SupervisorDraining
  /\ Goto(t, "release")
  /\ UNCHANGED <<storeVars, slotVars, exec, launches, running, stopper, mode, hungup>>

StartAccepted(t) ==
  /\ At(t, "start") /\ ~SupervisorDraining
  /\ Goto(t, "fork")
  /\ UNCHANGED <<storeVars, slotVars, exec, launches, running, stopper, mode, hungup>>

(* startFailed: CRASHED, then settle; the lock goes when that is final.    *)
StartFailure(id, p) ==
  settle(TransitionTo(p, "CRASHED", "start_error"), Def[id].retry,
         "start_error", "start_error", FALSE)

GotoFailed(t, p, detached) ==
  launcher' = [launcher EXCEPT
                 ![t].p = StartFailure(launcher[t].id, p),
                 ![t].detached = detached,
                 ![t].pc = IF IsTerminal(StartFailure(launcher[t].id, p).state)
                           THEN "failunlock" ELSE "failwrite"]

Fork(t) ==
  LET n == launches[launcher[t].id]
      p == [TransitionTo(launcher[t].p, "RUNNING", "") EXCEPT !.pid = n]
  IN  /\ At(t, "fork") /\ ~CtxDone(t)
      /\ exec' = [exec EXCEPT ![<<launcher[t].id, n>>] =
                    [NoExec EXCEPT !.proc = "alive", !.p = p]]
      /\ GotoWith(t, "running", p)
      /\ UNCHANGED <<storeVars, slotVars, launches, running, stopper, mode, hungup>>

ForkFails(t) ==
  /\ At(t, "fork")
  /\ CtxDone(t) \/ "starterror" \in Faults
  /\ GotoFailed(t, launcher[t].p, launcher[t].detached)
  /\ UNCHANGED <<storeVars, slotVars, exec, launches, running, stopper, mode, hungup>>

PersistRunning(t) ==
  /\ At(t, "running") /\ ~CtxDone(t)
  /\ UpdateProcess(launcher[t].id, launcher[t].p)
  /\ Goto(t, "register")
  /\ UNCHANGED <<locks, slotVars, exec, launches, running, stopper, mode, hungup>>

PersistRunningFails(t) ==
  /\ At(t, "running") /\ CtxDone(t)
  /\ Goto(t, "abandon")
  /\ UNCHANGED <<storeVars, slotVars, exec, launches, running, stopper, mode, hungup>>

(* The attempt enters the running map and its supervise goroutine starts,  *)
(* which arms the timeout.                                                 *)
Register(t) ==
  /\ At(t, "register")
  /\ running' = [running EXCEPT ![launcher[t].id] = launcher[t].p.pid]
  /\ exec' = [exec EXCEPT ![Handle(t)].sup = "wait",
                          ![Handle(t)].timer =
                             IF Def[launcher[t].id].timeout THEN "armed" ELSE "off"]
  /\ Return(t)
  /\ UNCHANGED <<storeVars, slotVars, launches, stopper, mode, hungup>>

(* Nothing stops the process that could not be taken under supervision.    *)
AbandonStart_NoKill(t) ==
  /\ At(t, "abandon")
  /\ GotoFailed(t, [launcher[t].p EXCEPT !.pid = 0], TRUE)
  /\ UNCHANGED <<storeVars, slotVars, exec, launches, running, stopper, mode, hungup>>

(* abandonStart kills and reaps the process, then reports a start failure  *)
(* under a context nothing cancels.                                        *)
AbandonStart(t) ==
  /\ At(t, "abandon")
  /\ exec' = [exec EXCEPT ![Handle(t)] = [NoExec EXCEPT !.proc = "gone"]]
  /\ GotoFailed(t, [launcher[t].p EXCEPT !.pid = 0], TRUE)
  /\ UNCHANGED <<storeVars, slotVars, launches, running, stopper, mode, hungup>>

FailUnlock(t) ==
  /\ At(t, "failunlock")
  /\ IF CtxDone(t) THEN UNCHANGED locks ELSE ReleaseLock(launcher[t].id)
  /\ Goto(t, "failwrite")
  /\ UNCHANGED <<row, slotVars, exec, launches, running, stopper, mode, hungup>>

FailWrite(t) ==
  /\ At(t, "failwrite")
  /\ IF CtxDone(t)
     THEN Goto(t, "release") /\ UNCHANGED row
     ELSE Goto(t, "failsettle") /\ UpdateProcess(launcher[t].id, launcher[t].p)
  /\ UNCHANGED <<locks, slotVars, exec, launches, running, stopper, mode, hungup>>

FailSettle(t) ==
  /\ At(t, "failsettle")
  /\ OnExecutionSettled(launcher[t].id, launcher[t].p.state)
  /\ Return(t)
  /\ UNCHANGED <<storeVars, exec, launches, running, stopper, mode, hungup>>

StartNext(t) ==
  \/ StartDraining(t) \/ StartAccepted(t) \/ Fork(t) \/ ForkFails(t)
  \/ PersistRunning(t) \/ PersistRunningFails(t) \/ Register(t)
  \/ AbandonStart(t) \/ FailUnlock(t) \/ FailWrite(t) \/ FailSettle(t)
----------------------------------------------------------------------------
(* supervise and finish: one action per critical section or store call.    *)

InPhase(h, phase) == Live /\ exec[h].sup = phase

(* The process ends by itself, or because it was signalled.                *)
ProcExit(h, result) ==
  /\ exec[h].proc = "alive"
  /\ exec' = [exec EXCEPT ![h].proc = "zombie", ![h].result = result]
  /\ UNCHANGED <<storeVars, slotVars, launches, running, launcher, stopper, mode, hungup>>

OrphanExit(h) ==
  /\ exec[h].proc = "orphan"
  /\ exec' = [exec EXCEPT ![h].proc = "gone"]
  /\ UNCHANGED <<storeVars, slotVars, launches, running, launcher, stopper, mode, hungup>>

(* Wait returns; the timer is stopped, which does not call back one that   *)
(* has fired already.                                                      *)
WaitReturns(h) ==
  /\ InPhase(h, "wait") /\ exec[h].proc = "zombie"
  /\ exec' = [exec EXCEPT ![h].proc = "gone", ![h].sup = "reaped",
                          ![h].timer = IF @ = "armed" THEN "off" ELSE @]
  /\ UNCHANGED <<storeVars, slotVars, launches, running, launcher, stopper, mode, hungup>>

(* delete(s.running, p.ID): by id, whatever is registered under it.        *)
Unregister(h) ==
  /\ InPhase(h, "reaped")
  /\ running' = [running EXCEPT ![h[1]] = 0]
  /\ exec' = [exec EXCEPT ![h].sup = "deleted"]
  /\ UNCHANGED <<storeVars, slotVars, launches, launcher, stopper, mode, hungup>>

Outcome(h, reset) ==
  classify(exec[h].p, Def[h[1]].type, Def[h[1]].retry, exec[h].intent,
           exec[h].result, reset)

(* The lock is never given back.                                           *)
Classify_KeepsLock(h, reset) ==
  /\ InPhase(h, "deleted") /\ reset \in Resets(Def[h[1]].retry)
  /\ exec' = [exec EXCEPT ![h].p = Outcome(h, reset), ![h].sup = "classified",
                          ![h].result = "none"]
  /\ UNCHANGED <<storeVars, slotVars, launches, running, launcher, stopper, mode, hungup>>

(* classify, with the lock it releases when the outcome is final.          *)
Classify(h, reset) ==
  /\ InPhase(h, "deleted") /\ reset \in Resets(Def[h[1]].retry)
  /\ exec' = [exec EXCEPT ![h].p = Outcome(h, reset), ![h].sup = "classified",
                          ![h].result = "none"]
  /\ IF IsTerminal(Outcome(h, reset).state) THEN ReleaseLock(h[1]) ELSE UNCHANGED locks
  /\ UNCHANGED <<row, slotVars, launches, running, launcher, stopper, mode, hungup>>

PersistOutcome(h) ==
  /\ InPhase(h, "classified")
  /\ UpdateProcess(h[1], exec[h].p)
  /\ exec' = [exec EXCEPT ![h].sup = "persisted"]
  /\ UNCHANGED <<locks, slotVars, launches, running, launcher, stopper, mode, hungup>>

Settle(h) ==
  /\ InPhase(h, "persisted")
  /\ OnExecutionSettled(h[1], exec[h].p.state)
  /\ exec' = [exec EXCEPT ![h].sup = "done"]
  /\ UNCHANGED <<storeVars, launches, running, launcher, stopper, mode, hungup>>

----------------------------------------------------------------------------
(* Timeouts and stops.                                                     *)

(* The last reason wins and the stop starts over.                          *)
setIntent_LastWins(e, reason) == [e EXCEPT !.intent = reason, !.stop = "begin"]

(* setIntent: the first reason wins, and its caller runs beginStop.        *)
setIntent(e, reason) ==
  IF e.intent = "" THEN [e EXCEPT !.intent = reason, !.stop = "begin"] ELSE e

TimerFires(h) ==
  /\ Live /\ exec[h].timer = "armed"
  /\ exec' = [exec EXCEPT ![h].timer = "fired"]
  /\ UNCHANGED <<storeVars, slotVars, launches, running, launcher, stopper, mode, hungup>>

(* The callback of time.AfterFunc gets to setIntent.                       *)
TimeoutIntent(h) ==
  /\ Live /\ exec[h].timer = "fired" /\ MuFree(h)
  /\ exec' = [exec EXCEPT ![h] = setIntent([@ EXCEPT !.timer = "off"], "timeout")]
  /\ UNCHANGED <<storeVars, slotVars, launches, running, launcher, stopper, mode, hungup>>

(* The slot is given back when the stop begins, not when the process ends. *)
BeginStop_FreesSlot(h) ==
  LET p == IF exec[h].p.state = "RUNNING"
           THEN TransitionTo(exec[h].p, "STOPPING", exec[h].intent) ELSE exec[h].p
  IN  /\ Live /\ exec[h].stop = "begin" /\ MuFree(h)
      /\ exec' = [exec EXCEPT ![h].p = p, ![h].stop = "signal"]
      /\ UpdateProcess(h[1], p)
      /\ Release(h[1])
      /\ UNCHANGED <<locks, launches, running, launcher, stopper, mode, hungup>>

(* The request is written down and the process group is never signalled.   *)
BeginStop_NoSignal(h) ==
  LET p == IF exec[h].p.state = "RUNNING"
           THEN TransitionTo(exec[h].p, "STOPPING", exec[h].intent) ELSE exec[h].p
  IN  /\ Live /\ exec[h].stop = "begin" /\ MuFree(h)
      /\ exec' = [exec EXCEPT ![h].p = p, ![h].stop = "none"]
      /\ UpdateProcess(h[1], p)
      /\ UNCHANGED <<locks, slotVars, launches, running, launcher, stopper, mode, hungup>>

(* beginStop writes the execution down, in whatever state it is by now.    *)
BeginStop(h) ==
  LET p == IF exec[h].p.state = "RUNNING"
           THEN TransitionTo(exec[h].p, "STOPPING", exec[h].intent) ELSE exec[h].p
  IN  /\ Live /\ exec[h].stop = "begin" /\ MuFree(h)
      /\ exec' = [exec EXCEPT ![h].p = p, ![h].stop = "signal"]
      /\ UpdateProcess(h[1], p)
      /\ UNCHANGED <<locks, slotVars, launches, running, launcher, stopper, mode, hungup>>

(* runner.Stop: SIGTERM to the group, SIGKILL after the grace.             *)
SignalGroup(h) ==
  /\ Live /\ exec[h].stop = "signal"
  /\ exec' = [exec EXCEPT ![h].stop = "done"]
  /\ UNCHANGED <<storeVars, slotVars, launches, running, launcher, stopper, mode, hungup>>

GotoStopper(id, pc) == stopper' = [stopper EXCEPT ![id].pc = pc]

ReturnStopper(id) == stopper' = [stopper EXCEPT ![id] = DoneStopper]

(* A user asks to stop an execution that exists.                           *)
RequestStop(id) ==
  /\ mode = "up" /\ id \in Stoppable
  /\ stopper[id].pc = "idle" /\ row[id].state # NONE
  /\ GotoStopper(id, "lookup")
  /\ UNCHANGED <<storeVars, slotVars, exec, launches, running, launcher, mode, hungup>>

StopLookup(id) ==
  /\ Live /\ stopper[id].pc = "lookup"
  /\ stopper' = [stopper EXCEPT ![id].pc = IF running[id] = 0 THEN "get" ELSE "intent",
                                ![id].pid = running[id]]
  /\ UNCHANGED <<storeVars, slotVars, exec, launches, running, launcher, mode, hungup>>

StopIntent(id) ==
  LET h == <<id, stopper[id].pid>>
  IN  /\ Live /\ stopper[id].pc = "intent" /\ MuFree(h)
      /\ exec' = [exec EXCEPT ![h] = setIntent(@, "user_request")]
      /\ ReturnStopper(id)
      /\ UNCHANGED <<storeVars, slotVars, launches, running, launcher, mode, hungup>>
(* cancelPending, for an execution that is not in the running map.  It     *)
(* decides on the row it read, releases the lock, overwrites the row and   *)
(* gives the slot back: four separate calls.                               *)
CancelGet(id) ==
  /\ Live /\ stopper[id].pc = "get"
  /\ IF mode = "up" /\ row[id].state \in {"CREATED", "QUEUED", "RETRYING"}
     THEN stopper' = [stopper EXCEPT
                        ![id].pc = "release",
                        ![id].p = TransitionTo(row[id], "CANCELED", "user_request")]
     ELSE ReturnStopper(id)
  /\ UNCHANGED <<storeVars, slotVars, exec, launches, running, launcher, mode, hungup>>

CancelRelease(id) ==
  /\ Live /\ stopper[id].pc = "release"
  /\ IF mode = "up" THEN ReleaseLock(id) ELSE UNCHANGED locks
  /\ GotoStopper(id, "write")
  /\ UNCHANGED <<row, slotVars, exec, launches, running, launcher, mode, hungup>>

CancelWrite(id) ==
  /\ Live /\ stopper[id].pc = "write"
  /\ IF mode = "up"
     THEN UpdateProcess(id, stopper[id].p) /\ GotoStopper(id, "settle")
     ELSE UNCHANGED row /\ ReturnStopper(id)
  /\ UNCHANGED <<locks, slotVars, exec, launches, running, launcher, mode, hungup>>

(* A stop that only writes CANCELED down and keeps the slot of a service   *)
(* it stopped in its backoff.                                              *)
CancelSettle_KeepsSlot(id) ==
  /\ Live /\ stopper[id].pc = "settle"
  /\ ReturnStopper(id)
  /\ UNCHANGED <<storeVars, slotVars, exec, launches, running, launcher, mode, hungup>>

CancelSettle(id) ==
  /\ Live /\ stopper[id].pc = "settle"
  /\ OnExecutionSettled(id, stopper[id].p.state)
  /\ ReturnStopper(id)
  /\ UNCHANGED <<storeVars, exec, launches, running, launcher, mode, hungup>>

----------------------------------------------------------------------------
(* The steps of the supervisor's own goroutines; CancelGet is composed     *)
(* with the scheduler in the module Daemon.                                *)
AttemptNext(h) ==
  \/ \E result \in Results : ProcExit(h, result)
  \/ OrphanExit(h) \/ WaitReturns(h) \/ Unregister(h)
  \/ \E reset \in BOOLEAN : Classify(h, reset)
  \/ PersistOutcome(h) \/ Settle(h)
  \/ TimerFires(h) \/ TimeoutIntent(h) \/ BeginStop(h) \/ SignalGroup(h)

StopNext(id) ==
  \/ RequestStop(id) \/ StopLookup(id) \/ StopIntent(id)
  \/ CancelRelease(id) \/ CancelWrite(id) \/ CancelSettle(id)
=============================================================================
