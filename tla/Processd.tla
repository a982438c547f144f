------------------------------ MODULE Processd ------------------------------
(***************************************************************************)
(* What the daemon as a whole must guarantee, and the fairness under which *)
(* it makes progress.                                                      *)
(***************************************************************************)
EXTENDS Daemon

Alive == {h \in Handles : exec[h].proc = "alive"}

(* An OS process that exists, under this daemon or left by an earlier one. *)
Exists(h) == exec[h].proc \in {"alive", "orphan"}

(* The node never runs more processes than max_processes: the slot table   *)
(* bounds holders, this bounds the processes themselves.                   *)
ProcessBound == Cardinality(Alive) <= MaxProcesses

(* A process this daemon runs is covered by the slot and by the lock of    *)
(* its execution, from the fork until it is gone, whatever requests, stops *)
(* and retries do meanwhile.                                               *)
AliveIsCovered == \A h \in Alive : Holds(h[1]) /\ HoldsLock(h[1])

(* Two executions with the same lock key never have a process at the same  *)
(* time.                                                                   *)
LockExclusion ==
  \A h, g \in Alive :
     h[1] # g[1] /\ Def[h[1]].lock = Def[g[1]].lock => Def[h[1]].lock = NoLock

(* An execution has at most one process, orphans of an earlier daemon      *)
(* included: the same work never runs twice at a time.                     *)
OneProcess ==
  \A h, g \in Handles : Exists(h) /\ Exists(g) /\ h[1] = g[1] => h = g

(* A process the store knows of outlives a restart only where the orphan   *)
(* policy leaves it alone, and then its execution is over: it is never     *)
(* retried beside it.                                                      *)
KnownOrphansSettled ==
  \A id \in Procs :
     Live /\ row[id].pid # 0 /\ exec[<<id, row[id].pid>>].proc = "orphan"
       => OrphanPolicy = "leave" /\ row[id].state = "FAILED"

(* Where a launcher, or a supervise goroutine, still has to give back the  *)
(* slot of its execution.                                                  *)
UsingPCs == {"lock", "yield", "unslot", "starting", "start", "fork", "running", "register",
             "abandon", "failunlock", "failwrite", "failsettle", "release"}

UsingPhases == {"wait", "reaped", "deleted", "classified", "persisted"}

SlotUser(id) ==
  \/ \E t \in Launchers : launcher[t].id = id /\ launcher[t].pc \in UsingPCs
  \/ \E n \in 1..MaxLaunches : exec[<<id, n>>].sup \in UsingPhases

(* The slot of a task is held only while some goroutine is on its way to   *)
(* giving it back: no path through a failed start, a lost request, a stop  *)
(* or a retry leaks it.                                                    *)
TaskSlotNotLeaked ==
  \A id \in Procs : Def[id].type = "task" /\ Holds(id) => SlotUser(id)

(* A service keeps its slot between attempts, but for nothing else.        *)
ServiceSlotNotLeaked ==
  \A id \in Procs :
     Def[id].type = "service" /\ Holds(id)
       => \/ SlotUser(id)
          \/ row[id].state = "RETRYING"
          \/ stopper[id].pc = "settle"

(* A service in its backoff still has its slot (slots.go, Slots).          *)
ServiceKeepsSlot ==
  \A id \in Procs :
     mode = "up" /\ Def[id].type = "service" /\ row[id].state = "RETRYING"
       => Holds(id)

(* A finished execution holds no lock.                                     *)
TerminalHoldsNoLock ==
  \A id \in Procs, k \in LockKeys : IsTerminal(row[id].state) => locks[k] # id

(* A lock belongs to an attempt or to the retry that follows it, never to  *)
(* an execution nothing will start or finish: otherwise every later        *)
(* execution with that key waits for ever.                                 *)
LockNotStranded ==
  \A k \in LockKeys :
     locks[k] # 0
       => LET id == locks[k]
          IN  BeingStarted(id) \/ SlotUser(id) \/ row[id].state = "RETRYING"

(* CRASHED is a step on the way to an outcome, never one a reader of the   *)
(* store sees.                                                             *)
CrashedNotPersisted == \A id \in Procs : row[id].state # "CRASHED"

(* Terminal states are immutable.                                          *)
TerminalImmutable ==
  [][\A id \in Procs : IsTerminal(row[id].state) => row'[id].state = row[id].state]_row

(* A stop that a user asked for has been taken: it is the reason the       *)
(* attempt's supervisor knows and has not decided without (setIntent keeps *)
(* the first reason), or the row says STOPPING for it.                     *)
StopTaken(id) ==
  \/ row[id].state = "STOPPING" /\ row[id].reason = "user_request"
  \/ \E n \in 1..MaxLaunches :
       /\ exec[<<id, n>>].intent = "user_request"
       /\ exec[<<id, n>>].sup \in {"wait", "reaped", "deleted", "classified"}

(* A user-requested stop never triggers a retry, once it was taken: from   *)
(* then on no exit, no timeout and no retry policy makes the execution     *)
(* RETRYING.  Stop also answers with success when a timeout was the first  *)
(* reason, or the outcome is already decided: those are not taken.         *)
UserStopNeverRetries ==
  [][\A id \in Procs : StopTaken(id) => row'[id].state # "RETRYING"]_row

(* Queued executions stay queued when the daemon stops (scheduler.go,      *)
(* Drain): the dispatch loop is never done with an execution while the     *)
(* store still says STARTING, which the next start takes for a crash.      *)
QueuedStaysQueued ==
  [][LET id == launcher[Dispatcher].id
     IN  id # 0 /\ launcher'[Dispatcher].id # id /\ mode' # "down"
           => row'[id].state # "STARTING"]_launcher

Lifecycle == INSTANCE Execution WITH
  state <- [id \in Procs |-> row[id].state],
  attempt <- [id \in Procs |-> row[id].attempt],
  Budget <- [id \in Procs |-> EffectiveAttempts(Def[id].retry)]

(* The rows of the store implement the lifecycle of the module Execution:  *)
(* the edges of core/state.go, within the attempt budget.                  *)
ImplementsLifecycle == Lifecycle!Spec

----------------------------------------------------------------------------
(***************************************************************************)
(* Fairness.  Goroutines are scheduled, so every step of a goroutine that  *)
(* stays possible is taken; an armed timer fires; a process group that was *)
(* signalled is eventually killed; the dispatch loop's ticker never stops, *)
(* and a backoff, once over, stays over, so a row that stays pending is    *)
(* seen by some pass.  A supervisor of the node restarts the daemon.       *)
(* Nothing is assumed of users, of clients or of a process nobody stops.   *)
(***************************************************************************)
Killed(h) ==
  /\ exec[h].stop = "done"
  /\ \E result \in Results : ProcExit(h, result)
  /\ UNCHANGED <<schedulerVars, daemonVars>>

GoroutineStep(h) ==
  /\ \/ WaitReturns(h) \/ Unregister(h)
     \/ \E reset \in BOOLEAN : Classify(h, reset)
     \/ PersistOutcome(h) \/ Settle(h)
  /\ UNCHANGED <<schedulerVars, daemonVars>>

StoppingStep(h) ==
  /\ TimerFires(h) \/ TimeoutIntent(h) \/ BeginStop(h) \/ SignalGroup(h)
  /\ UNCHANGED <<schedulerVars, daemonVars>>

LaunchStep(t) ==
  /\ launcher[t].pc # "idle"
  /\ LauncherStep(t)
  /\ UNCHANGED hungup

PassOver(id) ==
  /\ \E due \in SUBSET Retrying : id \in Queued \cup due /\ DispatchScan(due)
  /\ UNCHANGED daemonVars

Visit ==
  /\ \E id \in todo, expired \in BOOLEAN : DispatchNext(id, expired)
  /\ UNCHANGED daemonVars

StoppingOf(id) == stopper[id].pc # "idle" /\ StopStep(id)

LifecycleFair ==
  \/ Drain \/ ShutdownBegins \/ ShutdownEnds \/ Exit \/ Boot \/ ReconcileDone
  \/ \E h \in Handles : ShutdownIntent(h)
  \/ \E id \in todo, reset \in BOOLEAN : reconcileOne(id, reset)

Fairness ==
  /\ \A t \in Launchers : WF_vars(LaunchStep(t))
  /\ \A h \in Handles : WF_vars(GoroutineStep(h)) /\ WF_vars(StoppingStep(h))
                        /\ WF_vars(Killed(h))
  /\ \A id \in Procs : SF_vars(PassOver(id)) /\ WF_vars(StoppingOf(id))
  /\ WF_vars(Visit)
  /\ WF_vars(LifecycleFair)

FairSpec == Spec /\ Fairness

(* Every task that was accepted is eventually COMPLETED, FAILED or         *)
(* CANCELED: neither the slots, the locks, the retries nor a restart leave *)
(* one waiting for ever.                                                   *)
TasksSettle ==
  \A id \in Procs :
     Def[id].type = "task" /\ row[id].state # NONE ~> IsTerminal(row[id].state)

(* A stop of a running attempt takes effect: the execution ends CANCELED   *)
(* even if the process ignores SIGTERM.                                    *)
StopTakesEffect ==
  \A h \in Handles :
     exec[h].intent = "user_request" /\ exec[h].sup = "wait"
       ~> row[h[1]].state = "CANCELED"
=============================================================================
