---------------------------- MODULE DaemonProofs ----------------------------
(***************************************************************************)
(* The daemon for every set of executions, every definition, every bound   *)
(* and every combination of faults.  First the slot table by itself, whose *)
(* lemmas about Acquire and Release are stated for one step of the table   *)
(* and cited by the rest; then types, exact and bounded slots and no       *)
(* CRASHED row; then that no task slot leaks.                              *)
(***************************************************************************)
EXTENDS Processd, FiniteSetTheorems, TLAPS

----------------------------------------------------------------------------
(* The slot table.                                                         *)

(* The counters are exact and within the node-wide limit: inductive.       *)
SlotsInv == SlotsTypeOK /\ SlotAccounting /\ SlotBound

(* The sets of holders are finite, so that they can be counted.            *)
LEMMA HoldersFinite ==
  /\ IsFiniteSet(Holders)
  /\ \A w : IsFiniteSet(HoldersOf(w))
  /\ IsFiniteSet(Holders')
  /\ \A w : IsFiniteSet(HoldersOf(w)')
BY FS_Subset, ProcsAssumption DEF Holders, HoldersOf

(* One execution gains a holder's place: the counts change by one where it *)
(* belongs and nowhere else.                                               *)
LEMMA HolderAdded ==
  ASSUME SlotsTypeOK, NEW id \in Procs, NEW w \in Workers, ~Holds(id),
         holders' = [holders EXCEPT ![id] = w]
  PROVE  /\ Cardinality(Holders') = Cardinality(Holders) + 1
         /\ Cardinality(HoldersOf(w)') = Cardinality(HoldersOf(w)) + 1
         /\ \A v \in Workers \ {w} : HoldersOf(v)' = HoldersOf(v)
<1>1. Holders' = Holders \cup {id} /\ id \notin Holders
  BY WorkersAssumption DEF SlotsTypeOK, Holders, Holds
<1>2. HoldersOf(w)' = HoldersOf(w) \cup {id} /\ id \notin HoldersOf(w)
  BY WorkersAssumption DEF SlotsTypeOK, HoldersOf, Holds
<1>3. \A v \in Workers \ {w} : HoldersOf(v)' = HoldersOf(v)
  BY WorkersAssumption DEF SlotsTypeOK, HoldersOf, Holds
<1>4. QED
  BY <1>1, <1>2, <1>3, HoldersFinite, FS_AddElement

(* One holder gives its place back.                                        *)
LEMMA HolderRemoved ==
  ASSUME SlotsTypeOK, NEW id \in Procs, NEW w \in Workers, holders[id] = w,
         holders' = [holders EXCEPT ![id] = NoWorker]
  PROVE  /\ Cardinality(Holders') = Cardinality(Holders) - 1
         /\ Cardinality(HoldersOf(w)') = Cardinality(HoldersOf(w)) - 1
         /\ \A v \in Workers \ {w} : HoldersOf(v)' = HoldersOf(v)
<1>1. Holders' = Holders \ {id} /\ id \in Holders
  BY WorkersAssumption DEF SlotsTypeOK, Holders, Holds
<1>2. HoldersOf(w)' = HoldersOf(w) \ {id} /\ id \in HoldersOf(w)
  BY WorkersAssumption DEF SlotsTypeOK, HoldersOf
<1>3. \A v \in Workers \ {w} : HoldersOf(v)' = HoldersOf(v)
  BY WorkersAssumption DEF SlotsTypeOK, HoldersOf
<1>4. QED
  BY <1>1, <1>2, <1>3, HoldersFinite, FS_RemoveElement

(* A successful TryAcquire keeps the counters exact and within the limit.  *)
LEMMA AcquireStep ==
  ASSUME SlotsInv, NEW id \in Procs, NEW w \in Workers, CanAcquire(id, w), Acquire(id, w)
  PROVE  SlotsInv'
<1>1. CASE Holds(id)
  BY <1>1 DEF SlotsInv, Acquire, slotVars, SlotsTypeOK, SlotAccounting, SlotBound,
              Holders, HoldersOf, Holds
<1>2. CASE ~Holds(id)
  <2>1. /\ globalUsed' = globalUsed + 1
        /\ workerUsed' = [workerUsed EXCEPT ![w] = @ + 1]
        /\ holders' = [holders EXCEPT ![id] = w]
        /\ workerMax' = workerMax
        /\ globalUsed < MaxProcesses
    BY <1>2 DEF Acquire, CanAcquire
  <2>2. SlotsTypeOK'
    BY <2>1 DEF SlotsInv, SlotsTypeOK
  <2>3. /\ Cardinality(Holders') = Cardinality(Holders) + 1
        /\ Cardinality(HoldersOf(w)') = Cardinality(HoldersOf(w)) + 1
        /\ \A v \in Workers \ {w} : HoldersOf(v)' = HoldersOf(v)
    BY <1>2, <2>1, HolderAdded DEF SlotsInv
  <2>4. globalUsed' = Cardinality(Holders')
    BY <2>1, <2>3 DEF SlotsInv, SlotAccounting
  <2>5. ASSUME NEW v \in Workers
        PROVE  workerUsed'[v] = Cardinality(HoldersOf(v)')
    BY <2>1, <2>3 DEF SlotsInv, SlotAccounting, SlotsTypeOK
  <2>6. SlotAccounting'
    BY <2>4, <2>5 DEF SlotAccounting
  <2>7. SlotBound'
    BY <2>1, <2>4, LimitsAssumption DEF SlotsInv, SlotsTypeOK, SlotBound
  <2>8. QED
    BY <2>2, <2>6, <2>7 DEF SlotsInv
<1>3. QED
  BY <1>1, <1>2

(* Release, of a holder or not, does too; the floors are never needed.     *)
LEMMA ReleaseStep ==
  ASSUME SlotsInv, NEW id \in Procs, Release(id)
  PROVE  SlotsInv' /\ ~Holds(id)'
<1>1. CASE ~Holds(id)
  BY <1>1 DEF SlotsInv, Release, slotVars, SlotsTypeOK, SlotAccounting, SlotBound,
              Holders, HoldersOf, Holds
<1>2. CASE Holds(id)
  <2> PICK w \in Workers : holders[id] = w
    BY <1>2 DEF SlotsInv, SlotsTypeOK, Holds
  <2>1. /\ holders' = [holders EXCEPT ![id] = NoWorker]
        /\ globalUsed' = IF globalUsed > 0 THEN globalUsed - 1 ELSE globalUsed
        /\ workerUsed' = IF workerUsed[w] > 0
                         THEN [workerUsed EXCEPT ![w] = @ - 1] ELSE workerUsed
        /\ workerMax' = workerMax
    BY <1>2 DEF Release
  <2>2. /\ Cardinality(Holders') = Cardinality(Holders) - 1
        /\ Cardinality(HoldersOf(w)') = Cardinality(HoldersOf(w)) - 1
        /\ \A v \in Workers \ {w} : HoldersOf(v)' = HoldersOf(v)
    BY <1>2, <2>1, HolderRemoved DEF SlotsInv
  <2>3. /\ Cardinality(Holders') \in Nat /\ Cardinality(HoldersOf(w)') \in Nat
        /\ Cardinality(Holders) \in Nat /\ Cardinality(HoldersOf(w)) \in Nat
    BY HoldersFinite, FS_CardinalityType
  <2>4. globalUsed > 0 /\ workerUsed[w] > 0
    BY <2>2, <2>3 DEF SlotsInv, SlotAccounting
  <2>5. /\ globalUsed' = globalUsed - 1
        /\ workerUsed' = [workerUsed EXCEPT ![w] = @ - 1]
    BY <2>1, <2>4
  <2>6. SlotsTypeOK'
    BY <2>1, <2>2, <2>4, <2>5 DEF SlotsInv, SlotsTypeOK
  <2>7. globalUsed' = Cardinality(Holders')
    BY <2>2, <2>3, <2>5 DEF SlotsInv, SlotAccounting
  <2>8. ASSUME NEW v \in Workers
        PROVE  workerUsed'[v] = Cardinality(HoldersOf(v)')
    BY <2>2, <2>3, <2>5 DEF SlotsInv, SlotAccounting, SlotsTypeOK
  <2>9. SlotAccounting'
    BY <2>7, <2>8 DEF SlotAccounting
  <2>10. SlotBound'
    BY <2>2, <2>3, LimitsAssumption DEF SlotsInv, SlotBound
  <2>11. ~Holds(id)'
    BY <2>1 DEF SlotsInv, SlotsTypeOK, Holds
  <2>12. QED
    BY <2>6, <2>9, <2>10, <2>11 DEF SlotsInv
<1>3. QED
  BY <1>1, <1>2

(* A changed limit touches no counter.                                     *)
LEMMA LimitStep ==
  ASSUME SlotsInv, NEW w \in Workers, NEW limit \in Limits, SetWorkerLimit(w, limit)
  PROVE  SlotsInv'
BY DEF SlotsInv, SetWorkerLimit, SlotsTypeOK, SlotAccounting, SlotBound, Holders,
       HoldersOf, Holds

(* An empty table is correct, whatever the limits.                         *)
LEMMA EmptyTable ==
  ASSUME globalUsed = 0, workerUsed = [w \in Workers |-> 0],
         workerMax \in [Workers -> Limits], holders = [id \in Procs |-> NoWorker]
  PROVE  SlotsInv
<1>1. SlotsTypeOK
  BY DEF SlotsTypeOK
<1>2. Holders = {}
  BY DEF Holders, Holds
<1>3. \A w \in Workers : HoldersOf(w) = {}
  BY WorkersAssumption DEF HoldersOf
<1>4. Cardinality({}) = 0
  BY FS_EmptySet
<1>5. SlotAccounting
  BY <1>2, <1>3, <1>4 DEF SlotAccounting
<1>6. SlotBound
  BY <1>2, <1>4, LimitsAssumption DEF SlotBound
<1>7. QED
  BY <1>1, <1>5, <1>6 DEF SlotsInv

(* So is one that was emptied.                                             *)
LEMMA TableEmptied ==
  ASSUME globalUsed' = 0, workerUsed' = [w \in Workers |-> 0],
         workerMax' \in [Workers -> Limits], holders' = [id \in Procs |-> NoWorker]
  PROVE  SlotsInv'
<1>1. SlotsTypeOK'
  BY DEF SlotsTypeOK
<1>2. Holders' = {}
  BY DEF Holders, Holds
<1>3. \A w \in Workers : HoldersOf(w)' = {}
  BY WorkersAssumption DEF HoldersOf
<1>4. Cardinality({}) = 0
  BY FS_EmptySet
<1>5. SlotAccounting'
  BY <1>2, <1>3, <1>4 DEF SlotAccounting
<1>6. SlotBound'
  BY <1>2, <1>4, LimitsAssumption DEF SlotBound
<1>7. QED
  BY <1>1, <1>5, <1>6 DEF SlotsInv

(* A table nobody touches stays correct.                                   *)
LEMMA TableUnchanged ==
  ASSUME SlotsInv, UNCHANGED slotVars
  PROVE  SlotsInv'
BY DEF SlotsInv, slotVars, SlotsTypeOK, SlotAccounting, SlotBound, Holders, HoldersOf, Holds

(* A worker gains a holder only within the limit in force: Release and     *)
(* SetWorkerLimit add none, Acquire adds one to a worker below its limit.  *)
LEMMA WorkerBoundPreserved ==
  ASSUME SlotsInv, SlotsNext
  PROVE  WorkerBoundStep
<1>0. \A v \in Workers : /\ Cardinality(HoldersOf(v)) \in Nat
                         /\ workerMax[v] \in Nat
  BY HoldersFinite, FS_CardinalityType, LimitsAssumption DEF SlotsInv, SlotsTypeOK
<1>1. CASE \E id \in Procs, w \in Workers : TryAcquire(id, w)
  <2>1. PICK id \in Procs, w \in Workers : CanAcquire(id, w) /\ Acquire(id, w)
    BY <1>1 DEF TryAcquire
  <2>2. CASE Holds(id)
    <3>1. \A v \in Workers : HoldersOf(v)' = HoldersOf(v)
      BY <2>1, <2>2 DEF Acquire, slotVars, HoldersOf
    <3>2. QED
      BY <3>1, <1>0 DEF WorkerBoundStep
  <2>3. CASE ~Holds(id)
    <3>1. /\ Cardinality(HoldersOf(w)') = Cardinality(HoldersOf(w)) + 1
          /\ \A v \in Workers \ {w} : HoldersOf(v)' = HoldersOf(v)
      BY <2>1, <2>3, HolderAdded DEF SlotsInv, Acquire
    <3>2. workerMax[w] = 0 \/ Cardinality(HoldersOf(w)) < workerMax[w]
      BY <2>1, <2>3, <1>0 DEF CanAcquire, SlotsInv, SlotAccounting
    <3>3. QED
      BY <3>1, <3>2, <1>0 DEF WorkerBoundStep
  <2>4. QED
    BY <2>2, <2>3
<1>2. CASE \E id \in Procs : Release(id)
  <2>1. PICK id \in Procs : Release(id)
    BY <1>2
  <2>2. CASE ~Holds(id)
    <3>1. \A v \in Workers : HoldersOf(v)' = HoldersOf(v)
      BY <2>1, <2>2 DEF Release, slotVars, HoldersOf
    <3>2. QED
      BY <3>1, <1>0 DEF WorkerBoundStep
  <2>3. CASE Holds(id)
    <3>1. PICK w \in Workers : holders[id] = w
      BY <2>3 DEF SlotsInv, SlotsTypeOK, Holds
    <3>2. /\ Cardinality(HoldersOf(w)') = Cardinality(HoldersOf(w)) - 1
          /\ \A v \in Workers \ {w} : HoldersOf(v)' = HoldersOf(v)
      BY <2>1, <2>3, <3>1, HolderRemoved DEF SlotsInv, Release
    <3>3. QED
      BY <3>2, <1>0 DEF WorkerBoundStep
  <2>4. QED
    BY <2>2, <2>3
<1>3. CASE \E w \in Workers, limit \in Limits : SetWorkerLimit(w, limit)
  <2>1. \A v \in Workers : HoldersOf(v)' = HoldersOf(v)
    BY <1>3 DEF SetWorkerLimit, HoldersOf
  <2>2. QED
    BY <2>1, <1>0 DEF WorkerBoundStep
<1>4. QED
  BY <1>1, <1>2, <1>3 DEF SlotsNext

----------------------------------------------------------------------------
(* The table's own specification keeps its counters exact and bounded: no  *)
(* order of TryAcquire, Release and SetWorkerLimit calls of any clients    *)
(* makes slots.go over-admit or leak.                                      *)
THEOREM SlotsCorrect == SlotsSpec => []SlotsInv
<1>1. NewSlots => SlotsInv
  BY EmptyTable DEF NewSlots
<1>2. SlotsInv /\ [SlotsNext]_slotVars => SlotsInv'
  BY AcquireStep, ReleaseStep, LimitStep, TableUnchanged DEF SlotsNext, TryAcquire
<1>3. QED
  BY <1>1, <1>2, PTL DEF SlotsSpec

(* The counters equal the number of holders, node-wide and per worker.     *)
THEOREM SlotAccountingHolds == SlotsSpec => []SlotAccounting
<1>1. SlotsInv => SlotAccounting
  BY DEF SlotsInv
<1>2. QED
  BY <1>1, SlotsCorrect, PTL

(* Never more than max_processes holders.                                  *)
THEOREM SlotBoundHolds == SlotsSpec => []SlotBound
<1>1. SlotsInv => SlotBound
  BY DEF SlotsInv
<1>2. QED
  BY <1>1, SlotsCorrect, PTL

(* No step takes a worker past the limit in force at that step.            *)
THEOREM WorkerBoundHolds == SlotsSpec => WorkerBound
<1>1. SlotsInv /\ [SlotsNext]_slotVars => [WorkerBoundStep]_slotVars
  BY WorkerBoundPreserved
<1>2. QED
  BY <1>1, SlotsCorrect, PTL DEF SlotsSpec, WorkerBound

----------------------------------------------------------------------------
(* The daemon's records.                                                   *)

(* A copy of an execution that may be written to the store: CRASHED only   *)
(* exists between two transitions of one critical section.                 *)
Storable == {p \in Process : p.state # "CRASHED"}

----------------------------------------------------------------------------
(* Copies of an execution.                                                 *)

(* TransitionTo returns a process, in the state it was or the one asked.   *)
LEMMA TransitionToType ==
  ASSUME NEW p \in Process, NEW to \in States, NEW reason \in Reasons
  PROVE  /\ TransitionTo(p, to, reason) \in Process
         /\ TransitionTo(p, to, reason).state \in {p.state, to}
         /\ TransitionTo(p, to, reason).pid = p.pid
BY DEF TransitionTo, Process

(* A transition to anything but CRASHED keeps a copy storable.             *)
LEMMA TransitionToStorable ==
  ASSUME NEW p \in Storable, NEW to \in States \ {"CRASHED"}, NEW reason \in Reasons
  PROVE  TransitionTo(p, to, reason) \in Storable
BY TransitionToType DEF Storable

(* RETRYING and FAILED are the ways out of CRASHED.                        *)
LEMMA CrashedLeft ==
  ASSUME NEW p \in Process, NEW to \in {"RETRYING", "FAILED"}, NEW reason \in Reasons
  PROVE  TransitionTo(p, to, reason) \in Storable
<1>1. CASE p.state = "CRASHED"
  BY <1>1 DEF TransitionTo, CanTransition, allowedTransitions, States, Process, Storable
<1>2. CASE p.state # "CRASHED"
  BY <1>2, TransitionToStorable DEF Storable, States
<1>3. QED
  BY <1>1, <1>2

(* A crash is always settled: whatever the policy and the trigger, the     *)
(* outcome is one that may be stored.                                      *)
LEMMA SettleStorable ==
  ASSUME NEW p \in Process, NEW r, NEW trigger, NEW failureReason \in Reasons,
         NEW reset \in BOOLEAN
  PROVE  settle(p, r, trigger, failureReason, reset) \in Storable
<1> DEFINE q == IF reset THEN [p EXCEPT !.attempt = 0] ELSE p
<1>1. q \in Process
  BY DEF Process
<1>2. "" \in Reasons
  BY DEF Reasons
<1>3. QED
  BY <1>1, <1>2, CrashedLeft DEF settle

(* A copy is given the number of its launch.                               *)
LEMMA NumberedCopy ==
  ASSUME NEW p \in Storable, NEW n \in 1..MaxLaunches
  PROVE  [p EXCEPT !.pid = n] \in Storable /\ [p EXCEPT !.pid = n].pid = n
BY DEF Storable, Process

(* So is every outcome classify can reach.                                 *)
LEMMA ClassifyStorable ==
  ASSUME NEW p \in Storable, NEW type, NEW r, NEW intent \in Reasons, NEW result,
         NEW reset \in BOOLEAN
  PROVE  classify(p, type, r, intent, result, reset) \in Storable
<1> DEFINE q == viaStopping(p, intent)
           crashed == TransitionTo(q, "CRASHED", "")
<1>0. /\ {"", "user_request", "timeout", "shutdown", "max_attempts", "no_retry_exit_code"} \subseteq Reasons
      /\ {"CRASHED", "STOPPING", "CANCELED", "QUEUED", "FAILED", "COMPLETED"} \subseteq States
  BY DEF Reasons, States
<1>1. q \in Storable
  BY <1>0, TransitionToStorable DEF viaStopping
<1>2. q \in Process
  BY <1>1 DEF Storable
<1>3. crashed \in Process /\ TransitionTo(q, "CRASHED", "timeout") \in Process
  BY <1>0, <1>2, TransitionToType
<1>4. /\ TransitionTo(q, "CANCELED", "user_request") \in Storable
      /\ TransitionTo(q, "FAILED", "timeout") \in Storable
      /\ TransitionTo(q, "COMPLETED", "") \in Storable
      /\ classifyShutdown(q, r) \in Storable
  BY <1>0, <1>1, TransitionToStorable DEF classifyShutdown
<1>5. TransitionTo(crashed, "FAILED", "no_retry_exit_code") \in Storable
  BY <1>0, <1>3, CrashedLeft
<1>6. ASSUME NEW trigger
      PROVE  /\ settle(crashed, r, trigger, "max_attempts", reset) \in Storable
             /\ settle(TransitionTo(q, "CRASHED", "timeout"), r, trigger, "timeout", reset) \in Storable
  BY <1>0, <1>3, SettleStorable
<1> HIDE DEF q, crashed
<1>7. QED
  BY <1>4, <1>5, <1>6 DEF classify, q, crashed

----------------------------------------------------------------------------
(* The inductive invariant, by component.                                  *)

StoreInv ==
  /\ row \in [Procs -> Storable]
  /\ locks \in [LockKeys -> Procs \cup {0}]

StorableExec == {e \in Exec : e.p \in Storable}

StorableLauncher == {l \in Launcher : l.p \in Storable}

StorableStopper == {s \in Stopper : s.p \in Storable}

AttemptsInv ==
  /\ exec \in [Handles -> StorableExec]
  /\ launches \in [Procs -> 0..MaxLaunches]
  /\ running \in [Procs -> Nat]
  /\ stopper \in [Procs -> StorableStopper]
  /\ mode \in Modes
  /\ hungup \subseteq Procs

(* A busy launcher works on an execution; one that is about to fork or has *)
(* forked works on a numbered launch of it.                                *)
LauncherOK(l, started) ==
  /\ l \in StorableLauncher
  /\ l.pc \notin {"idle", "done"} => l.id \in Procs
  /\ l.pc \in {"start", "fork"} => started[l.id] # 0
  /\ l.pc \in {"running", "register"} => l.p.pid \in 1..MaxLaunches

LaunchersInv ==
  /\ launcher = [t \in Launchers |-> launcher[t]]
  /\ \A t \in Launchers : LauncherOK(launcher[t], launches)

SuperInv == StoreInv /\ SlotsInv /\ AttemptsInv /\ LaunchersInv

PassInv ==
  /\ todo \subseteq Procs
  /\ snap \in [Procs -> Storable]
  /\ shut \subseteq Handles
  /\ boots \in Nat

DaemonInv == SuperInv /\ PassInv

----------------------------------------------------------------------------
(* What the helpers of the launchers preserve.                             *)

(* The launches of an execution only grow, so that a numbered launch stays *)
(* one.                                                                    *)
LaunchesGrow == \A id \in Procs : launches[id] # 0 => launches'[id] # 0

(* One launcher moves, to a correct state.                                 *)
LEMMA LauncherMoves ==
  ASSUME LaunchersInv, LaunchesGrow, NEW t \in Launchers, NEW l, LauncherOK(l, launches'),
         launcher' = [launcher EXCEPT ![t] = l]
  PROVE  LaunchersInv'
<1>1. \A u \in Launchers : launcher'[u] = IF u = t THEN l ELSE launcher[u]
  BY DEF LaunchersInv
<1>2. ASSUME NEW u \in Launchers
      PROVE  LauncherOK(launcher'[u], launches')
  BY <1>1 DEF LaunchersInv, LauncherOK, LaunchesGrow
<1>3. QED
  BY <1>2 DEF LaunchersInv

(* Where a launcher may go whatever it did before.                         *)
PlainPCs == LauncherPCs \ {"start", "fork", "running", "register"}

(* Goto and GotoWith, to a plain step.                                     *)
LEMMA GotoPlain ==
  ASSUME LaunchersInv, LaunchesGrow, NEW t \in Launchers, launcher[t].id \in Procs,
         NEW pc \in PlainPCs, NEW p \in Storable, NEW d \in BOOLEAN,
         \/ Goto(t, pc)
         \/ GotoWith(t, pc, p)
         \/ launcher' = [launcher EXCEPT ![t].p = p, ![t].detached = d, ![t].pc = pc]
  PROVE  LaunchersInv'
<1>1. launcher[t] \in StorableLauncher
  BY DEF LaunchersInv, LauncherOK
<1>2. ASSUME NEW l \in {[launcher[t] EXCEPT !.pc = pc],
                        [launcher[t] EXCEPT !.pc = pc, !.p = p],
                        [launcher[t] EXCEPT !.p = p, !.detached = d, !.pc = pc]}
      PROVE  LauncherOK(l, launches')
  BY <1>1 DEF LauncherOK, StorableLauncher, Launcher, Storable, PlainPCs
<1>3. \/ launcher' = [launcher EXCEPT ![t] = [launcher[t] EXCEPT !.pc = pc]]
      \/ launcher' = [launcher EXCEPT ![t] = [launcher[t] EXCEPT !.pc = pc, !.p = p]]
      \/ launcher' = [launcher EXCEPT ![t] = [launcher[t] EXCEPT !.p = p, !.detached = d, !.pc = pc]]
  BY DEF Goto, GotoWith, LaunchersInv
<1>4. QED
  BY <1>2, <1>3, LauncherMoves

(* Return, of a submission or of the dispatch loop.                        *)
LEMMA ReturnOK ==
  ASSUME LaunchersInv, LaunchesGrow, NEW t \in Launchers, Return(t)
  PROVE  LaunchersInv'
<1>1. NoProcess \in Storable
  BY DEF NoProcess, Storable, Process, NONE, Reasons
<1>2. LauncherOK(IdleLauncher, launches') /\ LauncherOK(DoneLauncher, launches')
  BY <1>1 DEF LauncherOK, IdleLauncher, DoneLauncher, StorableLauncher, Launcher, LauncherPCs,
              Storable
<1>3. QED
  BY <1>2, LauncherMoves DEF Return

(* Launchers that stay where they are.                                     *)
LEMMA LaunchersStay ==
  ASSUME LaunchersInv, launcher' = launcher, launches' = launches
  PROVE  LaunchersInv'
BY DEF LaunchersInv

(* The store, after a write or a change of lock.                           *)
LEMMA StoreSteps ==
  ASSUME StoreInv, NEW id \in Procs, NEW p \in Storable,
         row' = row \/ UpdateProcess(id, p),
         locks' = locks \/ ReleaseLock(id) \/ AcquireLock(id)
  PROVE  StoreInv'
<1>1. row' \in [Procs -> Storable]
  BY DEF StoreInv, UpdateProcess
<1>2. locks' \in [LockKeys -> Procs \cup {0}]
  BY DEF StoreInv, ReleaseLock, AcquireLock
<1>3. QED
  BY <1>1, <1>2 DEF StoreInv

(* onSettle keeps the slot table correct, and frees the slot of a task.    *)
LEMMA SettledStep ==
  ASSUME SlotsInv, NEW id \in Procs, NEW state, OnExecutionSettled(id, state)
  PROVE  /\ SlotsInv'
         /\ Def[id].type = "task" => ~Holds(id)'
BY ReleaseStep, TableUnchanged DEF OnExecutionSettled

(* An attempt changes, to a correct state.                                 *)
LEMMA AttemptMoves ==
  ASSUME exec \in [Handles -> StorableExec], NEW h, NEW e \in StorableExec,
         exec' = [exec EXCEPT ![h] = e]
  PROVE  exec' \in [Handles -> StorableExec]
OBVIOUS

----------------------------------------------------------------------------
(* Each action preserves the invariant.                                    *)

(* What a launcher past its first step knows.                              *)
LEMMA BusyLauncher ==
  ASSUME LaunchersInv, NEW t \in Launchers, launcher[t].pc \notin {"idle", "done"}
  PROVE  /\ launcher[t] \in StorableLauncher
         /\ launcher[t].id \in Procs
         /\ launcher[t].p \in Storable
         /\ launcher[t].p \in Process
         /\ launcher[t].pc \in {"start", "fork"} => launches[launcher[t].id] # 0
         /\ launcher[t].pc \in {"running", "register"} => launcher[t].p.pid \in 1..MaxLaunches
BY DEF LaunchersInv, LauncherOK, StorableLauncher, Storable

(* A start that failed leaves an outcome that may be stored.               *)
LEMMA StartFailureStorable ==
  ASSUME NEW id, NEW p \in Process
  PROVE  StartFailure(id, p) \in Storable
<1>1. "start_error" \in Reasons /\ "CRASHED" \in States /\ FALSE \in BOOLEAN
  BY DEF Reasons, States
<1>2. QED
  BY <1>1, TransitionToType, SettleStorable DEF StartFailure

(* A launcher that goes to startFailed keeps its part of the invariant.    *)
LEMMA FailedOK ==
  ASSUME LaunchersInv, launches' = launches, NEW t \in Launchers,
         launcher[t].id \in Procs, NEW p \in Process, NEW d \in BOOLEAN, GotoFailed(t, p, d)
  PROVE  LaunchersInv'
<1>1. StartFailure(launcher[t].id, p) \in Storable
  BY StartFailureStorable
<1>2. {"failunlock", "failwrite"} \subseteq PlainPCs
  BY DEF PlainPCs, LauncherPCs
<1>3. LaunchesGrow
  BY DEF LaunchesGrow
<1>4. QED
  BY <1>1, <1>2, <1>3, GotoPlain DEF GotoFailed

(* Supervisor.Start, with startFailed and abandonStart.                    *)
LEMMA StartStep ==
  ASSUME SuperInv, NEW t \in Launchers, StartNext(t)
  PROVE  SuperInv'
<1> DEFINE id == launcher[t].id
<1> USE DEF SuperInv
<1>0. launcher[t].pc \notin {"idle", "done"}
  BY DEF StartNext, StartDraining, StartAccepted, Fork, ForkFails, PersistRunning,
         PersistRunningFails, Register, AbandonStart, FailUnlock, FailWrite, FailSettle, At
<1>1. /\ launcher[t] \in StorableLauncher /\ id \in Procs
      /\ launcher[t].p \in Storable /\ launcher[t].p \in Process
      /\ launcher[t].pc \in {"start", "fork"} => launches[id] # 0
      /\ launcher[t].pc \in {"running", "register"} => launcher[t].p.pid \in 1..MaxLaunches
  BY <1>0, BusyLauncher
<1>2. launches' = launches /\ LaunchesGrow
  BY DEF StartNext, StartDraining, StartAccepted, Fork, ForkFails, PersistRunning,
         PersistRunningFails, Register, AbandonStart, FailUnlock, FailWrite, FailSettle,
         LaunchesGrow
<1>3. {"release", "abandon", "failwrite", "failsettle"} \subseteq PlainPCs
  BY DEF PlainPCs, LauncherPCs
<1>4. launcher[t].detached \in BOOLEAN
  BY <1>1 DEF StorableLauncher, Launcher
<1>5. NoExec \in StorableExec
  BY DEF NoExec, StorableExec, Exec, Storable, Process, NoProcess, NONE, Reasons
<1>10. CASE StartDraining(t)
  <2>1. StoreInv' /\ SlotsInv' /\ AttemptsInv'
    BY <1>10, TableUnchanged DEF StartDraining, storeVars, StoreInv, AttemptsInv
  <2>2. LaunchersInv'
    BY <1>10, <1>1, <1>2, <1>3, GotoPlain DEF StartDraining
  <2>3. QED
    BY <2>1, <2>2
<1>11. CASE StartAccepted(t)
  <2>1. StoreInv' /\ SlotsInv' /\ AttemptsInv'
    BY <1>11, TableUnchanged DEF StartAccepted, storeVars, StoreInv, AttemptsInv
  <2>2. LauncherOK([launcher[t] EXCEPT !.pc = "fork"], launches')
    BY <1>11, <1>1, <1>2 DEF StartAccepted, At, LauncherOK, StorableLauncher, Launcher, LauncherPCs
  <2>3. LaunchersInv'
    BY <1>11, <1>2, <2>2, LauncherMoves DEF StartAccepted, Goto
  <2>4. QED
    BY <2>1, <2>3
<1>12. CASE Fork(t)
  <2> DEFINE n == launches[id]
             p == [TransitionTo(launcher[t].p, "RUNNING", "") EXCEPT !.pid = n]
  <2>1. n \in 1..MaxLaunches
    <3>1. launcher[t].pc = "fork"
      BY <1>12 DEF Fork, At
    <3>2. launches[id] \in 0..MaxLaunches /\ launches[id] # 0
      BY <1>1, <3>1 DEF AttemptsInv
    <3>3. QED
      BY <3>2, SupervisorAssumption
  <2>2. TransitionTo(launcher[t].p, "RUNNING", "") \in Storable
    BY <1>1, TransitionToStorable DEF States, Reasons
  <2>3. p \in Storable /\ p.pid = n
    BY <2>1, <2>2, NumberedCopy
  <2>4. [NoExec EXCEPT !.proc = "alive", !.p = p] \in StorableExec
    BY <1>5, <2>3 DEF StorableExec, Exec, Storable
  <2>5. AttemptsInv'
    <3>1. exec' \in [Handles -> StorableExec]
      BY <1>12, <2>4, AttemptMoves DEF Fork, AttemptsInv
    <3>2. QED
      BY <1>12, <3>1 DEF Fork, AttemptsInv
  <2>6. LauncherOK([launcher[t] EXCEPT !.pc = "running", !.p = p], launches')
    BY <1>1, <2>1, <2>3 DEF LauncherOK, StorableLauncher, Launcher, LauncherPCs, Storable
  <2>7. LaunchersInv'
    BY <1>12, <1>2, <2>6, LauncherMoves DEF Fork, GotoWith
  <2>8. StoreInv' /\ SlotsInv'
    BY <1>12, TableUnchanged DEF Fork, storeVars, StoreInv
  <2>9. QED
    BY <2>5, <2>7, <2>8
<1>13. CASE ForkFails(t)
  <2>1. StoreInv' /\ SlotsInv' /\ AttemptsInv'
    BY <1>13, TableUnchanged DEF ForkFails, storeVars, StoreInv, AttemptsInv
  <2>2. LaunchersInv'
    BY <1>13, <1>1, <1>2, <1>4, FailedOK DEF ForkFails
  <2>3. QED
    BY <2>1, <2>2
<1>14. CASE PersistRunning(t)
  <2>1. StoreInv'
    BY <1>14, <1>1, StoreSteps DEF PersistRunning
  <2>2. SlotsInv' /\ AttemptsInv'
    BY <1>14, TableUnchanged DEF PersistRunning, AttemptsInv
  <2>3. LauncherOK([launcher[t] EXCEPT !.pc = "register"], launches')
    BY <1>14, <1>1 DEF PersistRunning, At, LauncherOK, StorableLauncher, Launcher, LauncherPCs
  <2>4. LaunchersInv'
    BY <1>14, <1>2, <2>3, LauncherMoves DEF PersistRunning, Goto
  <2>5. QED
    BY <2>1, <2>2, <2>4
<1>15. CASE PersistRunningFails(t)
  <2>1. StoreInv' /\ SlotsInv' /\ AttemptsInv'
    BY <1>15, TableUnchanged DEF PersistRunningFails, storeVars, StoreInv, AttemptsInv
  <2>2. LaunchersInv'
    BY <1>15, <1>1, <1>2, <1>3, GotoPlain DEF PersistRunningFails
  <2>3. QED
    BY <2>1, <2>2
<1>16. CASE Register(t)
  <2>1. StoreInv' /\ SlotsInv'
    BY <1>16, TableUnchanged DEF Register, storeVars, StoreInv
  <2>2. Handle(t) \in Handles /\ launcher[t].p.pid \in Nat
    BY <1>16, <1>1 DEF Register, At, Handle, Handles
  <2>3. [exec[Handle(t)] EXCEPT !.sup = "wait",
                               !.timer = IF Def[id].timeout THEN "armed" ELSE "off"] \in StorableExec
    BY <2>2 DEF AttemptsInv, StorableExec, Exec
  <2>4. exec' = [exec EXCEPT ![Handle(t)] =
                   [exec[Handle(t)] EXCEPT !.sup = "wait",
                                           !.timer = IF Def[id].timeout THEN "armed" ELSE "off"]]
    BY <1>16 DEF Register
  <2>5. exec' \in [Handles -> StorableExec]
    BY <2>3, <2>4, AttemptMoves DEF AttemptsInv
  <2>6. AttemptsInv'
    BY <1>16, <1>1, <2>2, <2>5 DEF Register, AttemptsInv
  <2>7. LaunchersInv'
    BY <1>16, <1>2, ReturnOK DEF Register
  <2>8. QED
    BY <2>1, <2>6, <2>7
<1>17. CASE AbandonStart(t)
  <2>1. StoreInv' /\ SlotsInv'
    BY <1>17, TableUnchanged DEF AbandonStart, storeVars, StoreInv
  <2>2. [NoExec EXCEPT !.proc = "gone"] \in StorableExec
    BY <1>5 DEF StorableExec, Exec
  <2>3. exec' \in [Handles -> StorableExec]
    BY <1>17, <2>2, AttemptMoves DEF AbandonStart, AttemptsInv
  <2>4. AttemptsInv'
    BY <1>17, <2>3 DEF AbandonStart, AttemptsInv
  <2>5. [launcher[t].p EXCEPT !.pid = 0] \in Process
    BY <1>1 DEF Process
  <2>6. LaunchersInv'
    BY <1>17, <1>1, <1>2, <2>5, FailedOK DEF AbandonStart
  <2>7. QED
    BY <2>1, <2>4, <2>6
<1>18. CASE FailUnlock(t)
  <2>1. StoreInv'
    BY <1>18, <1>1, StoreSteps DEF FailUnlock
  <2>2. SlotsInv' /\ AttemptsInv'
    BY <1>18, TableUnchanged DEF FailUnlock, AttemptsInv
  <2>3. LaunchersInv'
    BY <1>18, <1>1, <1>2, <1>3, GotoPlain DEF FailUnlock
  <2>4. QED
    BY <2>1, <2>2, <2>3
<1>19. CASE FailWrite(t)
  <2>1. StoreInv'
    BY <1>19, <1>1, StoreSteps DEF FailWrite
  <2>2. SlotsInv' /\ AttemptsInv'
    BY <1>19, TableUnchanged DEF FailWrite, AttemptsInv
  <2>3. LaunchersInv'
    BY <1>19, <1>1, <1>2, <1>3, GotoPlain DEF FailWrite
  <2>4. QED
    BY <2>1, <2>2, <2>3
<1>20. CASE FailSettle(t)
  <2>1. StoreInv' /\ AttemptsInv'
    BY <1>20 DEF FailSettle, storeVars, StoreInv, AttemptsInv
  <2>2. SlotsInv'
    BY <1>20, <1>1, SettledStep DEF FailSettle
  <2>3. LaunchersInv'
    BY <1>20, <1>2, ReturnOK DEF FailSettle
  <2>4. QED
    BY <2>1, <2>2, <2>3
<1>21. QED
  BY <1>10, <1>11, <1>12, <1>13, <1>14, <1>15, <1>16, <1>17, <1>18, <1>19, <1>20 DEF StartNext

(* Parked is a legal outcome of a submission.                              *)
LEMMA ParkedStorable ==
  ASSUME NEW id, NEW p \in Storable
  PROVE  Parked(id, p) \in Storable
<1>1. {"CANCELED", "QUEUED"} \subseteq States \ {"CRASHED"} /\ {"no_capacity", ""} \subseteq Reasons
  BY DEF States, Reasons
<1>2. QED
  BY <1>1, TransitionToStorable DEF Parked

(* So does one that goes to park.                                          *)
LEMMA ParkOK ==
  ASSUME LaunchersInv, launches' = launches, NEW t \in Launchers, launcher[t].id \in Procs,
         launcher[t].p \in Storable, GotoPark(t)
  PROVE  LaunchersInv'
<1>1. LaunchesGrow
  BY DEF LaunchesGrow
<1>2. "park" \in PlainPCs
  BY DEF PlainPCs, LauncherPCs
<1>3. QED
  BY <1>1, <1>2, ParkedStorable, GotoPlain DEF GotoPark

(* The next attempt of an execution may be stored.                         *)
LEMMA LaunchedStorable ==
  ASSUME NEW p \in Storable
  PROVE  Launched(p) \in Storable
<1>0. p \in Process /\ p.attempt \in Nat
  BY DEF Storable, Process
<1>1. ClearAttempt([p EXCEPT !.attempt = @ + 1]) \in Storable
  <2>1. [p EXCEPT !.attempt = p.attempt + 1] \in Storable
    BY <1>0 DEF Storable, Process
  <2>2. ASSUME NEW q \in Storable PROVE ClearAttempt(q) \in Storable
    BY DEF ClearAttempt, Storable, Process
  <2>3. QED
    BY <2>1, <2>2
<1>2. "STARTING" \in States \ {"CRASHED"} /\ "" \in Reasons
  BY DEF States, Reasons
<1>3. QED
  BY <1>1, <1>2, TransitionToStorable DEF Launched

(* Slot, lock and launch: what a submission and the dispatch loop share.   *)
LEMMA AdmitStep ==
  ASSUME SuperInv, NEW t \in Launchers, AdmitNext(t)
  PROVE  SuperInv'
<1> DEFINE id == launcher[t].id
<1> USE DEF SuperInv
<1>0. launcher[t].pc \notin {"idle", "done"}
  BY DEF AdmitNext, TakeSlot, TakeLock, YieldSlot, WriteStarting, ReleaseSlot, Unlock, At
<1>1. /\ launcher[t] \in StorableLauncher /\ id \in Procs
      /\ launcher[t].p \in Storable
  BY <1>0, BusyLauncher
<1>2. {"lock", "unclaim", "starting", "unslot", "yield", "release", "unlock"} \subseteq PlainPCs
  BY DEF PlainPCs, LauncherPCs
<1>3. ASSUME launches' = launches PROVE LaunchesGrow
  BY <1>3 DEF LaunchesGrow
<1>10. CASE TakeSlot(t)
  <2>0. launches' = launches /\ LaunchesGrow
    BY <1>10, <1>3 DEF TakeSlot
  <2>1. StoreInv' /\ AttemptsInv'
    BY <1>10 DEF TakeSlot, storeVars, StoreInv, AttemptsInv
  <2>2. SlotsInv'
    BY <1>10, <1>1, AcquireStep, TableUnchanged, SupervisorAssumption DEF TakeSlot
  <2>3. LaunchersInv'
    <3>1. Goto(t, "lock") \/ Return(t) \/ Goto(t, "unclaim") \/ GotoPark(t)
      BY <1>10 DEF TakeSlot
    <3>2. QED
      BY <1>1, <1>2, <2>0, <3>1, GotoPlain, ReturnOK, ParkOK
  <2>4. QED
    BY <2>1, <2>2, <2>3
<1>11. CASE TakeLock(t)
  <2>0. launches' = launches /\ LaunchesGrow
    BY <1>11, <1>3 DEF TakeLock
  <2>1. StoreInv'
    BY <1>11, <1>1, StoreSteps DEF TakeLock
  <2>2. SlotsInv' /\ AttemptsInv'
    BY <1>11, TableUnchanged DEF TakeLock, AttemptsInv
  <2>3. LaunchersInv'
    <3>1. Goto(t, "starting") \/ Goto(t, "unslot") \/ Goto(t, "yield")
      BY <1>11 DEF TakeLock
    <3>2. QED
      BY <1>1, <1>2, <2>0, <3>1, GotoPlain
  <2>4. QED
    BY <2>1, <2>2, <2>3
<1>12. CASE YieldSlot(t)
  <2>0. launches' = launches /\ LaunchesGrow
    BY <1>12, <1>3 DEF YieldSlot
  <2>1. StoreInv' /\ AttemptsInv'
    BY <1>12 DEF YieldSlot, storeVars, StoreInv, AttemptsInv
  <2>2. SlotsInv'
    BY <1>12, <1>1, ReleaseStep DEF YieldSlot
  <2>3. LaunchersInv'
    BY <1>12, <1>1, <2>0, ReturnOK, ParkOK DEF YieldSlot
  <2>4. QED
    BY <2>1, <2>2, <2>3
<1>13. CASE WriteStarting(t)
  <2>1. SlotsInv'
    BY <1>13, TableUnchanged DEF WriteStarting
  <2>2. CASE CtxDone(t)
    <3>1. launches' = launches /\ row' = row /\ locks' = locks /\ Goto(t, "release")
      BY <1>13, <2>2 DEF WriteStarting
    <3>2. StoreInv' /\ AttemptsInv'
      BY <1>13, <3>1 DEF WriteStarting, StoreInv, AttemptsInv
    <3>3. LaunchersInv'
      BY <1>1, <1>2, <1>3, <3>1, GotoPlain
    <3>4. QED
      BY <2>1, <3>2, <3>3
  <2>3. CASE ~CtxDone(t)
    <3> DEFINE p == Launched(launcher[t].p)
    <3>0. p \in Storable
      BY <1>1, LaunchedStorable
    <3>1. /\ UpdateProcess(id, p) /\ locks' = locks
          /\ launches[id] < MaxLaunches
          /\ launches' = [launches EXCEPT ![id] = @ + 1]
          /\ launcher' = [launcher EXCEPT ![t] = [launcher[t] EXCEPT !.pc = "start", !.p = p]]
      BY <1>13, <2>3 DEF WriteStarting, GotoWith
    <3> HIDE DEF p
    <3>2. StoreInv'
      BY <1>1, <3>0, <3>1, StoreSteps
    <3>3. launches' \in [Procs -> 0..MaxLaunches] /\ launches'[id] # 0 /\ LaunchesGrow
      BY <1>1, <3>1, SupervisorAssumption DEF AttemptsInv, LaunchesGrow
    <3>4. AttemptsInv'
      BY <1>13, <3>3 DEF WriteStarting, AttemptsInv
    <3>5. LauncherOK([launcher[t] EXCEPT !.pc = "start", !.p = p], launches')
      BY <1>1, <3>0, <3>3 DEF LauncherOK, StorableLauncher, Launcher, LauncherPCs, Storable
    <3>6. LaunchersInv'
      BY <3>1, <3>3, <3>5, LauncherMoves
    <3>7. QED
      BY <2>1, <3>2, <3>4, <3>6
  <2>4. QED
    BY <2>2, <2>3
<1>14. CASE ReleaseSlot(t)
  <2>1. StoreInv' /\ AttemptsInv'
    BY <1>14 DEF ReleaseSlot, storeVars, StoreInv, AttemptsInv
  <2>2. SlotsInv'
    BY <1>14, <1>1, ReleaseStep DEF ReleaseSlot
  <2>3. LaunchersInv'
    BY <1>14, <1>1, <1>2, <1>3, GotoPlain DEF ReleaseSlot
  <2>4. QED
    BY <2>1, <2>2, <2>3
<1>15. CASE Unlock(t)
  <2>1. StoreInv'
    BY <1>15, <1>1, StoreSteps DEF Unlock
  <2>2. SlotsInv' /\ AttemptsInv'
    BY <1>15, TableUnchanged DEF Unlock, AttemptsInv
  <2>3. LaunchersInv'
    BY <1>15, <1>3, ReturnOK DEF Unlock
  <2>4. QED
    BY <2>1, <2>2, <2>3
<1>16. QED
  BY <1>10, <1>11, <1>12, <1>13, <1>14, <1>15 DEF AdmitNext

(* The one write that rejectLocked, reject, enqueue and expire end in.     *)
LEMMA WriteAndReturnStep ==
  ASSUME SuperInv, NEW t \in Launchers, NEW pc \in LauncherPCs \ {"idle", "done"},
         WriteAndReturn(t, pc)
  PROVE  SuperInv'
<1> USE DEF SuperInv
<1>1. launcher[t].id \in Procs /\ launcher[t].p \in Storable
  BY BusyLauncher DEF WriteAndReturn, At
<1>2. StoreInv'
  BY <1>1, StoreSteps DEF WriteAndReturn
<1>3. SlotsInv' /\ AttemptsInv'
  BY TableUnchanged DEF WriteAndReturn, AttemptsInv
<1>4. LaunchersInv'
  BY ReturnOK DEF WriteAndReturn, LaunchesGrow
<1>5. QED
  BY <1>2, <1>3, <1>4

(* Submit, the claim of a rejecting worker, and expiry.                    *)
LEMMA SubmitStep ==
  ASSUME SuperInv, NEW t \in Launchers,
         (t \in Procs /\ SubmitNext(t)) \/ ExpireUnlock(t) \/ ExpireWrite(t)
  PROVE  SuperInv'
<1> USE DEF SuperInv
<1>2. {"create", "claim", "conflict", "slot", "unclaim", "park", "expired"} \subseteq PlainPCs
  BY DEF PlainPCs, LauncherPCs
<1>3. ASSUME launches' = launches PROVE LaunchesGrow
  BY <1>3 DEF LaunchesGrow
<1>4. NoProcess \in Storable /\ NewProcess \in Storable
  BY DEF NoProcess, NewProcess, Storable, Process, NONE, Reasons, States
<1>10. CASE t \in Procs /\ Submit(t)
  <2>1. StoreInv' /\ SlotsInv' /\ AttemptsInv'
    BY <1>10, TableUnchanged DEF Submit, storeVars, StoreInv, AttemptsInv
  <2>2. LauncherOK([launcher[t] EXCEPT !.pc = "create", !.id = t], launches')
    BY <1>10 DEF LaunchersInv, LauncherOK, StorableLauncher, Launcher, LauncherPCs
  <2>3. \/ Return(t)
        \/ launcher' = [launcher EXCEPT ![t] = [launcher[t] EXCEPT !.pc = "create", !.id = t]]
    BY <1>10 DEF Submit
  <2>4. launches' = launches
    BY <1>10 DEF Submit
  <2>5. LaunchersInv'
    BY <1>3, <2>2, <2>3, <2>4, ReturnOK, LauncherMoves
  <2>6. QED
    BY <2>1, <2>5
<1>11. CASE t \in Procs /\ Create(t)
  <2>1. launcher[t].id \in Procs
    BY <1>11, BusyLauncher DEF Create, At
  <2>2. StoreInv'
    BY <1>11, <1>4, StoreSteps DEF Create, CreateProcess, UpdateProcess
  <2>3. SlotsInv' /\ AttemptsInv'
    BY <1>11, TableUnchanged DEF Create, AttemptsInv
  <2>4. Return(t) \/ GotoWith(t, "claim", NewProcess) \/ GotoWith(t, "slot", NewProcess)
    BY <1>11 DEF Create
  <2>5. LaunchersInv'
    BY <1>11, <1>2, <1>3, <1>4, <2>1, <2>4, ReturnOK, GotoPlain DEF Create
  <2>6. QED
    BY <2>2, <2>3, <2>5
<1>12. CASE t \in Procs /\ Claim(t)
  <2>1. launcher[t].id \in Procs /\ launcher[t].p \in Storable
    BY <1>12, BusyLauncher DEF Claim, At
  <2>2. StoreInv'
    BY <1>12, <1>4, StoreSteps DEF Claim
  <2>3. SlotsInv' /\ AttemptsInv'
    BY <1>12, TableUnchanged DEF Claim, AttemptsInv
  <2>4. \/ Return(t) \/ Goto(t, "slot")
        \/ GotoWith(t, "conflict", TransitionTo(launcher[t].p, "CANCELED", "lock_conflict"))
    BY <1>12 DEF Claim
  <2>5. TransitionTo(launcher[t].p, "CANCELED", "lock_conflict") \in Storable
    BY <2>1, TransitionToStorable DEF States, Reasons
  <2>6. launches' = launches
    BY <1>12 DEF Claim
  <2>7. LaunchersInv'
    BY <1>2, <1>3, <2>1, <2>4, <2>5, <2>6, ReturnOK, GotoPlain
  <2>8. QED
    BY <2>2, <2>3, <2>7
<1>13. CASE t \in Procs /\ Unclaim(t)
  <2>1. launcher[t].id \in Procs /\ launcher[t].p \in Storable
    BY <1>13, BusyLauncher DEF Unclaim, At
  <2>2. StoreInv'
    BY <1>13, <2>1, StoreSteps DEF Unclaim
  <2>3. SlotsInv' /\ AttemptsInv'
    BY <1>13, TableUnchanged DEF Unclaim, AttemptsInv
  <2>4. LaunchersInv'
    BY <1>13, <2>1, ParkOK DEF Unclaim
  <2>5. QED
    BY <2>2, <2>3, <2>4
<1>14. CASE t \in Procs /\ Hangup(t)
  <2>1. StoreInv' /\ SlotsInv' /\ AttemptsInv' /\ LaunchersInv'
    BY <1>14, TableUnchanged, LaunchersStay DEF Hangup, storeVars, StoreInv, AttemptsInv
  <2>2. QED
    BY <2>1
<1>15. CASE rejectLocked(t) \/ park(t) \/ ExpireWrite(t)
  <2>1. {"conflict", "park", "expired"} \subseteq LauncherPCs \ {"idle", "done"}
    BY DEF LauncherPCs
  <2>2. QED
    BY <1>15, <2>1, WriteAndReturnStep DEF rejectLocked, park, ExpireWrite
<1>16. CASE ExpireUnlock(t)
  <2>1. launcher[t].id \in Procs /\ launcher[t].p \in Storable
    BY <1>16, BusyLauncher DEF ExpireUnlock, At
  <2>2. StoreInv'
    BY <1>16, <2>1, StoreSteps DEF ExpireUnlock
  <2>3. SlotsInv' /\ AttemptsInv'
    BY <1>16, TableUnchanged DEF ExpireUnlock, AttemptsInv
  <2>4. LaunchersInv'
    BY <1>16, <1>2, <1>3, <2>1, GotoPlain DEF ExpireUnlock
  <2>5. QED
    BY <2>2, <2>3, <2>4
<1>17. QED
  BY <1>10, <1>11, <1>12, <1>13, <1>14, <1>15, <1>16 DEF SubmitNext

----------------------------------------------------------------------------
(* setIntent keeps the record of an attempt.                               *)
LEMMA SetIntentTyped ==
  ASSUME NEW e \in StorableExec, NEW reason \in {"user_request", "timeout", "shutdown"}
  PROVE  setIntent(e, reason) \in StorableExec
BY DEF setIntent, StorableExec, Exec

(* The outcome of an attempt may be stored.                                *)
LEMMA OutcomeStorable ==
  ASSUME NEW h \in Handles, AttemptsInv, NEW reset \in BOOLEAN
  PROVE  Outcome(h, reset) \in Storable
<1>1. exec[h].p \in Storable /\ exec[h].intent \in Reasons
  BY DEF AttemptsInv, StorableExec, Exec, Reasons
<1>2. QED
  BY <1>1, ClassifyStorable DEF Outcome

(* The process, the supervise goroutine, the timer and beginStop.          *)
LEMMA AttemptStepOK ==
  ASSUME SuperInv, NEW h \in Handles, AttemptNext(h)
  PROVE  SuperInv'
<1> USE DEF SuperInv
<1>1. h[1] \in Procs
  BY DEF Handles
<1>2. exec[h] \in StorableExec /\ exec[h].p \in Storable /\ exec[h] \in Exec
  BY DEF AttemptsInv, StorableExec
<1>3. ASSUME NEW e \in StorableExec, exec' = [exec EXCEPT ![h] = e],
             UNCHANGED <<launches, stopper, mode, hungup>>, running' \in [Procs -> Nat]
      PROVE  AttemptsInv'
  <2>1. exec' \in [Handles -> StorableExec]
    BY <1>3, AttemptMoves DEF AttemptsInv
  <2>2. QED
    BY <1>3, <2>1 DEF AttemptsInv
<1>4. running \in [Procs -> Nat] /\ [running EXCEPT ![h[1]] = 0] \in [Procs -> Nat]
  BY DEF AttemptsInv
<1>10. CASE \E result \in Results : ProcExit(h, result)
  <2>1. PICK result \in Results : ProcExit(h, result)
    BY <1>10
  <2>2. [exec[h] EXCEPT !.proc = "zombie", !.result = result] \in StorableExec
    BY <1>2 DEF StorableExec, Exec
  <2>3. AttemptsInv'
    BY <1>3, <1>4, <2>1, <2>2 DEF ProcExit
  <2>4. StoreInv' /\ SlotsInv' /\ LaunchersInv'
    BY <2>1, TableUnchanged, LaunchersStay DEF ProcExit, storeVars, StoreInv
  <2>5. QED
    BY <2>3, <2>4
<1>11. CASE OrphanExit(h)
  <2>1. [exec[h] EXCEPT !.proc = "gone"] \in StorableExec
    BY <1>2 DEF StorableExec, Exec
  <2>2. AttemptsInv'
    BY <1>11, <1>3, <1>4, <2>1 DEF OrphanExit
  <2>3. StoreInv' /\ SlotsInv' /\ LaunchersInv'
    BY <1>11, TableUnchanged, LaunchersStay DEF OrphanExit, storeVars, StoreInv
  <2>4. QED
    BY <2>2, <2>3
<1>12. CASE WaitReturns(h)
  <2>1. [exec[h] EXCEPT !.proc = "gone", !.sup = "reaped",
                        !.timer = IF @ = "armed" THEN "off" ELSE @] \in StorableExec
    BY <1>2 DEF StorableExec, Exec
  <2>2. exec' = [exec EXCEPT ![h] = [exec[h] EXCEPT !.proc = "gone", !.sup = "reaped",
                        !.timer = IF @ = "armed" THEN "off" ELSE @]]
    BY <1>12 DEF WaitReturns
  <2>3. AttemptsInv'
    BY <1>12, <1>3, <1>4, <2>1, <2>2 DEF WaitReturns
  <2>4. StoreInv' /\ SlotsInv' /\ LaunchersInv'
    BY <1>12, TableUnchanged, LaunchersStay DEF WaitReturns, storeVars, StoreInv
  <2>5. QED
    BY <2>3, <2>4
<1>13. CASE Unregister(h)
  <2>1. [exec[h] EXCEPT !.sup = "deleted"] \in StorableExec
    BY <1>2 DEF StorableExec, Exec
  <2>2. AttemptsInv'
    BY <1>13, <1>3, <1>4, <2>1 DEF Unregister
  <2>3. StoreInv' /\ SlotsInv' /\ LaunchersInv'
    BY <1>13, TableUnchanged, LaunchersStay DEF Unregister, storeVars, StoreInv
  <2>4. QED
    BY <2>2, <2>3
<1>14. CASE \E reset \in BOOLEAN : Classify(h, reset)
  <2>0. PICK reset \in BOOLEAN : Classify(h, reset)
    BY <1>14
  <2>1. Outcome(h, reset) \in Storable
    BY OutcomeStorable
  <2>2. [exec[h] EXCEPT !.p = Outcome(h, reset), !.sup = "classified",
                        !.result = "none"] \in StorableExec
    BY <1>2, <2>1 DEF StorableExec, Exec, Storable
  <2>3. AttemptsInv'
    BY <1>3, <1>4, <2>0, <2>2 DEF Classify
  <2>4. StoreInv'
    BY <1>1, <1>2, <2>0, StoreSteps DEF Classify
  <2>5. SlotsInv' /\ LaunchersInv'
    BY <2>0, TableUnchanged, LaunchersStay DEF Classify
  <2>6. QED
    BY <2>3, <2>4, <2>5
<1>15. CASE PersistOutcome(h)
  <2>1. [exec[h] EXCEPT !.sup = "persisted"] \in StorableExec
    BY <1>2 DEF StorableExec, Exec
  <2>2. AttemptsInv'
    BY <1>15, <1>3, <1>4, <2>1 DEF PersistOutcome
  <2>3. StoreInv'
    BY <1>15, <1>1, <1>2, StoreSteps DEF PersistOutcome
  <2>4. SlotsInv' /\ LaunchersInv'
    BY <1>15, TableUnchanged, LaunchersStay DEF PersistOutcome
  <2>5. QED
    BY <2>2, <2>3, <2>4
<1>16. CASE Settle(h)
  <2>1. [exec[h] EXCEPT !.sup = "done"] \in StorableExec
    BY <1>2 DEF StorableExec, Exec
  <2>2. AttemptsInv'
    BY <1>16, <1>3, <1>4, <2>1 DEF Settle
  <2>3. SlotsInv'
    BY <1>16, <1>1, SettledStep DEF Settle
  <2>4. StoreInv' /\ LaunchersInv'
    BY <1>16, LaunchersStay DEF Settle, storeVars, StoreInv
  <2>5. QED
    BY <2>2, <2>3, <2>4
<1>17. CASE TimerFires(h)
  <2>1. [exec[h] EXCEPT !.timer = "fired"] \in StorableExec
    BY <1>2 DEF StorableExec, Exec
  <2>2. AttemptsInv'
    BY <1>17, <1>3, <1>4, <2>1 DEF TimerFires
  <2>3. StoreInv' /\ SlotsInv' /\ LaunchersInv'
    BY <1>17, TableUnchanged, LaunchersStay DEF TimerFires, storeVars, StoreInv
  <2>4. QED
    BY <2>2, <2>3
<1>18. CASE TimeoutIntent(h)
  <2>1. [exec[h] EXCEPT !.timer = "off"] \in StorableExec
    BY <1>2 DEF StorableExec, Exec
  <2>2. setIntent([exec[h] EXCEPT !.timer = "off"], "timeout") \in StorableExec
    BY <2>1, SetIntentTyped
  <2>3. AttemptsInv'
    BY <1>18, <1>3, <1>4, <2>2 DEF TimeoutIntent
  <2>4. StoreInv' /\ SlotsInv' /\ LaunchersInv'
    BY <1>18, TableUnchanged, LaunchersStay DEF TimeoutIntent, storeVars, StoreInv
  <2>5. QED
    BY <2>3, <2>4
<1>19. CASE BeginStop(h)
  <2> DEFINE p == IF exec[h].p.state = "RUNNING"
                  THEN TransitionTo(exec[h].p, "STOPPING", exec[h].intent) ELSE exec[h].p
  <2>1. p \in Storable
    BY <1>2, TransitionToStorable DEF Exec, States, Reasons
  <2>2. /\ exec' = [exec EXCEPT ![h] = [exec[h] EXCEPT !.p = p, !.stop = "signal"]]
        /\ UpdateProcess(h[1], p)
        /\ UNCHANGED <<locks, slotVars, launches, running, launcher, stopper, mode, hungup>>
    BY <1>19 DEF BeginStop
  <2> HIDE DEF p
  <2>3. [exec[h] EXCEPT !.p = p, !.stop = "signal"] \in StorableExec
    BY <1>2, <2>1 DEF StorableExec, Exec, Storable
  <2>4. AttemptsInv'
    BY <1>3, <1>4, <2>2, <2>3
  <2>5. StoreInv'
    BY <1>1, <2>1, <2>2, StoreSteps
  <2>6. SlotsInv' /\ LaunchersInv'
    BY <2>2, TableUnchanged, LaunchersStay
  <2>7. QED
    BY <2>4, <2>5, <2>6
<1>20. CASE SignalGroup(h)
  <2>1. [exec[h] EXCEPT !.stop = "done"] \in StorableExec
    BY <1>2 DEF StorableExec, Exec
  <2>2. AttemptsInv'
    BY <1>20, <1>3, <1>4, <2>1 DEF SignalGroup
  <2>3. StoreInv' /\ SlotsInv' /\ LaunchersInv'
    BY <1>20, TableUnchanged, LaunchersStay DEF SignalGroup, storeVars, StoreInv
  <2>4. QED
    BY <2>2, <2>3
<1>21. QED
  BY <1>10, <1>11, <1>12, <1>13, <1>14, <1>15, <1>16, <1>17, <1>18, <1>19, <1>20 DEF AttemptNext

(* Stop and cancelPending.                                                 *)
LEMMA StopStepOK ==
  ASSUME SuperInv, NEW id \in Procs, StopNext(id) \/ CancelGet(id)
  PROVE  SuperInv'
<1> USE DEF SuperInv
<1>1. stopper[id] \in StorableStopper /\ stopper[id].p \in Storable /\ row[id] \in Storable
  BY DEF AttemptsInv, StorableStopper, StoreInv
<1>2. DoneStopper \in StorableStopper
  BY DEF DoneStopper, IdleStopper, StorableStopper, Stopper, Storable, Process, NoProcess,
         NONE, Reasons
<1>3. ASSUME NEW pc \in {"lookup", "intent", "get", "release", "write", "settle", "done"}
      PROVE  [stopper[id] EXCEPT !.pc = pc] \in StorableStopper
  BY <1>1 DEF StorableStopper, Stopper
<1>4. ASSUME NEW s \in StorableStopper, stopper' = [stopper EXCEPT ![id] = s],
             UNCHANGED <<exec, launches, running, mode, hungup>>
      PROVE  AttemptsInv'
  BY <1>4 DEF AttemptsInv
<1>10. CASE RequestStop(id)
  <2>1. AttemptsInv'
    BY <1>10, <1>3, <1>4 DEF RequestStop, GotoStopper
  <2>2. StoreInv' /\ SlotsInv' /\ LaunchersInv'
    BY <1>10, TableUnchanged, LaunchersStay DEF RequestStop, storeVars, StoreInv
  <2>3. QED
    BY <2>1, <2>2
<1>11. CASE StopLookup(id)
  <2>1. ASSUME NEW pc \in {"get", "intent"}
        PROVE  [stopper[id] EXCEPT !.pc = pc, !.pid = running[id]] \in StorableStopper
    BY <1>1 DEF StorableStopper, Stopper, AttemptsInv
  <2>2. \E pc \in {"get", "intent"} :
           stopper' = [stopper EXCEPT ![id] = [stopper[id] EXCEPT !.pc = pc, !.pid = running[id]]]
    BY <1>11 DEF StopLookup
  <2>3. AttemptsInv'
    BY <1>11, <1>4, <2>1, <2>2 DEF StopLookup
  <2>4. StoreInv' /\ SlotsInv' /\ LaunchersInv'
    BY <1>11, TableUnchanged, LaunchersStay DEF StopLookup, storeVars, StoreInv
  <2>5. QED
    BY <2>3, <2>4
<1>12. CASE StopIntent(id)
  <2> DEFINE h == <<id, stopper[id].pid>>
  <2>1. exec' = [exec EXCEPT ![h] = setIntent(exec[h], "user_request")]
    BY <1>12 DEF StopIntent
  <2>2. exec' \in [Handles -> StorableExec]
    <3>1. CASE h \in Handles
      BY <2>1, <3>1, SetIntentTyped DEF AttemptsInv
    <3>2. CASE h \notin Handles
      BY <2>1, <3>2 DEF AttemptsInv
    <3>3. QED
      BY <3>1, <3>2
  <2>3. stopper' \in [Procs -> StorableStopper]
    BY <1>12, <1>2 DEF StopIntent, ReturnStopper, AttemptsInv
  <2>4. AttemptsInv'
    BY <1>12, <2>2, <2>3 DEF StopIntent, AttemptsInv
  <2>5. StoreInv' /\ SlotsInv' /\ LaunchersInv'
    BY <1>12, TableUnchanged, LaunchersStay DEF StopIntent, storeVars, StoreInv
  <2>6. QED
    BY <2>4, <2>5
<1>13. CASE CancelGet(id)
  <2> DEFINE p == TransitionTo(row[id], "CANCELED", "user_request")
  <2>1. p \in Storable
    BY <1>1, TransitionToStorable DEF States, Reasons
  <2>2. \/ stopper' = [stopper EXCEPT ![id] = [stopper[id] EXCEPT !.pc = "release", !.p = p]]
        \/ stopper' = [stopper EXCEPT ![id] = DoneStopper]
    BY <1>13 DEF CancelGet, ReturnStopper
  <2> HIDE DEF p
  <2>3. [stopper[id] EXCEPT !.pc = "release", !.p = p] \in StorableStopper
    BY <1>1, <2>1 DEF StorableStopper, Stopper, Storable
  <2>4. AttemptsInv'
    BY <1>13, <1>2, <1>4, <2>2, <2>3 DEF CancelGet
  <2>5. StoreInv' /\ SlotsInv' /\ LaunchersInv'
    BY <1>13, TableUnchanged, LaunchersStay DEF CancelGet, storeVars, StoreInv
  <2>6. QED
    BY <2>4, <2>5
<1>14. CASE CancelRelease(id)
  <2>1. AttemptsInv'
    BY <1>14, <1>3, <1>4 DEF CancelRelease, GotoStopper
  <2>2. StoreInv'
    BY <1>14, <1>1, StoreSteps DEF CancelRelease
  <2>3. SlotsInv' /\ LaunchersInv'
    BY <1>14, TableUnchanged, LaunchersStay DEF CancelRelease
  <2>4. QED
    BY <2>1, <2>2, <2>3
<1>15. CASE CancelWrite(id)
  <2>1. AttemptsInv'
    BY <1>15, <1>2, <1>3, <1>4 DEF CancelWrite, GotoStopper, ReturnStopper
  <2>2. StoreInv'
    BY <1>15, <1>1, StoreSteps DEF CancelWrite
  <2>3. SlotsInv' /\ LaunchersInv'
    BY <1>15, TableUnchanged, LaunchersStay DEF CancelWrite
  <2>4. QED
    BY <2>1, <2>2, <2>3
<1>16. CASE CancelSettle(id)
  <2>1. AttemptsInv'
    BY <1>16, <1>2, <1>4 DEF CancelSettle, ReturnStopper
  <2>2. SlotsInv'
    BY <1>16, SettledStep DEF CancelSettle
  <2>3. StoreInv' /\ LaunchersInv'
    BY <1>16, LaunchersStay DEF CancelSettle, storeVars, StoreInv
  <2>4. QED
    BY <2>1, <2>2, <2>3
<1>17. QED
  BY <1>10, <1>11, <1>12, <1>13, <1>14, <1>15, <1>16 DEF StopNext

----------------------------------------------------------------------------
(* A pass of the dispatch loop.                                            *)
LEMMA DispatchStepOK ==
  ASSUME SuperInv, PassInv, DispatchStep
  PROVE  SuperInv' /\ PassInv'
<1> USE DEF SuperInv
<1>0. NoProcess \in Storable
  BY DEF NoProcess, Storable, Process, NONE, Reasons
<1>1. CASE \E due \in SUBSET Retrying : DispatchScan(due)
  <2>1. PICK due \in SUBSET Retrying : DispatchScan(due)
    BY <1>1
  <2>2. StoreInv' /\ SlotsInv' /\ AttemptsInv' /\ LaunchersInv'
    BY <2>1, TableUnchanged, LaunchersStay
       DEF DispatchScan, superVars, storeVars, StoreInv, AttemptsInv
  <2>3. Queued \subseteq Procs /\ due \subseteq Procs
    BY DEF Queued, Retrying
  <2>4. todo' \subseteq Procs /\ snap' \in [Procs -> Storable]
    BY <1>0, <2>1, <2>3 DEF DispatchScan, StoreInv
  <2>5. PassInv'
    BY <1>1, <2>4 DEF DispatchStep, daemonVars, PassInv
  <2>6. QED
    BY <2>2, <2>5
<1>2. CASE \E id \in todo, expired \in BOOLEAN : DispatchNext(id, expired)
  <2>1. PICK id \in todo, expired \in BOOLEAN : DispatchNext(id, expired)
    BY <1>2
  <2>2. id \in Procs /\ snap[id] \in Storable
    BY DEF PassInv
  <2> DEFINE p == IF expired THEN TransitionTo(snap[id], "FAILED", "queue_timeout") ELSE snap[id]
             l == [IdleLauncher EXCEPT !.id = id,
                                       !.pc = IF expired THEN "expire" ELSE "slot", !.p = p]
  <2>3. p \in Storable
    BY <2>2, TransitionToStorable DEF States, Reasons
  <2>4. launcher' = [launcher EXCEPT ![Dispatcher] = l] /\ launches' = launches
    BY <2>1 DEF DispatchNext
  <2>5. LauncherOK(l, launches')
    <3> HIDE DEF p
    <3>1. QED
      BY <2>2, <2>3 DEF LauncherOK, IdleLauncher, StorableLauncher, Launcher, LauncherPCs, Storable
  <2>6. LaunchersInv'
    <3> HIDE DEF l
    <3>1. QED
      BY <2>4, <2>5, LauncherMoves DEF LaunchesGrow, Launchers
  <2>7. StoreInv' /\ SlotsInv' /\ AttemptsInv'
    BY <2>1, TableUnchanged DEF DispatchNext, storeVars, StoreInv, AttemptsInv
  <2>8. todo' \subseteq Procs /\ snap' \in [Procs -> Storable]
    BY <1>0, <2>1 DEF DispatchNext, PassInv
  <2>9. PassInv'
    BY <1>2, <2>8 DEF DispatchStep, daemonVars, PassInv
  <2>10. QED
    BY <2>6, <2>7, <2>9
<1>3. QED
  BY <1>1, <1>2 DEF DispatchStep

(* The daemon is gone: an empty slot table, no launcher, no attempt.       *)
LEMMA PowerOffStep ==
  ASSUME SuperInv, PassInv, PowerOff
  PROVE  SuperInv' /\ PassInv' /\ \A id \in Procs : ~Holds(id)'
<1> USE DEF SuperInv
<1>0. NoProcess \in Storable
  BY DEF NoProcess, Storable, Process, NONE, Reasons
<1>1. /\ NoExec \in StorableExec
      /\ [NoExec EXCEPT !.proc = "orphan"] \in StorableExec
      /\ [NoExec EXCEPT !.proc = "gone"] \in StorableExec
  BY <1>0 DEF NoExec, StorableExec, Exec, Storable
<1>2. exec' \in [Handles -> StorableExec]
  BY <1>1 DEF PowerOff
<1>3. stopper' \in [Procs -> StorableStopper]
  <2>1. IdleStopper \in StorableStopper /\ DoneStopper \in StorableStopper
    BY <1>0 DEF DoneStopper, IdleStopper, StorableStopper, Stopper, Storable
  <2>2. QED
    BY <2>1 DEF PowerOff
<1>4. AttemptsInv'
  BY <1>2, <1>3 DEF PowerOff, AttemptsInv, Modes
<1>5. LaunchersInv'
  <2>1. LauncherOK(IdleLauncher, launches') /\ LauncherOK(DoneLauncher, launches')
    BY <1>0 DEF LauncherOK, IdleLauncher, DoneLauncher, StorableLauncher, Launcher, LauncherPCs,
                Storable
  <2>2. QED
    BY <2>1 DEF PowerOff, LaunchersInv
<1>6. SlotsInv'
  <2>1. workerMax \in [Workers -> Limits]
    BY DEF SlotsInv, SlotsTypeOK
  <2>2. /\ globalUsed' = 0 /\ workerUsed' = [w \in Workers |-> 0]
        /\ workerMax' \in [Workers -> Limits] /\ holders' = [id \in Procs |-> NoWorker]
    BY <2>1 DEF PowerOff
  <2>3. QED
    BY <2>2, TableEmptied
<1>7. StoreInv'
  BY DEF PowerOff, storeVars, StoreInv
<1>8. PassInv'
  BY <1>0 DEF PowerOff, PassInv
<1>9. \A id \in Procs : ~Holds(id)'
  BY DEF PowerOff, Holds
<1>10. QED
  BY <1>4, <1>5, <1>6, <1>7, <1>8, <1>9

(* Recovered is a legal outcome of an attempt a restart interrupted.       *)
LEMMA RecoveredStorable ==
  ASSUME StoreInv, NEW id \in Procs, NEW reset \in BOOLEAN
  PROVE  Recovered(id, reset) \in Storable
<1>1. row[id] \in Process
  BY DEF StoreInv, Storable
<1>2. "daemon_restart" \in Reasons /\ "CRASHED" \in States
  BY DEF Reasons, States
<1>3. QED
  BY <1>1, <1>2, TransitionToType, SettleStorable DEF Recovered

(* One row is reconciled.                                                  *)
LEMMA ReconcileStep ==
  ASSUME SuperInv, PassInv, NEW id \in todo, NEW reset \in BOOLEAN, reconcileOne(id, reset)
  PROVE  SuperInv' /\ PassInv'
<1> USE DEF SuperInv
<1>0. id \in Procs /\ row[id] \in Storable /\ row[id] \in Process
  BY DEF PassInv, StoreInv, Storable
<1>1. StoreInv' /\ exec' \in [Handles -> StorableExec]
  <2>1. CASE UpdateProcess(id, TransitionTo(row[id], "QUEUED", "")) /\ UNCHANGED <<locks, exec>>
    <3>1. TransitionTo(row[id], "QUEUED", "") \in Storable
      BY <1>0, TransitionToStorable DEF States, Reasons
    <3>2. QED
      BY <1>0, <2>1, <3>1, StoreSteps DEF AttemptsInv
  <2>2. CASE UNCHANGED <<storeVars, exec>>
    BY <2>2 DEF storeVars, StoreInv, AttemptsInv
  <2>3. CASE LeaveOrphan(id)
    <3> DEFINE p == TransitionTo(TransitionTo(row[id], "CRASHED", "daemon_restart"),
                                 "FAILED", "orphaned")
    <3>1. p \in Storable
      <4>0. "CRASHED" \in States /\ "daemon_restart" \in Reasons
        BY DEF States, Reasons
      <4>1. TransitionTo(row[id], "CRASHED", "daemon_restart") \in Process
        BY <1>0, <4>0, TransitionToType
      <4>2. "orphaned" \in Reasons
        BY DEF Reasons
      <4>3. QED
        BY <4>1, <4>2, CrashedLeft
    <3>2. UpdateProcess(id, p) /\ ReleaseLock(id) /\ exec' = exec
      BY <2>3 DEF LeaveOrphan
    <3> HIDE DEF p
    <3>3. QED
      BY <1>0, <3>1, <3>2, StoreSteps DEF AttemptsInv
  <2>4. CASE Recover(id, reset)
    <3>1. StoreInv'
      BY <1>0, <2>4, RecoveredStorable, StoreSteps DEF Recover
    <3>2. CASE exec' = exec
      BY <3>1, <3>2 DEF AttemptsInv
    <3>3. CASE SameProcess(id) /\ exec' = [exec EXCEPT ![<<id, row[id].pid>>].proc = "gone"]
      <4>1. <<id, row[id].pid>> \in Handles
        BY <1>0, <3>3 DEF SameProcess, Handles
      <4>2. [exec[<<id, row[id].pid>>] EXCEPT !.proc = "gone"] \in StorableExec
        BY <4>1 DEF AttemptsInv, StorableExec, Exec
      <4>3. QED
        BY <3>1, <3>3, <4>2, AttemptMoves DEF AttemptsInv
    <3>4. QED
      BY <2>4, <3>2, <3>3 DEF Recover
  <2>5. QED
    BY <2>1, <2>2, <2>3, <2>4 DEF reconcileOne
<1>2. AttemptsInv'
  BY <1>1 DEF reconcileOne, AttemptsInv
<1>3. SlotsInv' /\ LaunchersInv'
  BY TableUnchanged, LaunchersStay DEF reconcileOne
<1>4. PassInv'
  BY DEF reconcileOne, daemonVars, PassInv
<1>5. QED
  BY <1>1, <1>2, <1>3, <1>4

(* Shutdown, exit, crash and the next start.                               *)
LEMMA LifecycleStepOK ==
  ASSUME SuperInv, PassInv, LifecycleStep
  PROVE  SuperInv' /\ PassInv'
<1> USE DEF SuperInv
<1>1. CASE Sigterm \/ Drain \/ ShutdownEnds
  <2>1. StoreInv' /\ SlotsInv' /\ AttemptsInv' /\ LaunchersInv'
    BY <1>1, TableUnchanged, LaunchersStay
       DEF Sigterm, Drain, ShutdownEnds, OthersUnchanged, storeVars, StoreInv, AttemptsInv, Modes
  <2>2. PassInv'
    BY <1>1 DEF Sigterm, Drain, ShutdownEnds, OthersUnchanged, schedulerVars, PassInv
  <2>3. QED
    BY <2>1, <2>2
<1>2. CASE ShutdownBegins
  <2>1. StoreInv' /\ SlotsInv' /\ AttemptsInv' /\ LaunchersInv'
    BY <1>2, TableUnchanged, LaunchersStay
       DEF ShutdownBegins, OthersUnchanged, storeVars, StoreInv, AttemptsInv, Modes
  <2>2. PassInv'
    BY <1>2 DEF ShutdownBegins, OthersUnchanged, schedulerVars, PassInv, RunningHandles
  <2>3. QED
    BY <2>1, <2>2
<1>3. CASE \E h \in Handles : ShutdownIntent(h)
  <2>1. PICK h \in Handles : ShutdownIntent(h)
    BY <1>3
  <2>2. setIntent(exec[h], "shutdown") \in StorableExec
    BY SetIntentTyped DEF AttemptsInv
  <2>3. exec' \in [Handles -> StorableExec]
    BY <2>1, <2>2, AttemptMoves DEF ShutdownIntent, AttemptsInv
  <2>4. AttemptsInv'
    BY <2>1, <2>3 DEF ShutdownIntent, OthersUnchanged, AttemptsInv
  <2>5. StoreInv' /\ SlotsInv' /\ LaunchersInv'
    BY <2>1, TableUnchanged, LaunchersStay DEF ShutdownIntent, OthersUnchanged, storeVars, StoreInv
  <2>6. PassInv'
    BY <2>1 DEF ShutdownIntent, OthersUnchanged, schedulerVars, PassInv
  <2>7. QED
    BY <2>4, <2>5, <2>6
<1>4. CASE Exit \/ Crash
  BY <1>4, PowerOffStep DEF Exit, Crash
<1>5. CASE Boot
  <2>1. StoreInv' /\ SlotsInv' /\ AttemptsInv' /\ LaunchersInv'
    BY <1>5, TableUnchanged, LaunchersStay DEF Boot, storeVars, StoreInv, AttemptsInv, Modes
  <2>2. PassInv'
    BY <1>5 DEF Boot, PassInv, UnfinishedProcesses
  <2>3. QED
    BY <2>1, <2>2
<1>6. CASE ReconcileDone
  <2>1. StoreInv' /\ SlotsInv' /\ AttemptsInv' /\ LaunchersInv'
    BY <1>6, TableUnchanged, LaunchersStay DEF ReconcileDone, storeVars, StoreInv, AttemptsInv, Modes
  <2>2. PassInv'
    BY <1>6 DEF ReconcileDone, schedulerVars, daemonVars, PassInv
  <2>3. QED
    BY <2>1, <2>2
<1>7. CASE \E id \in todo, reset \in BOOLEAN : reconcileOne(id, reset)
  BY <1>7, ReconcileStep
<1>8. QED
  BY <1>1, <1>2, <1>3, <1>4, <1>5, <1>6, <1>7 DEF LifecycleStep

----------------------------------------------------------------------------
(* The initial state: an empty store, an empty table, nobody at work.      *)
LEMMA InitOK ==
  ASSUME Init
  PROVE  DaemonInv
<1>0. NoProcess \in Storable
  BY DEF NoProcess, Storable, Process, NONE, Reasons
<1>1. StoreInv
  BY <1>0 DEF Init, StoreInit, StoreInv
<1>2. SlotsInv
  BY EmptyTable DEF Init, NewSlots
<1>3. AttemptsInv
  <2>1. NoExec \in StorableExec
    BY <1>0 DEF NoExec, StorableExec, Exec, Storable
  <2>2. IdleStopper \in StorableStopper
    BY <1>0 DEF IdleStopper, StorableStopper, Stopper, Storable
  <2>3. QED
    BY <2>1, <2>2, SupervisorAssumption DEF Init, SupervisorInit, AttemptsInv, Modes
<1>4. LaunchersInv
  <2>1. LauncherOK(IdleLauncher, launches)
    BY <1>0 DEF LauncherOK, IdleLauncher, StorableLauncher, Launcher, LauncherPCs, Storable
  <2>2. QED
    BY <2>1 DEF Init, SupervisorInit, LaunchersInv
<1>5. PassInv
  BY <1>0 DEF Init, SchedulerInit, PassInv
<1>6. QED
  BY <1>1, <1>2, <1>3, <1>4, <1>5 DEF DaemonInv, SuperInv

(* Every step of the daemon.                                               *)
LEMMA NextOK ==
  ASSUME DaemonInv, [Next]_vars
  PROVE  DaemonInv'
<1> USE DEF DaemonInv
<1>1. CASE \E t \in Launchers : LauncherStep(t)
  <2>1. PICK t \in Launchers : LauncherStep(t)
    BY <1>1
  <2>2. SuperInv'
    BY <2>1, StartStep, AdmitStep, SubmitStep DEF LauncherStep
  <2>3. PassInv'
    BY <2>1 DEF LauncherStep, schedulerVars, daemonVars, PassInv
  <2>4. QED
    BY <2>2, <2>3
<1>2. CASE \E h \in Handles : AttemptStep(h)
  <2>1. SuperInv'
    BY <1>2, AttemptStepOK DEF AttemptStep
  <2>2. PassInv'
    BY <1>2 DEF AttemptStep, schedulerVars, daemonVars, PassInv
  <2>3. QED
    BY <2>1, <2>2
<1>3. CASE \E id \in Procs : StopStep(id)
  <2>1. SuperInv'
    BY <1>3, StopStepOK DEF StopStep
  <2>2. PassInv'
    BY <1>3 DEF StopStep, schedulerVars, daemonVars, PassInv
  <2>3. QED
    BY <2>1, <2>2
<1>4. CASE DispatchStep
  BY <1>4, DispatchStepOK
<1>5. CASE LifecycleStep
  BY <1>5, LifecycleStepOK
<1>6. CASE \E w \in Workers, limit \in Limits : Reload(w, limit)
  <2>1. PICK w \in Workers, limit \in Limits : Reload(w, limit)
    BY <1>6
  <2>2. StoreInv' /\ AttemptsInv' /\ LaunchersInv'
    BY <2>1, LaunchersStay DEF Reload, superVars, storeVars, StoreInv, AttemptsInv, SuperInv
  <2>3. SlotsInv'
    BY <2>1, LimitStep DEF Reload, SuperInv
  <2>4. PassInv'
    BY <2>1 DEF Reload, schedulerVars, daemonVars, PassInv
  <2>5. QED
    BY <2>2, <2>3, <2>4 DEF SuperInv
<1>7. CASE UNCHANGED vars
  <2>1. StoreInv' /\ SlotsInv' /\ AttemptsInv' /\ LaunchersInv'
    BY <1>7, TableUnchanged, LaunchersStay
       DEF vars, superVars, storeVars, StoreInv, AttemptsInv, SuperInv
  <2>2. PassInv'
    BY <1>7 DEF vars, schedulerVars, daemonVars, PassInv
  <2>3. QED
    BY <2>1, <2>2 DEF SuperInv
<1>8. QED
  BY <1>1, <1>2, <1>3, <1>4, <1>5, <1>6, <1>7 DEF Next

(* The inductive invariant holds in every reachable state.                 *)
THEOREM DaemonCorrect == Spec => []DaemonInv
<1>1. Init => DaemonInv
  BY InitOK
<1>2. DaemonInv /\ [Next]_vars => DaemonInv'
  BY NextOK
<1>3. QED
  BY <1>1, <1>2, PTL DEF Spec

(* Type correctness of the composed daemon, under every fault.             *)
THEOREM TypeCorrect == Spec => []TypeOK
<1>1. DaemonInv => TypeOK
  <2> SUFFICES ASSUME DaemonInv PROVE TypeOK
    OBVIOUS
  <2>1. StoreTypeOK
    BY DEF DaemonInv, SuperInv, StoreInv, StoreTypeOK, Storable
  <2>2. SlotsTypeOK
    BY DEF DaemonInv, SuperInv, SlotsInv
  <2>3. launcher \in [Launchers -> Launcher]
    BY DEF DaemonInv, SuperInv, LaunchersInv, LauncherOK, StorableLauncher
  <2>4. SupervisorTypeOK
    BY <2>3 DEF DaemonInv, SuperInv, AttemptsInv, SupervisorTypeOK, StorableExec, StorableStopper
  <2>5. SchedulerTypeOK /\ shut \subseteq Handles /\ boots \in Nat
    BY DEF DaemonInv, PassInv, SchedulerTypeOK, Storable
  <2>6. QED
    BY <2>1, <2>2, <2>4, <2>5 DEF TypeOK
<1>2. QED
  BY <1>1, DaemonCorrect, PTL

(* The daemon uses its slot table so that the counters stay exact: a       *)
(* failed start, a lost request, a stop, a retry, a shutdown or a crash    *)
(* never makes them drift from the executions that hold a slot.            *)
THEOREM DaemonSlots == Spec => [](SlotAccounting /\ SlotBound)
<1>1. DaemonInv => SlotAccounting /\ SlotBound
  BY DEF DaemonInv, SuperInv, SlotsInv
<1>2. QED
  BY <1>1, DaemonCorrect, PTL

(* No row ever says CRASHED: every critical section that moves a copy to   *)
(* CRASHED settles it before it is written.                                *)
THEOREM NeverCrashedInStore == Spec => []CrashedNotPersisted
<1>1. DaemonInv => CrashedNotPersisted
  BY DEF DaemonInv, SuperInv, StoreInv, Storable, CrashedNotPersisted
<1>2. QED
  BY <1>1, DaemonCorrect, PTL

----------------------------------------------------------------------------
(* No task slot leaks: each step either leaves the users of a slot at      *)
(* work, or moves one user to its next step, or gives the slot back.       *)

(* The users of every slot but that of x stay at work.                     *)
OthersKept(x) ==
  /\ \A t \in Launchers :
        launcher[t].pc \in UsingPCs /\ launcher[t].id # x
          => launcher'[t].pc \in UsingPCs /\ launcher'[t].id = launcher[t].id
  /\ \A h \in Handles :
        h[1] # x /\ exec[h].sup \in UsingPhases => exec'[h].sup \in UsingPhases

(* No execution but x takes a slot.                                        *)
OthersTakeNone(x) == \A id \in Procs \ {x} : Holds(id)' => Holds(id)

(* The shape of every step: only x needs an argument of its own.           *)
LEMMA LeakFrame ==
  ASSUME TaskSlotNotLeaked, NEW x, OthersKept(x), OthersTakeNone(x),
         x \in Procs /\ Def[x].type = "task" => ~Holds(x)' \/ SlotUser(x)'
  PROVE  TaskSlotNotLeaked'
<1> SUFFICES ASSUME NEW id \in Procs, Def[id].type = "task", Holds(id)'
             PROVE  SlotUser(id)'
  BY DEF TaskSlotNotLeaked
<1>1. CASE id = x
  BY <1>1
<1>2. CASE id # x
  <2>1. SlotUser(id)
    BY <1>2 DEF OthersTakeNone, TaskSlotNotLeaked
  <2>2. CASE \E t \in Launchers : launcher[t].id = id /\ launcher[t].pc \in UsingPCs
    BY <1>2, <2>2 DEF OthersKept, SlotUser
  <2>3. CASE \E n \in 1..MaxLaunches : exec[<<id, n>>].sup \in UsingPhases
    <3>1. PICK n \in 1..MaxLaunches : exec[<<id, n>>].sup \in UsingPhases
      BY <2>3
    <3>2. <<id, n>> \in Handles /\ <<id, n>>[1] = id
      BY DEF Handles
    <3>3. exec'[<<id, n>>].sup \in UsingPhases
      BY <1>2, <3>1, <3>2 DEF OthersKept
    <3>4. QED
      BY <3>3 DEF SlotUser
  <2>4. QED
    BY <2>1, <2>2, <2>3 DEF SlotUser
<1>3. QED
  BY <1>1, <1>2

(* Dispatcher stands for "no execution": 0 is not an id.                   *)
LEMMA NobodyIsZero == 0 \notin Procs
BY ProcsAssumption

(* Release frees one slot and takes none.                                  *)
LEMMA ReleaseFrees ==
  ASSUME SlotsInv, NEW id \in Procs, Release(id)
  PROVE  OthersTakeNone(id) /\ ~Holds(id)'
<1>1. ~Holds(id)'
  BY ReleaseStep
<1>2. \A j \in Procs \ {id} : holders'[j] = holders[j]
  BY DEF Release, slotVars, SlotsInv, SlotsTypeOK
<1>3. QED
  BY <1>1, <1>2 DEF OthersTakeNone, Holds

(* OnExecutionSettled frees the slot of a task and takes none.             *)
LEMMA SettledFrees ==
  ASSUME SlotsInv, NEW id \in Procs, NEW state, OnExecutionSettled(id, state)
  PROVE  OthersTakeNone(id) /\ (Def[id].type = "task" => ~Holds(id)')
<1>1. CASE Release(id)
  BY <1>1, ReleaseFrees
<1>2. CASE UNCHANGED slotVars /\ Def[id].type = "service"
  BY <1>2 DEF slotVars, OthersTakeNone, Holds
<1>3. QED
  BY <1>1, <1>2 DEF OnExecutionSettled

(* A launcher moves alone.                                                 *)
LEMMA LauncherAlone ==
  ASSUME LaunchersInv, NEW t \in Launchers, NEW l, launcher' = [launcher EXCEPT ![t] = l]
  PROVE  /\ launcher'[t] = l
         /\ \A u \in Launchers \ {t} : launcher'[u] = launcher[u]
BY DEF LaunchersInv

(* A launcher goes on to a step that still uses the slot of its execution. *)
LEMMA LauncherGoesOn ==
  ASSUME SuperInv, TaskSlotNotLeaked, NEW t \in Launchers, NEW l, NEW x \in Procs,
         launcher[t].id = x, launcher' = [launcher EXCEPT ![t] = l],
         l.id = x, l.pc \in UsingPCs, OthersTakeNone(x),
         \A h \in Handles : h[1] # x => exec'[h] = exec[h]
  PROVE  TaskSlotNotLeaked'
<1>1. launcher'[t] = l /\ \A u \in Launchers \ {t} : launcher'[u] = launcher[u]
  BY LauncherAlone DEF SuperInv
<1>2. SlotUser(x)'
  BY <1>1 DEF SlotUser
<1>3. OthersKept(x)
  BY <1>1 DEF OthersKept
<1>4. QED
  BY <1>2, <1>3, LeakFrame

(* A launcher stops using the slot of its execution, which is free now.    *)
LEMMA LauncherLetsGo ==
  ASSUME SuperInv, TaskSlotNotLeaked, NEW t \in Launchers, NEW l, NEW x \in Procs,
         launcher[t].id = x, launcher' = [launcher EXCEPT ![t] = l],
         OthersTakeNone(x), Def[x].type = "task" => ~Holds(x)', exec' = exec
  PROVE  TaskSlotNotLeaked'
<1>1. \A u \in Launchers \ {t} : launcher'[u] = launcher[u]
  BY LauncherAlone DEF SuperInv
<1>2. OthersKept(x)
  BY <1>1 DEF OthersKept
<1>3. QED
  BY <1>2, LeakFrame

(* A launcher that uses no slot moves.                                     *)
LEMMA LauncherElsewhere ==
  ASSUME SuperInv, TaskSlotNotLeaked, NEW t \in Launchers, NEW l,
         launcher[t].pc \notin UsingPCs, launcher' = [launcher EXCEPT ![t] = l],
         holders' = holders, exec' = exec
  PROVE  TaskSlotNotLeaked'
<1>1. \A u \in Launchers \ {t} : launcher'[u] = launcher[u]
  BY LauncherAlone DEF SuperInv
<1>2. OthersKept(0) /\ OthersTakeNone(0)
  BY <1>1 DEF OthersKept, OthersTakeNone, Holds
<1>3. QED
  BY <1>2, NobodyIsZero, LeakFrame

(* Nobody moves and no slot changes hands; attempts go on.                 *)
LEMMA OnlyAttempts ==
  ASSUME SuperInv, TaskSlotNotLeaked, launcher' = launcher, holders' = holders,
         \A h \in Handles : exec[h].sup \in UsingPhases => exec'[h].sup \in UsingPhases
  PROVE  TaskSlotNotLeaked'
<1>1. OthersKept(0) /\ OthersTakeNone(0)
  BY DEF OthersKept, OthersTakeNone, Holds
<1>2. QED
  BY <1>1, NobodyIsZero, LeakFrame

(* Where the launchers go and what they return to.                         *)
LEMMA MovesAre ==
  ASSUME NEW t \in Launchers, NEW pc, NEW p
  PROVE  /\ Goto(t, pc) =>
              launcher' = [launcher EXCEPT ![t] = [launcher[t] EXCEPT !.pc = pc]]
         /\ GotoWith(t, pc, p) =>
              launcher' = [launcher EXCEPT ![t] = [launcher[t] EXCEPT !.pc = pc, !.p = p]]
         /\ Return(t) => \E l : launcher' = [launcher EXCEPT ![t] = l]
         /\ GotoPark(t) => \E l : launcher' = [launcher EXCEPT ![t] = l]
BY DEF Goto, GotoWith, Return, GotoPark

(* Goto and GotoFailed to a step that uses the slot.                       *)
LEMMA GoesOn ==
  ASSUME SuperInv, TaskSlotNotLeaked, NEW t \in Launchers, NEW x \in Procs,
         launcher[t].id = x, launcher[t] \in StorableLauncher, OthersTakeNone(x),
         \A h \in Handles : h[1] # x => exec'[h] = exec[h],
         NEW pc \in UsingPCs, NEW p, NEW d,
         \/ Goto(t, pc) \/ GotoWith(t, pc, p) \/ GotoFailed(t, p, d)
  PROVE  TaskSlotNotLeaked'
<1>0. {"failunlock", "failwrite"} \subseteq UsingPCs
  BY DEF UsingPCs
<1>1. PICK l : launcher' = [launcher EXCEPT ![t] = l] /\ l.id = x /\ l.pc \in UsingPCs
  <2>1. CASE Goto(t, pc)
    <3>1. WITNESS [launcher[t] EXCEPT !.pc = pc]
    <3>2. QED
      BY <2>1, <3>1 DEF Goto, StorableLauncher, Launcher
  <2>2. CASE GotoWith(t, pc, p)
    <3>1. WITNESS [launcher[t] EXCEPT !.pc = pc, !.p = p]
    <3>2. QED
      BY <2>2 DEF GotoWith, StorableLauncher, Launcher
  <2>3. CASE GotoFailed(t, p, d)
    <3>1. WITNESS [launcher[t] EXCEPT !.p = StartFailure(launcher[t].id, p), !.detached = d,
                     !.pc = IF IsTerminal(StartFailure(launcher[t].id, p).state)
                            THEN "failunlock" ELSE "failwrite"]
    <3>2. QED
      BY <1>0, <2>3 DEF GotoFailed, StorableLauncher, Launcher
  <2>4. QED
    BY <2>1, <2>2, <2>3
<1>2. QED
  BY <1>1, LauncherGoesOn

(* The table is not touched.                                               *)
LEMMA NoneTaken ==
  ASSUME NEW x, UNCHANGED slotVars
  PROVE  OthersTakeNone(x) /\ holders' = holders
BY DEF slotVars, OthersTakeNone, Holds

(* Supervisor.Start uses the slot until the attempt is registered, or      *)
(* until startFailed hands it back.                                        *)
LEMMA StartLeaksNone ==
  ASSUME SuperInv, TaskSlotNotLeaked, NEW t \in Launchers, StartNext(t)
  PROVE  TaskSlotNotLeaked'
<1>0. launcher[t].pc \notin {"idle", "done"}
  BY DEF StartNext, StartDraining, StartAccepted, Fork, ForkFails, PersistRunning,
         PersistRunningFails, Register, AbandonStart, FailUnlock, FailWrite, FailSettle, At
<1>1. PICK x \in Procs : launcher[t].id = x
  BY <1>0, BusyLauncher DEF SuperInv
<1>2. launcher[t] \in StorableLauncher
  BY <1>0, BusyLauncher DEF SuperInv
<1>3. {"release", "fork", "running", "register", "abandon", "failwrite", "failsettle"}
        \subseteq UsingPCs
  BY DEF UsingPCs
<1>4. ASSUME exec' = exec, UNCHANGED slotVars,
             NEW pc \in UsingPCs, NEW p, NEW d,
             Goto(t, pc) \/ GotoWith(t, pc, p) \/ GotoFailed(t, p, d)
      PROVE  TaskSlotNotLeaked'
  BY <1>1, <1>2, <1>4, NoneTaken, GoesOn
<1>10. CASE StartDraining(t)
  BY <1>3, <1>4, <1>10 DEF StartDraining
<1>11. CASE StartAccepted(t)
  BY <1>3, <1>4, <1>11 DEF StartAccepted
<1>12. CASE Fork(t)
  <2> DEFINE n == launches[x]
             p == [TransitionTo(launcher[t].p, "RUNNING", "") EXCEPT !.pid = n]
  <2>1. exec' = [exec EXCEPT ![<<x, n>>] = [NoExec EXCEPT !.proc = "alive", !.p = p]]
    BY <1>1, <1>12 DEF Fork
  <2>2. \A h \in Handles : h[1] # x => exec'[h] = exec[h]
    BY <2>1 DEF SuperInv, AttemptsInv, Handles
  <2>3. GotoWith(t, "running", p) /\ UNCHANGED slotVars
    BY <1>1, <1>12 DEF Fork
  <2> HIDE DEF p
  <2>4. QED
    BY <1>1, <1>2, <1>3, <2>2, <2>3, NoneTaken, GoesOn
<1>13. CASE ForkFails(t)
  BY <1>3, <1>4, <1>13 DEF ForkFails
<1>14. CASE PersistRunning(t)
  BY <1>3, <1>4, <1>14 DEF PersistRunning
<1>15. CASE PersistRunningFails(t)
  BY <1>3, <1>4, <1>15 DEF PersistRunningFails
<1>16. CASE Register(t)
  <2>1. PICK n \in 1..MaxLaunches : launcher[t].p.pid = n
    BY <1>16, BusyLauncher DEF Register, At, SuperInv
  <2>2. <<x, n>> \in Handles /\ Handle(t) = <<x, n>>
    BY <1>1, <2>1 DEF Handle, Handles
  <2>3. exec'[<<x, n>>].sup = "wait" /\ \A h \in Handles : h # <<x, n>> => exec'[h] = exec[h]
    BY <1>16, <2>2 DEF Register, SuperInv, AttemptsInv, StorableExec, Exec
  <2>4. PICK l : launcher' = [launcher EXCEPT ![t] = l]
    BY <1>16, MovesAre DEF Register
  <2>5. SlotUser(x)'
    BY <2>1, <2>3 DEF SlotUser, UsingPhases
  <2>6. \A u \in Launchers \ {t} : launcher'[u] = launcher[u]
    BY <2>4, LauncherAlone DEF SuperInv
  <2>7. OthersKept(x)
    BY <1>1, <2>3, <2>6 DEF OthersKept
  <2>8. OthersTakeNone(x)
    BY <1>16, NoneTaken DEF Register
  <2>9. QED
    BY <2>5, <2>7, <2>8, LeakFrame
<1>17. CASE AbandonStart(t)
  <2>1. \A h \in Handles : h[1] # x => exec'[h] = exec[h]
    BY <1>1, <1>17 DEF AbandonStart, SuperInv, AttemptsInv, Handles, Handle
  <2>2. GotoFailed(t, [launcher[t].p EXCEPT !.pid = 0], TRUE) /\ UNCHANGED slotVars
    BY <1>17 DEF AbandonStart
  <2>3. QED
    BY <1>1, <1>2, <1>3, <2>1, <2>2, NoneTaken, GoesOn
<1>18. CASE FailUnlock(t)
  BY <1>3, <1>4, <1>18 DEF FailUnlock
<1>19. CASE FailWrite(t)
  BY <1>3, <1>4, <1>19 DEF FailWrite
<1>20. CASE FailSettle(t)
  <2>1. OthersTakeNone(x) /\ (Def[x].type = "task" => ~Holds(x)')
    BY <1>1, <1>20, SettledFrees DEF FailSettle, SuperInv
  <2>2. PICK l : launcher' = [launcher EXCEPT ![t] = l]
    BY <1>20, MovesAre DEF FailSettle
  <2>3. exec' = exec
    BY <1>20 DEF FailSettle
  <2>4. QED
    BY <1>1, <2>1, <2>2, <2>3, LauncherLetsGo
<1>21. QED
  BY <1>10, <1>11, <1>12, <1>13, <1>14, <1>15, <1>16, <1>17, <1>18, <1>19, <1>20 DEF StartNext

(* A launcher takes the slot, uses it, or gives it back.                   *)
LEMMA AdmitLeaksNone ==
  ASSUME SuperInv, TaskSlotNotLeaked, NEW t \in Launchers, AdmitNext(t)
  PROVE  TaskSlotNotLeaked'
<1>0. launcher[t].pc \notin {"idle", "done"}
  BY DEF AdmitNext, TakeSlot, TakeLock, YieldSlot, WriteStarting, ReleaseSlot, Unlock, At
<1>1. PICK x \in Procs : launcher[t].id = x
  BY <1>0, BusyLauncher DEF SuperInv
<1>2. launcher[t] \in StorableLauncher
  BY <1>0, BusyLauncher DEF SuperInv
<1>3. {"lock", "yield", "unslot", "starting", "start", "release"} \subseteq UsingPCs
  BY DEF UsingPCs
<1>4. ASSUME exec' = exec, OthersTakeNone(x), NEW pc \in UsingPCs, NEW p,
             Goto(t, pc) \/ GotoWith(t, pc, p)
      PROVE  TaskSlotNotLeaked'
  BY <1>1, <1>2, <1>4, GoesOn
<1>10. CASE TakeSlot(t)
  <2>0. exec' = exec
    BY <1>10 DEF TakeSlot
  <2>1. CASE Acquire(x, Def[x].worker) /\ Goto(t, "lock")
    <3>1. OthersTakeNone(x)
      BY <2>1 DEF Acquire, slotVars, OthersTakeNone, Holds, SuperInv, SlotsInv, SlotsTypeOK
    <3>2. QED
      BY <1>3, <1>4, <2>0, <2>1, <3>1
  <2>2. CASE ~CanAcquire(x, Def[x].worker) /\ UNCHANGED slotVars
    <3>1. ~Holds(x)' /\ OthersTakeNone(x)
      BY <2>2, NoneTaken DEF CanAcquire, Holds
    <3>2. PICK l : launcher' = [launcher EXCEPT ![t] = l]
      BY <1>10, <2>2, <1>1, MovesAre DEF TakeSlot
    <3>3. QED
      BY <1>1, <2>0, <3>1, <3>2, LauncherLetsGo
  <2>3. QED
    BY <1>1, <1>10, <2>1, <2>2 DEF TakeSlot
<1>11. CASE TakeLock(t)
  <2>1. exec' = exec /\ OthersTakeNone(x)
    BY <1>11, NoneTaken DEF TakeLock
  <2>2. Goto(t, "starting") \/ Goto(t, "unslot") \/ Goto(t, "yield")
    BY <1>11 DEF TakeLock
  <2>3. QED
    BY <1>3, <1>4, <2>1, <2>2
<1>12. CASE YieldSlot(t)
  <2>1. OthersTakeNone(x) /\ ~Holds(x)'
    BY <1>1, <1>12, ReleaseFrees DEF YieldSlot, SuperInv
  <2>2. PICK l : launcher' = [launcher EXCEPT ![t] = l]
    BY <1>12, MovesAre DEF YieldSlot
  <2>3. exec' = exec
    BY <1>12 DEF YieldSlot
  <2>4. QED
    BY <1>1, <2>1, <2>2, <2>3, LauncherLetsGo
<1>13. CASE WriteStarting(t)
  <2>1. exec' = exec /\ OthersTakeNone(x)
    BY <1>13, NoneTaken DEF WriteStarting
  <2>2. Goto(t, "release") \/ GotoWith(t, "start", Launched(launcher[t].p))
    BY <1>13 DEF WriteStarting
  <2>3. QED
    BY <1>3, <1>4, <2>1, <2>2
<1>14. CASE ReleaseSlot(t)
  <2>1. OthersTakeNone(x) /\ ~Holds(x)'
    BY <1>1, <1>14, ReleaseFrees DEF ReleaseSlot, SuperInv
  <2>2. launcher' = [launcher EXCEPT ![t] = [launcher[t] EXCEPT !.pc = "unlock"]] /\ exec' = exec
    BY <1>14 DEF ReleaseSlot, Goto
  <2>3. QED
    BY <1>1, <2>1, <2>2, LauncherLetsGo
<1>15. CASE Unlock(t)
  <2>1. launcher[t].pc \notin UsingPCs /\ exec' = exec /\ holders' = holders
    BY <1>15 DEF Unlock, At, UsingPCs, slotVars
  <2>2. PICK l : launcher' = [launcher EXCEPT ![t] = l]
    BY <1>15, MovesAre DEF Unlock
  <2>3. QED
    BY <2>1, <2>2, LauncherElsewhere
<1>16. QED
  BY <1>10, <1>11, <1>12, <1>13, <1>14, <1>15 DEF AdmitNext

(* The steps of a submission before its slot, and of expiry, use none.     *)
LEMMA SubmitLeaksNone ==
  ASSUME SuperInv, TaskSlotNotLeaked, NEW t \in Launchers,
         (t \in Procs /\ SubmitNext(t)) \/ ExpireUnlock(t) \/ ExpireWrite(t)
  PROVE  TaskSlotNotLeaked'
<1>1. CASE Hangup(t)
  BY <1>1, OnlyAttempts DEF Hangup, slotVars
<1>2. CASE \/ Submit(t) \/ Create(t) \/ Claim(t) \/ Unclaim(t) \/ ExpireUnlock(t)
           \/ rejectLocked(t) \/ park(t) \/ ExpireWrite(t)
  <2>1. launcher[t].pc \notin UsingPCs /\ exec' = exec /\ holders' = holders
    BY <1>2 DEF Submit, Create, Claim, Unclaim, ExpireUnlock, rejectLocked, park, ExpireWrite,
                WriteAndReturn, At, UsingPCs, slotVars
  <2>2. CASE Submit(t)
    <3>1. PICK l : launcher' = [launcher EXCEPT ![t] = l]
      <4>1. CASE Return(t)
        BY <4>1, MovesAre
      <4>2. CASE launcher' = [launcher EXCEPT ![t].pc = "create", ![t].id = t]
        BY <4>2
      <4>3. QED
        BY <2>2, <4>1, <4>2 DEF Submit
    <3>2. QED
      BY <2>1, <3>1, LauncherElsewhere
  <2>3. CASE Create(t)
    <3>1. PICK l : launcher' = [launcher EXCEPT ![t] = l]
      BY <2>3, MovesAre DEF Create
    <3>2. QED
      BY <2>1, <3>1, LauncherElsewhere
  <2>4. CASE Claim(t)
    <3>1. PICK l : launcher' = [launcher EXCEPT ![t] = l]
      BY <2>4, MovesAre DEF Claim
    <3>2. QED
      BY <2>1, <3>1, LauncherElsewhere
  <2>5. CASE Unclaim(t) \/ ExpireUnlock(t)
    <3>1. PICK l : launcher' = [launcher EXCEPT ![t] = l]
      BY <2>5, MovesAre DEF Unclaim, ExpireUnlock
    <3>2. QED
      BY <2>1, <3>1, LauncherElsewhere
  <2>6. CASE rejectLocked(t) \/ park(t) \/ ExpireWrite(t)
    <3>1. PICK l : launcher' = [launcher EXCEPT ![t] = l]
      BY <2>6, MovesAre DEF rejectLocked, park, ExpireWrite, WriteAndReturn
    <3>2. QED
      BY <2>1, <3>1, LauncherElsewhere
  <2>7. QED
    BY <1>2, <2>2, <2>3, <2>4, <2>5, <2>6
<1>3. QED
  BY <1>1, <1>2 DEF SubmitNext

(* setIntent leaves the supervise goroutine where it is.                   *)
LEMMA IntentKeepsPhase ==
  ASSUME NEW e \in StorableExec, NEW reason
  PROVE  setIntent(e, reason).sup = e.sup
BY DEF setIntent, StorableExec, Exec

(* One attempt changes.                                                    *)
LEMMA AttemptAlone ==
  ASSUME SuperInv, NEW h \in Handles, NEW e, exec' = [exec EXCEPT ![h] = e]
  PROVE  exec'[h] = e /\ \A g \in Handles : g # h => exec'[g] = exec[g]
BY DEF SuperInv, AttemptsInv

(* An attempt uses the slot until Settle gives it back.                    *)
LEMMA AttemptLeaksNone ==
  ASSUME SuperInv, TaskSlotNotLeaked, NEW h \in Handles, AttemptNext(h)
  PROVE  TaskSlotNotLeaked'
<1>0. PICK x \in Procs : h[1] = x
  BY DEF Handles
<1>1. exec \in [Handles -> StorableExec]
  BY DEF SuperInv, AttemptsInv
<1>2. exec[h] \in StorableExec /\ exec[h] \in Exec
  BY <1>1 DEF StorableExec
<1>3. CASE Settle(h)
  <2>1. OthersTakeNone(x) /\ (Def[x].type = "task" => ~Holds(x)')
    BY <1>0, <1>3, SettledFrees DEF Settle, SuperInv
  <2>2. launcher' = launcher /\ \A g \in Handles : g # h => exec'[g] = exec[g]
    BY <1>1, <1>3 DEF Settle
  <2>3. OthersKept(x)
    BY <1>0, <2>2 DEF OthersKept
  <2>4. QED
    BY <2>1, <2>3, LeakFrame
<1>4. ASSUME ~Settle(h)
      PROVE  TaskSlotNotLeaked'
  <2>1. launcher' = launcher /\ holders' = holders
    BY <1>4 DEF AttemptNext, ProcExit, OrphanExit, WaitReturns, Unregister, Classify, PersistOutcome,
       TimerFires, TimeoutIntent, BeginStop, SignalGroup, slotVars
  <2>2. \A g \in Handles : g # h => exec'[g] = exec[g]
    BY <1>1, <1>4 DEF AttemptNext, ProcExit, OrphanExit, WaitReturns, Unregister, Classify,
       PersistOutcome, TimerFires, TimeoutIntent, BeginStop, SignalGroup
  <2>3. exec[h].sup \in UsingPhases => exec'[h].sup \in UsingPhases
    <3>1. CASE (\E result \in Results : ProcExit(h, result)) \/ OrphanExit(h)
               \/ TimerFires(h) \/ SignalGroup(h) \/ BeginStop(h)
      BY <1>1, <3>1 DEF ProcExit, OrphanExit, TimerFires, SignalGroup, BeginStop, StorableExec, Exec
    <3>2. CASE TimeoutIntent(h)
      <4>1. exec' = [exec EXCEPT ![h] = setIntent([exec[h] EXCEPT !.timer = "off"], "timeout")]
        BY <3>2 DEF TimeoutIntent
      <4>2. [exec[h] EXCEPT !.timer = "off"] \in StorableExec
        BY <1>2 DEF StorableExec, Exec
      <4>3. [exec[h] EXCEPT !.timer = "off"].sup = exec[h].sup
        BY <1>2 DEF Exec
      <4>4. exec'[h] = setIntent([exec[h] EXCEPT !.timer = "off"], "timeout")
        BY <4>1, AttemptAlone
      <4>5. setIntent([exec[h] EXCEPT !.timer = "off"], "timeout").sup
              = [exec[h] EXCEPT !.timer = "off"].sup
        BY <4>2, IntentKeepsPhase
      <4>6. QED
        BY <4>3, <4>4, <4>5
    <3>3. CASE WaitReturns(h)
      <4>1. exec' = [exec EXCEPT ![h] = [exec[h] EXCEPT !.proc = "gone", !.sup = "reaped",
                        !.timer = IF @ = "armed" THEN "off" ELSE @]]
        BY <3>3 DEF WaitReturns
      <4>2. exec'[h] = [exec[h] EXCEPT !.proc = "gone", !.sup = "reaped",
                        !.timer = IF @ = "armed" THEN "off" ELSE @]
        BY <4>1, AttemptAlone
      <4>3. exec'[h].sup = "reaped"
        BY <1>2, <4>2 DEF Exec
      <4>4. QED
        BY <4>3 DEF UsingPhases
    <3>4. CASE Unregister(h) \/ PersistOutcome(h)
      <4>1. exec'[h].sup \in {"deleted", "persisted"}
        <5>1. PICK phase \in {"deleted", "persisted"} :
                exec' = [exec EXCEPT ![h] = [exec[h] EXCEPT !.sup = phase]]
          BY <3>4 DEF Unregister, PersistOutcome
        <5>2. exec'[h] = [exec[h] EXCEPT !.sup = phase]
          BY <5>1, AttemptAlone
        <5>3. QED
          BY <1>2, <5>2 DEF Exec
      <4>2. QED
        BY <4>1 DEF UsingPhases
    <3>5. CASE \E reset \in BOOLEAN : Classify(h, reset)
      <4>0. PICK reset \in BOOLEAN : Classify(h, reset)
        BY <3>5
      <4>1. exec' = [exec EXCEPT ![h] = [exec[h] EXCEPT !.p = Outcome(h, reset),
                                            !.sup = "classified", !.result = "none"]]
        BY <4>0 DEF Classify
      <4>2. PICK p : exec'[h] = [exec[h] EXCEPT !.p = p, !.sup = "classified", !.result = "none"]
        BY <4>1, AttemptAlone
      <4>3. exec'[h].sup = "classified"
        BY <1>2, <4>2 DEF Exec
      <4>4. QED
        BY <4>3 DEF UsingPhases
    <3>6. QED
      BY <1>4, <3>1, <3>2, <3>3, <3>4, <3>5 DEF AttemptNext
  <2>4. QED
    BY <2>1, <2>2, <2>3, OnlyAttempts
<1>5. QED
  BY <1>3, <1>4

(* A stop request leaves the slot to the attempt, or gives it back for an  *)
(* execution that has none.                                                *)
LEMMA StopLeaksNone ==
  ASSUME SuperInv, TaskSlotNotLeaked, NEW id \in Procs, StopNext(id) \/ CancelGet(id)
  PROVE  TaskSlotNotLeaked'
<1>1. CASE CancelSettle(id)
  <2>1. OthersTakeNone(id) /\ (Def[id].type = "task" => ~Holds(id)')
    BY <1>1, SettledFrees DEF CancelSettle, SuperInv
  <2>2. OthersKept(id)
    BY <1>1 DEF CancelSettle, OthersKept
  <2>3. QED
    BY <2>1, <2>2, LeakFrame
<1>2. CASE StopIntent(id)
  <2>1. launcher' = launcher /\ holders' = holders
    BY <1>2 DEF StopIntent, slotVars
  <2>2. \A g \in Handles : exec'[g].sup = exec[g].sup
    BY <1>2 DEF StopIntent, setIntent, SuperInv, AttemptsInv, StorableExec, Exec
  <2>3. QED
    BY <2>1, <2>2, OnlyAttempts
<1>3. CASE RequestStop(id) \/ StopLookup(id) \/ CancelGet(id) \/ CancelRelease(id)
           \/ CancelWrite(id)
  <2>1. launcher' = launcher /\ holders' = holders /\ exec' = exec
    BY <1>3 DEF RequestStop, StopLookup, CancelGet, CancelRelease, CancelWrite, slotVars
  <2>2. QED
    BY <2>1, OnlyAttempts
<1>4. QED
  BY <1>1, <1>2, <1>3 DEF StopNext

(* The dispatch loop starts on a row only when it uses no slot.            *)
LEMMA DispatchLeaksNone ==
  ASSUME SuperInv, TaskSlotNotLeaked, DispatchStep
  PROVE  TaskSlotNotLeaked'
<1>1. CASE \E due \in SUBSET Retrying : DispatchScan(due)
  <2>1. launcher' = launcher /\ holders' = holders /\ exec' = exec
    BY <1>1 DEF DispatchScan, superVars, slotVars
  <2>2. QED
    BY <2>1, OnlyAttempts
<1>2. CASE \E id \in todo, expired \in BOOLEAN : DispatchNext(id, expired)
  <2>1. PICK l : launcher' = [launcher EXCEPT ![Dispatcher] = l]
    BY <1>2 DEF DispatchNext
  <2>2. launcher[Dispatcher].pc \notin UsingPCs /\ holders' = holders /\ exec' = exec
    BY <1>2 DEF DispatchNext, At, UsingPCs, slotVars
  <2>3. Dispatcher \in Launchers
    BY DEF Launchers
  <2>4. QED
    BY <2>1, <2>2, <2>3, LauncherElsewhere
<1>3. QED
  BY <1>1, <1>2 DEF DispatchStep

(* Shutdown and start leave the slots alone; the end of the daemon takes   *)
(* the table with it.                                                      *)
LEMMA LifecycleLeaksNone ==
  ASSUME SuperInv, TaskSlotNotLeaked, LifecycleStep
  PROVE  TaskSlotNotLeaked'
<1>1. CASE Sigterm \/ Drain \/ ShutdownBegins \/ ShutdownEnds \/ Boot \/ ReconcileDone
  <2>1. launcher' = launcher /\ holders' = holders /\ exec' = exec
    BY <1>1 DEF Sigterm, Drain, ShutdownBegins, ShutdownEnds, Boot, ReconcileDone,
                OthersUnchanged, slotVars
  <2>2. QED
    BY <2>1, OnlyAttempts
<1>2. CASE Exit \/ Crash
  <2>1. \A id \in Procs : ~Holds(id)'
    BY <1>2 DEF Exit, Crash, PowerOff, Holds
  <2>2. QED
    BY <2>1 DEF TaskSlotNotLeaked
<1>3. CASE \E h \in Handles : ShutdownIntent(h)
  <2>1. launcher' = launcher /\ holders' = holders
    BY <1>3 DEF ShutdownIntent, OthersUnchanged, slotVars
  <2>2. \A g \in Handles : exec'[g].sup = exec[g].sup
    <3>1. PICK h \in Handles : exec' = [exec EXCEPT ![h] = setIntent(exec[h], "shutdown")]
      BY <1>3 DEF ShutdownIntent
    <3>2. exec[h] \in StorableExec
      BY DEF SuperInv, AttemptsInv
    <3>3. QED
      BY <3>1, <3>2, AttemptAlone, IntentKeepsPhase
  <2>3. QED
    BY <2>1, <2>2, OnlyAttempts
<1>4. CASE \E id \in todo, reset \in BOOLEAN : reconcileOne(id, reset)
  <2>1. PICK id \in todo, reset \in BOOLEAN : reconcileOne(id, reset)
    BY <1>4
  <2>2. launcher' = launcher /\ holders' = holders
    BY <2>1 DEF reconcileOne, slotVars
  <2>3. exec' = exec \/ \E h : exec' = [exec EXCEPT ![h] = [exec[h] EXCEPT !.proc = "gone"]]
    BY <2>1 DEF reconcileOne, LeaveOrphan, Recover
  <2>4. \A g \in Handles : exec'[g].sup = exec[g].sup
    <3>1. \A g \in Handles : exec[g] \in Exec
      BY DEF SuperInv, AttemptsInv, StorableExec
    <3>2. \A e \in Exec : [e EXCEPT !.proc = "gone"].sup = e.sup
      BY DEF Exec
    <3>3. QED
      BY <2>3, <3>1, <3>2 DEF SuperInv, AttemptsInv
  <2>5. QED
    BY <2>2, <2>4, OnlyAttempts
<1>5. QED
  BY <1>1, <1>2, <1>3, <1>4 DEF LifecycleStep

(* Every step of the daemon.                                               *)
LEMMA NextLeaksNone ==
  ASSUME SuperInv, TaskSlotNotLeaked, [Next]_vars
  PROVE  TaskSlotNotLeaked'
<1>1. CASE \E t \in Launchers : LauncherStep(t)
  <2>1. PICK t \in Launchers : LauncherStep(t)
    BY <1>1
  <2>2. QED
    BY <2>1, StartLeaksNone, AdmitLeaksNone, SubmitLeaksNone DEF LauncherStep
<1>2. CASE \E h \in Handles : AttemptStep(h)
  BY <1>2, AttemptLeaksNone DEF AttemptStep
<1>3. CASE \E id \in Procs : StopStep(id)
  BY <1>3, StopLeaksNone DEF StopStep
<1>4. CASE DispatchStep
  BY <1>4, DispatchLeaksNone
<1>5. CASE LifecycleStep
  BY <1>5, LifecycleLeaksNone
<1>6. CASE (\E w \in Workers, limit \in Limits : Reload(w, limit)) \/ UNCHANGED vars
  <2>1. launcher' = launcher /\ holders' = holders /\ exec' = exec
    BY <1>6 DEF Reload, SetWorkerLimit, vars, superVars, slotVars
  <2>2. QED
    BY <2>1, OnlyAttempts
<1>7. QED
  BY <1>1, <1>2, <1>3, <1>4, <1>5, <1>6 DEF Next

(* The slot of a task is held only while some goroutine is on its way to   *)
(* giving it back, whatever fails, races or crashes: the paths through     *)
(* admit, launch, startFailed, abandonStart, finish and cancelPending all  *)
(* end in Slots.Release.                                                   *)
THEOREM NoTaskSlotLeaks == Spec => []TaskSlotNotLeaked
<1>1. Init => TaskSlotNotLeaked
  BY DEF Init, NewSlots, Holds, TaskSlotNotLeaked
<1>2. DaemonInv /\ TaskSlotNotLeaked /\ [Next]_vars => TaskSlotNotLeaked'
  BY NextLeaksNone DEF DaemonInv
<1>3. QED
  BY <1>1, <1>2, DaemonCorrect, PTL DEF Spec
=============================================================================
