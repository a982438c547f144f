------------------------------- MODULE Slots -------------------------------
(***************************************************************************)
(* The slot table of internal/queue/slots.go: concurrency against a        *)
(* node-wide limit and a limit per worker.  Every method runs under one    *)
(* mutex, so each is one step.  The module is both a component of its own  *)
(* (SlotsSpec: arbitrary clients) and the slot state of the daemon.        *)
(***************************************************************************)
EXTENDS Core

CONSTANTS Workers,      \* worker names
          NoWorker,     \* "not in the holders map"
          MaxProcesses, \* max_processes, the node-wide limit
          Limits        \* the values a worker's max_processes takes; 0 is none

ASSUME WorkersAssumption == NoWorker \notin Workers /\ IsFiniteSet(Workers)
ASSUME LimitsAssumption == MaxProcesses \in Nat /\ Limits \subseteq Nat /\ Limits # {}

VARIABLES globalUsed, workerUsed, workerMax, holders

slotVars == <<globalUsed, workerUsed, workerMax, holders>>

SlotsTypeOK ==
  /\ globalUsed \in Nat
  /\ workerUsed \in [Workers -> Nat]
  /\ workerMax \in [Workers -> Limits]
  /\ holders \in [Procs -> Workers \cup {NoWorker}]

(* NewSlots, and the limits of the first registry the scheduler is given.  *)
NewSlots ==
  /\ globalUsed = 0
  /\ workerUsed = [w \in Workers |-> 0]
  /\ workerMax \in [Workers -> Limits]
  /\ holders = [id \in Procs |-> NoWorker]

Holds(id) == holders[id] # NoWorker

SetWorkerLimit(w, limit) ==
  /\ workerMax' = [workerMax EXCEPT ![w] = limit]
  /\ UNCHANGED <<globalUsed, workerUsed, holders>>

(* Off by one in the node-wide limit.                                      *)
CanAcquire_GlobalOffByOne(id, w) ==
  \/ Holds(id)
  \/ /\ globalUsed <= MaxProcesses
     /\ ~(workerMax[w] > 0 /\ workerUsed[w] >= workerMax[w])

(* Off by one in the worker's limit.                                       *)
CanAcquire_WorkerOffByOne(id, w) ==
  \/ Holds(id)
  \/ /\ globalUsed < MaxProcesses
     /\ ~(workerMax[w] > 0 /\ workerUsed[w] > workerMax[w])

(* Whether TryAcquire reports TRUE.                                        *)
CanAcquire(id, w) ==
  \/ Holds(id)
  \/ /\ globalUsed < MaxProcesses
     /\ ~(workerMax[w] > 0 /\ workerUsed[w] >= workerMax[w])

(* The effect of a TryAcquire that succeeds; one that fails changes nothing. *)
Acquire(id, w) ==
  IF Holds(id) THEN UNCHANGED slotVars
  ELSE /\ globalUsed' = globalUsed + 1
       /\ workerUsed' = [workerUsed EXCEPT ![w] = @ + 1]
       /\ holders' = [holders EXCEPT ![id] = w]
       /\ UNCHANGED workerMax

(* Release trusts its caller to hold a slot.                               *)
Release_Unguarded(id) ==
  /\ holders' = [holders EXCEPT ![id] = NoWorker]
  /\ globalUsed' = globalUsed - 1
  /\ workerUsed' = [w \in Workers |-> IF w = holders[id] THEN workerUsed[w] - 1
                                      ELSE workerUsed[w]]
  /\ UNCHANGED workerMax

(* Release(id) of the code; the counters are floored at zero as it does.   *)
Release(id) ==
  IF ~Holds(id) THEN UNCHANGED slotVars
  ELSE LET w == holders[id]
       IN  /\ holders' = [holders EXCEPT ![id] = NoWorker]
           /\ globalUsed' = IF globalUsed > 0 THEN globalUsed - 1 ELSE globalUsed
           /\ workerUsed' = IF workerUsed[w] > 0
                            THEN [workerUsed EXCEPT ![w] = @ - 1] ELSE workerUsed
           /\ UNCHANGED workerMax

(***************************************************************************)
(* The component on its own: any client may acquire for any execution,     *)
(* release any execution, and a reload may change any limit at any time.   *)
(***************************************************************************)
TryAcquire(id, w) == CanAcquire(id, w) /\ Acquire(id, w)

SlotsNext ==
  \/ \E id \in Procs, w \in Workers : TryAcquire(id, w)
  \/ \E id \in Procs : Release(id)
  \/ \E w \in Workers, limit \in Limits : SetWorkerLimit(w, limit)

SlotsSpec == NewSlots /\ [][SlotsNext]_slotVars

----------------------------------------------------------------------------
Holders == {id \in Procs : Holds(id)}

HoldersOf(w) == {id \in Procs : holders[id] = w}

(* The counters TryAcquire compares with the limits are exactly the number *)
(* of executions that hold a slot, node-wide and per worker: no sequence   *)
(* of acquires and releases, repeated ones included, makes them drift.     *)
SlotAccounting ==
  /\ globalUsed = Cardinality(Holders)
  /\ \A w \in Workers : workerUsed[w] = Cardinality(HoldersOf(w))

(* Never more holders than max_processes (slots.go TryAcquire).            *)
SlotBound == Cardinality(Holders) <= MaxProcesses

(* A worker's limit may be lowered below what it already uses, so its      *)
(* bound is a property of steps: a worker gains a holder only while it     *)
(* stays within the limit in force at that step.                           *)
WorkerBoundStep ==
  \A w \in Workers :
     Cardinality(HoldersOf(w)') > Cardinality(HoldersOf(w))
       => \/ workerMax[w] = 0
          \/ Cardinality(HoldersOf(w)') <= workerMax[w]

(* TryAcquire never takes a worker past its limit, whatever reloads did.   *)
WorkerBound == [][WorkerBoundStep]_slotVars
=============================================================================
