------------------------------- MODULE Store -------------------------------
(***************************************************************************)
(* The part of the SQLite store (internal/store/sqlite) that the scheduler *)
(* and the supervisor share: one row per execution and the locks table.    *)
(* Every call is one transaction under the store's write mutex, so one     *)
(* step.  UpdateProcess overwrites the whole row with the caller's copy;   *)
(* nothing compares it with what is there.                                 *)
(***************************************************************************)
EXTENDS Retry

CONSTANTS LockKeys,  \* the lock keys in use
          NoLock,    \* an execution without a lock
          Def        \* the definition each execution was created with

ASSUME LockAssumption == NoLock \notin LockKeys
(* A definition is a record: type, worker, lock, reject (lock_conflict:     *)
(* reject), timeout (whether one is set) and retry.                        *)
ASSUME DefAssumption ==
  \A id \in Procs :
     /\ Def[id].type \in Types
     /\ Def[id].lock \in LockKeys \cup {NoLock}
     /\ Def[id].reject \in BOOLEAN
     /\ Def[id].timeout \in BOOLEAN
     /\ Def[id].retry \in Policy

VARIABLES row,   \* the processes table
          locks  \* the locks table: who holds each key, 0 for nobody

storeVars == <<row, locks>>

StoreTypeOK ==
  /\ row \in [Procs -> Process]
  /\ locks \in [LockKeys -> Procs \cup {0}]

StoreInit ==
  /\ row = [id \in Procs |-> NoProcess]
  /\ locks = [k \in LockKeys |-> 0]

CreateProcess(id) == row' = [row EXCEPT ![id] = NewProcess]

UpdateProcess(id, p) == row' = [row EXCEPT ![id] = p]

(* The key treated as free whoever holds it.                               *)
LockAvailable_Always(id) == TRUE

(* Whether AcquireLock succeeds: no key, a free key, or one's own.         *)
LockAvailable(id) ==
  LET k == Def[id].lock IN k # NoLock => locks[k] \in {0, id}

AcquireLock(id) ==
  locks' = [k \in LockKeys |-> IF k = Def[id].lock THEN id ELSE locks[k]]

(* DELETE ... WHERE key = ? AND process_id = ?                             *)
ReleaseLock(id) ==
  locks' = [k \in LockKeys |->
              IF k = Def[id].lock /\ locks[k] = id THEN 0 ELSE locks[k]]

HoldsLock(id) ==
  LET k == Def[id].lock IN k # NoLock => locks[k] = id

(* The executions PendingProcesses can return; a RETRYING one is among     *)
(* them once its retry_at has passed.                                      *)
Queued == {id \in Procs : row[id].state = "QUEUED"}
Retrying == {id \in Procs : row[id].state = "RETRYING"}

PendingCount == Cardinality(Queued \cup Retrying)

UnfinishedProcesses ==
  {id \in Procs : row[id].state \in States /\ ~IsTerminal(row[id].state)}
=============================================================================
