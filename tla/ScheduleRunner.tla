--------------------------- MODULE ScheduleRunner ---------------------------
(***************************************************************************)
(* internal/schedule: one goroutine fires a worker on the instants of its  *)
(* cron expression.  The plan is rebuilt at boot and on every reload from  *)
(* the persisted state of the schedule, and a stall, a crash or a          *)
(* cancelled context may come between any two of its store calls.  One     *)
(* worker: the loop treats its entries one after the other.                *)
(***************************************************************************)
EXTENDS Integers, Sequences, FiniteSets, FiniteSetsExt

CONSTANTS Horizon,     \* bound: the clock runs over 0..Horizon
          Occurrences, \* the instants the expression matches
          Wall,        \* what a wall clock in the schedule's zone shows
          Jitter,      \* schedule.jitter
          MaxMissed,   \* maxMissed
          Faults,      \* what may go wrong, see FaultKinds
          MaxEvents    \* bound: restarts and reloads

(* "badparams": the defaults of the worker do not make an execution.       *)
FaultKinds ==
  {"savefail", "loadfail", "queuefull", "badparams", "crash", "term", "reload"}

ASSUME TimeAssumption ==
  /\ Horizon \in Nat /\ Occurrences \subseteq 1..Horizon /\ Jitter \in Nat
  /\ DOMAIN Wall = 0..Horizon
ASSUME BoundAssumption ==
  /\ MaxMissed \in Nat \ {0} /\ MaxEvents \in Nat
  /\ Faults \subseteq FaultKinds

VARIABLES
  now,     \* the clock
  loop,    \* the goroutine: pc, and the time its pass began
  entry,   \* the plan: planned, occurrence, fireAt, and whether it catches up
  state,   \* ScheduleState in memory
  disk,    \* ScheduleState in the store
  worker,  \* in the registry: "on", "off" (disabled) or "gone", and catch_up
  pending, \* the reloaded channel holds a signal
  ctx,     \* "live" or "cancelled"
  events,  \* restarts and reloads so far
  log      \* history: what became of each occurrence

vars == <<now, loop, entry, state, disk, worker, pending, ctx, events, log>>

Never == 0    \* a nil time

(* The last field is history: the occurrences missed_runs stands for.      *)
NoHistory == [fired |-> Never, missed |-> Never, runs |-> 0, who |-> {}]
Definitions == [is : {"on", "off", "gone"}, catchUp : BOOLEAN]
Unplanned == [planned |-> FALSE, occurrence |-> Never, fireAt |-> Never, late |-> FALSE]

----------------------------------------------------------------------------
(* The cron expression.                                                    *)

After(t) == {o \in Occurrences : o > t}

(* Next: the first occurrence after t.                                     *)
HasNext(t) == After(t) # {}
NextAfter(t) == Min(After(t))

(* Between: the occurrences in (after, until], the first limit of them.    *)
Between(after, until, limit) ==
  {o \in After(after) : o <= until /\ Cardinality({u \in After(after) : u <= o}) <= limit}

(* Accounts from the last firing alone.                                    *)
accountedThrough_LastFired(s) == s.fired

(* The last occurrence the schedule has answered for.                      *)
accountedThrough(s) == IF s.missed > s.fired THEN s.missed ELSE s.fired

(* setPlan and plan, with each amount of jitter.                           *)
SetPlan(occurrence, fireAt, late) ==
  entry' = [planned |-> TRUE, occurrence |-> occurrence, fireAt |-> fireAt, late |-> late]

Plan(from) ==
  IF HasNext(from)
  THEN \E j \in 0..Jitter : SetPlan(NextAfter(from), NextAfter(from) + j, FALSE)
  ELSE entry' = Unplanned

(* SaveSchedule fails on a cancelled context, and when the store does.     *)
Save(s, ok) ==
  /\ ok => ctx = "live"
  /\ ~ok => ctx = "cancelled" \/ "savefail" \in Faults
  /\ disk' = IF ok THEN s ELSE disk

(* History: what was submitted, in order; what was submitted with no       *)
(* record of it in the store; what was passed over without an execution or *)
(* a count, and why; and the time from which the schedule answers for      *)
(* occurrences.                                                            *)
Reasons ==
  {"off",       \* the worker is disabled, or gone
   "repeated",  \* its wall clock time was fired before
   "unmade",    \* the worker's defaults make no execution
   "caught up", \* a catch-up plans a later one
   "beyond"}    \* it comes after the first maxMissed of those missed

EmptyLog ==
  [fired |-> <<>>, unrecorded |-> {}, passed |-> [why \in Reasons |-> {}], since |-> Never]

PassOver(why, occurrences) == [log EXCEPT !.passed[why] = @ \cup occurrences]

Fired == {log.fired[n] : n \in DOMAIN log.fired}

----------------------------------------------------------------------------
(* reset, with accountForDowntime.                                         *)

LoadSchedules(ok) ==
  /\ ok => ctx = "live"
  /\ ~ok => ctx = "cancelled" \/ "loadfail" \in Faults

Missed(s, occurrences) ==
  [s EXCEPT !.runs = @ + Cardinality(occurrences), !.missed = Max(occurrences),
            !.who = @ \cup occurrences]

(* Nothing ran before, so nothing was missed; or nothing was missed.       *)
NothingMissed(stored, missed) ==
  /\ stored.fired = Never \/ missed = {}
  /\ Plan(now)
  /\ state' = stored /\ UNCHANGED disk
  /\ log' = [log EXCEPT !.since = IF stored.fired = Never THEN now ELSE @]

(* One firing for everything that was missed.                              *)
CatchUp(stored, missed) ==
  /\ stored.fired # Never /\ missed # {} /\ worker.catchUp
  /\ SetPlan(Max(missed), now, TRUE)
  /\ state' = stored /\ UNCHANGED disk
  /\ log' = PassOver("caught up", missed \ {Max(missed)})

(* What is beyond the limit is left for the next reset, which counts it    *)
(* unless a firing comes first.                                            *)
CountMissed(stored, missed, ok) ==
  /\ stored.fired # Never /\ missed # {} /\ ~worker.catchUp
  /\ Plan(now)
  /\ state' = Missed(stored, missed) /\ Save(state', ok)
  /\ log' = PassOver("beyond", Between(Max(missed), now, Horizon))

accountForDowntime(stored, ok) ==
  LET missed == Between(accountedThrough(stored), now, MaxMissed)
  IN  \/ ok /\ NothingMissed(stored, missed)
      \/ ok /\ CatchUp(stored, missed)
      \/ CountMissed(stored, missed, ok)

(* A worker that is gone has no entry and no state in memory.              *)
Reset(loaded, ok) ==
  /\ LoadSchedules(loaded)
  /\ IF worker.is = "gone"
     THEN ok /\ entry' = Unplanned /\ state' = NoHistory /\ UNCHANGED <<disk, log>>
     ELSE accountForDowntime(IF loaded THEN disk ELSE NoHistory, ok)
  /\ loop' = [loop EXCEPT !.pc = "wait"]

(* Run: the plan is made before the first wait, whatever the worker did    *)
(* before.                                                                 *)
Boot(loaded, ok) ==
  /\ loop.pc = "boot"
  /\ Reset(loaded, ok)
  /\ UNCHANGED <<now, worker, pending, ctx, events>>

Reloaded(loaded, ok) ==
  /\ loop.pc = "wait" /\ pending
  /\ pending' = FALSE
  /\ Reset(loaded, ok)
  /\ UNCHANGED <<now, worker, ctx, events>>

(* Daemon.Reload: the new registry, then the signal, which coalesces.      *)
Reload(new) ==
  /\ "reload" \in Faults /\ events < MaxEvents
  /\ loop.pc # "down"
  /\ worker' = new /\ pending' = TRUE /\ events' = events + 1
  /\ UNCHANGED <<now, loop, entry, state, disk, ctx, log>>

----------------------------------------------------------------------------
(* The firing loop.                                                        *)

(* fireDue: the plan is due, and the pass works with this time.            *)
Due ==
  /\ loop.pc = "wait" /\ entry.planned /\ entry.fireAt <= now
  /\ loop' = [pc |-> "fire", at |-> now]
  /\ UNCHANGED <<now, entry, state, disk, worker, pending, ctx, events, log>>

(* Deduplicates on the instant, not on what the wall clock shows.          *)
alreadyFired_Instant == state.fired # Never /\ state.fired = entry.occurrence

alreadyFired == state.fired # Never /\ Wall[state.fired] = Wall[entry.occurrence]

(* fire returns before Submit.                                             *)
Skip ==
  /\ loop.pc = "fire" /\ (worker.is # "on" \/ alreadyFired \/ "badparams" \in Faults)
  /\ loop' = [loop EXCEPT !.pc = "advance"]
  /\ log' = PassOver(IF worker.is # "on" THEN "off" ELSE IF alreadyFired THEN "repeated" ELSE "unmade",
                     {entry.occurrence})
  /\ UNCHANGED <<now, entry, state, disk, worker, pending, ctx, events>>

(* Submit; whatever it answers advances the schedule.  An execution that   *)
(* was admitted, queued or refused by a lock is in the history; a full     *)
(* queue, and a cancelled context, leave nothing there.                    *)
Submit(stored) ==
  /\ loop.pc = "fire" /\ worker.is = "on" /\ ~alreadyFired
  /\ stored => ctx = "live"
  /\ ~stored => ctx = "cancelled" \/ "queuefull" \in Faults
  /\ loop' = [loop EXCEPT !.pc = "record"]
  /\ log' = IF stored
            THEN [log EXCEPT !.fired = Append(@, entry.occurrence),
                             !.unrecorded = @ \cup {entry.occurrence}]
            ELSE log
  /\ UNCHANGED <<now, entry, state, disk, worker, pending, ctx, events>>

(* Records the firing in memory only.                                      *)
RecordFiring_MemoryOnly(ok) ==
  /\ loop.pc = "record" /\ ok
  /\ state' = [state EXCEPT !.fired = entry.occurrence]
  /\ loop' = [loop EXCEPT !.pc = "advance"]
  /\ log' = [log EXCEPT !.unrecorded = @ \ {entry.occurrence}]
  /\ UNCHANGED <<now, entry, disk, worker, pending, ctx, events>>

(* recordFiring: in memory, then in the store.                             *)
RecordFiring(ok) ==
  /\ loop.pc = "record"
  /\ state' = [state EXCEPT !.fired = entry.occurrence]
  /\ Save(state', ok)
  /\ loop' = [loop EXCEPT !.pc = "advance"]
  /\ log' = [log EXCEPT !.unrecorded = IF ok THEN @ \ {entry.occurrence} ELSE @]
  /\ UNCHANGED <<now, entry, worker, pending, ctx, events>>

(* Plans from the time of the pass without looking at what it skips.       *)
Advance_Silent(ok) ==
  /\ loop.pc = "advance" /\ ok
  /\ Plan(loop.at) /\ UNCHANGED <<state, disk, log>>
  /\ loop' = [loop EXCEPT !.pc = "wait"]
  /\ UNCHANGED <<now, worker, pending, ctx, events>>

(* advance: the next occurrence; when the loop has fallen behind it, the   *)
(* ones in between are counted and skipped.                                *)
Advance(ok) ==
  /\ loop.pc = "advance"
  /\ IF ~HasNext(entry.occurrence)
     THEN ok /\ entry' = Unplanned /\ UNCHANGED <<state, disk, log>>
     ELSE IF NextAfter(entry.occurrence) > loop.at
     THEN ok /\ Plan(entry.occurrence) /\ UNCHANGED <<state, disk, log>>
     ELSE LET skipped == Between(entry.occurrence, loop.at, MaxMissed)
          IN  /\ state' = Missed(state, skipped) /\ Save(state', ok)
              /\ log' = PassOver("beyond", Between(Max(skipped), loop.at, Horizon))
              /\ Plan(loop.at)
  /\ loop' = [loop EXCEPT !.pc = "wait"]
  /\ UNCHANGED <<now, worker, pending, ctx, events>>

----------------------------------------------------------------------------
(* The clock and the daemon.                                               *)

Tick == now < Horizon /\ now' = now + 1
        /\ UNCHANGED <<loop, entry, state, disk, worker, pending, ctx, events, log>>

(* The daemon is told to stop; the loop returns when it next waits.        *)
Term ==
  /\ "term" \in Faults /\ ctx = "live" /\ loop.pc # "down" /\ events < MaxEvents
  /\ ctx' = "cancelled" /\ events' = events + 1
  /\ UNCHANGED <<now, loop, entry, state, disk, worker, pending, log>>

Return ==
  /\ loop.pc = "wait" /\ ctx = "cancelled"
  /\ loop' = [loop EXCEPT !.pc = "down"]
  /\ UNCHANGED <<now, entry, state, disk, worker, pending, ctx, events, log>>

Crash ==
  /\ "crash" \in Faults /\ loop.pc # "down" /\ events < MaxEvents
  /\ loop' = [loop EXCEPT !.pc = "down"] /\ events' = events + 1
  /\ UNCHANGED <<now, entry, state, disk, worker, pending, ctx, log>>

Restart ==
  /\ loop.pc = "down"
  /\ loop' = [loop EXCEPT !.pc = "boot"]
  /\ entry' = Unplanned /\ state' = NoHistory /\ pending' = FALSE /\ ctx' = "live"
  /\ UNCHANGED <<now, disk, worker, events, log>>

Init ==
  /\ now = 0 /\ loop = [pc |-> "boot", at |-> 0]
  /\ entry = Unplanned /\ state = NoHistory /\ disk = NoHistory
  /\ worker \in {d \in Definitions : d.is = "on"} /\ pending = FALSE /\ ctx = "live" /\ events = 0
  /\ log = EmptyLog

Next ==
  \/ Tick \/ Due \/ Skip \/ Term \/ Return \/ Crash \/ Restart
  \/ \E ok \in BOOLEAN : Submit(ok) \/ RecordFiring(ok) \/ Advance(ok)
  \/ \E loaded, ok \in BOOLEAN : Boot(loaded, ok) \/ Reloaded(loaded, ok)
  \/ \E new \in Definitions : Reload(new)

Spec == Init /\ [][Next]_vars

----------------------------------------------------------------------------
(* What is planned, fired or missed is an occurrence of the expression,    *)
(* never the time a pass happened to run.                                  *)
ScheduleTypeOK ==
  /\ now \in 0..Horizon
  /\ loop.pc \in {"boot", "wait", "fire", "record", "advance", "down"}
  /\ worker \in Definitions /\ ctx \in {"live", "cancelled"}
  /\ \A s \in {state, disk} : {s.fired, s.missed} \subseteq Occurrences \cup {Never}
  /\ entry.planned => entry.occurrence \in Occurrences

(* An occurrence that ran and is recorded is never answered for again: it  *)
(* is neither fired a second time nor reported as missed.  The record can  *)
(* be lost, in a crash or a failed write.                                  *)
AnsweredOnce ==
  [][LET recorded == Fired \ log.unrecorded
     IN  /\ \A n \in DOMAIN log'.fired : n > Len(log.fired) => log'.fired[n] \notin recorded
         /\ state'.who \cap recorded = {}]_<<log, state>>

(* missed_runs counts occurrences, not restarts: a window is counted once, *)
(* however often the plan is rebuilt.                                      *)
CountedOnce == \A s \in {state, disk} : s.runs = Cardinality(s.who)

(* The state of a schedule, in memory and in the store (ScheduleState):    *)
(* occurrences and nothing else, and a count that is exact.                *)
ScheduleInv == ScheduleTypeOK /\ CountedOnce

(* The occurrences the schedule has to answer for by now.                  *)
Answerable(o) == o > log.since /\ o <= now /\ (entry.planned => o < entry.occurrence)

(* No stalled loop, restart or reload loses an occurrence in silence (fire,*)
(* advance, accountForDowntime): it was fired, or is counted as missed, or *)
(* fell to a worker that was disabled or gone, to a wall clock time that   *)
(* had been fired, or to a catch-up that planned a later one.  Two kinds   *)
(* are lost with nothing but a line in the log: one for which the worker's *)
(* defaults make no execution, which takes a worker that has such          *)
(* defaults, and one beyond the first maxMissed of its window, which takes *)
(* an expression with more occurrences than that.                          *)
NoneLostInSilence ==
  loop.pc = "wait" /\ worker.is = "on" /\ ~pending /\ ctx = "live" =>
    /\ \A o \in Occurrences \ (log.passed["unmade"] \cup log.passed["beyond"]) :
         Answerable(o) => \/ o \in Fired \cup state.who
                          \/ \E why \in {"off", "repeated", "caught up"} : o \in log.passed[why]
    /\ log.passed["unmade"] # {} => "badparams" \in Faults
    /\ log.passed["beyond"] # {} => MaxMissed < Cardinality(Occurrences)

(* "A missed occurrence is recorded whether or not it is caught up"        *)
(* (accountForDowntime, schedule.go:257).                                  *)
MissedAreRecorded == loop.pc = "wait" => log.passed["caught up"] \subseteq state.who

(* Two occurrences in a row of which a wall clock shows the same.          *)
Repeats(o, u) == HasNext(o) /\ NextAfter(o) = u /\ Wall[o] = Wall[u]

(* When the clock falls back, an occurrence is not fired if the other one  *)
(* of the same wall clock time ran and is recorded, in whichever order     *)
(* catch-up and the loop come to them.                                     *)
RepeatedHourFiresOnce ==
  [][\A n \in DOMAIN log'.fired : n > Len(log.fired) =>
       \A o \in Fired \ log.unrecorded :
          Repeats(o, log'.fired[n]) \/ Repeats(log'.fired[n], o) => o <= log.since]_log

(* Whatever Submit answers, the firing is in the history (fire; "Either    *)
(* way the firing is in the history", docs/scheduling.md): an occurrence   *)
(* recorded as the last one fired has an execution.                        *)
FiringIsInHistory == disk.fired # Never => disk.fired \in Fired
=============================================================================
