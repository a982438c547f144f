--------------------------- MODULE ScheduleProofs ---------------------------
(***************************************************************************)
(* The schedule runner for every expression, jitter, limit and horizon,    *)
(* any number of restarts and reloads, and failures of the store and of    *)
(* the daemon at any step.                                                 *)
(***************************************************************************)
EXTENDS ScheduleRunner, FiniteSetTheorems, WellFoundedInduction, TLAPS

(* Firings the store knows of.                                             *)
Recorded == Fired \ log.unrecorded

(* The goroutine has made its plan in this life of the daemon.             *)
AtWork == loop.pc \in {"wait", "fire", "record", "advance"}

InPass == loop.pc \in {"fire", "record", "advance"}

Records ==
  [fired : Occurrences \cup {Never}, missed : Occurrences \cup {Never},
   runs : Nat, who : SUBSET Occurrences]

Entries ==
  [planned : BOOLEAN, occurrence : Occurrences \cup {Never}, fireAt : Nat, late : BOOLEAN]

Logs ==
  [fired : Seq(Occurrences), unrecorded : SUBSET Occurrences, passed : [Reasons -> SUBSET Occurrences],
   since : 0..Horizon]

TypesInv ==
  /\ now \in 0..Horizon
  /\ loop \in [pc : {"boot", "wait", "fire", "record", "advance", "down"}, at : 0..Horizon]
  /\ entry \in Entries /\ log \in Logs
  /\ state \in Records /\ disk \in Records
  /\ worker \in Definitions /\ pending \in BOOLEAN /\ ctx \in {"live", "cancelled"}

(* What missed_runs counts are occurrences up to the last one missed.      *)
Counts(s) == s.runs = Cardinality(s.who) /\ \A o \in s.who : o <= s.missed

CountInv == Counts(state) /\ Counts(disk)

(* The plan is ahead of what the schedule has answered for, and behind the *)
(* clock once a pass is about it.                                          *)
PlanInv ==
  /\ accountedThrough(disk) <= now /\ loop.at <= now /\ log.since <= now
  /\ entry.planned =>
       /\ entry.occurrence \in Occurrences /\ entry.occurrence <= entry.fireAt
       /\ state.missed < entry.occurrence /\ state.fired <= entry.occurrence
       /\ loop.pc \in {"wait", "fire", "record"} => state.fired < entry.occurrence
  /\ InPass => entry.planned /\ entry.fireAt <= loop.at
  /\ loop.pc = "boot" => ~entry.planned

(* The store has answered for every firing it knows of, as fired when the  *)
(* record was read since; the plan is past it.                             *)
RecordInv ==
  \A o \in Recorded :
     /\ o <= accountedThrough(disk) /\ o \notin state.who /\ o \notin disk.who
     /\ o > log.since => o <= disk.fired
     /\ entry.planned /\ AtWork =>
          /\ o <= entry.occurrence
          /\ loop.pc # "advance" => o < entry.occurrence
          /\ o > log.since => o <= state.fired

(* Passed over, for whatever reason.                                       *)
PassedOver == UNION {log.passed[why] : why \in Reasons}

(* A window can hold more than what is counted of it.                      *)
Crowded == MaxMissed < Cardinality(Occurrences)

(* What became of an occurrence is known.                                  *)
Covered(s, o) == o \in Fired \/ o \in s.who \/ o \in PassedOver

(* Up to what the store has answered for, and up to the plan, it is.       *)
DiskCovers ==
  disk.fired # Never =>
    \A o \in Occurrences : log.since < o /\ o <= accountedThrough(disk) => Covered(disk, o)

PlanCovers ==
  AtWork /\ ctx = "live" /\ entry.planned =>
    \A o \in Occurrences :
       log.since < o /\ (o < entry.occurrence \/ (o = entry.occurrence /\ loop.pc \in {"record", "advance"}))
         => Covered(state, o)

(* Without a plan nothing is to come.                                      *)
EndCovers ==
  loop.pc = "wait" /\ ctx = "live" /\ ~pending /\ worker.is # "gone" /\ ~entry.planned =>
    \A o \in Occurrences : log.since < o => Covered(state, o)

CoverInv == DiskCovers /\ PlanCovers /\ EndCovers

Safe == TypesInv /\ CountInv /\ PlanInv /\ RecordInv

----------------------------------------------------------------------------
(* The cron expression.                                                    *)

(* What is assumed of time, as the provers need it.                        *)
LEMMA Times ==
  /\ Horizon \in Nat
  /\ \A o \in Occurrences : o \in Nat /\ 1 <= o /\ o <= Horizon
BY TimeAssumption

(* A set of instants that is not empty has a first and a last one.         *)
LEMMA FirstAndLast ==
  ASSUME NEW S \in SUBSET (0..Horizon), S # {}
  PROVE  /\ Min(S) \in S /\ \A x \in S : Min(S) <= x
         /\ Max(S) \in S /\ \A x \in S : x <= Max(S)
<1>1. \A T \in SUBSET Nat : T # {} => \E x \in T : \A y \in T : x <= y
  <2>1. SUFFICES ASSUME NEW T \in SUBSET Nat, T # {}
                 PROVE  \E x \in T : \A y \in T : x <= y
    OBVIOUS
  <2>2. \E x \in T : \A y \in T : ~ (<<y, x>> \in OpToRel(<, Nat))
    BY <2>1, NatLessThanWellFounded, WFMin
  <2>3. PICK x \in T : \A y \in T : ~ (<<y, x>> \in OpToRel(<, Nat))
    BY <2>2
  <2>4. ASSUME NEW y \in T
        PROVE  x <= y
    <3>1. x \in Nat /\ y \in Nat /\ <<y, x>> \in Nat \X Nat
      BY <2>1
    <3>2. ~ (y < x)
      BY <2>3, <3>1 DEF OpToRel
    <3>3. QED
      BY <3>1, <3>2
  <2>5. QED
    BY <2>4
<1>2. \E x \in S : \A y \in S : x <= y
  BY <1>1, Times
<1>3. \E x \in S : \A y \in S : x >= y
  <2> DEFINE T == {Horizon - x : x \in S}
  <2>1. T \in SUBSET Nat /\ T # {}
    <3>1. \A x \in S : Horizon - x \in Nat
      BY Times
    <3>2. QED
      BY <3>1
  <2>2. PICK t \in T : \A u \in T : t <= u
    BY <1>1, <2>1
  <2>3. PICK x \in S : t = Horizon - x
    BY <2>2
  <2>4. \A y \in S : Horizon - x <= Horizon - y
    BY <2>2, <2>3
  <2>5. QED
    BY <2>3, <2>4, Times
<1>4. QED
  BY <1>2, <1>3, Times DEF Min, Max

(* Next.                                                                   *)
LEMMA NextIs ==
  ASSUME NEW t \in Nat, HasNext(t)
  PROVE  /\ NextAfter(t) \in Occurrences /\ NextAfter(t) > t
         /\ \A o \in Occurrences : o > t => o >= NextAfter(t)
<1>1. After(t) \in SUBSET (0..Horizon) /\ After(t) # {}
  BY Times DEF After, HasNext
<1>2. Min(After(t)) \in After(t) /\ \A x \in After(t) : Min(After(t)) <= x
  BY <1>1, FirstAndLast
<1>3. QED
  BY <1>2, Times DEF After, NextAfter

LEMMA NoNext ==
  ASSUME NEW t \in Nat, ~HasNext(t), NEW o \in Occurrences
  PROVE  o <= t
BY Times DEF After, HasNext

(* Between: a run of occurrences from the first one on.                    *)
LEMMA BetweenIs ==
  ASSUME NEW a \in Nat, NEW u \in Nat, NEW limit \in Nat \ {0}
  PROVE  LET B == Between(a, u, limit)
         IN  /\ B \in SUBSET Occurrences /\ IsFiniteSet(B)
             /\ \A o \in B : a < o /\ o <= u
             /\ B = {} => \A o \in Occurrences : o > a => o > u
             /\ B # {} => /\ Max(B) \in B /\ \A o \in B : o <= Max(B)
                          /\ \A o \in Occurrences : a < o /\ o <= Max(B) => o \in B
             /\ \A o \in Occurrences : a < o /\ o <= u /\ o \notin B => limit < Cardinality(Occurrences)
<1> DEFINE B == Between(a, u, limit)
           Upto(o) == {v \in After(a) : v <= o}
<1>1. /\ After(a) \in SUBSET Occurrences /\ IsFiniteSet(After(a))
      /\ After(a) \in SUBSET (0..Horizon)
  <2>1. After(a) \in SUBSET Occurrences /\ After(a) \in SUBSET (0..Horizon)
    BY Times DEF After
  <2>2. IsFiniteSet(0..Horizon)
    BY Times, FS_Interval
  <2>3. QED
    BY <2>1, <2>2, FS_Subset
<1>2. \A o \in Occurrences : IsFiniteSet(Upto(o)) /\ Cardinality(Upto(o)) \in Nat
  BY <1>1, FS_Subset, FS_CardinalityType
<1>3. \A o, v \in Occurrences : v <= o => Cardinality(Upto(v)) <= Cardinality(Upto(o))
  <2>1. SUFFICES ASSUME NEW o \in Occurrences, NEW v \in Occurrences, v <= o
                 PROVE  Cardinality(Upto(v)) <= Cardinality(Upto(o))
    OBVIOUS
  <2>2. Upto(v) \in SUBSET Upto(o)
    BY <2>1, <1>1, Times
  <2>3. QED
    BY <1>2, <2>2, FS_Subset
<1>4. B \in SUBSET Occurrences /\ IsFiniteSet(B) /\ B \in SUBSET (0..Horizon)
  BY <1>1, FS_Subset DEF Between
<1>5. \A o \in B : a < o /\ o <= u
  BY DEF Between, After
<1>6. B = {} => \A o \in Occurrences : o > a => o > u
  <2>1. SUFFICES ASSUME NEW o \in Occurrences, o > a, o <= u
                 PROVE  B # {}
    BY Times
  <2>2. HasNext(a)
    BY <2>1 DEF HasNext, After
  <2> DEFINE f == NextAfter(a)
  <2>3. f \in Occurrences /\ f > a /\ f <= o /\ \A v \in Occurrences : v > a => v >= f
    BY <2>1, <2>2, NextIs, Times
  <2>4. Upto(f) = {f}
    <3> HIDE DEF f
    <3>1. QED
      BY <2>3, Times DEF After
  <2>5. Cardinality(Upto(f)) <= limit
    <3>1. Cardinality({f}) = 1
      BY FS_Singleton
    <3>2. QED
      BY <2>4, <3>1
  <2>6. f \in B
    <3> HIDE DEF f
    <3>1. QED
      BY <2>1, <2>3, <2>5, Times DEF Between, After
  <2>7. QED
    BY <2>6
<1>7. ASSUME B # {}
      PROVE  /\ Max(B) \in B /\ \A o \in B : o <= Max(B)
             /\ \A o \in Occurrences : a < o /\ o <= Max(B) => o \in B
  <2>1. Max(B) \in B /\ \A o \in B : o <= Max(B)
    BY <1>4, <1>7, FirstAndLast
  <2>2. ASSUME NEW o \in Occurrences, a < o, o <= Max(B)
        PROVE  o \in B
    <3>1. Max(B) \in Occurrences /\ Max(B) <= u /\ Cardinality(Upto(Max(B))) <= limit
      BY <2>1, <1>4 DEF Between
    <3>2. o \in After(a) /\ o <= u
      BY <2>2, <3>1, Times DEF After
    <3>3. Cardinality(Upto(o)) <= limit
      BY <1>2, <1>3, <2>2, <3>1
    <3>4. QED
      BY <3>2, <3>3 DEF Between
  <2>3. QED
    BY <2>1, <2>2
<1>8. ASSUME NEW o \in Occurrences, a < o, o <= u, o \notin B
      PROVE  limit < Cardinality(Occurrences)
  <2>1. o \in After(a) /\ Upto(o) \in SUBSET Occurrences
    BY <1>1, <1>8, Times DEF After
  <2>2. ~(Cardinality(Upto(o)) <= limit)
    BY <1>8, <2>1 DEF Between
  <2>3. IsFiniteSet(Occurrences)
    <3>1. IsFiniteSet(0..Horizon) /\ Occurrences \in SUBSET (0..Horizon)
      BY Times, FS_Interval
    <3>2. QED
      BY <3>1, FS_Subset
  <2>4. Cardinality(Upto(o)) <= Cardinality(Occurrences) /\ Cardinality(Occurrences) \in Nat
    BY <2>1, <2>3, FS_Subset, FS_CardinalityType
  <2>5. QED
    BY <1>2, <2>2, <2>4
<1>9. QED
  BY <1>4, <1>5, <1>6, <1>7, <1>8

(* The limit Horizon is none.                                              *)
LEMMA BetweenAll ==
  ASSUME NEW a \in Nat, NEW u \in Nat, NEW o \in Occurrences, a < o, o <= u
  PROVE  o \in Between(a, u, Horizon)
<1> DEFINE Upto == {v \in After(a) : v <= o}
<1>1. Upto \in SUBSET (1..Horizon)
  BY Times DEF After
<1>2. Cardinality(Upto) <= Horizon
  <2>1. IsFiniteSet(1..Horizon) /\ Cardinality(1..Horizon) <= Horizon
    <3>1. 1 \in Int /\ Horizon \in Int /\ (1 > Horizon => Horizon = 0)
      BY Times
    <3>2. QED
      BY <3>1, FS_Interval
  <2>2. Cardinality(Upto) <= Cardinality(1..Horizon) /\ IsFiniteSet(Upto)
    BY <1>1, <2>1, FS_Subset
  <2>3. Cardinality(Upto) \in Nat /\ Cardinality(1..Horizon) \in Nat
    BY <2>1, <2>2, FS_CardinalityType
  <2>4. QED
    BY <2>1, <2>2, <2>3, Times
<1>3. QED
  BY <1>2 DEF Between, After

----------------------------------------------------------------------------
(* The plan and the count.                                                 *)

(* The plan is the first occurrence after this instant, if there is one.   *)
Ahead(plan, from) ==
  /\ plan \in Entries
  /\ plan.planned =>
       /\ plan.occurrence \in Occurrences /\ plan.occurrence <= plan.fireAt
       /\ from < plan.occurrence
       /\ \A o \in Occurrences : from < o => plan.occurrence <= o
  /\ ~plan.planned => \A o \in Occurrences : o <= from

LEMMA PlanIs ==
  ASSUME NEW from \in Nat, Plan(from)
  PROVE  Ahead(entry', from)
<1>1. CASE HasNext(from)
  <2> DEFINE next == NextAfter(from)
  <2>1. /\ next \in Occurrences /\ next > from
        /\ \A o \in Occurrences : o > from => o >= next
    BY <1>1, NextIs
  <2>2. PICK j \in 0..Jitter : SetPlan(next, next + j, FALSE)
    BY <1>1 DEF Plan
  <2> HIDE DEF next
  <2>3. next \in Nat /\ j \in Nat
    BY <2>1, Times, TimeAssumption
  <2>4. QED
    BY <2>1, <2>2, <2>3, Times DEF SetPlan, Ahead, Entries
<1>2. CASE ~HasNext(from)
  <2>1. \A o \in Occurrences : o <= from
    BY <1>2, NoNext
  <2>2. entry' = Unplanned
    BY <1>2 DEF Plan
  <2>3. QED
    BY <2>1, <2>2 DEF Unplanned, Ahead, Entries, Never
<1>3. QED
  BY <1>1, <1>2

LEMMA AfterIsAhead ==
  ASSUME NEW s \in Records
  PROVE  /\ accountedThrough(s) \in Nat
         /\ s.fired \in Nat /\ s.missed \in Nat
         /\ s.fired <= accountedThrough(s) /\ s.missed <= accountedThrough(s)
         /\ accountedThrough(s) \in {s.fired, s.missed}
BY Times DEF Records, accountedThrough, Never

(* The occurrences counted are new ones, so the count stays exact.         *)
LEMMA MissedCounts ==
  ASSUME NEW s \in Records, Counts(s),
         NEW B \in SUBSET Occurrences, IsFiniteSet(B), B # {},
         Max(B) \in B, \A o \in B : o <= Max(B) /\ s.missed < o
  PROVE  /\ Missed(s, B) \in Records /\ Counts(Missed(s, B))
         /\ Missed(s, B).missed = Max(B) /\ Missed(s, B).fired = s.fired
         /\ Missed(s, B).who = s.who \cup B
<1> DEFINE m == Missed(s, B)
<1>1. /\ m.missed = Max(B) /\ m.fired = s.fired /\ m.who = s.who \cup B
      /\ m.runs = s.runs + Cardinality(B)
      /\ m = [fired |-> s.fired, missed |-> Max(B), runs |-> s.runs + Cardinality(B),
              who |-> s.who \cup B]
  <2> DEFINE c == Cardinality(B)
             last == Max(B)
             all == s.who \cup B
  <2>1. m = [s EXCEPT !.runs = s.runs + c, !.missed = last, !.who = all]
    BY DEF Missed
  <2> HIDE DEF m, c, last, all
  <2>2. /\ m.missed = last /\ m.fired = s.fired /\ m.who = all /\ m.runs = s.runs + c
        /\ m = [fired |-> s.fired, missed |-> last, runs |-> s.runs + c, who |-> all]
    BY <2>1 DEF Records
  <2>3. QED
    BY <2>2 DEF c, last, all
<1>2. IsFiniteSet(s.who) /\ s.who \in SUBSET Occurrences
  <2>1. IsFiniteSet(1..Horizon)
    BY Times, FS_Interval
  <2>2. s.who \in SUBSET (1..Horizon) /\ s.who \in SUBSET Occurrences
    BY TimeAssumption DEF Records
  <2>3. QED
    BY <2>1, <2>2, FS_Subset
<1>3. \A o \in s.who : o <= Max(B)
  <2>1. SUFFICES ASSUME NEW o \in s.who
                 PROVE  o <= Max(B)
    OBVIOUS
  <2>2. o <= s.missed /\ s.missed < Max(B) /\ o \in Occurrences /\ Max(B) \in Occurrences
    BY <1>2 DEF Counts
  <2>3. QED
    BY <2>2, AfterIsAhead, Times
<1>4. s.who \cap B = {}
  <2>1. SUFFICES ASSUME NEW o \in s.who, o \in B
                 PROVE  FALSE
    OBVIOUS
  <2>2. o <= s.missed /\ s.missed < o
    BY <2>1 DEF Counts
  <2>3. QED
    BY <1>2, <2>2, AfterIsAhead, Times
<1>5. Cardinality(s.who \cup B) = Cardinality(s.who) + Cardinality(B)
  <2>1. Cardinality(s.who \cup B) =
          Cardinality(s.who) + Cardinality(B) - Cardinality(s.who \cap B)
    BY <1>2, FS_Union
  <2>2. Cardinality(s.who \cap B) = 0
    BY <1>4, FS_EmptySet
  <2>3. Cardinality(s.who) \in Nat /\ Cardinality(B) \in Nat
    BY <1>2, FS_CardinalityType
  <2>4. QED
    BY <2>1, <2>2, <2>3
<1>6. Cardinality(B) \in Nat
  BY FS_CardinalityType
<1>7. m \in Records
  BY <1>1, <1>2, <1>6 DEF Records
<1>8. Counts(m)
  BY <1>1, <1>3, <1>5 DEF Counts
<1>9. QED
  BY <1>1, <1>7, <1>8
----------------------------------------------------------------------------
(* reset.                                                                  *)

LEMMA PassedStays ==
  ASSUME log'.passed = log.passed
  PROVE  PassedOver' = PassedOver
BY DEF PassedOver

(* fire passes an occurrence over for what the code finds first.           *)
Cause == IF worker.is # "on" THEN "off" ELSE IF alreadyFired THEN "repeated" ELSE "unmade"

LEMMA SkipIs ==
  ASSUME Skip
  PROVE  /\ Cause \in Reasons /\ log' = PassOver(Cause, {entry.occurrence})
         /\ Cause # "beyond" /\ (Cause = "unmade" => "badparams" \in Faults)
BY DEF Skip, Cause, Reasons

(* What is passed over adds to its reason, and changes nothing else.       *)
LEMMA PassOverIs ==
  ASSUME log \in Logs, NEW why \in Reasons, NEW O \in SUBSET Occurrences, log' = PassOver(why, O)
  PROVE  /\ log' \in Logs /\ log'.fired = log.fired /\ log'.unrecorded = log.unrecorded
         /\ log'.since = log.since
         /\ PassedOver' = PassedOver \cup O /\ PassedOver \subseteq PassedOver'
         /\ log'.passed[why] = log.passed[why] \cup O
         /\ \A other \in Reasons \ {why} : log'.passed[other] = log.passed[other]
<1> DEFINE passed == [log.passed EXCEPT ![why] = @ \cup O]
<1>1. log' = [log EXCEPT !.passed = passed]
  BY DEF PassOver
<1>2. /\ passed \in [Reasons -> SUBSET Occurrences]
      /\ passed[why] = log.passed[why] \cup O
      /\ \A other \in Reasons \ {why} : passed[other] = log.passed[other]
  BY DEF Logs
<1> HIDE DEF passed
<1>3. /\ log' \in Logs /\ log'.fired = log.fired /\ log'.unrecorded = log.unrecorded
      /\ log'.since = log.since /\ log'.passed = passed
  BY <1>1, <1>2 DEF Logs
<1>4. PassedOver' = PassedOver \cup O
  <2>1. PassedOver' = UNION {passed[w] : w \in Reasons}
    BY <1>3 DEF PassedOver
  <2>2. ASSUME NEW o
        PROVE  o \in UNION {passed[w] : w \in Reasons} <=> o \in PassedOver \cup O
    <3>1. \A w \in Reasons : o \in passed[w] <=> o \in log.passed[w] \/ (w = why /\ o \in O)
      BY <1>2
    <3>2. QED
      BY <3>1 DEF PassedOver
  <2>3. QED
    BY <2>1, <2>2
<1>5. QED
  BY <1>2, <1>3, <1>4

(* The record of a schedule is well typed, whether there is one or not.    *)
LEMMA NoHistoryIs ==
  NoHistory \in Records /\ Counts(NoHistory) /\ accountedThrough(NoHistory) = 0
BY FS_EmptySet DEF NoHistory, Records, Counts, accountedThrough, Never

(* The four ends of a reset, and a fifth without the worker.               *)
Dropped ==
  /\ worker.is = "gone"
  /\ entry' = Unplanned /\ state' = NoHistory /\ UNCHANGED <<disk, log>>

Afresh ==
  /\ Ahead(entry', now)
  /\ state' \in {disk, NoHistory} /\ state'.fired = Never /\ UNCHANGED disk
  /\ log' = [log EXCEPT !.since = now]

UpToDate ==
  /\ disk.fired # Never /\ \A o \in Occurrences : accountedThrough(disk) < o => now < o
  /\ Ahead(entry', now)
  /\ state' = disk /\ UNCHANGED <<disk, log>>

CaughtUp(B) ==
  /\ disk.fired # Never
  /\ entry' = [planned |-> TRUE, occurrence |-> Max(B), fireAt |-> now, late |-> TRUE]
  /\ state' = disk /\ UNCHANGED disk
  /\ log' = PassOver("caught up", B \ {Max(B)})

Counted(B) ==
  /\ disk.fired # Never
  /\ Ahead(entry', now)
  /\ state' = Missed(disk, B) /\ disk' \in {disk, state'}
  /\ log' = PassOver("beyond", Between(Max(B), now, Horizon))
  /\ Between(Max(B), now, Horizon) # {} => Crowded

(* The occurrences a reset accounts for.                                   *)
Run(B) ==
  /\ B \in SUBSET Occurrences /\ IsFiniteSet(B) /\ B # {}
  /\ Max(B) \in B
  /\ \A o \in B : accountedThrough(disk) < o /\ o <= now /\ o <= Max(B)
  /\ \A o \in Occurrences : accountedThrough(disk) < o /\ o <= Max(B) => o \in B

LEMMA ResetIs ==
  ASSUME TypesInv, NEW loaded \in BOOLEAN, NEW ok \in BOOLEAN, Reset(loaded, ok)
  PROVE  /\ loop' = [loop EXCEPT !.pc = "wait"]
         /\ \/ Dropped \/ Afresh \/ UpToDate
            \/ \E B : Run(B) /\ (CaughtUp(B) \/ Counted(B))
<1> DEFINE stored == IF loaded THEN disk ELSE NoHistory
           B == Between(accountedThrough(stored), now, MaxMissed)
<1>1. loop' = [loop EXCEPT !.pc = "wait"]
  BY DEF Reset
<1>2. CASE worker.is = "gone"
  BY <1>1, <1>2 DEF Reset, Dropped
<1>3. CASE worker.is # "gone"
  <2>1. accountForDowntime(stored, ok)
    BY <1>3 DEF Reset
  <2>2. stored \in Records /\ stored \in {disk, NoHistory}
    BY NoHistoryIs DEF TypesInv
  <2>3. now \in Nat /\ accountedThrough(stored) \in Nat /\ MaxMissed \in Nat \ {0}
    BY <2>2, AfterIsAhead, BoundAssumption, Times DEF TypesInv
  <2>4. /\ B \in SUBSET Occurrences /\ IsFiniteSet(B)
        /\ \A o \in B : accountedThrough(stored) < o /\ o <= now
        /\ B = {} => \A o \in Occurrences : o > accountedThrough(stored) => o > now
        /\ B # {} => /\ Max(B) \in B /\ \A o \in B : o <= Max(B)
                     /\ \A o \in Occurrences :
                          accountedThrough(stored) < o /\ o <= Max(B) => o \in B
        /\ \A o \in Occurrences :
             accountedThrough(stored) < o /\ o <= now /\ o \notin B => MaxMissed < Cardinality(Occurrences)
    BY <2>3, BetweenIs
  <2>5. stored.fired # Never => stored = disk
    BY <2>2 DEF NoHistory
  <2>6. \/ NothingMissed(stored, B) \/ CatchUp(stored, B) \/ CountMissed(stored, B, ok)
    BY <2>1 DEF accountForDowntime
  <2> HIDE DEF stored, B
  <2>7. log = [fired |-> log.fired, unrecorded |-> log.unrecorded, passed |-> log.passed,
               since |-> log.since]
    BY DEF TypesInv, Logs
  <2>8. CASE NothingMissed(stored, B)
    <3>1. Ahead(entry', now) /\ state' = stored /\ UNCHANGED disk
      BY <2>3, <2>8, PlanIs DEF NothingMissed
    <3>2. CASE stored.fired = Never
      <4>1. log' = [log EXCEPT !.since = now]
        BY <2>8, <3>2 DEF NothingMissed
      <4>2. Afresh
        BY <2>2, <3>1, <3>2, <4>1 DEF Afresh
      <4>3. QED
        BY <1>1, <4>2
    <3>3. CASE stored.fired # Never
      <4>1. B = {}
        BY <2>8, <3>3 DEF NothingMissed
      <4>2. log' = log
        BY <2>7, <2>8, <3>3 DEF NothingMissed
      <4>3. \A o \in Occurrences : accountedThrough(disk) < o => now < o
        BY <2>3, <2>4, <2>5, <3>3, <4>1, Times
      <4>4. UpToDate
        BY <2>5, <3>1, <3>3, <4>2, <4>3 DEF UpToDate
      <4>5. QED
        BY <1>1, <4>4
    <3>4. QED
      BY <3>2, <3>3
  <2>9. CASE CatchUp(stored, B)
    <3>1. stored = disk /\ stored.fired # Never /\ B # {}
      BY <2>5, <2>9 DEF CatchUp
    <3>2. Run(B)
      BY <2>4, <3>1 DEF Run
    <3>3. CaughtUp(B)
      BY <2>9, <3>1 DEF CatchUp, CaughtUp, SetPlan
    <3>4. QED
      BY <1>1, <3>2, <3>3
  <2>10. CASE CountMissed(stored, B, ok)
    <3>1. stored = disk /\ stored.fired # Never /\ B # {}
      BY <2>5, <2>10 DEF CountMissed
    <3>2. Run(B)
      BY <2>4, <3>1 DEF Run
    <3>3. Ahead(entry', now)
      BY <2>3, <2>10, PlanIs DEF CountMissed
    <3>4. ASSUME NEW o \in Between(Max(B), now, Horizon)
          PROVE  Crowded
      <4>1. o \in Occurrences /\ Max(B) < o /\ o <= now
        BY Times DEF Between, After
      <4>2. o \notin B /\ accountedThrough(stored) < o
        BY <2>3, <2>4, <3>1, <4>1, Times
      <4>3. QED
        BY <2>4, <4>1, <4>2 DEF Crowded
    <3>5. Counted(B)
      BY <2>10, <3>1, <3>3, <3>4 DEF CountMissed, Counted, Save
    <3>6. QED
      BY <1>1, <3>2, <3>5
  <2>11. QED
    BY <2>6, <2>8, <2>9, <2>10
<1>4. QED
  BY <1>2, <1>3
(* A reset keeps types, counts and plan in order.                          *)
LEMMA ResetSafe ==
  ASSUME Safe, NEW loaded \in BOOLEAN, NEW ok \in BOOLEAN, Reset(loaded, ok),
         UNCHANGED <<now, worker, ctx>>, pending' \in BOOLEAN
  PROVE  Safe'
<1>1. /\ loop' = [loop EXCEPT !.pc = "wait"]
      /\ \/ Dropped \/ Afresh \/ UpToDate
         \/ \E B : Run(B) /\ (CaughtUp(B) \/ Counted(B))
  BY ResetIs DEF Safe
<1>2. /\ loop'.pc = "wait" /\ loop'.at = loop.at
      /\ loop' \in [pc : {"boot", "wait", "fire", "record", "advance", "down"}, at : 0..Horizon]
  BY <1>1 DEF Safe, TypesInv
<1>3. /\ now \in Nat /\ state \in Records /\ disk \in Records /\ log \in Logs
      /\ accountedThrough(disk) \in Nat /\ accountedThrough(disk) <= now
      /\ Counts(disk)
  BY AfterIsAhead, Times DEF Safe, TypesInv, PlanInv, CountInv
<1>4. /\ NoHistory \in Records /\ Counts(NoHistory)
      /\ NoHistory.fired = 0 /\ NoHistory.missed = 0 /\ NoHistory.who = {}
  BY NoHistoryIs DEF NoHistory, Never
<1>5. Recorded \in SUBSET Occurrences
  <2>1. Fired \in SUBSET Occurrences
    BY <1>3 DEF Logs, Fired
  <2>2. QED
    BY <2>1 DEF Recorded
<1>6. ASSUME log'.fired = log.fired, log'.unrecorded = log.unrecorded
      PROVE  Recorded' = Recorded
  BY <1>6 DEF Recorded, Fired
<1>7. CASE Dropped
  <2>1. /\ entry' = Unplanned /\ state' = NoHistory /\ disk' = disk /\ log' = log
        /\ ~entry'.planned /\ entry' \in Entries
    BY <1>7 DEF Dropped, Unplanned, Entries, Never
  <2>2. TypesInv'
    BY <1>2, <1>3, <1>4, <2>1 DEF Safe, TypesInv
  <2>3. CountInv'
    BY <1>3, <1>4, <2>1 DEF CountInv
  <2>4. PlanInv'
    BY <1>2, <2>1 DEF Safe, PlanInv, InPass
  <2>5. RecordInv'
    BY <1>4, <1>6, <2>1 DEF Safe, RecordInv
  <2>6. QED
    BY <2>2, <2>3, <2>4, <2>5 DEF Safe
<1>8. CASE Afresh
  <2>1. /\ Ahead(entry', now) /\ state' \in {disk, NoHistory} /\ state'.fired = 0 /\ disk' = disk
        /\ log' = [log EXCEPT !.since = now]
    BY <1>8 DEF Afresh, Never
  <2>2. /\ log'.fired = log.fired /\ log'.unrecorded = log.unrecorded /\ log'.since = now
        /\ log' \in Logs
    BY <1>3, <2>1 DEF Logs, Safe, TypesInv
  <2>3. state'.missed <= accountedThrough(disk)
    BY <1>3, <1>4, <2>1, AfterIsAhead
  <2>4. TypesInv'
    BY <1>2, <1>3, <1>4, <2>1, <2>2 DEF Safe, TypesInv, Ahead
  <2>5. CountInv'
    BY <1>3, <1>4, <2>1 DEF CountInv
  <2>6. PlanInv'
    <3>1. entry'.planned => state'.missed < entry'.occurrence /\ state'.fired < entry'.occurrence
      BY <1>3, <1>4, <2>1, <2>3, AfterIsAhead, Times DEF Ahead
    <3>2. entry'.planned => entry'.occurrence \in Occurrences /\ entry'.occurrence <= entry'.fireAt
      BY <2>1 DEF Ahead
    <3>3. accountedThrough(disk)' <= now' /\ loop'.at <= now' /\ log'.since <= now'
      BY <1>2, <1>3, <2>1, <2>2 DEF Safe, PlanInv
    <3>4. QED
      BY <1>2, <2>1, <3>1, <3>2, <3>3, Times DEF PlanInv, InPass
  <2>7. RecordInv'
    <3>1. SUFFICES ASSUME NEW o \in Recorded
                   PROVE  /\ o <= accountedThrough(disk) /\ o \notin state'.who /\ o \notin disk.who
                          /\ o <= now
                          /\ entry'.planned => o < entry'.occurrence
      BY <1>2, <1>3, <1>5, <1>6, <2>1, <2>2, Times DEF RecordInv, Ahead
    <3>2. o <= accountedThrough(disk) /\ o \notin disk.who
      BY DEF Safe, RecordInv
    <3>3. o \in Nat /\ o <= now
      BY <1>3, <1>5, <3>2, Times
    <3>4. entry'.planned => o < entry'.occurrence
      BY <1>3, <2>1, <3>3, Times DEF Ahead
    <3>5. QED
      BY <1>4, <2>1, <3>2, <3>3, <3>4
  <2>8. QED
    BY <2>4, <2>5, <2>6, <2>7 DEF Safe
<1>9. CASE UpToDate
  <2>1. Ahead(entry', now) /\ state' = disk /\ disk' = disk /\ log' = log
    BY <1>9 DEF UpToDate
  <2>2. TypesInv'
    BY <1>2, <1>3, <2>1 DEF Safe, TypesInv, Ahead
  <2>3. CountInv'
    BY <1>3, <2>1 DEF CountInv
  <2>4. PlanInv'
    <3>1. entry'.planned => state'.missed < entry'.occurrence /\ state'.fired < entry'.occurrence
      BY <1>3, <2>1, AfterIsAhead, Times DEF Ahead
    <3>2. entry'.planned => entry'.occurrence \in Occurrences /\ entry'.occurrence <= entry'.fireAt
      BY <2>1 DEF Ahead
    <3>3. accountedThrough(disk)' <= now' /\ loop'.at <= now' /\ log'.since <= now'
      BY <1>2, <1>3, <2>1 DEF Safe, PlanInv
    <3>4. state'.fired \in Nat /\ (entry'.planned => entry'.occurrence \in Nat)
      BY <1>3, <2>1, <3>2, AfterIsAhead, Times
    <3>5. QED
      BY <1>2, <3>1, <3>2, <3>3, <3>4 DEF PlanInv, InPass
  <2>5. RecordInv'
    <3>1. SUFFICES ASSUME NEW o \in Recorded
                   PROVE  /\ o <= accountedThrough(disk) /\ o \notin disk.who
                          /\ o > log.since => o <= disk.fired
                          /\ entry'.planned => o < entry'.occurrence
      BY <1>2, <1>3, <1>5, <1>6, <2>1, Times DEF RecordInv, Ahead
    <3>2. /\ o <= accountedThrough(disk) /\ o \notin disk.who
          /\ o > log.since => o <= disk.fired
      BY DEF Safe, RecordInv
    <3>3. o \in Nat /\ o <= now
      BY <1>3, <1>5, <3>2, Times
    <3>4. entry'.planned => o < entry'.occurrence
      BY <1>3, <2>1, <3>3, Times DEF Ahead
    <3>5. QED
      BY <3>2, <3>4
  <2>6. QED
    BY <2>2, <2>3, <2>4, <2>5 DEF Safe
<1>10. ASSUME NEW B, Run(B), CaughtUp(B)
       PROVE  Safe'
  <2>1. /\ state' = disk /\ disk' = disk
        /\ entry' = [planned |-> TRUE, occurrence |-> Max(B), fireAt |-> now, late |-> TRUE]
    BY <1>10 DEF CaughtUp
  <2>2. /\ Max(B) \in Occurrences /\ Max(B) <= now /\ accountedThrough(disk) < Max(B)
        /\ B \in SUBSET Occurrences
    BY <1>10 DEF Run
  <2>3. /\ log'.fired = log.fired /\ log'.unrecorded = log.unrecorded /\ log'.since = log.since
        /\ log' \in Logs
    <3>1. B \ {Max(B)} \in SUBSET Occurrences /\ "caught up" \in Reasons
      BY <2>2 DEF Reasons
    <3>2. log' = PassOver("caught up", B \ {Max(B)})
      BY <1>10 DEF CaughtUp
    <3>3. QED
      BY <1>3, <3>1, <3>2, PassOverIs
  <2>4. /\ entry'.planned /\ entry'.occurrence = Max(B) /\ entry'.fireAt = now
        /\ entry' \in Entries
    BY <1>3, <2>1, <2>2 DEF Entries
  <2>5. TypesInv'
    BY <1>2, <1>3, <2>1, <2>3, <2>4 DEF Safe, TypesInv
  <2>6. CountInv'
    BY <1>3, <2>1 DEF CountInv
  <2>7. PlanInv'
    <3>1. disk.missed < Max(B) /\ disk.fired < Max(B) /\ disk.fired \in Nat
      BY <1>3, <2>2, AfterIsAhead, Times
    <3>2. QED
      BY <1>2, <1>3, <2>1, <2>2, <2>3, <2>4, <3>1, Times DEF Safe, PlanInv, InPass
  <2>8. RecordInv'
    <3>1. SUFFICES ASSUME NEW o \in Recorded
                   PROVE  /\ o <= accountedThrough(disk) /\ o \notin disk.who
                          /\ o > log.since => o <= disk.fired
                          /\ o < Max(B)
      BY <1>2, <1>3, <1>5, <1>6, <2>1, <2>2, <2>3, <2>4, Times DEF RecordInv
    <3>2. /\ o <= accountedThrough(disk) /\ o \notin disk.who
          /\ o > log.since => o <= disk.fired
      BY DEF Safe, RecordInv
    <3>3. QED
      BY <1>3, <1>5, <2>2, <3>2, Times
  <2>9. QED
    BY <2>5, <2>6, <2>7, <2>8 DEF Safe
<1>11. ASSUME NEW B, Run(B), Counted(B)
       PROVE  Safe'
  <2>1. /\ Ahead(entry', now) /\ state' = Missed(disk, B) /\ disk' \in {disk, state'}
        /\ log' = PassOver("beyond", Between(Max(B), now, Horizon))
    BY <1>11 DEF Counted
  <2>2. /\ Max(B) \in Occurrences /\ Max(B) <= now /\ accountedThrough(disk) < Max(B)
        /\ B \in SUBSET Occurrences /\ IsFiniteSet(B) /\ B # {}
        /\ \A o \in B : o <= Max(B) /\ accountedThrough(disk) < o
    BY <1>11 DEF Run
  <2>3. \A o \in B : o <= Max(B) /\ disk.missed < o
    BY <1>3, <2>2, AfterIsAhead, Times
  <2>4. /\ state' \in Records /\ Counts(state') /\ state'.missed = Max(B)
        /\ state'.fired = disk.fired /\ state'.who = disk.who \cup B
    <3>1. Max(B) \in B
      BY <1>11 DEF Run
    <3>2. QED
      BY <1>3, <2>1, <2>2, <2>3, <3>1, MissedCounts
  <2>5. Between(Max(B), now, Horizon) \in SUBSET Occurrences
    BY DEF Between, After
  <2>6. /\ log'.fired = log.fired /\ log'.unrecorded = log.unrecorded /\ log'.since = log.since
        /\ log' \in Logs
    <3>1. "beyond" \in Reasons
      BY DEF Reasons
    <3>2. QED
      BY <1>3, <2>1, <2>5, <3>1, PassOverIs
  <2>7. TypesInv'
    BY <1>2, <1>3, <2>1, <2>4, <2>6 DEF Safe, TypesInv, Ahead
  <2>8. CountInv'
    BY <1>3, <2>1, <2>4 DEF CountInv, Counts
  <2>9. /\ accountedThrough(state') = Max(B)
        /\ disk'.fired = disk.fired /\ accountedThrough(disk') \in {accountedThrough(disk), Max(B)}
    BY <1>3, <2>1, <2>2, <2>4, AfterIsAhead, Times DEF accountedThrough
  <2>10. PlanInv'
    <3>1. entry'.planned => state'.missed < entry'.occurrence /\ state'.fired < entry'.occurrence
      BY <1>3, <2>1, <2>2, <2>4, AfterIsAhead, Times DEF Ahead
    <3>2. entry'.planned => entry'.occurrence \in Occurrences /\ entry'.occurrence <= entry'.fireAt
      BY <2>1 DEF Ahead
    <3>3. accountedThrough(disk)' <= now' /\ loop'.at <= now' /\ log'.since <= now'
      BY <1>2, <1>3, <2>2, <2>6, <2>9 DEF Safe, PlanInv
    <3>4. state'.fired \in Nat /\ (entry'.planned => entry'.occurrence \in Nat)
      BY <1>3, <2>4, <3>2, AfterIsAhead, Times
    <3>5. QED
      BY <1>2, <3>1, <3>2, <3>3, <3>4 DEF PlanInv, InPass
  <2>11. RecordInv'
    <3>1. ASSUME NEW o \in Recorded
          PROVE  /\ o \in Nat /\ o <= accountedThrough(disk) /\ o <= now
                 /\ o \notin disk.who /\ o \notin B
                 /\ o > log.since => o <= disk.fired
                 /\ entry'.planned => o < entry'.occurrence
      <4>1. /\ o <= accountedThrough(disk) /\ o \notin disk.who
            /\ o > log.since => o <= disk.fired
        BY DEF Safe, RecordInv
      <4>2. o \in Nat /\ o <= now
        BY <1>3, <1>5, <4>1, Times
      <4>3. o \notin B
        BY <1>3, <2>2, <4>1, <4>2, Times
      <4>4. entry'.planned => o < entry'.occurrence
        BY <1>3, <2>1, <4>2, Times DEF Ahead
      <4>5. QED
        BY <4>1, <4>2, <4>3, <4>4
    <3>2. Recorded' = Recorded
      BY <1>6, <2>6
    <3>3. ASSUME NEW o \in Recorded
          PROVE  /\ o <= accountedThrough(disk)' /\ o \notin state'.who /\ o \notin disk'.who
                 /\ o > log'.since => o <= disk'.fired /\ o <= state'.fired
                 /\ entry'.planned => o < entry'.occurrence /\ o <= entry'.occurrence
      <4>1. o <= Max(B)
        BY <1>3, <2>2, <3>1, Times
      <4>2. o \notin state'.who /\ o \notin disk'.who
        BY <2>1, <2>4, <3>1
      <4>3. entry'.planned => entry'.occurrence \in Nat
        BY <2>1, Times DEF Ahead
      <4>4. QED
        BY <2>4, <2>6, <2>9, <3>1, <4>1, <4>2, <4>3
    <3>4. QED
      BY <3>2, <3>3 DEF RecordInv
  <2>12. QED
    BY <2>7, <2>8, <2>10, <2>11 DEF Safe
<1>12. QED
  BY <1>1, <1>7, <1>8, <1>9, <1>10, <1>11
(* A reset answers for all that came before its plan.                      *)
LEMMA ResetCovers ==
  ASSUME Safe, CoverInv, NEW loaded \in BOOLEAN, NEW ok \in BOOLEAN, Reset(loaded, ok),
         UNCHANGED <<now, worker, ctx>>, pending' \in BOOLEAN
  PROVE  CoverInv'
<1>1. /\ loop' = [loop EXCEPT !.pc = "wait"]
      /\ \/ Dropped \/ Afresh \/ UpToDate
         \/ \E B : Run(B) /\ (CaughtUp(B) \/ Counted(B))
  BY ResetIs DEF Safe
<1>2. loop'.pc = "wait"
  BY <1>1 DEF Safe, TypesInv
<1>3. /\ now \in Nat /\ log \in Logs /\ disk \in Records
      /\ accountedThrough(disk) \in Nat /\ accountedThrough(disk) <= now /\ log.since <= now
      /\ log.since \in Nat
  BY AfterIsAhead, Times DEF Safe, TypesInv, PlanInv, Logs
<1>4. disk.fired # Never =>
        \A o \in Occurrences : log.since < o /\ o <= accountedThrough(disk) => Covered(disk, o)
  BY DEF CoverInv, DiskCovers
<1>5. ASSUME NEW s, NEW t, NEW o, log'.fired = log.fired, PassedOver \subseteq PassedOver',
             s.who \subseteq t.who, Covered(s, o)
      PROVE  o \in Fired' \/ o \in t.who \/ o \in PassedOver'
  BY <1>5 DEF Covered, Fired
<1> DEFINE Known(o) == o \in Fired' \/ o \in state'.who \/ o \in PassedOver'
<1>6. ASSUME DiskCovers',
             \A o \in Occurrences :
               log'.since < o /\ (entry'.planned => o < entry'.occurrence) => Known(o)
      PROVE  CoverInv'
  <2>1. PlanCovers'
    BY <1>2, <1>6 DEF PlanCovers, Covered, AtWork
  <2>2. EndCovers'
    BY <1>2, <1>6 DEF EndCovers, Covered
  <2>3. QED
    BY <1>6, <2>1, <2>2 DEF CoverInv
<1>7. CASE Dropped
  <2>1. /\ entry' = Unplanned /\ disk' = disk /\ log' = log /\ worker'.is = "gone"
        /\ ~entry'.planned
    BY <1>7 DEF Dropped, Unplanned
  <2>2. DiskCovers'
    BY <1>4, <2>1 DEF DiskCovers, Covered, Fired, PassedOver, accountedThrough
  <2>3. QED
    BY <2>1, <2>2 DEF CoverInv, PlanCovers, EndCovers
<1>8. CASE Afresh
  <2>1. /\ Ahead(entry', now) /\ disk' = disk /\ log' = [log EXCEPT !.since = now]
    BY <1>8 DEF Afresh
  <2>2. log'.fired = log.fired /\ PassedOver' = PassedOver /\ log'.since = now
    BY <1>3, <2>1, PassedStays DEF Logs
  <2>3. DiskCovers'
    <3>1. SUFFICES ASSUME disk.fired # Never, NEW o \in Occurrences,
                          now < o, o <= accountedThrough(disk)
                   PROVE  FALSE
      BY <2>1, <2>2 DEF DiskCovers, accountedThrough
    <3>2. QED
      BY <1>3, <3>1, Times
  <2>4. ASSUME NEW o \in Occurrences, log'.since < o, entry'.planned => o < entry'.occurrence
        PROVE  FALSE
    BY <1>3, <2>1, <2>2, <2>4, Times DEF Ahead
  <2>5. QED
    BY <1>6, <2>3, <2>4
<1>9. CASE UpToDate
  <2>1. /\ Ahead(entry', now) /\ state' = disk /\ disk' = disk /\ log' = log
        /\ disk.fired # Never /\ \A o \in Occurrences : accountedThrough(disk) < o => now < o
    BY <1>9 DEF UpToDate
  <2>2. DiskCovers'
    BY <1>4, <2>1 DEF DiskCovers, Covered, Fired, PassedOver, accountedThrough
  <2>3. ASSUME NEW o \in Occurrences, log'.since < o, entry'.planned => o < entry'.occurrence
        PROVE  Known(o)
    <3>1. o <= accountedThrough(disk)
      BY <1>3, <2>1, <2>3, Times DEF Ahead
    <3>2. Covered(disk, o)
      BY <1>4, <2>1, <2>3, <3>1
    <3>3. QED
      BY <1>5, <2>1, <3>2, PassedStays
  <2>4. QED
    BY <1>6, <2>2, <2>3
<1>10. ASSUME NEW B, Run(B), CaughtUp(B)
       PROVE  CoverInv'
  <2>1. /\ state' = disk /\ disk' = disk /\ disk.fired # Never
        /\ entry' = [planned |-> TRUE, occurrence |-> Max(B), fireAt |-> now, late |-> TRUE]
        /\ log' = PassOver("caught up", B \ {Max(B)})
    BY <1>10 DEF CaughtUp
  <2>2. /\ \A o \in Occurrences : accountedThrough(disk) < o /\ o <= Max(B) => o \in B
        /\ Max(B) \in Occurrences
    BY <1>10 DEF Run
  <2>3. /\ log'.fired = log.fired /\ log'.since = log.since
        /\ PassedOver' = PassedOver \cup (B \ {Max(B)})
        /\ entry'.planned /\ entry'.occurrence = Max(B)
    <3>1. B \ {Max(B)} \in SUBSET Occurrences /\ "caught up" \in Reasons
      BY <1>10 DEF Run, Reasons
    <3>2. QED
      BY <1>3, <2>1, <3>1, PassOverIs
  <2>4. DiskCovers'
    BY <1>4, <2>1, <2>3 DEF DiskCovers, Covered, Fired, PassedOver, accountedThrough
  <2>5. ASSUME NEW o \in Occurrences, log'.since < o, entry'.planned => o < entry'.occurrence
        PROVE  Known(o)
    <3>1. CASE o <= accountedThrough(disk)
      <4>1. Covered(disk, o)
        BY <1>4, <2>1, <2>3, <2>5, <3>1
      <4>2. QED
        BY <1>5, <2>1, <2>3, <4>1
    <3>2. CASE ~(o <= accountedThrough(disk))
      <4>1. o \in B /\ o # Max(B)
        BY <1>3, <2>2, <2>3, <2>5, <3>2, Times
      <4>2. QED
        BY <2>3, <4>1
    <3>3. QED
      BY <3>1, <3>2
  <2>6. QED
    BY <1>6, <2>4, <2>5
<1>11. ASSUME NEW B, Run(B), Counted(B)
       PROVE  CoverInv'
  <2>1. /\ Ahead(entry', now) /\ state' = Missed(disk, B) /\ disk' \in {disk, state'}
        /\ disk.fired # Never
        /\ log' = PassOver("beyond", Between(Max(B), now, Horizon))
    BY <1>11 DEF Counted
  <2>2. /\ \A o \in Occurrences : accountedThrough(disk) < o /\ o <= Max(B) => o \in B
        /\ Max(B) \in Occurrences /\ Max(B) <= now /\ accountedThrough(disk) < Max(B)
    BY <1>11 DEF Run
  <2>3. /\ log'.fired = log.fired /\ log'.since = log.since
        /\ PassedOver' = PassedOver \cup Between(Max(B), now, Horizon)
    <3>1. Between(Max(B), now, Horizon) \in SUBSET Occurrences /\ "beyond" \in Reasons
      BY DEF Between, After, Reasons
    <3>2. QED
      BY <1>3, <2>1, <3>1, PassOverIs
  <2>4. state'.who = disk.who \cup B /\ state'.missed = Max(B) /\ state'.fired = disk.fired
    BY <1>3, <2>1 DEF Missed, Records
  <2>5. ASSUME NEW o \in Occurrences, log'.since < o, o <= now
        PROVE  Known(o) /\ (o <= Max(B) => o \in Fired' \/ o \in state'.who \/ o \in PassedOver)
    <3>1. CASE o <= accountedThrough(disk)
      <4>1. Covered(disk, o)
        BY <1>4, <2>1, <2>3, <2>5, <3>1
      <4>2. QED
        BY <2>3, <2>4, <4>1 DEF Covered, Fired
    <3>2. CASE ~(o <= accountedThrough(disk)) /\ o <= Max(B)
      <4>1. o \in B
        BY <1>3, <2>2, <3>2, Times
      <4>2. QED
        BY <2>4, <4>1
    <3>3. CASE ~(o <= Max(B))
      <4>1. o \in Between(Max(B), now, Horizon)
        BY <1>3, <2>2, <2>5, <3>3, BetweenAll, Times
      <4>2. QED
        BY <2>3, <3>3, <4>1
    <3>4. QED
      BY <3>1, <3>2, <3>3
  <2>6. DiskCovers'
    <3>1. CASE disk' = disk
      BY <1>4, <2>3, <3>1 DEF DiskCovers, Covered, Fired, PassedOver, accountedThrough
    <3>2. CASE disk' = state'
      <4>1. accountedThrough(disk)' = Max(B)
        <5>1. disk'.fired = disk.fired /\ disk'.missed = Max(B)
          BY <2>4, <3>2
        <5>2. disk.fired < Max(B) /\ disk.fired \in Nat /\ Max(B) \in Nat
          BY <1>3, <2>2, AfterIsAhead, Times
        <5>3. QED
          BY <5>1, <5>2 DEF accountedThrough
      <4>2. \A o \in Occurrences : log'.since < o /\ o <= Max(B) => Known(o)
        BY <1>3, <2>2, <2>5, Times
      <4>3. QED
        BY <3>2, <4>1, <4>2 DEF DiskCovers, Covered
    <3>3. QED
      BY <2>1, <3>1, <3>2
  <2>7. ASSUME NEW o \in Occurrences, log'.since < o, entry'.planned => o < entry'.occurrence
        PROVE  Known(o)
    <3>1. o <= now
      BY <1>3, <2>1, <2>7, Times DEF Ahead
    <3>2. QED
      BY <2>5, <2>7, <3>1
  <2>8. QED
    BY <1>6, <2>6, <2>7
<1>12. QED
  BY <1>1, <1>7, <1>8, <1>9, <1>10, <1>11

----------------------------------------------------------------------------
(* The firing loop.                                                        *)

(* Firings are occurrences.                                                *)
LEMMA FiringsAre ==
  ASSUME TypesInv
  PROVE  /\ Fired \in SUBSET Occurrences /\ Recorded \in SUBSET Occurrences
         /\ \A o \in Recorded : o \in Fired /\ o \notin log.unrecorded
BY DEF TypesInv, Logs, Fired, Recorded

(* A pass begins, moves on without an execution, or is cut short.          *)
LEMMA PassSafe ==
  ASSUME Safe, Due \/ Skip \/ Return \/ Crash
  PROVE  Safe'
<1>1. /\ loop \in [pc : {"boot", "wait", "fire", "record", "advance", "down"}, at : 0..Horizon]
      /\ entry \in Entries /\ log \in Logs /\ now \in 0..Horizon
      /\ entry.planned => entry.occurrence \in Occurrences
      /\ InPass => entry.planned
  BY DEF Safe, TypesInv, PlanInv
<1>2. /\ UNCHANGED <<now, entry, state, disk, worker, pending, ctx>>
      /\ loop' \in [pc : {"boot", "wait", "fire", "record", "advance", "down"}, at : 0..Horizon]
      /\ loop'.at <= now
  <2>1. UNCHANGED <<now, entry, state, disk, worker, pending, ctx>>
    BY DEF Due, Skip, Return, Crash
  <2>2. CASE Due
    BY <1>1, <2>2, Times DEF Due
  <2>3. CASE Skip \/ Return \/ Crash
    BY <1>1, <2>3 DEF Skip, Return, Crash, Safe, PlanInv
  <2>4. QED
    BY <2>1, <2>2, <2>3
<1>3. log' \in Logs /\ log'.fired = log.fired /\ log'.unrecorded = log.unrecorded /\ log'.since = log.since
  <2>1. CASE Skip
    <3>1. entry.occurrence \in Occurrences
      BY <1>1, <2>1 DEF Skip, InPass
    <3>2. {entry.occurrence} \in SUBSET Occurrences
      BY <3>1
    <3>3. Cause \in Reasons /\ log' = PassOver(Cause, {entry.occurrence})
      BY <2>1, SkipIs
    <3>4. QED
      BY <1>1, <3>2, <3>3, PassOverIs
  <2>2. CASE Due \/ Return \/ Crash
    BY <1>1, <2>2 DEF Due, Return, Crash
  <2>3. QED
    BY <2>1, <2>2
<1>4. TypesInv' /\ CountInv'
  BY <1>2, <1>3 DEF Safe, TypesInv, CountInv
<1>5. \/ loop'.pc = "down"
      \/ loop.pc = "wait" /\ loop'.pc = "fire" /\ entry.planned /\ entry.fireAt <= loop'.at
      \/ loop.pc = "fire" /\ loop'.pc = "advance" /\ loop'.at = loop.at
  BY <1>1 DEF Due, Skip, Return, Crash
<1>6. PlanInv'
  <2>1. accountedThrough(disk)' <= now' /\ loop'.at <= now' /\ log'.since <= now'
    BY <1>2, <1>3 DEF Safe, PlanInv, accountedThrough
  <2>2. QED
    BY <1>2, <1>5, <2>1 DEF Safe, PlanInv, InPass
<1>7. RecordInv'
  <2>1. Recorded' = Recorded
    BY <1>3 DEF Recorded, Fired
  <2>2. AtWork' => AtWork /\ (loop'.pc # "advance" => loop.pc # "advance")
    BY <1>5 DEF AtWork
  <2>3. accountedThrough(disk)' = accountedThrough(disk)
    BY <1>2 DEF accountedThrough
  <2>4. QED
    BY <1>2, <1>3, <2>1, <2>2, <2>3 DEF Safe, RecordInv
<1>8. QED
  BY <1>4, <1>6, <1>7 DEF Safe

(* The clock, a signal, a new registry, and a new life of the daemon.      *)
LEMMA AroundSafe ==
  ASSUME Safe, Tick \/ Term \/ Restart \/ \E new \in Definitions : Reload(new)
  PROVE  Safe'
<1>1. /\ NoHistory \in Records /\ Counts(NoHistory) /\ now \in Nat /\ Horizon \in Nat
      /\ disk \in Records /\ accountedThrough(disk) \in Nat /\ loop.at \in Nat /\ log.since \in Nat
  BY NoHistoryIs, AfterIsAhead, Times DEF Safe, TypesInv, Logs
<1>2. CASE Tick
  <2>1. /\ now' = now + 1 /\ now < Horizon
        /\ UNCHANGED <<loop, entry, state, disk, worker, pending, ctx, log>>
    BY <1>2 DEF Tick
  <2>2. now' \in 0..Horizon /\ now <= now'
    BY <1>1, <2>1
  <2>3. PlanInv'
    <3>1. accountedThrough(disk)' <= now' /\ loop'.at <= now' /\ log'.since <= now'
      BY <1>1, <2>1 DEF Safe, PlanInv, accountedThrough
    <3>2. QED
      BY <2>1, <3>1 DEF Safe, PlanInv, InPass
  <2>4. RecordInv'
    BY <2>1 DEF Safe, RecordInv, Recorded, Fired, AtWork, accountedThrough
  <2>5. TypesInv' /\ CountInv'
    BY <2>1, <2>2 DEF Safe, TypesInv, CountInv
  <2>6. QED
    BY <2>3, <2>4, <2>5 DEF Safe
<1>3. CASE Term
  <2>1. UNCHANGED <<now, loop, entry, state, disk, worker, pending, log>> /\ ctx' = "cancelled"
    BY <1>3 DEF Term
  <2>2. QED
    BY <2>1 DEF Safe, TypesInv, CountInv, PlanInv, RecordInv, Recorded, Fired, AtWork, InPass,
               accountedThrough
<1>4. CASE \E new \in Definitions : Reload(new)
  <2>1. UNCHANGED <<now, loop, entry, state, disk, ctx, log>> /\ worker' \in Definitions /\ pending' = TRUE
    BY <1>4 DEF Reload
  <2>2. QED
    BY <2>1 DEF Safe, TypesInv, CountInv, PlanInv, RecordInv, Recorded, Fired, AtWork, InPass,
               accountedThrough
<1>5. CASE Restart
  <2>1. /\ UNCHANGED <<now, disk, worker, log>> /\ loop' = [loop EXCEPT !.pc = "boot"]
        /\ entry' = Unplanned /\ state' = NoHistory /\ pending' = FALSE /\ ctx' = "live"
    BY <1>5 DEF Restart
  <2>2. /\ loop' \in [pc : {"boot", "wait", "fire", "record", "advance", "down"}, at : 0..Horizon]
        /\ loop'.pc = "boot" /\ loop'.at = loop.at
        /\ entry' \in Entries /\ ~entry'.planned
    BY <2>1 DEF Safe, TypesInv, Unplanned, Entries, Never
  <2>3. TypesInv' /\ CountInv'
    BY <1>1, <2>1, <2>2 DEF Safe, TypesInv, CountInv
  <2>4. PlanInv'
    BY <2>1, <2>2 DEF Safe, PlanInv, InPass, accountedThrough
  <2>5. RecordInv'
    BY <2>1, <2>2 DEF Safe, RecordInv, Recorded, Fired, AtWork, accountedThrough, NoHistory
  <2>6. QED
    BY <2>3, <2>4, <2>5 DEF Safe
<1>6. QED
  BY <1>2, <1>3, <1>4, <1>5

(* The occurrence submitted is later than all the store knows of.          *)
LEMMA SubmitSafe ==
  ASSUME Safe, NEW stored \in BOOLEAN, Submit(stored)
  PROVE  Safe'
<1> DEFINE occ == entry.occurrence
<1>1. /\ loop \in [pc : {"boot", "wait", "fire", "record", "advance", "down"}, at : 0..Horizon]
      /\ loop.pc = "fire" /\ entry.planned /\ occ \in Occurrences
      /\ log \in Logs
  BY DEF Safe, TypesInv, PlanInv, InPass, Submit
<1>2. /\ UNCHANGED <<now, entry, state, disk, worker, pending, ctx>>
      /\ loop' = [loop EXCEPT !.pc = "record"]
      /\ log' = IF stored
                THEN [log EXCEPT !.fired = Append(@, occ), !.unrecorded = @ \cup {occ}]
                ELSE log
  BY DEF Submit
<1>3. /\ loop' \in [pc : {"boot", "wait", "fire", "record", "advance", "down"}, at : 0..Horizon]
      /\ loop'.pc = "record" /\ loop'.at = loop.at
  BY <1>1, <1>2
<1>4. /\ log' \in Logs /\ log'.since = log.since /\ PassedOver' = PassedOver
      /\ stored => log'.fired = Append(log.fired, occ) /\ log'.unrecorded = log.unrecorded \cup {occ}
  <2> DEFINE fired == Append(log.fired, occ)
             unrecorded == log.unrecorded \cup {occ}
  <2>1. fired \in Seq(Occurrences) /\ unrecorded \in SUBSET Occurrences
    BY <1>1 DEF Logs
  <2>2. log' = IF stored THEN [log EXCEPT !.fired = fired, !.unrecorded = unrecorded] ELSE log
    BY <1>2
  <2> HIDE DEF fired, unrecorded
  <2>3. /\ log' \in Logs /\ log'.since = log.since /\ PassedOver' = PassedOver
        /\ stored => log'.fired = fired /\ log'.unrecorded = unrecorded
    BY <1>1, <2>1, <2>2, PassedStays DEF Logs
  <2>4. QED
    BY <2>3 DEF fired, unrecorded
<1>5. Fired' \in SUBSET (Fired \cup {occ})
  <2>1. CASE stored
    BY <1>1, <1>4, <2>1 DEF Fired, Logs
  <2>2. CASE ~stored
    BY <1>2, <2>2 DEF Fired
  <2>3. QED
    BY <2>1, <2>2
<1>6. Recorded' \in SUBSET Recorded
  <2>1. CASE stored
    BY <1>4, <1>5, <2>1 DEF Recorded
  <2>2. CASE ~stored
    BY <1>2, <2>2 DEF Recorded, Fired
  <2>3. QED
    BY <2>1, <2>2
<1>7. TypesInv' /\ CountInv'
  BY <1>2, <1>3, <1>4 DEF Safe, TypesInv, CountInv
<1>8. PlanInv'
  <2>1. accountedThrough(disk)' <= now' /\ loop'.at <= now' /\ log'.since <= now'
    BY <1>2, <1>3, <1>4 DEF Safe, PlanInv, accountedThrough
  <2>2. QED
    BY <1>1, <1>2, <1>3, <2>1 DEF Safe, PlanInv, InPass
<1>9. RecordInv'
  BY <1>1, <1>2, <1>3, <1>4, <1>6 DEF Safe, RecordInv, AtWork, accountedThrough
<1>10. QED
  BY <1>7, <1>8, <1>9 DEF Safe

(* The occurrence recorded becomes the last one answered for.              *)
LEMMA RecordFiringIs ==
  ASSUME Safe, NEW ok \in BOOLEAN, RecordFiring(ok)
  PROVE  /\ loop.pc = "record" /\ entry.planned /\ entry.occurrence \in Occurrences
         /\ loop' \in [pc : {"boot", "wait", "fire", "record", "advance", "down"}, at : 0..Horizon]
         /\ loop'.pc = "advance" /\ loop'.at = loop.at
         /\ state' \in Records /\ state'.fired = entry.occurrence
         /\ state'.missed = state.missed /\ state'.runs = state.runs /\ state'.who = state.who
         /\ accountedThrough(state') = entry.occurrence
         /\ log' \in Logs /\ log'.fired = log.fired /\ log'.since = log.since
         /\ PassedOver' = PassedOver
         /\ \/ disk' = disk /\ log'.unrecorded = log.unrecorded /\ ~ok
            \/ disk' = state' /\ log'.unrecorded = log.unrecorded \ {entry.occurrence}
               /\ ok /\ ctx = "live"
<1>1. /\ loop \in [pc : {"boot", "wait", "fire", "record", "advance", "down"}, at : 0..Horizon]
      /\ loop.pc = "record" /\ entry.planned /\ entry.occurrence \in Occurrences
      /\ log \in Logs /\ state \in Records /\ state.missed < entry.occurrence
  BY DEF Safe, TypesInv, PlanInv, InPass, RecordFiring
<1>2. /\ loop' = [loop EXCEPT !.pc = "advance"]
      /\ state' = [state EXCEPT !.fired = entry.occurrence]
      /\ log' = [log EXCEPT !.unrecorded = IF ok THEN @ \ {entry.occurrence} ELSE @]
      /\ disk' = IF ok THEN state' ELSE disk
      /\ ok => ctx = "live"
  BY DEF RecordFiring, Save
<1>3. /\ loop' \in [pc : {"boot", "wait", "fire", "record", "advance", "down"}, at : 0..Horizon]
      /\ loop'.pc = "advance" /\ loop'.at = loop.at
  BY <1>1, <1>2
<1>4. /\ state' \in Records /\ state'.fired = entry.occurrence
      /\ state'.missed = state.missed /\ state'.runs = state.runs /\ state'.who = state.who
  BY <1>1, <1>2 DEF Records
<1>5. accountedThrough(state') = entry.occurrence
  <2>1. state.missed \in Nat /\ entry.occurrence \in Nat
    BY <1>1, AfterIsAhead, Times
  <2>2. QED
    BY <1>1, <1>4, <2>1 DEF accountedThrough
<1>6. /\ log' \in Logs /\ log'.fired = log.fired /\ log'.since = log.since
      /\ PassedOver' = PassedOver
      /\ log'.unrecorded = IF ok THEN log.unrecorded \ {entry.occurrence} ELSE log.unrecorded
  BY <1>1, <1>2, PassedStays DEF Logs
<1>7. QED
  BY <1>1, <1>2, <1>3, <1>4, <1>5, <1>6

LEMMA RecordFiringSafe ==
  ASSUME Safe, NEW ok \in BOOLEAN, RecordFiring(ok)
  PROVE  Safe'
<1> DEFINE occ == entry.occurrence
<1>1. /\ loop.pc = "record" /\ entry.planned /\ occ \in Occurrences
      /\ loop' \in [pc : {"boot", "wait", "fire", "record", "advance", "down"}, at : 0..Horizon]
      /\ loop'.pc = "advance" /\ loop'.at = loop.at
      /\ state' \in Records /\ state'.fired = occ
      /\ state'.missed = state.missed /\ state'.runs = state.runs /\ state'.who = state.who
      /\ accountedThrough(state') = occ
      /\ log' \in Logs /\ log'.fired = log.fired /\ log'.since = log.since
      /\ \/ disk' = disk /\ log'.unrecorded = log.unrecorded
         \/ disk' = state' /\ log'.unrecorded = log.unrecorded \ {occ}
  BY RecordFiringIs
<1>2. UNCHANGED <<now, entry, worker, pending, ctx>>
  BY DEF RecordFiring
<1>3. /\ state \in Records /\ disk \in Records /\ occ \in Nat /\ state.missed \in Nat
      /\ accountedThrough(disk) \in Nat /\ now \in Nat /\ loop.at \in Nat
      /\ state.missed < occ /\ entry.fireAt <= loop.at /\ loop.at <= now /\ occ <= entry.fireAt
      /\ entry.fireAt \in Nat
  BY <1>1, AfterIsAhead, Times DEF Safe, TypesInv, PlanInv, InPass, Entries
<1> HIDE DEF occ
<1>4. occ <= now
  BY <1>3
<1>5. /\ disk' \in Records /\ accountedThrough(disk') \in {accountedThrough(disk), occ}
      /\ disk'.who \in {disk.who, state.who}
  BY <1>1, <1>3
<1>6. TypesInv'
  BY <1>1, <1>2, <1>5 DEF Safe, TypesInv
<1>7. CountInv'
  BY <1>1 DEF Safe, CountInv, Counts
<1>8. PlanInv'
  <2>1. accountedThrough(disk)' <= now' /\ loop'.at <= now' /\ log'.since <= now'
    BY <1>1, <1>2, <1>4, <1>5 DEF Safe, PlanInv
  <2>2. QED
    BY <1>1, <1>2, <1>3, <2>1 DEF Safe, PlanInv, InPass, occ
<1>9. ASSUME NEW o \in Recorded'
      PROVE  o \in Recorded \/ (o = occ /\ disk' = state')
  BY <1>1, <1>9 DEF Recorded, Fired
<1>10. occ \notin state.who
  BY <1>3 DEF Safe, CountInv, Counts
<1>11. RecordInv'
  <2>1. SUFFICES ASSUME NEW o \in Recorded'
                 PROVE  /\ o <= accountedThrough(disk') /\ o \notin state'.who /\ o \notin disk'.who
                        /\ o > log.since => o <= disk'.fired
                        /\ o <= occ
    BY <1>1, <1>2 DEF RecordInv, occ
  <2>2. CASE o = occ /\ disk' = state'
    BY <1>1, <1>3, <1>10, <2>2
  <2>3. CASE o \in Recorded
    <3>1. /\ o <= accountedThrough(disk) /\ o \notin state.who /\ o \notin disk.who
          /\ o > log.since => o <= disk.fired
          /\ o < occ
      BY <1>1, <2>3 DEF Safe, RecordInv, AtWork, occ
    <3>2. o \in Nat
      BY <2>3, FiringsAre, Times DEF Safe
    <3>3. CASE disk' = disk
      BY <1>1, <1>3, <3>1, <3>2, <3>3
    <3>4. CASE disk' = state'
      BY <1>1, <1>3, <3>1, <3>2, <3>4
    <3>5. QED
      BY <1>1, <3>3, <3>4
  <2>4. QED
    BY <1>9, <2>2, <2>3
<1>12. QED
  BY <1>6, <1>7, <1>8, <1>11 DEF Safe

(* The three ends of advance: nothing to come, on time, and behind.        *)
Ended ==
  /\ ~HasNext(entry.occurrence)
  /\ entry' = Unplanned /\ UNCHANGED <<state, disk, log>>

OnTime ==
  /\ Ahead(entry', entry.occurrence) /\ UNCHANGED <<state, disk, log>>

Behind(B) ==
  /\ B \in SUBSET Occurrences /\ IsFiniteSet(B) /\ B # {}
  /\ Max(B) \in B
  /\ \A o \in B : entry.occurrence < o /\ o <= loop.at /\ o <= Max(B)
  /\ \A o \in Occurrences : entry.occurrence < o /\ o <= Max(B) => o \in B
  /\ Ahead(entry', loop.at)
  /\ state' = Missed(state, B) /\ disk' \in {disk, state'}
  /\ log' = PassOver("beyond", Between(Max(B), loop.at, Horizon))
  /\ Between(Max(B), loop.at, Horizon) # {} => Crowded

LEMMA AdvanceIs ==
  ASSUME Safe, NEW ok \in BOOLEAN, Advance(ok)
  PROVE  /\ loop.pc = "advance" /\ entry.planned /\ entry.occurrence \in Occurrences
         /\ loop' \in [pc : {"boot", "wait", "fire", "record", "advance", "down"}, at : 0..Horizon]
         /\ loop'.pc = "wait" /\ loop'.at = loop.at
         /\ UNCHANGED <<now, worker, pending, ctx>>
         /\ Ended \/ OnTime \/ \E B : Behind(B)
<1> DEFINE occ == entry.occurrence
           B == Between(occ, loop.at, MaxMissed)
<1>1. /\ loop \in [pc : {"boot", "wait", "fire", "record", "advance", "down"}, at : 0..Horizon]
      /\ loop.pc = "advance" /\ entry.planned /\ occ \in Occurrences
      /\ loop.at \in Nat /\ occ \in Nat /\ MaxMissed \in Nat \ {0}
  BY BoundAssumption, Times DEF Safe, TypesInv, PlanInv, InPass, Advance
<1>2. /\ loop' = [loop EXCEPT !.pc = "wait"]
      /\ UNCHANGED <<now, worker, pending, ctx>>
  BY DEF Advance
<1>3. loop' \in [pc : {"boot", "wait", "fire", "record", "advance", "down"}, at : 0..Horizon]
      /\ loop'.pc = "wait" /\ loop'.at = loop.at
  BY <1>1, <1>2
<1>4. CASE ~HasNext(occ)
  BY <1>1, <1>2, <1>3, <1>4 DEF Advance, Ended
<1>5. CASE HasNext(occ) /\ NextAfter(occ) > loop.at
  <2>1. Plan(occ) /\ UNCHANGED <<state, disk, log>>
    BY <1>5 DEF Advance
  <2>2. OnTime
    BY <1>1, <2>1, PlanIs DEF OnTime
  <2>3. QED
    BY <1>1, <1>2, <1>3, <2>2
<1>6. CASE HasNext(occ) /\ ~(NextAfter(occ) > loop.at)
  <2>1. /\ state' = Missed(state, B) /\ Save(state', ok)
        /\ log' = PassOver("beyond", Between(Max(B), loop.at, Horizon))
        /\ Plan(loop.at)
    BY <1>6 DEF Advance
  <2>2. /\ B \in SUBSET Occurrences /\ IsFiniteSet(B)
        /\ \A o \in B : occ < o /\ o <= loop.at
        /\ B = {} => \A o \in Occurrences : o > occ => o > loop.at
        /\ B # {} => /\ Max(B) \in B /\ \A o \in B : o <= Max(B)
                     /\ \A o \in Occurrences : occ < o /\ o <= Max(B) => o \in B
        /\ \A o \in Occurrences : occ < o /\ o <= loop.at /\ o \notin B => MaxMissed < Cardinality(Occurrences)
    BY <1>1, BetweenIs
  <2>3. B # {}
    BY <1>1, <1>6, <2>2, NextIs
  <2>4. Ahead(entry', loop.at) /\ disk' \in {disk, state'}
    BY <1>1, <2>1, PlanIs DEF Save
  <2> HIDE DEF B
  <2>5. ASSUME NEW o \in Between(Max(B), loop.at, Horizon)
        PROVE  Crowded
    <3>1. o \in Occurrences /\ Max(B) < o /\ o <= loop.at
      BY Times DEF Between, After
    <3>2. o \notin B /\ occ < o
      BY <1>1, <2>2, <2>3, <3>1, Times
    <3>3. QED
      BY <2>2, <3>1, <3>2 DEF Crowded
  <2>6. Behind(B)
    BY <2>1, <2>2, <2>3, <2>4, <2>5 DEF Behind
  <2>7. QED
    BY <1>1, <1>2, <1>3, <2>6
<1>7. QED
  BY <1>4, <1>5, <1>6

(* What a loop that fell behind counts is later than what it answered for. *)
LEMMA BehindIs ==
  ASSUME Safe, loop.pc = "advance", NEW B, Behind(B)
  PROVE  /\ B \in SUBSET Occurrences /\ Max(B) \in Occurrences /\ Max(B) <= now
         /\ entry.occurrence < Max(B)
         /\ state' \in Records /\ Counts(state') /\ state'.missed = Max(B)
         /\ state'.fired = state.fired /\ state'.who = state.who \cup B
         /\ accountedThrough(state') = Max(B)
         /\ log' \in Logs /\ log'.fired = log.fired /\ log'.unrecorded = log.unrecorded
         /\ log'.since = log.since
         /\ PassedOver' = PassedOver \cup Between(Max(B), loop.at, Horizon)
<1>1. /\ entry.occurrence \in Occurrences /\ state.missed < entry.occurrence
      /\ state.fired <= entry.occurrence /\ state \in Records /\ Counts(state)
      /\ entry.occurrence \in Nat /\ state.missed \in Nat /\ state.fired \in Nat
      /\ loop.at \in Nat /\ now \in Nat /\ loop.at <= now /\ log \in Logs
  BY AfterIsAhead, Times DEF Safe, TypesInv, CountInv, PlanInv, InPass
<1>2. /\ B \in SUBSET Occurrences /\ IsFiniteSet(B) /\ B # {} /\ Max(B) \in B
      /\ \A o \in B : entry.occurrence < o /\ o <= loop.at /\ o <= Max(B)
      /\ state' = Missed(state, B)
      /\ log' = PassOver("beyond", Between(Max(B), loop.at, Horizon))
  BY DEF Behind
<1>3. \A o \in B : o <= Max(B) /\ state.missed < o
  BY <1>1, <1>2, Times
<1>4. /\ state' \in Records /\ Counts(state') /\ state'.missed = Max(B)
      /\ state'.fired = state.fired /\ state'.who = state.who \cup B
  BY <1>1, <1>2, <1>3, MissedCounts
<1>5. Max(B) \in Occurrences /\ Max(B) \in Nat /\ Max(B) <= now /\ entry.occurrence < Max(B)
  BY <1>1, <1>2, Times
<1>6. accountedThrough(state') = Max(B)
  BY <1>1, <1>4, <1>5 DEF accountedThrough
<1>7. Between(Max(B), loop.at, Horizon) \in SUBSET Occurrences
  BY DEF Between, After
<1>8. /\ log' \in Logs /\ log'.fired = log.fired /\ log'.unrecorded = log.unrecorded
      /\ log'.since = log.since
      /\ PassedOver' = PassedOver \cup Between(Max(B), loop.at, Horizon)
  <2>1. "beyond" \in Reasons
    BY DEF Reasons
  <2>2. QED
    BY <1>1, <1>2, <1>7, <2>1, PassOverIs
<1>9. QED
  BY <1>2, <1>4, <1>5, <1>6, <1>8

LEMMA AdvanceSafe ==
  ASSUME Safe, NEW ok \in BOOLEAN, Advance(ok)
  PROVE  Safe'
<1> DEFINE occ == entry.occurrence
<1>1. /\ loop.pc = "advance" /\ entry.planned /\ occ \in Occurrences
      /\ loop' \in [pc : {"boot", "wait", "fire", "record", "advance", "down"}, at : 0..Horizon]
      /\ loop'.pc = "wait" /\ loop'.at = loop.at
      /\ UNCHANGED <<now, worker, pending, ctx>>
      /\ Ended \/ OnTime \/ \E B : Behind(B)
  BY AdvanceIs
<1>2. /\ occ \in Nat /\ state \in Records /\ disk \in Records /\ log \in Logs
      /\ state.missed \in Nat /\ state.fired \in Nat /\ state.missed < occ /\ state.fired <= occ
      /\ accountedThrough(disk) \in Nat /\ accountedThrough(disk) <= now /\ now \in Nat
      /\ loop.at <= now /\ loop.at \in Nat
  BY <1>1, AfterIsAhead, Times DEF Safe, TypesInv, PlanInv
<1>3. ASSUME NEW o \in Recorded
      PROVE  /\ o \in Nat /\ o <= accountedThrough(disk) /\ o \notin state.who /\ o \notin disk.who
             /\ o > log.since => o <= disk.fired /\ o <= state.fired
             /\ o <= occ
  <2>1. /\ o <= accountedThrough(disk) /\ o \notin state.who /\ o \notin disk.who
        /\ o > log.since => o <= disk.fired /\ o <= state.fired
        /\ o <= occ
    BY <1>1 DEF Safe, RecordInv, AtWork
  <2>2. o \in Nat
    BY FiringsAre, Times DEF Safe
  <2>3. QED
    BY <2>1, <2>2
<1>4. CASE Ended \/ OnTime
  <2>1. /\ UNCHANGED <<state, disk, log>> /\ entry' \in Entries
        /\ entry'.planned => /\ entry'.occurrence \in Occurrences /\ occ < entry'.occurrence
                             /\ entry'.occurrence <= entry'.fireAt
    <3>1. CASE Ended
      BY <3>1 DEF Ended, Unplanned, Entries, Never
    <3>2. CASE OnTime
      BY <3>2 DEF OnTime, Ahead
    <3>3. QED
      BY <1>4, <3>1, <3>2
  <2>2. entry'.planned => entry'.occurrence \in Nat
    BY <2>1, Times
  <2> HIDE DEF occ
  <2>3. TypesInv' /\ CountInv'
    BY <1>1, <2>1 DEF Safe, TypesInv, CountInv
  <2>4. PlanInv'
    <3>1. accountedThrough(disk)' <= now' /\ loop'.at <= now' /\ log'.since <= now'
      BY <1>1, <2>1 DEF Safe, PlanInv, accountedThrough
    <3>2. entry'.planned => state'.missed < entry'.occurrence /\ state'.fired < entry'.occurrence
      BY <1>2, <2>1, <2>2
    <3>3. QED
      BY <1>1, <1>2, <2>1, <2>2, <3>1, <3>2 DEF PlanInv, InPass
  <2>5. RecordInv'
    <3>1. Recorded' = Recorded
      BY <2>1 DEF Recorded, Fired
    <3>2. ASSUME NEW o \in Recorded
          PROVE  entry'.planned => o < entry'.occurrence
      BY <1>2, <1>3, <2>1, <2>2
    <3>3. QED
      BY <1>1, <1>3, <2>1, <2>2, <3>1, <3>2 DEF RecordInv, accountedThrough
  <2>6. QED
    BY <2>3, <2>4, <2>5 DEF Safe
<1>5. ASSUME NEW B, Behind(B)
      PROVE  Safe'
  <2>1. /\ B \in SUBSET Occurrences /\ Max(B) \in Occurrences /\ Max(B) <= now
        /\ occ < Max(B)
        /\ state' \in Records /\ Counts(state') /\ state'.missed = Max(B)
        /\ state'.fired = state.fired /\ state'.who = state.who \cup B
        /\ accountedThrough(state') = Max(B)
        /\ log' \in Logs /\ log'.fired = log.fired /\ log'.unrecorded = log.unrecorded
        /\ log'.since = log.since
    BY <1>1, <1>5, BehindIs
  <2>2. /\ Ahead(entry', loop.at) /\ disk' \in {disk, state'}
        /\ \A o \in B : occ < o /\ o <= loop.at /\ o <= Max(B)
        /\ Max(B) \in Nat /\ Max(B) <= loop.at
    BY <1>5, Times DEF Behind
  <2>3. /\ entry' \in Entries
        /\ entry'.planned => /\ entry'.occurrence \in Occurrences /\ loop.at < entry'.occurrence
                             /\ entry'.occurrence <= entry'.fireAt /\ entry'.occurrence \in Nat
    BY <2>2, Times DEF Ahead
  <2> HIDE DEF occ
  <2>4. disk' \in Records /\ Counts(disk') /\ accountedThrough(disk') \in {accountedThrough(disk), Max(B)}
        /\ disk'.fired \in {disk.fired, state.fired}
    BY <1>2, <2>1, <2>2 DEF Safe, CountInv
  <2>5. TypesInv' /\ CountInv'
    BY <1>1, <2>1, <2>3, <2>4 DEF Safe, TypesInv, CountInv, Counts
  <2>6. PlanInv'
    <3>1. accountedThrough(disk)' <= now' /\ loop'.at <= now' /\ log'.since <= now'
      BY <1>1, <1>2, <2>1, <2>4 DEF Safe, PlanInv
    <3>2. entry'.planned => state'.missed < entry'.occurrence /\ state'.fired < entry'.occurrence
      BY <1>2, <2>1, <2>2, <2>3
    <3>3. QED
      BY <1>1, <1>2, <2>1, <2>3, <3>1, <3>2 DEF PlanInv, InPass
  <2>7. RecordInv'
    <3>1. Recorded' = Recorded
      BY <2>1 DEF Recorded, Fired
    <3>2. ASSUME NEW o \in Recorded
          PROVE  /\ o <= accountedThrough(disk') /\ o \notin state'.who /\ o \notin disk'.who
                 /\ o > log'.since => o <= disk'.fired /\ o <= state'.fired
                 /\ entry'.planned => o < entry'.occurrence /\ o <= entry'.occurrence
      <4>1. o \notin B /\ o <= Max(B) /\ (entry'.planned => o < entry'.occurrence)
        BY <1>2, <1>3, <2>1, <2>2, <2>3, Times
      <4>2. o \notin state'.who /\ o \notin disk'.who
        BY <1>3, <2>1, <2>2, <4>1
      <4>3. o <= accountedThrough(disk') /\ (o > log'.since => o <= disk'.fired /\ o <= state'.fired)
        BY <1>3, <2>1, <2>4, <4>1
      <4>4. QED
        BY <1>3, <2>3, <4>1, <4>2, <4>3
    <3>3. QED
      BY <3>1, <3>2 DEF RecordInv
  <2>8. QED
    BY <2>5, <2>6, <2>7 DEF Safe
<1>6. QED
  BY <1>1, <1>4, <1>5

----------------------------------------------------------------------------
(* What becomes of every occurrence.                                       *)

(* What is covered stays so while the history and the record only grow.    *)
LEMMA StaysCovered ==
  ASSUME NEW s, NEW t, NEW o, Fired \subseteq Fired', PassedOver \subseteq PassedOver',
         s.who \subseteq t.who, Covered(s, o)
  PROVE  o \in Fired' \/ o \in t.who \/ o \in PassedOver'
BY DEF Covered

(* A step that moves neither plan nor record covers the occurrence its     *)
(* pass has dealt with.                                                    *)
LEMMA PassCovers ==
  ASSUME Safe, CoverInv, Due \/ Skip \/ Return \/ Crash
  PROVE  CoverInv'
<1>1. /\ loop \in [pc : {"boot", "wait", "fire", "record", "advance", "down"}, at : 0..Horizon]
      /\ log \in Logs
      /\ UNCHANGED <<now, entry, state, disk, worker, pending, ctx>>
  BY DEF Safe, TypesInv, Due, Skip, Return, Crash
<1>2. /\ log'.fired = log.fired /\ log'.since = log.since /\ PassedOver \subseteq PassedOver'
      /\ loop'.pc = "advance" => loop.pc = "fire" /\ entry.occurrence \in PassedOver'
      /\ loop'.pc \in {"down", "fire", "advance"}
      /\ AtWork' => AtWork
  <2>1. CASE Skip
    <3>1. loop.pc = "fire" /\ loop' = [loop EXCEPT !.pc = "advance"] /\ entry.occurrence \in Occurrences
      BY <2>1 DEF Skip, Safe, PlanInv, InPass
    <3>2. log'.fired = log.fired /\ log'.since = log.since /\ PassedOver' = PassedOver \cup {entry.occurrence}
      <4>1. {entry.occurrence} \in SUBSET Occurrences
        BY <3>1
      <4>2. Cause \in Reasons /\ log' = PassOver(Cause, {entry.occurrence})
        BY <2>1, SkipIs
      <4>3. QED
        BY <1>1, <4>1, <4>2, PassOverIs
    <3>3. QED
      BY <1>1, <3>1, <3>2 DEF AtWork
  <2>2. CASE Due \/ Return \/ Crash
    BY <1>1, <2>2, PassedStays DEF Due, Return, Crash, AtWork
  <2>3. QED
    BY <2>1, <2>2
<1>3. Fired' = Fired /\ accountedThrough(disk)' = accountedThrough(disk)
  BY <1>1, <1>2 DEF Fired, accountedThrough
<1>4. DiskCovers'
  BY <1>1, <1>2, <1>3 DEF CoverInv, DiskCovers, Covered
<1>5. PlanCovers'
  <2>1. SUFFICES ASSUME AtWork', ctx = "live", entry.planned, NEW o \in Occurrences, log.since < o,
                        o < entry.occurrence
                        \/ (o = entry.occurrence /\ loop'.pc \in {"record", "advance"})
                 PROVE  o \in Fired \/ o \in state.who \/ o \in PassedOver'
    BY <1>1, <1>2, <1>3 DEF PlanCovers, Covered
  <2>2. CASE o < entry.occurrence
    <3>1. Covered(state, o)
      BY <1>2, <2>1, <2>2 DEF CoverInv, PlanCovers
    <3>2. QED
      BY <1>2, <3>1 DEF Covered
  <2>3. CASE o = entry.occurrence /\ loop'.pc \in {"record", "advance"}
    BY <1>2, <2>3
  <2>4. QED
    BY <2>1, <2>2, <2>3
<1>6. EndCovers'
  BY <1>2 DEF EndCovers
<1>7. QED
  BY <1>4, <1>5, <1>6 DEF CoverInv

LEMMA AroundCovers ==
  ASSUME Safe, CoverInv, Tick \/ Term \/ Restart \/ \E new \in Definitions : Reload(new)
  PROVE  CoverInv'
<1>1. UNCHANGED <<disk, log>>
  BY DEF Tick, Term, Restart, Reload
<1>2. DiskCovers'
  BY <1>1 DEF CoverInv, DiskCovers, Covered, Fired, PassedOver, accountedThrough
<1>3. CASE Tick
  BY <1>1, <1>2, <1>3 DEF CoverInv, PlanCovers, EndCovers, Covered, Fired, PassedOver, AtWork, Tick
<1>4. CASE Term
  BY <1>2, <1>4 DEF CoverInv, PlanCovers, EndCovers, Term
<1>5. CASE Restart
  <2>1. loop'.pc = "boot"
    BY <1>5 DEF Restart, Safe, TypesInv
  <2>2. QED
    BY <1>2, <2>1 DEF CoverInv, PlanCovers, EndCovers, AtWork
<1>6. CASE \E new \in Definitions : Reload(new)
  BY <1>1, <1>2, <1>6 DEF CoverInv, PlanCovers, EndCovers, Covered, Fired, PassedOver, AtWork, Reload
<1>7. QED
  BY <1>3, <1>4, <1>5, <1>6

(* A queue that is full loses a firing: the record says it was fired, and  *)
(* there is no execution.                                                  *)
Roomy == "queuefull" \notin Faults

LEMMA SubmitCovers ==
  ASSUME Safe, CoverInv, Roomy, NEW stored \in BOOLEAN, Submit(stored)
  PROVE  CoverInv'
<1> DEFINE occ == entry.occurrence
<1>1. /\ loop.pc = "fire" /\ occ \in Occurrences /\ log \in Logs
      /\ UNCHANGED <<now, entry, state, disk, worker, pending, ctx>>
      /\ ctx = "live" => stored
  BY DEF Safe, TypesInv, PlanInv, InPass, Submit, Roomy
<1>2. /\ loop'.pc = "record"
      /\ log'.since = log.since /\ PassedOver' = PassedOver
      /\ log'.fired = IF stored THEN Append(log.fired, occ) ELSE log.fired
  <2> DEFINE fired == Append(log.fired, occ)
             unrecorded == log.unrecorded \cup {occ}
  <2>1. /\ loop' = [loop EXCEPT !.pc = "record"]
        /\ log' = IF stored THEN [log EXCEPT !.fired = fired, !.unrecorded = unrecorded] ELSE log
    BY DEF Submit
  <2>2. loop'.pc = "record"
    BY <2>1 DEF Safe, TypesInv
  <2> HIDE DEF fired, unrecorded
  <2>3. /\ log'.since = log.since /\ PassedOver' = PassedOver
        /\ log'.fired = IF stored THEN fired ELSE log.fired
    BY <1>1, <2>1, PassedStays DEF Logs
  <2>4. QED
    BY <2>2, <2>3 DEF fired
<1>3. /\ Fired \subseteq Fired'
      /\ stored => occ \in Fired'
  <2>1. log.fired \in Seq(Occurrences)
    BY <1>1 DEF Logs
  <2>2. CASE stored
    <3>1. /\ \A n \in DOMAIN log.fired :
               n \in DOMAIN log'.fired /\ log'.fired[n] = log.fired[n]
          /\ Len(log.fired) + 1 \in DOMAIN log'.fired
          /\ log'.fired[Len(log.fired) + 1] = occ
      BY <1>1, <1>2, <2>1, <2>2
    <3>2. QED
      BY <3>1 DEF Fired
  <2>3. CASE ~stored
    BY <1>2, <2>3 DEF Fired
  <2>4. QED
    BY <2>2, <2>3
<1>4. accountedThrough(disk)' = accountedThrough(disk)
  BY <1>1 DEF accountedThrough
<1> HIDE DEF occ
<1>5. DiskCovers'
  BY <1>1, <1>2, <1>3, <1>4 DEF CoverInv, DiskCovers, Covered
<1>6. PlanCovers'
  <2>1. SUFFICES ASSUME ctx = "live", entry.planned, NEW o \in Occurrences, log.since < o,
                        o < occ \/ o = occ
                 PROVE  o \in Fired' \/ o \in state.who \/ o \in PassedOver
    BY <1>1, <1>2 DEF PlanCovers, Covered, occ
  <2>2. CASE o < occ
    <3>1. Covered(state, o)
      BY <1>1, <2>1, <2>2 DEF CoverInv, PlanCovers, AtWork, occ
    <3>2. QED
      BY <1>3, <3>1 DEF Covered
  <2>3. CASE o = occ
    BY <1>1, <1>3, <2>1, <2>3
  <2>4. QED
    BY <2>1, <2>2, <2>3
<1>7. EndCovers'
  BY <1>2 DEF EndCovers
<1>8. QED
  BY <1>5, <1>6, <1>7 DEF CoverInv

LEMMA RecordFiringCovers ==
  ASSUME Safe, CoverInv, NEW ok \in BOOLEAN, RecordFiring(ok)
  PROVE  CoverInv'
<1> DEFINE occ == entry.occurrence
<1>1. /\ loop.pc = "record" /\ entry.planned /\ occ \in Occurrences
      /\ loop'.pc = "advance"
      /\ state'.who = state.who /\ accountedThrough(state') = occ
      /\ log'.fired = log.fired /\ log'.since = log.since /\ PassedOver' = PassedOver
      /\ \/ disk' = disk
         \/ disk' = state' /\ ctx = "live"
  BY RecordFiringIs
<1>2. UNCHANGED <<now, entry, worker, pending, ctx>>
  BY DEF RecordFiring
<1>3. Fired' = Fired
  BY <1>1 DEF Fired
<1>4. ASSUME ctx = "live", NEW o \in Occurrences, log.since < o, o <= occ
      PROVE  o \in Fired \/ o \in state.who \/ o \in PassedOver
  <2>1. o < occ \/ o = occ
    BY <1>1, <1>4, Times
  <2>2. QED
    BY <1>1, <1>4, <2>1 DEF CoverInv, PlanCovers, AtWork, Covered
<1> HIDE DEF occ
<1>5. DiskCovers'
  <2>1. CASE disk' = disk
    BY <1>1, <1>3, <2>1 DEF CoverInv, DiskCovers, Covered, accountedThrough
  <2>2. CASE disk' = state' /\ ctx = "live"
    <3>1. accountedThrough(disk)' = occ
      BY <1>1, <2>2 DEF accountedThrough
    <3>2. QED
      BY <1>1, <1>3, <1>4, <2>2, <3>1 DEF DiskCovers, Covered
  <2>3. QED
    BY <1>1, <2>1, <2>2
<1>6. PlanCovers'
  <2>1. SUFFICES ASSUME ctx = "live", NEW o \in Occurrences, log.since < o, o < occ \/ o = occ
                 PROVE  o \in Fired \/ o \in state.who \/ o \in PassedOver
    BY <1>1, <1>2, <1>3 DEF PlanCovers, Covered, occ
  <2>2. QED
    BY <1>1, <1>4, <2>1, Times
<1>7. EndCovers'
  BY <1>1 DEF EndCovers
<1>8. QED
  BY <1>5, <1>6, <1>7 DEF CoverInv

LEMMA AdvanceCovers ==
  ASSUME Safe, CoverInv, NEW ok \in BOOLEAN, Advance(ok)
  PROVE  CoverInv'
<1> DEFINE occ == entry.occurrence
<1>1. /\ loop.pc = "advance" /\ entry.planned /\ occ \in Occurrences
      /\ loop'.pc = "wait"
      /\ UNCHANGED <<now, worker, pending, ctx>>
      /\ Ended \/ OnTime \/ \E B : Behind(B)
  BY AdvanceIs
<1>2. /\ occ \in Nat /\ log \in Logs /\ disk.fired \in Nat /\ disk.missed \in Nat
      /\ loop.at \in Nat
  BY <1>1, AfterIsAhead, Times DEF Safe, TypesInv
<1>3. ASSUME ctx = "live", NEW o \in Occurrences, log.since < o, o <= occ
      PROVE  o \in Fired \/ o \in state.who \/ o \in PassedOver
  <2>1. o < occ \/ o = occ
    BY <1>2, <1>3, Times
  <2>2. QED
    BY <1>1, <1>3, <2>1 DEF CoverInv, PlanCovers, AtWork, Covered
<1>4. ASSUME DiskCovers',
             ctx = "live" => \A o \in Occurrences :
               log'.since < o /\ (entry'.planned => o < entry'.occurrence)
                 => o \in Fired' \/ o \in state'.who \/ o \in PassedOver'
      PROVE  CoverInv'
  <2>1. PlanCovers'
    BY <1>1, <1>4 DEF PlanCovers, Covered, AtWork
  <2>2. EndCovers'
    BY <1>1, <1>4 DEF EndCovers, Covered
  <2>3. QED
    BY <1>4, <2>1, <2>2 DEF CoverInv
<1>5. CASE Ended \/ OnTime
  <2>1. UNCHANGED <<state, disk, log>>
    BY <1>5 DEF Ended, OnTime
  <2>2. DiskCovers'
    BY <2>1 DEF CoverInv, DiskCovers, Covered, Fired, PassedOver, accountedThrough
  <2>3. ASSUME NEW o \in Occurrences, entry'.planned => o < entry'.occurrence
        PROVE  o <= occ
    <3>1. CASE Ended
      BY <1>2, <2>3, <3>1, NoNext DEF Ended
    <3>2. CASE OnTime
      BY <1>2, <2>3, <3>2, Times DEF OnTime, Ahead
    <3>3. QED
      BY <1>5, <3>1, <3>2
  <2>4. Fired' = Fired /\ PassedOver' = PassedOver
    BY <2>1, PassedStays DEF Fired
  <2>5. QED
    BY <1>3, <1>4, <2>1, <2>2, <2>3, <2>4
<1>6. ASSUME NEW B, Behind(B)
      PROVE  CoverInv'
  <2>1. /\ B \in SUBSET Occurrences /\ Max(B) \in Occurrences /\ occ < Max(B)
        /\ state'.who = state.who \cup B
        /\ accountedThrough(state') = Max(B)
        /\ log'.fired = log.fired /\ log'.since = log.since
        /\ PassedOver' = PassedOver \cup Between(Max(B), loop.at, Horizon)
    BY <1>1, <1>6, BehindIs
  <2>2. /\ Ahead(entry', loop.at) /\ disk' \in {disk, state'}
        /\ \A o \in Occurrences : occ < o /\ o <= Max(B) => o \in B
        /\ Max(B) \in Nat
    BY <1>6, <2>1, Times DEF Behind
  <2>3. Fired' = Fired
    BY <2>1 DEF Fired
  <2>4. ASSUME ctx = "live", NEW o \in Occurrences, log.since < o, o <= Max(B)
        PROVE  o \in Fired' \/ o \in state'.who \/ o \in PassedOver
    <3>1. CASE o <= occ
      BY <1>3, <2>1, <2>3, <2>4, <3>1
    <3>2. CASE ~(o <= occ)
      BY <1>2, <2>1, <2>2, <2>4, <3>2, Times
    <3>3. QED
      BY <3>1, <3>2
  <2>5. ASSUME ctx = "live", NEW o \in Occurrences, log.since < o,
               entry'.planned => o < entry'.occurrence
        PROVE  o \in Fired' \/ o \in state'.who \/ o \in PassedOver'
    <3>1. o <= loop.at
      BY <1>2, <2>2, <2>5, Times DEF Ahead
    <3>2. CASE o <= Max(B)
      BY <2>1, <2>4, <2>5, <3>2
    <3>3. CASE ~(o <= Max(B))
      <4>1. o \in Between(Max(B), loop.at, Horizon)
        BY <1>2, <2>2, <3>1, <3>3, BetweenAll, Times
      <4>2. QED
        BY <2>1, <4>1
    <3>4. QED
      BY <3>2, <3>3
  <2>6. disk' = state' => ctx = "live" \/ disk' = disk
    BY DEF Advance, Save
  <2> HIDE DEF occ
  <2>7. DiskCovers'
    <3>1. CASE disk' = disk
      BY <2>1, <2>3, <3>1 DEF CoverInv, DiskCovers, Covered, accountedThrough
    <3>2. CASE disk' = state' /\ ctx = "live"
      <4>1. accountedThrough(disk)' = Max(B)
        BY <2>1, <3>2 DEF accountedThrough
      <4>2. QED
        BY <2>1, <2>3, <2>4, <3>2, <4>1 DEF DiskCovers, Covered
    <3>3. QED
      BY <2>2, <2>6, <3>1, <3>2
  <2>8. QED
    BY <1>4, <2>1, <2>5, <2>7
<1>7. QED
  BY <1>1, <1>5, <1>6

----------------------------------------------------------------------------
(* The theorems.                                                           *)

LEMMA StartsSafe ==
  ASSUME Init
  PROVE  Safe /\ CoverInv
<1>1. /\ now = 0 /\ loop = [pc |-> "boot", at |-> 0] /\ entry = Unplanned
      /\ state = NoHistory /\ disk = NoHistory /\ log = EmptyLog
      /\ worker \in Definitions /\ pending = FALSE /\ ctx = "live"
  BY DEF Init
<1>2. /\ 0 \in 0..Horizon /\ ~entry.planned /\ entry \in Entries
      /\ log.fired = <<>> /\ log.since = 0 /\ log \in Logs
      /\ loop.pc = "boot" /\ disk.fired = 0
  <2>1. 0 \in 0..Horizon
    BY Times
  <2>2. <<>> \in Seq(Occurrences)
    OBVIOUS
  <2>3. QED
    BY <1>1, <2>1, <2>2 DEF Unplanned, Entries, EmptyLog, Logs, NoHistory, Never
<1>3. NoHistory \in Records /\ Counts(NoHistory) /\ accountedThrough(NoHistory) = 0
  BY NoHistoryIs
<1>4. Recorded = {}
  BY <1>2 DEF Recorded, Fired
<1>5. TypesInv /\ CountInv
  BY <1>1, <1>2, <1>3 DEF TypesInv, CountInv
<1>6. PlanInv /\ RecordInv
  BY <1>1, <1>2, <1>3, <1>4 DEF PlanInv, RecordInv, InPass
<1>7. CoverInv
  BY <1>1, <1>2 DEF CoverInv, DiskCovers, PlanCovers, EndCovers, AtWork, Never
<1>8. QED
  BY <1>5, <1>6, <1>7 DEF Safe

LEMMA StutterSafe ==
  ASSUME UNCHANGED vars
  PROVE  (Safe => Safe') /\ (CoverInv => CoverInv')
BY DEF vars, Safe, TypesInv, CountInv, PlanInv, RecordInv, CoverInv, DiskCovers, PlanCovers,
       EndCovers, Recorded, Fired, AtWork, InPass, accountedThrough, Covered, PassedOver

LEMMA StepSafe ==
  ASSUME Safe, [Next]_vars
  PROVE  Safe'
<1>1. CASE UNCHANGED vars
  BY <1>1, StutterSafe
<1>2. CASE Due \/ Skip \/ Return \/ Crash
  BY <1>2, PassSafe
<1>3. CASE Tick \/ Term \/ Restart \/ \E new \in Definitions : Reload(new)
  BY <1>3, AroundSafe
<1>4. ASSUME NEW ok \in BOOLEAN, Submit(ok) \/ RecordFiring(ok) \/ Advance(ok)
      PROVE  Safe'
  BY <1>4, SubmitSafe, RecordFiringSafe, AdvanceSafe
<1>5. ASSUME NEW loaded \in BOOLEAN, NEW ok \in BOOLEAN, Boot(loaded, ok) \/ Reloaded(loaded, ok)
      PROVE  Safe'
  <2>1. /\ Reset(loaded, ok) /\ UNCHANGED <<now, worker, ctx>> /\ pending' \in BOOLEAN
    BY <1>5 DEF Boot, Reloaded, Safe, TypesInv
  <2>2. QED
    BY <2>1, ResetSafe
<1>6. QED
  BY <1>1, <1>2, <1>3, <1>4, <1>5 DEF Next

LEMMA StepCovers ==
  ASSUME Safe, CoverInv, Roomy, [Next]_vars
  PROVE  CoverInv'
<1>1. CASE UNCHANGED vars
  BY <1>1, StutterSafe
<1>2. CASE Due \/ Skip \/ Return \/ Crash
  BY <1>2, PassCovers
<1>3. CASE Tick \/ Term \/ Restart \/ \E new \in Definitions : Reload(new)
  BY <1>3, AroundCovers
<1>4. ASSUME NEW ok \in BOOLEAN, Submit(ok) \/ RecordFiring(ok) \/ Advance(ok)
      PROVE  CoverInv'
  BY <1>4, SubmitCovers, RecordFiringCovers, AdvanceCovers
<1>5. ASSUME NEW loaded \in BOOLEAN, NEW ok \in BOOLEAN, Boot(loaded, ok) \/ Reloaded(loaded, ok)
      PROVE  CoverInv'
  <2>1. /\ Reset(loaded, ok) /\ UNCHANGED <<now, worker, ctx>> /\ pending' \in BOOLEAN
    BY <1>5 DEF Boot, Reloaded, Safe, TypesInv
  <2>2. QED
    BY <2>1, ResetCovers
<1>6. QED
  BY <1>1, <1>2, <1>3, <1>4, <1>5 DEF Next

(* Only a submission adds a firing, and only it can take a record back.    *)
LEMMA FiresOrNot ==
  ASSUME Safe, [Next]_vars
  PROVE  \/ Submit(TRUE)
         \/ log'.fired = log.fired /\ Recorded \subseteq Recorded'
<1>1. log \in Logs
  BY DEF Safe, TypesInv
<1>2. ASSUME log'.fired = log.fired, log'.unrecorded \subseteq log.unrecorded
      PROVE  Recorded \subseteq Recorded'
  BY <1>2 DEF Recorded, Fired
<1>3. CASE UNCHANGED log
  BY <1>2, <1>3
<1>4. CASE Skip
  <2>1. entry.occurrence \in Occurrences
    BY <1>4 DEF Skip, Safe, PlanInv, InPass
  <2>2. log'.fired = log.fired /\ log'.unrecorded = log.unrecorded
    BY <1>1, <1>4, <2>1, SkipIs, PassOverIs
  <2>3. QED
    BY <1>2, <2>2
<1>5. ASSUME NEW ok \in BOOLEAN, RecordFiring(ok)
      PROVE  log'.fired = log.fired /\ Recorded \subseteq Recorded'
  <2>1. log'.fired = log.fired /\ log'.unrecorded \subseteq log.unrecorded
    BY <1>5, RecordFiringIs
  <2>2. QED
    BY <1>2, <2>1
<1>6. ASSUME NEW ok \in BOOLEAN, Advance(ok)
      PROVE  log'.fired = log.fired /\ Recorded \subseteq Recorded'
  <2>1. loop.pc = "advance" /\ (Ended \/ OnTime \/ \E B : Behind(B))
    BY <1>6, AdvanceIs
  <2>2. CASE Ended \/ OnTime
    BY <1>2, <2>2 DEF Ended, OnTime
  <2>3. CASE \E B : Behind(B)
    BY <1>2, <2>1, <2>3, BehindIs
  <2>4. QED
    BY <2>1, <2>2, <2>3
<1>7. ASSUME NEW loaded \in BOOLEAN, NEW ok \in BOOLEAN, Reset(loaded, ok)
      PROVE  log'.fired = log.fired /\ Recorded \subseteq Recorded'
  <2>1. log'.fired = log.fired /\ log'.unrecorded = log.unrecorded
    <3>1. \/ Dropped \/ Afresh \/ UpToDate
          \/ \E B : CaughtUp(B) \/ Counted(B)
      BY <1>7, ResetIs DEF Safe
    <3>2. \/ log' = log \/ log' = [log EXCEPT !.since = now]
          \/ \E why, P : log' = [log EXCEPT !.passed[why] = @ \cup P]
      BY <3>1 DEF Dropped, Afresh, UpToDate, CaughtUp, Counted, PassOver
    <3>3. QED
      BY <1>1, <3>2 DEF Logs
  <2>2. QED
    BY <1>2, <2>1
<1>8. ASSUME NEW ok \in BOOLEAN, Submit(ok)
      PROVE  \/ Submit(TRUE)
             \/ log'.fired = log.fired /\ Recorded \subseteq Recorded'
  BY <1>2, <1>8 DEF Submit
<1>9. QED
  <2>1. \/ UNCHANGED log \/ Skip
        \/ \E ok \in BOOLEAN : Submit(ok) \/ RecordFiring(ok) \/ Advance(ok)
        \/ \E loaded, ok \in BOOLEAN : Reset(loaded, ok)
    BY DEF Next, vars, Tick, Due, Term, Return, Crash, Restart, Reload, Boot, Reloaded
  <2>2. QED
    BY <1>3, <1>4, <1>5, <1>6, <1>7, <1>8, <2>1

(* The occurrence fired, and what is known of those recorded by then.      *)
LEMMA FiringIs ==
  ASSUME Safe, Submit(TRUE), NEW n \in DOMAIN log'.fired, n > Len(log.fired)
  PROVE  /\ log'.fired[n] = entry.occurrence /\ entry.occurrence \in Occurrences
         /\ \A o \in Recorded : /\ o \in Occurrences /\ o < entry.occurrence
                                /\ o > log.since => o <= state.fired
         /\ state.fired < entry.occurrence /\ ~alreadyFired
         /\ state' = state
<1>1. /\ loop.pc = "fire" /\ entry.planned /\ entry.occurrence \in Occurrences
      /\ log \in Logs /\ state' = state /\ ~alreadyFired
      /\ state.fired < entry.occurrence
  BY DEF Safe, TypesInv, PlanInv, InPass, Submit
<1>2. log'.fired = Append(log.fired, entry.occurrence)
  <2> DEFINE fired == Append(log.fired, entry.occurrence)
             unrecorded == log.unrecorded \cup {entry.occurrence}
  <2>1. log' = [log EXCEPT !.fired = fired, !.unrecorded = unrecorded]
    BY DEF Submit
  <2> HIDE DEF fired, unrecorded
  <2>2. log'.fired = fired
    BY <1>1, <2>1 DEF Logs
  <2>3. QED
    BY <2>2 DEF fired
<1>3. log.fired \in Seq(Occurrences)
  BY <1>1 DEF Logs
<1>4. log'.fired[n] = entry.occurrence
  BY <1>2, <1>3
<1>5. \A o \in Recorded : o \in Occurrences /\ o < entry.occurrence
                          /\ (o > log.since => o <= state.fired)
  BY <1>1, FiringsAre DEF Safe, RecordInv, AtWork
<1>6. QED
  BY <1>1, <1>4, <1>5

(* The plan of the schedule runner stays ahead of the clock times it has   *)
(* answered for, in memory and in the store.                               *)
THEOREM ScheduleSafe == Spec => []Safe
<1>1. Init => Safe
  BY StartsSafe
<1>2. Safe /\ [Next]_vars => Safe'
  BY StepSafe
<1>3. QED
  BY <1>1, <1>2, PTL DEF Spec

(* ScheduleState holds occurrences of the expression and an exact count of *)
(* those missed, in memory and in the store.                               *)
THEOREM StateIsExact == Spec => []ScheduleInv
<1>1. Safe => ScheduleInv
  <2>1. SUFFICES ASSUME Safe
                 PROVE  ScheduleInv
    OBVIOUS
  <2>2. ScheduleTypeOK
    BY <2>1 DEF Safe, TypesInv, PlanInv, Records, ScheduleTypeOK
  <2>3. CountedOnce
    BY <2>1 DEF Safe, CountInv, Counts, CountedOnce
  <2>4. QED
    BY <2>2, <2>3 DEF ScheduleInv
<1>2. QED
  BY <1>1, ScheduleSafe, PTL

(* An occurrence that ran and is recorded is not fired a second time and   *)
(* never reported as missed (fire, recordFiring, accountForDowntime),      *)
(* whatever crashes, failed writes, restarts and reloads come after it.    *)
THEOREM RecordedIsAnswered == Spec => AnsweredOnce
<1>1. ASSUME Safe, Safe', [Next]_vars
      PROVE  [LET recorded == Fired \ log.unrecorded
              IN  /\ \A n \in DOMAIN log'.fired :
                        n > Len(log.fired) => log'.fired[n] \notin recorded
                  /\ state'.who \cap recorded = {}]_<<log, state>>
  <2>1. SUFFICES /\ \A n \in DOMAIN log'.fired : n > Len(log.fired) => log'.fired[n] \notin Recorded
                 /\ state'.who \cap Recorded = {}
    BY DEF Recorded
  <2>2. CASE Submit(TRUE)
    <3>1. ASSUME NEW n \in DOMAIN log'.fired, n > Len(log.fired)
          PROVE  log'.fired[n] \notin Recorded
      <4>1. log'.fired[n] = entry.occurrence /\ entry.occurrence \in Occurrences
        BY <1>1, <2>2, <3>1, FiringIs
      <4>2. \A o \in Recorded : o < entry.occurrence
        BY <1>1, <2>2, <3>1, FiringIs
      <4>3. QED
        BY <4>1, <4>2, Times
    <3>2. state' = state
      BY <2>2 DEF Submit
    <3>3. QED
      BY <1>1, <3>1, <3>2 DEF Safe, RecordInv
  <2>3. CASE log'.fired = log.fired /\ Recorded \subseteq Recorded'
    <3>1. \A n \in DOMAIN log.fired : ~(n > Len(log.fired))
      BY <1>1 DEF Safe, TypesInv, Logs
    <3>2. \A o \in Recorded' : o \notin state'.who
      BY <1>1 DEF Safe, RecordInv
    <3>3. QED
      BY <2>3, <3>1, <3>2
  <2>4. QED
    BY <1>1, <2>2, <2>3, FiresOrNot
<1>2. QED
  BY <1>1, ScheduleSafe, PTL DEF Spec, AnsweredOnce

(* Of two occurrences that a wall clock shows as one, the later is not     *)
(* fired when the earlier ran and is recorded, nor the other way round     *)
(* (alreadyFired): the plan never goes back past a recorded firing, and    *)
(* the last firing in memory is the one before it.                         *)
THEOREM RepeatedHour == Spec => RepeatedHourFiresOnce
<1>1. ASSUME Safe, [Next]_vars
      PROVE  [\A n \in DOMAIN log'.fired : n > Len(log.fired) =>
                \A o \in Fired \ log.unrecorded :
                   Repeats(o, log'.fired[n]) \/ Repeats(log'.fired[n], o) => o <= log.since]_log
  <2>1. SUFFICES ASSUME NEW n \in DOMAIN log'.fired, n > Len(log.fired), NEW o \in Recorded,
                        Repeats(o, log'.fired[n]) \/ Repeats(log'.fired[n], o),
                        ~(o <= log.since)
                 PROVE  FALSE
    BY DEF Recorded
  <2>2. CASE Submit(TRUE)
    <3> DEFINE occ == entry.occurrence
    <3>1. /\ log'.fired[n] = occ /\ occ \in Occurrences
          /\ o \in Occurrences /\ o < occ /\ (o > log.since => o <= state.fired)
          /\ state.fired < occ /\ ~alreadyFired
      BY <1>1, <2>1, <2>2, FiringIs
    <3>2. /\ o \in Nat /\ occ \in Nat /\ 1 <= o /\ log.since \in Nat
          /\ state.fired \in Occurrences \cup {0}
      BY <1>1, <3>1, Times DEF Safe, TypesInv, Records, Logs, Never
    <3>3. o <= state.fired
      BY <2>1, <3>1, <3>2
    <3>4. state.fired \in Occurrences /\ state.fired # 0
      BY <3>2, <3>3
    <3> HIDE DEF occ
    <3>5. CASE Repeats(o, occ)
      <4>1. /\ NextAfter(o) = occ /\ Wall[o] = Wall[occ]
            /\ \A u \in Occurrences : u > o => u >= NextAfter(o)
        BY <3>2, <3>5, NextIs DEF Repeats
      <4>2. state.fired = o
        <5>1. /\ o \in Nat /\ occ \in Nat /\ state.fired \in Nat
              /\ o <= state.fired /\ state.fired < occ
          BY <3>1, <3>2, <3>3, <3>4, Times
        <5>2. state.fired > o => state.fired >= occ
          BY <3>4, <4>1
        <5>3. QED
          BY <5>1, <5>2
      <4>3. alreadyFired
        BY <3>4, <4>1, <4>2 DEF alreadyFired, Never, occ
      <4>4. QED
        BY <3>1, <4>3
    <3>6. CASE Repeats(occ, o)
      <4>1. o > occ
        BY <3>2, <3>6, NextIs DEF Repeats
      <4>2. QED
        BY <3>1, <3>2, <4>1
    <3>7. QED
      BY <2>1, <3>1, <3>5, <3>6
  <2>3. CASE log'.fired = log.fired
    BY <1>1, <2>1, <2>3 DEF Safe, TypesInv, Logs
  <2>4. QED
    BY <1>1, <2>2, <2>3, FiresOrNot
<1>2. QED
  BY <1>1, ScheduleSafe, PTL DEF Spec, RepeatedHourFiresOnce

(* Every occurrence passed over has its reason.                            *)
ReasonsInv ==
  /\ log.passed["unmade"] # {} => "badparams" \in Faults
  /\ log.passed["beyond"] # {} => Crowded

LEMMA StepReasons ==
  ASSUME Safe, ReasonsInv, [Next]_vars
  PROVE  ReasonsInv'
<1>1. log \in Logs
  BY DEF Safe, TypesInv
<1>2. ASSUME log'.passed = log.passed
      PROVE  ReasonsInv'
  BY <1>2 DEF ReasonsInv
<1>3. ASSUME NEW why \in Reasons, NEW O \in SUBSET Occurrences, log' = PassOver(why, O),
             why = "unmade" => "badparams" \in Faults, why = "beyond" /\ O # {} => Crowded
      PROVE  ReasonsInv'
  <2>1. /\ log'.passed[why] = log.passed[why] \cup O
        /\ \A other \in Reasons \ {why} : log'.passed[other] = log.passed[other]
    BY <1>1, <1>3, PassOverIs
  <2>2. "unmade" \in Reasons /\ "beyond" \in Reasons
    BY DEF Reasons
  <2>3. log'.passed["unmade"] # {} => "badparams" \in Faults
    BY <1>3, <2>1, <2>2 DEF ReasonsInv
  <2>4. log'.passed["beyond"] # {} => Crowded
    BY <1>3, <2>1, <2>2 DEF ReasonsInv
  <2>5. QED
    BY <2>3, <2>4 DEF ReasonsInv
<1>4. CASE Skip
  <2>1. {entry.occurrence} \in SUBSET Occurrences
    BY <1>4 DEF Skip, Safe, PlanInv, InPass
  <2>2. /\ Cause \in Reasons /\ log' = PassOver(Cause, {entry.occurrence})
        /\ Cause # "beyond" /\ (Cause = "unmade" => "badparams" \in Faults)
    BY <1>4, SkipIs
  <2>3. QED
    BY <1>3, <2>1, <2>2
<1>5. ASSUME NEW ok \in BOOLEAN, Advance(ok)
      PROVE  ReasonsInv'
  <2>1. Ended \/ OnTime \/ \E B : Behind(B)
    BY <1>5, AdvanceIs
  <2>2. CASE Ended \/ OnTime
    BY <1>2, <2>2 DEF Ended, OnTime
  <2>3. ASSUME NEW B, Behind(B)
        PROVE  ReasonsInv'
    <3> DEFINE O == Between(Max(B), loop.at, Horizon)
    <3>1. O \in SUBSET Occurrences /\ "beyond" \in Reasons
      BY DEF Between, After, Reasons
    <3>2. log' = PassOver("beyond", O) /\ (O # {} => Crowded)
      BY <2>3 DEF Behind
    <3> HIDE DEF O
    <3>3. QED
      BY <1>3, <3>1, <3>2
  <2>4. QED
    BY <2>1, <2>2, <2>3
<1>6. ASSUME NEW loaded \in BOOLEAN, NEW ok \in BOOLEAN, Reset(loaded, ok)
      PROVE  ReasonsInv'
  <2>1. \/ Dropped \/ Afresh \/ UpToDate
        \/ \E B : Run(B) /\ (CaughtUp(B) \/ Counted(B))
    BY <1>6, ResetIs DEF Safe
  <2>2. CASE Dropped \/ Afresh \/ UpToDate
    BY <1>1, <1>2, <2>2 DEF Dropped, Afresh, UpToDate, Logs
  <2>3. ASSUME NEW B, Run(B), CaughtUp(B)
        PROVE  ReasonsInv'
    <3> DEFINE O == B \ {Max(B)}
    <3>1. O \in SUBSET Occurrences /\ "caught up" \in Reasons
      BY <2>3 DEF Run, Reasons
    <3>2. log' = PassOver("caught up", O)
      BY <2>3 DEF CaughtUp
    <3> HIDE DEF O
    <3>3. QED
      BY <1>3, <3>1, <3>2
  <2>4. ASSUME NEW B, Counted(B)
        PROVE  ReasonsInv'
    <3> DEFINE O == Between(Max(B), now, Horizon)
    <3>1. O \in SUBSET Occurrences /\ "beyond" \in Reasons
      BY DEF Between, After, Reasons
    <3>2. log' = PassOver("beyond", O) /\ (O # {} => Crowded)
      BY <2>4 DEF Counted
    <3> HIDE DEF O
    <3>3. QED
      BY <1>3, <3>1, <3>2
  <2>5. QED
    BY <2>1, <2>2, <2>3, <2>4
<1>7. ASSUME NEW ok \in BOOLEAN, Submit(ok) \/ RecordFiring(ok)
      PROVE  ReasonsInv'
  BY <1>1, <1>2, <1>7 DEF Submit, RecordFiring, Logs
<1>8. CASE UNCHANGED log
  BY <1>2, <1>8
<1>9. QED
  <2>1. \/ UNCHANGED log \/ Skip
        \/ \E ok \in BOOLEAN : Submit(ok) \/ RecordFiring(ok) \/ Advance(ok)
        \/ \E loaded, ok \in BOOLEAN : Reset(loaded, ok)
    BY DEF Next, vars, Tick, Due, Term, Return, Crash, Restart, Reload, Boot, Reloaded
  <2>2. QED
    BY <1>4, <1>5, <1>6, <1>7, <1>8, <2>1

(* What a schedule at rest has answered for, when the queue takes what is  *)
(* submitted.                                                              *)
LEMMA RestIsCovered ==
  ASSUME Safe, CoverInv, loop.pc = "wait", worker.is = "on", ~pending, ctx = "live",
         NEW o \in Occurrences, Answerable(o)
  PROVE  Covered(state, o)
<1>1. log.since < o /\ (entry.planned => o < entry.occurrence)
  BY Times DEF Answerable, Safe, TypesInv, Logs
<1>2. CASE entry.planned
  BY <1>1, <1>2 DEF CoverInv, PlanCovers, AtWork
<1>3. CASE ~entry.planned
  BY <1>1, <1>3 DEF CoverInv, EndCovers
<1>4. QED
  BY <1>2, <1>3

LEMMA CoversHold == Roomy /\ Spec => [](Safe /\ CoverInv /\ ReasonsInv)
<1>1. Init => Safe /\ CoverInv /\ ReasonsInv
  <2>1. SUFFICES ASSUME Init
                 PROVE  ReasonsInv
    BY StartsSafe
  <2>2. log.passed = [why \in Reasons |-> {}]
    BY <2>1 DEF Init, EmptyLog
  <2>3. QED
    BY <2>2 DEF ReasonsInv, Reasons
<1>2. CASE Roomy
  <2>1. Safe /\ CoverInv /\ ReasonsInv /\ [Next]_vars => Safe' /\ CoverInv' /\ ReasonsInv'
    BY <1>2, StepSafe, StepCovers, StepReasons
  <2>2. QED
    BY <1>1, <2>1, PTL DEF Spec
<1>3. CASE ~Roomy
  BY <1>3
<1>4. QED
  BY <1>2, <1>3

(* While the queue takes what is submitted, an occurrence is lost with     *)
(* nothing but a line in the log only if the worker's defaults make no     *)
(* execution, or if a window can hold more than maxMissed; every other one *)
(* was fired, is counted as missed, or was passed over for its worker, for *)
(* the wall clock or for a catch-up (fire, advance, accountForDowntime).   *)
THEOREM NothingLost == Roomy /\ Spec => []NoneLostInSilence
<1>1. Safe /\ CoverInv /\ ReasonsInv => NoneLostInSilence
  <2>1. SUFFICES ASSUME Safe, CoverInv, loop.pc = "wait", worker.is = "on", ~pending, ctx = "live",
                        NEW o \in Occurrences \ (log.passed["unmade"] \cup log.passed["beyond"]),
                        Answerable(o)
                 PROVE  \/ o \in Fired \cup state.who
                        \/ \E why \in {"off", "repeated", "caught up"} : o \in log.passed[why]
    BY DEF NoneLostInSilence, ReasonsInv, Crowded
  <2>2. Covered(state, o)
    BY <2>1, RestIsCovered
  <2>3. QED
    BY <2>1, <2>2 DEF Covered, PassedOver, Reasons
<1>2. QED
  BY <1>1, CoversHold, PTL

(* The worker's defaults make an execution.                                *)
Makeable == "badparams" \notin Faults

(* Nothing is beyond the first maxMissed of a window.                      *)
Ample == ~Crowded

(* Of a worker whose defaults make an execution, with no more occurrences  *)
(* than maxMissed, and a queue that takes them, no occurrence is lost at   *)
(* all, through stalls, crashes, reloads and failing writes: it was fired, *)
(* or is counted in missed_runs, or the worker was off, or its wall clock  *)
(* time had been fired, or one catch-up stands for it.                     *)
THEOREM EveryOccurrenceAnswered ==
  Roomy /\ Makeable /\ Ample /\ Spec =>
    [](loop.pc = "wait" /\ worker.is = "on" /\ ~pending /\ ctx = "live" =>
         \A o \in Occurrences : Answerable(o) =>
           \/ o \in Fired \cup state.who
           \/ \E why \in {"off", "repeated", "caught up"} : o \in log.passed[why])
<1> DEFINE Answered ==
      loop.pc = "wait" /\ worker.is = "on" /\ ~pending /\ ctx = "live" =>
        \A o \in Occurrences : Answerable(o) =>
          \/ o \in Fired \cup state.who
          \/ \E why \in {"off", "repeated", "caught up"} : o \in log.passed[why]
<1>1. CASE Makeable /\ Ample
  <2>1. NoneLostInSilence => Answered
    BY <1>1 DEF NoneLostInSilence, Makeable, Ample, Crowded
  <2>2. QED
    BY <2>1, NothingLost, PTL
<1>2. CASE ~(Makeable /\ Ample)
  BY <1>2
<1>3. QED
  BY <1>1, <1>2
=============================================================================
