-------------------------------- MODULE Cron --------------------------------
(***************************************************************************)
(* internal/cron: an expression is compiled into one set of accepted       *)
(* values per field, and Next searches for the first matching instant by   *)
(* jumping over the months, days and hours that cannot match.  One step of *)
(* this machine is one iteration of the search.                            *)
(*                                                                         *)
(* The calendar is scaled down: instants count minutes, an hour has        *)
(* MinutesPerHour of them, a day HoursPerDay hours, month m DaysIn[m] days *)
(* and a week DaysPerWeek days.  A zone is an offset before and one after  *)
(* a transition.                                                           *)
(***************************************************************************)
EXTENDS Integers, Sequences, FiniteSets, FiniteSetsExt, SequencesExt

CONSTANTS MinutesPerHour, HoursPerDay, DaysIn, DaysPerWeek,
          Horizon,      \* how far Next searches
          Zones,        \* [before, after: offset in minutes; at: the transition]
          Expressions,  \* five fields, each a sequence of terms
          Starts,       \* the instants asked about
          Window,       \* the length of the window given to Between
          Limit         \* the limit given to Between

VARIABLES expr, zone, after, pc, schedule, current, limit, found

vars == <<expr, zone, after, pc, schedule, current, limit, found>>

Day == MinutesPerHour * HoursPerDay
Months == DOMAIN DaysIn
DaysBefore(m) == FoldSeq(+, 0, SubSeq(DaysIn, 1, m - 1))
YearDays == FoldSeq(+, 0, DaysIn)

ASSUME CalendarAssumption ==
  /\ {MinutesPerHour, HoursPerDay, DaysPerWeek, Horizon, Limit} \subseteq Nat \ {0}
  /\ DaysIn \in Seq(Nat \ {0}) /\ Window \in Nat
  /\ Horizon >= Window

----------------------------------------------------------------------------
(* Package time: local clocks.                                             *)

Offset(z, u) == IF u < z.at THEN z.before ELSE z.after
Local(z, u) == u + Offset(z, u)

(* time.Date: the instant of a local time.  It tries the offset that is    *)
(* right when the local time is read as UTC, and looks again when that     *)
(* instant is on the other side of the transition.  Of two instants that   *)
(* show the same time it finds the earlier west of Greenwich and the later *)
(* east of it.                                                             *)
Date(z, l) ==
  LET o == Offset(z, l)
      u == l - o
  IN  IF o = 0 THEN l
      ELSE IF (u < z.at) = (l < z.at) THEN u ELSE l - Offset(z, u)

minuteOf(l) == l % MinutesPerHour
hourOf(l) == (l \div MinutesPerHour) % HoursPerDay
dayNumber(l) == l \div Day
weekdayOf(l) == dayNumber(l) % DaysPerWeek
yearDay(l) == dayNumber(l) % YearDays
monthOf(l) == Max({m \in Months : DaysBefore(m) <= yearDay(l)})
dayOf(l) == yearDay(l) - DaysBefore(monthOf(l)) + 1

----------------------------------------------------------------------------
(* Parse.  A term is "*", a value or a range, with or without a step.      *)

Bounds == << [min |-> 0, max |-> MinutesPerHour - 1, week |-> FALSE],
             [min |-> 0, max |-> HoursPerDay - 1, week |-> FALSE],
             [min |-> 1, max |-> Max({DaysIn[m] : m \in Months}), week |-> FALSE],
             [min |-> 1, max |-> Len(DaysIn), week |-> FALSE],
             [min |-> 0, max |-> DaysPerWeek - 1, week |-> TRUE] >>

Bad == -1

(* Sunday is both 0 and 7.                                                 *)
parseValue(v, b) ==
  IF b.week /\ v = DaysPerWeek THEN 0
  ELSE IF v < b.min \/ v > b.max THEN Bad ELSE v

parseRange(term, b) ==
  LET lo == parseValue(term.lo, b)
      hi == parseValue(term.hi, b)
  IN  CASE term.kind = "any"   -> <<b.min, b.max>>
        [] term.kind = "range" -> IF hi < lo THEN <<Bad, Bad>> ELSE <<lo, hi>>
        [] term.hasStep        -> <<lo, b.max>>
        [] OTHER               -> <<lo, lo>>

(* The values of a term; none is an error.                                 *)
parseItem(term, b) ==
  LET r == parseRange(term, b)
  IN  IF Bad \in {r[1], r[2]} \/ (term.hasStep /\ term.step = 0) THEN {}
      ELSE {v \in r[1]..r[2] : (v - r[1]) % (IF term.hasStep THEN term.step ELSE 1) = 0}

parseField(field, b) ==
  IF \E n \in DOMAIN field : parseItem(field[n], b) = {} THEN {}
  ELSE UNION {parseItem(field[n], b) : n \in DOMAIN field}

Star == <<[kind |-> "any", lo |-> 0, hi |-> 0, hasStep |-> FALSE, step |-> 0]>>

Parse(fields) ==
  [masks |-> [n \in 1..5 |-> parseField(fields[n], Bounds[n])],
   domRestricted |-> fields[3] # Star, dowRestricted |-> fields[5] # Star]

Uncompiled == [masks |-> [n \in 1..5 |-> {}], domRestricted |-> FALSE, dowRestricted |-> FALSE]

(* A single error refuses the expression.                                  *)
Compiled(s) == \A n \in 1..5 : s.masks[n] # {}

----------------------------------------------------------------------------
(* The search.                                                             *)

matchesMinute(s, l) == minuteOf(l) \in s.masks[1]
matchesHour(s, l) == hourOf(l) \in s.masks[2]
matchesMonth(s, l) == monthOf(l) \in s.masks[4]

(* The Vixie rule: two restricted day fields are combined with OR.         *)
matchesDay(s, l) ==
  IF s.domRestricted /\ s.dowRestricted
  THEN dayOf(l) \in s.masks[3] \/ weekdayOf(l) \in s.masks[5]
  ELSE dayOf(l) \in s.masks[3] /\ weekdayOf(l) \in s.masks[5]

(* t.AddDate: the same clock time a number of days later.                  *)
AddDays(z, u, days) == Date(z, Local(z, u) + days * Day)

(* Midnight on the first of this month again.                              *)
startOfNextMonth_Same(z, u) ==
  LET l == Local(z, u)
  IN  Date(z, (dayNumber(l) - dayOf(l) + 1) * Day)

startOfNextMonth(z, u) ==
  LET l == Local(z, u)
  IN  AddDays(z, Date(z, (dayNumber(l) - dayOf(l) + 1) * Day), DaysIn[monthOf(l)])

startOfNextDay(z, u) == AddDays(z, Date(z, dayNumber(Local(z, u)) * Day), 1)

(* Truncates on the absolute clock.                                        *)
startOfNextHour_Absolute(z, u) == (u - (u % MinutesPerHour)) + MinutesPerHour

startOfNextHour(z, u) ==
  Date(z, Local(z, u) - minuteOf(Local(z, u))) + MinutesPerHour

startOfNextMinute(z, u) == Date(z, Local(z, u)) + 1

(* Next(t): where the search starts, and how far it goes.                  *)
StartNext(t) ==
  /\ current' = startOfNextMinute(zone, t)
  /\ limit' = startOfNextMinute(zone, t) + Horizon

Init ==
  /\ expr \in Expressions /\ zone \in Zones /\ after \in Starts
  /\ pc = "parse" /\ schedule = Uncompiled
  /\ current = after /\ limit = after /\ found = <<>>

(* Parse, then the first Next of Between.                                  *)
Begin ==
  /\ pc = "parse"
  /\ schedule' = Parse(expr)
  /\ IF Compiled(schedule') THEN pc' = "search" /\ StartNext(after)
                            ELSE pc' = "refused" /\ UNCHANGED <<current, limit>>
  /\ UNCHANGED <<expr, zone, after, found>>

(* Where an iteration that does not match goes.                            *)
Jump(l) ==
  CASE ~matchesMonth(schedule, l)  -> startOfNextMonth(zone, current)
    [] ~matchesDay(schedule, l)    -> startOfNextDay(zone, current)
    [] ~matchesHour(schedule, l)   -> startOfNextHour(zone, current)
    [] ~matchesMinute(schedule, l) -> current + 1

Matches(l) ==
  /\ matchesMonth(schedule, l) /\ matchesDay(schedule, l)
  /\ matchesHour(schedule, l) /\ matchesMinute(schedule, l)

(* The search skips what cannot match.                                     *)
Skip ==
  /\ pc = "search" /\ current <= limit /\ ~Matches(Local(zone, current))
  /\ current' = Jump(Local(zone, current))
  /\ UNCHANGED <<expr, zone, after, pc, schedule, limit, found>>

(* Between keeps what Next returned, unless it is past the window.         *)
Match ==
  /\ pc = "search" /\ current <= limit /\ Matches(Local(zone, current))
  /\ IF current > after + Window
     THEN pc' = "done" /\ UNCHANGED <<current, limit, found>>
     ELSE /\ found' = Append(found, current)
          /\ IF Len(found') < Limit THEN pc' = pc /\ StartNext(current)
                                    ELSE pc' = "done" /\ UNCHANGED <<current, limit>>
  /\ UNCHANGED <<expr, zone, after, schedule>>

(* No instant within the horizon.                                          *)
GiveUp ==
  /\ pc = "search" /\ current > limit
  /\ pc' = "done"
  /\ UNCHANGED <<expr, zone, after, schedule, current, limit, found>>

Next == Begin \/ Skip \/ Match \/ GiveUp

Spec == Init /\ [][Next]_vars
FairSpec == Spec /\ WF_vars(Next)

----------------------------------------------------------------------------
(* What a term says: every step-th value from its start to its end.        *)
TermMeans(term, v, b) ==
  LET value(n) == IF b.week /\ n = DaysPerWeek THEN 0 ELSE n
      from == IF term.kind = "any" THEN b.min ELSE value(term.lo)
      to == CASE term.kind = "range" -> value(term.hi)
              [] term.kind = "any" \/ term.hasStep -> b.max
              [] OTHER -> from
  IN  v \in {from + k * (IF term.hasStep THEN term.step ELSE 1) : k \in 0..(b.max - b.min)}
      /\ v <= to

Says(n, v) == \E k \in DOMAIN expr[n] : TermMeans(expr[n][k], v, Bounds[n])

(* The instants a reader of the expression expects: the Vixie rule applied *)
(* to what the wall clock shows, minute by minute.                         *)
Expected ==
  {u \in (after + 1)..(after + Window) :
     LET l == Local(zone, u)
         dom == Says(3, dayOf(l))
         dow == Says(5, weekdayOf(l))
     IN  /\ Says(1, minuteOf(l)) /\ Says(2, hourOf(l)) /\ Says(4, monthOf(l))
         /\ IF expr[3] # Star /\ expr[5] # Star THEN dom \/ dow ELSE dom /\ dow}

(* Next returns the first instant strictly after t that the expression     *)
(* matches, and Between all of them up to its limit, in order, whatever    *)
(* the zone's offset and across a spring-forward transition: the jumps     *)
(* over months, days and hours skip nothing and repeat nothing, and every  *)
(* field is compiled to what its terms say.                                *)
FindsWhatMatches ==
  pc = "done" =>
    /\ \A i, j \in DOMAIN found : i < j => found[i] < found[j]
    /\ {found[i] : i \in DOMAIN found}
         = {u \in Expected : Cardinality({v \in Expected : v < u}) < Limit}

(* The search ends rather than spin forever, for every expression.         *)
SearchEnds == <>(pc \in {"done", "refused"})
=============================================================================
