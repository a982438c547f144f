------------------------------- MODULE MCCron -------------------------------
(* Two minutes an hour, four hours a day, months of three and two days.    *)
EXTENDS Cron

MCDaysIn == <<3, 2>>

T(kind, lo, hi) == [kind |-> kind, lo |-> lo, hi |-> hi, hasStep |-> FALSE, step |-> 0]
Every(term, step) == [term EXCEPT !.hasStep = TRUE, !.step = step]
At(v) == <<T("value", v, 0)>>

Minutes == {Star, At(1), <<Every(T("value", 0, 0), 1)>>}
Hours == {Star, At(0), At(2), <<Every(T("range", 1, 3), 2)>>}
DaysOfMonth == {Star, At(3), <<T("value", 1, 0), T("value", 2, 0)>>}
MonthFields == {Star, At(2)}
Weekdays == {Star, At(1), At(DaysPerWeek)}

(* Terms that must be refused: out of range, inverted, a step of zero.     *)
Broken == {At(9), <<T("range", 2, 1)>>, <<Every(T("any", 0, 0), 0)>>}

MCExpressions ==
  {<<m, h, d, mo, w>> : m \in Minutes, h \in Hours, d \in DaysOfMonth, mo \in MonthFields, w \in Weekdays}
    \cup {<<b, Star, Star, Star, Star>> : b \in Broken}

(* UTC, a zone half an hour off, and spring forward (01:00 to 02:00) on     *)
(* both sides of Greenwich.                                                 *)
Forward(offset) == [before |-> offset, after |-> offset + MinutesPerHour, at |-> 2 * Day + MinutesPerHour - offset]
MCZones ==
  {[before |-> o, after |-> o, at |-> 0] : o \in {0, 1, -1}} \cup {Forward(-4), Forward(3)}

(* A zone west of Greenwich that falls back from 02:00 to 01:00.            *)
MCFallBack ==
  {[before |-> -4, after |-> -4 - MinutesPerHour, at |-> 2 * Day + 2 * MinutesPerHour + 4]}

(* At minute 0 of a given hour, every day.                                  *)
MCDaily == {<<At(0), At(h), Star, Star, Star>> : h \in 0..(HoursPerDay - 1)}
=============================================================================
