SPECIFICATION FairSpec
CONSTANTS
  MinutesPerHour = 2
  HoursPerDay = 4
  DaysIn <- MCDaysIn
  DaysPerWeek = 3
  Horizon = 80
  Zones <- MCZones
  Expressions <- MCExpressions
  Starts = {9, 15, 20}
  Window = 18
  Limit = 3
INVARIANTS FindsWhatMatches
PROPERTIES SearchEnds
CHECK_DEADLOCK FALSE
