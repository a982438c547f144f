SPECIFICATION FairSpec
CONSTANTS
  MinutesPerHour = 2
  HoursPerDay = 4
  DaysIn <- MCDaysIn
  DaysPerWeek = 3
  Horizon = 80
  Zones <- MCFallBack
  Expressions <- MCDaily
  Starts = {9}
  Window = 18
  Limit = 3
PROPERTIES SearchEnds
CHECK_DEADLOCK FALSE
