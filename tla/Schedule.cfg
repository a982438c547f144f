SPECIFICATION Spec
CONSTANTS
  Horizon = 6
  Occurrences = {2, 3, 4, 6}
  Wall <- MCWall
  Jitter = 1
  MaxMissed = 2
  Faults = {"savefail", "loadfail", "badparams", "crash", "term", "reload"}
  MaxEvents = 3
INVARIANTS ScheduleInv NoneLostInSilence
PROPERTIES AnsweredOnce RepeatedHourFiresOnce
CHECK_DEADLOCK FALSE
