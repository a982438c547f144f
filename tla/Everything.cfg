SPECIFICATION Spec
CONSTANTS
  Procs = {1}
  Workers = {"w"}
  NoWorker = NoWorker
  MaxProcesses = 1
  Limits = {0}
  LockKeys = {"k"}
  NoLock = "nolock"
  Def <- DefOne
  MaxLaunches = 2
  Stoppable = {1}
  Faults = {"hangup", "starterror", "crash", "term", "slowstop", "stall", "cancelrace"}
  MaxDepth = 2
  ItemTTL = TRUE
  OrphanPolicy = "leave"
  MaxBoots = 2
INVARIANTS TypeOK TaskSlotNotLeaked CrashedNotPersisted KnownOrphansSettled
CHECK_DEADLOCK FALSE
