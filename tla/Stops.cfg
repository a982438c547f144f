SPECIFICATION Spec
CONSTANTS
  Procs = {1, 2}
  Workers = {"w"}
  NoWorker = NoWorker
  MaxProcesses = 1
  Limits = {0}
  LockKeys = {"k"}
  NoLock = "nolock"
  Def <- DefMixed
  MaxLaunches = 2
  Stoppable = {1, 2}
  Faults = {"starterror"}
  MaxDepth = 2
  ItemTTL = TRUE
  OrphanPolicy = "kill"
  MaxBoots = 1
INVARIANTS ProcessBound AliveIsCovered LockNotStranded ServiceSlotNotLeaked ServiceKeepsSlot
PROPERTIES UserStopNeverRetries
CHECK_DEADLOCK FALSE
