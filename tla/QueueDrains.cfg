SPECIFICATION FairSpec
CONSTANTS
  Procs = {1, 2}
  Workers = {"w"}
  NoWorker = NoWorker
  MaxProcesses = 1
  Limits = {0}
  LockKeys = {"k"}
  NoLock = "nolock"
  Def <- DefRequeue
  MaxLaunches = 2
  Stoppable = {}
  Faults = {"term", "crash", "starterror"}
  MaxDepth = 2
  ItemTTL = FALSE
  OrphanPolicy = "kill"
  MaxBoots = 2
INVARIANTS SlotBound
PROPERTIES TasksSettle ImplementsLifecycle
CHECK_DEADLOCK FALSE
