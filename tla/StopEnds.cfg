SPECIFICATION FairSpec
CONSTANTS
  Procs = {1}
  Workers = {"w"}
  NoWorker = NoWorker
  MaxProcesses = 1
  Limits = {0}
  LockKeys = {"k"}
  NoLock = "nolock"
  Def <- DefService
  MaxLaunches = 2
  Stoppable = {1}
  Faults = {"starterror"}
  MaxDepth = 2
  ItemTTL = TRUE
  OrphanPolicy = "kill"
  MaxBoots = 1
PROPERTIES StopTakesEffect
CHECK_DEADLOCK FALSE
