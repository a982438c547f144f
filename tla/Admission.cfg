SPECIFICATION Spec
CONSTANTS
  Procs = {1, 2}
  Workers = {"w"}
  NoWorker = NoWorker
  MaxProcesses = 2
  Limits = {0, 1}
  LockKeys = {"k"}
  NoLock = "nolock"
  Def <- DefContend
  MaxLaunches = 2
  Stoppable = {1}
  Faults = {"starterror", "hangup"}
  MaxDepth = 1
  ItemTTL = TRUE
  OrphanPolicy = "kill"
  MaxBoots = 1
INVARIANTS LockExclusion TerminalHoldsNoLock OneProcess SlotAccounting
PROPERTIES WorkerBound
CHECK_DEADLOCK FALSE
