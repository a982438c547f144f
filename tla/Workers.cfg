SPECIFICATION Spec
CONSTANTS
  MaxDuration = 100
  Files <- MCFiles
  Edits <- MCEdits
  Requests <- MCRequests
  NotifyParams = {"event", "exit_code"}
  ParamShapes <- Shapes
  MaxAttempt = 5
INVARIANTS WorkersInv
PROPERTIES DelayGrowsInBounds
CHECK_DEADLOCK FALSE
