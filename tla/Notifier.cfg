SPECIFICATION FairSpec
CONSTANTS
  Clients = {1, 2}
  Spares = {3}
  WorkerOf <- MCWorkerOf
  Own <- MCOwn
  Fallback <- MCFallback
  Nobody = Nobody
  QueueDepth = 1
  DeliveryWorkers = 1
  Retry = 1
  MaxAttempts = 2
  Happening = {"crashed", "failed"}
INVARIANTS NotifierInv Accounted WaitedOutcomesReported
PROPERTIES CloseEnds
CHECK_DEADLOCK FALSE
