SPECIFICATION FairSpec
CONSTANTS
  Requests = {r1, r2}
  NoRequest = none
  ViaHub = {r2}
  Bodies = {b1, b2}
  MaxRestarts = 1
INVARIANTS AtMostOnce RefusedNeverRuns AcceptedKeepsKey ReplayIsTheOriginal
PROPERTIES StaleClaimFreed
CHECK_DEADLOCK FALSE
