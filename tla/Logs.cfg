SPECIFICATION FairSpec
CONSTANTS
  MaxBytes = 5
  Limit = 2
  Rotations = {0, 1, 2}
  Newlines = {1, 4}
  MaxLine = 2
  MaxPoll = 2
  Backlogs = {"all"}
INVARIANTS FilesInv ReadersSeeTheOutput EndedStreamIsWhole
PROPERTIES StreamEnds
CHECK_DEADLOCK FALSE
