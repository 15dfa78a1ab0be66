CONSTANTS
  NumMessages = 4
  Malformed = {2}
  HistorySize = 2
  MayCancel = FALSE
  MaxFaults = 2
SPECIFICATION Spec
INVARIANTS
  ShowsLatest
CHECK_DEADLOCK FALSE
