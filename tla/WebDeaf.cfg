CONSTANTS
  NumMessages = 2
  Malformed = {2}
  HistorySize = 1
  MayCancel = TRUE
  MaxFaults = 2
SPECIFICATION FairSpec
PROPERTIES
  DeafnessIsReported
CHECK_DEADLOCK FALSE
