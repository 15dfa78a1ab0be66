CONSTANTS
  NumMessages = 4
  Malformed = {2}
  HistorySize = 3
  MayCancel = FALSE
  MaxFaults = 2
SPECIFICATION FairSpec
INVARIANTS
  TypeOK
  NewestFirst
  CopiesAreBounded
PROPERTIES
  EveryDigestIsShown
  DeafnessIsReported
CHECK_DEADLOCK FALSE
