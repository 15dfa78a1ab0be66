CONSTANTS
  WeightVotes = 2
  WeightBookmarks = 1
  WeightComments = 1
  WeightViews = 1
  NoRow = NoRow
  NoTx = NoTx
  Articles = {1, 2}
  NumMessages = 3
  Content <- MCContent
  Malformed = {2}
  BusyCommit = FALSE
  Period = 1
  Limit = 1
  MaxTime = 3
  MaxFaults = 3
SPECIFICATION FairSpec
INVARIANTS
  TypeOK
  AckedIsCommitted
  WholeBatches
  CountersAreFresh
  DigestIsCommitted
PROPERTIES
  FirstSeenIsKept
  EveryBatchIsStored
CHECK_DEADLOCK FALSE
