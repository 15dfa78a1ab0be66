CONSTANTS
  WeightVotes = 2
  WeightBookmarks = 1
  WeightComments = 1
  WeightViews = 1
  NoRow = NoRow
  NoTx = NoTx
  Articles = {1, 2}
  NumMessages = 3
  Content <- MCContent
  Malformed = {2}
  BusyCommit = TRUE
  Period = 1
  Limit = 1
  MaxTime = 2
  MaxFaults = 2
SPECIFICATION FairSpec
PROPERTIES
  EveryBatchIsStored
CHECK_DEADLOCK FALSE
