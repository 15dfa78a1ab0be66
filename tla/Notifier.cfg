CONSTANTS
  NumMessages = 4
  Malformed = {2}
  Small = {3}
  Token <- MCToken
  MaxFaults = 2
SPECIFICATION FairSpec
INVARIANTS
  AckedIsFiled
  FilesAreWhole
  LatestIsFiled
  LatestIsNewest
PROPERTIES
  EveryDigestIsFiled
CHECK_DEADLOCK FALSE
