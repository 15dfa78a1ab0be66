CONSTANTS
  MaxReconnectAttempts = 3
  UintMax = 3
  Timer = "immediate"
  MaxPendingTicks = 2
  MaxFailures = 2
  MaxOutbox = 2
SPECIFICATION FetcherFairSpec
INVARIANTS
  FetcherTypeOK
  NeverGivesUp
  PagesAreRouted
PROPERTIES
  EveryChannelFetches
  LossIsRepaired
CHECK_DEADLOCK FALSE
