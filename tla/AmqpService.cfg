CONSTANTS
  MaxReconnectAttempts = 2
  UintMax = 4
  Timer = "immediate"
  MaxPendingTicks = 2
SPECIFICATION FairSpec
INVARIANTS
  OneReconnectPending
  NeverStranded
  TimerFollowsChannel
  OneAttemptPerLostLink
PROPERTIES
  VerdictIsFinal
  ShutdownCompletes
  OutageResolves
  ImplementsLifecycle
CHECK_DEADLOCK FALSE
