CONSTANTS
  Messages = {Page1, Page2, NotJson}
  Broken = {NotJson}
  Empty = {}
  Prefetch = 2
  MaxSessions = 3
SPECIFICATION Spec
INVARIANTS
  NoLoss
  OneVerdictPerDelivery
  OneCopyPerSession
CHECK_DEADLOCK FALSE
