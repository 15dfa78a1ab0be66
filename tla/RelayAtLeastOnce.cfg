CONSTANTS
  Messages = {Page1, Page2, NotJson, NoArticles}
  Broken = {NotJson}
  Empty = {NoArticles}
  Prefetch = 2
  MaxSessions = 2
SPECIFICATION FairSpec
PROPERTIES
  ImplementsAtLeastOnce
CHECK_DEADLOCK FALSE
