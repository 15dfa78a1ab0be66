CONSTANTS
  NumMessages = 4
  Malformed = {2}
  Small = {3}
  Token <- MCToken
  MaxFaults = 2
SPECIFICATION Spec
INVARIANTS
  AckedIsReadable
CHECK_DEADLOCK FALSE
