SPECIFICATION MCSpec
CONSTANTS
  Receivers = {r1, r2}
  MaxMessages = 3
  Queues = {qa, qb}
  MaxPos = 5
INVARIANTS
  InOrderOnce
  IInv
  Canonical
PROPERTIES
  IsRangeSet
CHECK_DEADLOCK FALSE
