SPECIFICATION Spec
CONSTANTS
  introduced = introduced
  direct = direct
  Calls <- OneCall
  Target <- TargetOf
  HelloRetries = 1
  KeyingRetries = 2
  MaxSessions = 1
  MaxRestarts = 0
INVARIANTS
  OpenedIsServed
CHECK_DEADLOCK FALSE
