SPECIFICATION Spec
CONSTANTS
  introduced = introduced
  direct = direct
  Calls <- TwoCalls
  Target <- TargetOf
  HelloRetries = 2
  KeyingRetries = 2
  MaxSessions = 2
  MaxRestarts = 1
INVARIANTS
  TypeOK
  Agreement
  PassiveWasInvited
  CallbackNeverBlocks
  SuccessHasKeys
PROPERTIES
  IsPairing
CHECK_DEADLOCK FALSE
