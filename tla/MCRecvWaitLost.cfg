SPECIFICATION FairSpec
CONSTANTS
  Receivers = {r1}
  MaxMessages = 1
PROPERTIES
  AllReceived
CHECK_DEADLOCK FALSE
