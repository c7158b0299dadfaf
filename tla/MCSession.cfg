SPECIFICATION MCSpec
CONSTANTS
  Wrap = 5
  TickLen = 2
  Fine = 8
  EchoLimit = 3
  MaxSample = 3
  Margin = 10
  MinErto = 30
  MaxErto = 40
  InitMrto = 1
  InitErto = 40
  Duplicated = TRUE
  MaxDelay = 2
  Skews = {3}
  InTransit = 2
  MaxSent = 3
  Address = {"home", "away", "cafe"}
  PingInterval = 1
  ConfirmLimit = 3
  MaxMoves = 3
INVARIANTS
  TypeOK
  SampleIsRoundTrip
  ErtoCoversRoundTrip
PROPERTIES
  BackoffNeverShrinks
  AddressFollows
CHECK_DEADLOCK FALSE
