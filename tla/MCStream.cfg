SPECIFICATION MCSpec
CONSTANTS
  Payload <- TwoMessages
  Capacity = 1
  Disorder = TRUE
  Greets = FALSE
  Closers = {"active"}
  ClientCommands = {"closeStream"}
  Numbers = {0, 1, 127, 128, 16384}
  RelFlows = {1, 127}
  DataSizes = {0, 1, 2, 15}
  Signature <- StreamSignature
  Lengths = {0, 63, 64, 8192, 1048575, 2097152, 2097153, 16777216, 134217728, 268435455}
  DhKeys <- SomeKeys
  PseudoIds <- SomeIds
  Nesting <- SomeNesting
INVARIANTS
  TypeOK
  OpenIsMutual
  ClosedIsShut
  OnlyLastDropped
  ReceivedIsSent
  ReadsBack
PROPERTIES
  CarriesMessages
  AllReceived
CHECK_DEADLOCK FALSE
