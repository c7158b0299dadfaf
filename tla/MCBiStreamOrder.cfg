SPECIFICATION StreamSpec
CONSTANTS
  Payload <- OneMessage
  Capacity = 1
  Disorder = TRUE
  Greets = FALSE
  Closers = {}
  ClientCommands = {}
INVARIANTS
  NoPanic
CHECK_DEADLOCK FALSE
