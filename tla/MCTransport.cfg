SPECIFICATION MCSpec
CONSTANTS
  ChanSize = 1
  MaxSessions = 1
  MaxDatagrams = 3
  MaxTaps = 1
  Sizes = {1, 2, 3, 4}
  MaxPackets = 3
  Lossy = TRUE
  Delay = 1
  Capacity = 2
  MaxPacketSize = 3
  Disorder = TRUE
  Speed = 2
  Second = 2
INVARIANTS
  TypeOK
  OvertakenOnlyByDirect
  Conserved
  DelayRespected
  RateLimited
PROPERTIES
  EveryDatagramAnswered
  SignalReleases
CHECK_DEADLOCK FALSE
