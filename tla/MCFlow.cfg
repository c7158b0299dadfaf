SPECIFICATION Spec
CONSTANTS
  SMSS = 2
  InitCongWnd = 4
  TimeoutCongWnd = 2
  TimeCritical = FALSE
  FastGrow = FALSE
  FastGrowFloor = 8
  AIMin = 1
  AICap = 3
  AIStep = 1
  Duplicates = TRUE
  AckCapacity = 1
  InitRecvWnd = 4
  InitSsthresh = 20
  BurstLimit = 3
  NakLimit = 2
  MaxResend = 1
  MsgSizes = {1, 3}
  MaxMsgs = 2
  MaxRecvBuf = 4
  Block = 2
  MayClose = {"recv"}
INVARIANTS
  TypeOK
  ReliableDelivery
  AckedIsReceived
  InflightAccounted
  BufferAccounted
  SenderNeverStalls
  IInv
PROPERTIES
  WindowRespected
  IsMessageChannel
CONSTRAINT LastIsLong
CHECK_DEADLOCK FALSE
