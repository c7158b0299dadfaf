SPECIFICATION FairSpec
CONSTANTS
  SMSS = 2
  InitCongWnd = 4
  TimeoutCongWnd = 2
  TimeCritical = FALSE
  FastGrow = FALSE
  FastGrowFloor = 8
  AIMin = 1
  AICap = 3
  AIStep = 1
  Duplicates = FALSE
  AckCapacity = 1
  InitRecvWnd = 4
  InitSsthresh = 20
  BurstLimit = 3
  NakLimit = 2
  MaxResend = 1
  MsgSizes = {2}
  MaxMsgs = 3
  MaxRecvBuf = 4
  Block = 2
  MayClose = {"send"}
PROPERTY EventualDelivery
CHECK_DEADLOCK FALSE
