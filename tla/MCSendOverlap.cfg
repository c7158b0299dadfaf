SPECIFICATION Spec
CONSTANTS
  SMSS = 1
  InitCongWnd = 3
  TimeoutCongWnd = 1
  TimeCritical = FALSE
  FastGrow = FALSE
  FastGrowFloor = 46
  AIMin = 1
  AICap = 4
  AIStep = 1
  Wrap = 64
  InitRecvWnd = 30
  InitSsthresh = 60
  BurstLimit = 6
  NakLimit = 3
  MaxResend = 1
  Avails = {30}
  MaxMsgs = 2
PROPERTIES
  Delivered
CHECK_DEADLOCK FALSE
