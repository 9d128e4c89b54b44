CONSTANTS
  UserOps <- ConnectStop
  Reconnect = FALSE
  Retry = FALSE
  MaxOps = 2
SPECIFICATION ChatSpec
PROPERTY StopHonoured
CHECK_DEADLOCK FALSE
