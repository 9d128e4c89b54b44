\* The chat client's user thread: Connect, Disconnect, then ~TCPClient
\* while the loop thread runs.
CONSTANTS
  UserOps <- ConnectDisconnectDestroy
  Reconnect = FALSE
  Retry = FALSE
  MaxOps = 3
SPECIFICATION ChatSpec
INVARIANT NoDanglingClient
CHECK_DEADLOCK FALSE
