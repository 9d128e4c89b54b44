\* A kernel that refuses sends (a full send buffer, a peer reset) and
\* loop-thread callbacks that Send: a failed send closes the socket.
CONSTANTS
  u1 = u1
  m1 = m1
  m2 = m2
  Users <- MCUsers
  Msgs <- MCMsgs
  ForeignOps <- NoOps
  LoopOps <- SendOnly
  UserMutex = TRUE
  ServerMayDestroy = FALSE
  SendFaults = TRUE
  LogsPeerAddr = FALSE
  HighWaterMark = 3
  MaxOps = 3
SPECIFICATION Spec
PROPERTY PeerCloseNoticed
