\* Every foreign call, racing handleClose and ~TCPServer, with a kernel that
\* refuses sends and loop-thread callbacks that Send.
CONSTANTS
  u1 = u1
  m1 = m1
  m2 = m2
  Users <- MCUsers
  Msgs <- MCMsgs
  ForeignOps <- AllAPIs
  LoopOps <- SendOnly
  UserMutex = TRUE
  ServerMayDestroy = TRUE
  SendFaults = TRUE
  LogsPeerAddr = TRUE
  HighWaterMark = 3
  MaxOps = 2
SPECIFICATION Spec
INVARIANT StreamIntegrity
 
