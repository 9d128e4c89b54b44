\* Foreign Send/StartRead/StopRead under the user's mutex discipline, and
\* every API call from loop-thread callbacks.
CONSTANTS
  u1 = u1
  m1 = m1
  m2 = m2
  Users <- MCUsers
  Msgs <- MCMsgs
  ForeignOps <- SendAndRead
  LoopOps <- AllAPIs
  UserMutex = TRUE
  ServerMayDestroy = FALSE
  SendFaults = FALSE
  LogsPeerAddr = TRUE
  HighWaterMark = 3
  MaxOps = 3
SPECIFICATION Spec
 
INVARIANT StreamIntegrity
INVARIANT CallbacksOnce
INVARIANT NoDanglingFunctor
PROPERTY NoHalfCloseWithPendingOutput
PROPERTY DisconnectedIsFinal
PROPERTY ShutdownCompletes
PROPERTY DelayedCloseCompletes
