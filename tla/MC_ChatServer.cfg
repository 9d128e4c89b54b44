CONSTANTS
  MaxThreads = 2
  MaxConns = 3
  MaxFds = 4
  m1 = m1
  m2 = m2
  Msgs <- MCMsgs
  Variants <- AllVariants
SPECIFICATION ChatSpec
INVARIANT TypeOK
INVARIANT MapTracksConnections
INVARIANT Balanced
INVARIANT BroadcastReachesAll
INVARIANT IterationStable
\* Once every client has come and gone the server has nothing to do.
CHECK_DEADLOCK FALSE
