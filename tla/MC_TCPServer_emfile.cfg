\* As MC_TCPServer.cfg: a third live connection hits EMFILE.
CONSTANTS
  MaxThreads = 2
  MaxConns = 3
  MaxFds = 4
SPECIFICATION Spec
INVARIANT ListenerAlive
CHECK_DEADLOCK FALSE
