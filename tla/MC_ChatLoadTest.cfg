\* Two clients on two pool threads: each has a loop of its own.
CONSTANTS
  NumClients = 2
  Threads = 2
SPECIFICATION Spec
INVARIANT StatisticOnce
\* The test never ends: when every message is counted its loops idle.
CHECK_DEADLOCK FALSE
