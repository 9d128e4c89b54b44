CONSTANTS
  UserOps <- AllCalls
  Reconnect = FALSE
  Retry = TRUE
  MaxOps = 3
SPECIFICATION ChatSpec
INVARIANT TypeOK
INVARIANT ClientAssertsHold
INVARIANT OnePhase
INVARIANT ResourcesFollowPhase
INVARIANT ConnectionMirrors
PROPERTY AttemptEnds
\* A client whose user has made its calls, and whose connection is up or
\* gone with no retry pending, has nothing left to do.
CHECK_DEADLOCK FALSE
