CONSTANTS
  a = a
  b = b
  c = c
  quitFn = quitFn
  QuitFn <- quitFn
  ForeignFunctors <- MCForeign
  LoopFunctors <- MCLoop
  Chain <- MCChain
  QuitModes <- BothQuits
  Owners <- BothOwners
  QuitEarly = FALSE
SPECIFICATION Spec
INVARIANT TypeOK
INVARIANT FunctorsInOrderOnce
 
PROPERTY JoinReturns
\* Loop() returns once quit_ is set, and the other thread then has nothing
\* left to do (or has joined the loop thread).
CHECK_DEADLOCK FALSE
