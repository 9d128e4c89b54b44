CONSTANTS
  a = a
  b = b
  c = c
  quitFn = quitFn
  QuitFn <- quitFn
  ForeignFunctors <- MCForeign
  LoopFunctors <- MCLoop
  Chain <- MCChain
  QuitModes <- BothQuits
  Owners <- ThreadOwned
  QuitEarly = FALSE
SPECIFICATION Spec
INVARIANT NoUseOfDestroyedLoop
CHECK_DEADLOCK FALSE
