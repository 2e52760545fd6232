SPECIFICATION FairSpec
CONSTANTS
  w1 = w1
  w2 = w2
  lockout = lockout
  verify = verify
  None = None
  Events <- TwoEvents
  Handlers <- MCHandlers
  Workers <- MCWorkers
  KindOf <- OldIncompatible
  HandlersOf <- TwoHandlersOf
  BatchLimit = 2
  PowerLimit = 3
  MaxFailures = 1
  MaxLost = 0
PROPERTY EventuallyPublished
CHECK_DEADLOCK FALSE
