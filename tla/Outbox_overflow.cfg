SPECIFICATION FairSpec
CONSTANTS
  w1 = w1
  w2 = w2
  lockout = lockout
  verify = verify
  None = None
  Events <- TwoEvents
  Handlers <- MCHandlers
  Workers <- MCWorkers
  KindOf <- TwoKindOf
  HandlersOf <- TwoHandlersOf
  BatchLimit = 2
  PowerLimit = 2
  MaxFailures = 2
  MaxLost = 0
PROPERTY EventuallyPublished
CHECK_DEADLOCK FALSE
