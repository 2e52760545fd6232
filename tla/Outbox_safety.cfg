SPECIFICATION FairSpec
CONSTANTS
  w1 = w1
  w2 = w2
  lockout = lockout
  verify = verify
  None = None
  Events <- MCEvents
  Handlers <- MCHandlers
  Workers <- MCWorkers
  KindOf <- MCKindOf
  HandlersOf <- MCHandlersOf
  BatchLimit = 2
  PowerLimit = 4
  MaxFailures = 1
  MaxLost = 1
INVARIANTS TypeOK RowsHeldOnce PublishedOnlyAfterHandlers RepeatsAreUnclaimed
PROPERTIES PublishedIsFinal ImplementsContract PublishedUnlessBlocked
CHECK_DEADLOCK FALSE
