SPECIFICATION FairSpec
CONSTANTS
  r1 = r1
  r2 = r2
  d1 = d1
  Requests <- MCRequests
  Deliveries <- MCDeliveries
  TotpThreshold = 2
  PwThreshold = 2
  MaxRetries = 2
  MaxVersion = 4
INVARIANTS TypeOK CountersExact LockConsistent
PROPERTIES LockHoldsUntilItElapses ImplementsContract ThresholdLeadsToLock SignupVerifiesIfHeard
CHECK_DEADLOCK FALSE
