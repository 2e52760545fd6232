SPECIFICATION FairSpec
CONSTANTS
  s1 = s1
  s2 = s2
  p1 = p1
  p2 = p2
  None = None
  Sessions <- MCSessions
  Requests <- MCRequests
  MaxMint <- MCMaxMint
  MaxCrashes = 1
INVARIANTS TypeOK RevokedMeansEvicted
PROPERTIES ImplementsContract RevokedTogether RevocationTakesEffect
CHECK_DEADLOCK FALSE
