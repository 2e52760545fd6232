SPECIFICATION Spec
CONSTANTS
  s1 = s1
  s2 = s2
  p1 = p1
  p2 = p2
  None = None
  Sessions <- OneSession
  Requests <- MCRequests
  MaxMint <- OneMaxMint
  MaxCrashes = 0
INVARIANT RefreshAgreesWithDatabase
CHECK_DEADLOCK FALSE
