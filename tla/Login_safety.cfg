SPECIFICATION Spec
CONSTANTS
  r1 = r1
  r2 = r2
  l1 = l1
  l2 = l2
  t1 = t1
  t2 = t2
  c1 = c1
  None = None
  Requests <- MCRequests
  Links <- MCLinks
  Tokens <- MCTokens
  Codes <- MCCodes
  MaxGen = 2
SYMMETRY LoginSymmetry
INVARIANTS TypeOK UsedOnce BackupCodesExact ShownSecretIsStored
CHECK_DEADLOCK FALSE
