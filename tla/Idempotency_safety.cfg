SPECIFICATION Spec
CONSTANTS
  q1 = q1
  q2 = q2
  q3 = q3
  k1 = k1
  k2 = k2
  a1 = a1
  a2 = a2
  b1 = b1
  b2 = b2
  x = x
  None = None
  Requests <- MCRequests
  Keys <- MCKeys
  Uuids <- MCUuids
  Addresses <- MCAddresses
  Bodies <- MCBodies
  Slots <- MCSlots
  MaxExpiries = 1
SYMMETRY IdempotencySymmetry
INVARIANTS ClientTypeOK RunsAreExpiries OneAnswerPerKey RepeatsAreExcused
PROPERTY ImplementsContract
CHECK_DEADLOCK FALSE
