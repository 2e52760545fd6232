SPECIFICATION FairSpec
CONSTANTS
  r1 = r1
  r2 = r2
  d1 = d1
  Requests <- OneRequest
  Deliveries <- MCDeliveries
  TotpThreshold = 2
  PwThreshold = 2
  MaxRetries = 2
  MaxVersion = 3
PROPERTY SignupVerifies
CHECK_DEADLOCK FALSE
