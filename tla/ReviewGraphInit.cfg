\* The checkpointer fails once and is then healthy.
CONSTANTS
  r1 = r1  r2 = r2  r3 = r3
  d1 = d1  d2 = d2
  c1 = c1
  Requests <- TwoRequests
  Decisions <- NoDecision
  Contracts <- OneContract
  Simple <- OneContract
  Plan = "PERSONAL"
  MonthlyQuota = 1
  PackQty = 1
  InitCoupons = 0
  MaxPacks = 0
  MaxFaults = 1
  MaxCrashes = 0
SPECIFICATION FairSpec
PROPERTIES
  InitIsRetried
CHECK_DEADLOCK FALSE
