\* Every review that began ends, when nothing fails and handlers run on.
CONSTANTS
  r1 = r1  r2 = r2  r3 = r3
  d1 = d1  d2 = d2
  c1 = c1
  Requests <- TwoRequests
  Decisions <- OneDecision
  Contracts <- OneContract
  Simple <- OneContract
  Plan = "FREE"
  MonthlyQuota = 2
  PackQty = 1
  InitCoupons = 1
  MaxPacks = 0
  MaxFaults = 0
  MaxCrashes = 0
SPECIFICATION FairSpec
INVARIANTS
  OpenedIsPaid
PROPERTIES
  ReviewingEnds
CHECK_DEADLOCK FALSE
