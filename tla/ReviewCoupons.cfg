\* Three reviews against one coupon and one pack, with a fault and a restart.
CONSTANTS
  r1 = r1  r2 = r2  r3 = r3
  d1 = d1  d2 = d2
  c1 = c1
  Requests <- ThreeRequests
  Decisions <- NoDecision
  Contracts <- OneContract
  Simple <- OneContract
  Plan = "FREE"
  MonthlyQuota = 1
  PackQty = 1
  InitCoupons = 1
  MaxPacks = 1
  MaxFaults = 1
  MaxCrashes = 1
SPECIFICATION Spec
SYMMETRY Symmetry
INVARIANTS
  TypeOK
  CouponsConserved
  LaunchedIsPaid
  FreeStaysRuleOnly
  ChargeIsSettled
CHECK_DEADLOCK FALSE
