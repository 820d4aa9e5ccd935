\* Two reviews and two verdicts on one contract; nothing fails.
CONSTANTS
  r1 = r1  r2 = r2  r3 = r3
  d1 = d1  d2 = d2
  c1 = c1
  Requests <- TwoRequests
  Decisions <- TwoDecisions
  Contracts <- OneContract
  Simple <- OneContract
  Plan = "PERSONAL"
  MonthlyQuota = 2
  PackQty = 1
  InitCoupons = 0
  MaxPacks = 0
  MaxFaults = 0
  MaxCrashes = 0
SPECIFICATION Spec
SYMMETRY Symmetry
INVARIANTS
  OpenTaskIsComplete
  ReviewingHasOwner
  CompletedUnlessRaced
  ReportIsDecided
  ApprovedHasReport
CHECK_DEADLOCK FALSE
