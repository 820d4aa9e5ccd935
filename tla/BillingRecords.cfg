\* A record of the free time, after the subscription ends.
CONSTANTS
  o1 = o1  o2 = o2
  p1 = p1  p2 = p2
  x1 = x1
  c1 = c1
  Orders <- TwoOrders
  Pays <- TwoPays
  Cancels <- NoCancel
  Contracts <- OneContract
  CouponQty = 1
  InitCoupons = 0
  MaxMonth = 4
SPECIFICATION Spec
INVARIANTS
  UpgradeKeepsRecords
CHECK_DEADLOCK FALSE
