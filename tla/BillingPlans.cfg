\* Two orders, two payments, a cancellation and an upload.
CONSTANTS
  o1 = o1  o2 = o2
  p1 = p1  p2 = p2
  x1 = x1
  c1 = c1
  Orders <- TwoOrders
  Pays <- TwoPays
  Cancels <- OneCancel
  Contracts <- OneContract
  CouponQty = 1
  InitCoupons = 0
  MaxMonth = 3
SPECIFICATION FairSpec
INVARIANTS
  TypeOK
  CouponsAddUp
  NoFreeMonths
  PaidRecordsAreKept
PROPERTIES
  RenewalKeepsTime
  KeptUntilExpiry
  ExpiredIsDowngraded
CHECK_DEADLOCK FALSE
