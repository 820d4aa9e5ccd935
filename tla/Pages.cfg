CONSTANTS
  Resting = Resting
  q1 = q1
  q2 = q2
  q3 = q3
  Requests = {q1, q2, q3}
  KindOf <- mcKindOf
  TokensMax = 3
  Nobody = Nobody
  Files = {"a", "b"}
  RunsMax <- mcRunsMax
  FirstStatus <- mcFirstStatus
  Stored = {"b"}
  Nowhere = Nowhere
  Absent = Absent
  Renewed = Renewed
  Links <- mcLinks
  Contents <- mcContents
  VisitsMax = 1
  UnledMax = 1
  PackCoupons = 1
  FreeReviews = 1
  Tools = {"read", "count"}
  CallsPerRun = 2
  TalksMax = 2
  Papers = {"a", "b"}
  Pending = Pending
SPECIFICATION Spec
INVARIANTS SessionIsKeptAndServed ScreensAgree OrdersAsAsked TranscriptsHold
CHECK_DEADLOCK FALSE
