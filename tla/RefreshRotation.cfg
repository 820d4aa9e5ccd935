\* Two sessions, two refresh calls, one change of the password.
CONSTANTS
  t1 = t1  t2 = t2  t3 = t3  t4 = t4
  l1 = l1  l2 = l2  f1 = f1  f2 = f2  p1 = p1
  Tokens <- ThreeTokens
  Logins <- TwoLogins
  Refreshes <- TwoRefreshes
  Changes <- OneChange
SPECIFICATION Spec
INVARIANTS
  TypeOK
  SingleSuccessor
  OneLiveToken
PROPERTY ImplementsSessions
CHECK_DEADLOCK FALSE
