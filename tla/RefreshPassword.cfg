\* A rotation is under way while the password changes.
CONSTANTS
  t1 = t1  t2 = t2  t3 = t3  t4 = t4
  l1 = l1  l2 = l2  f1 = f1  f2 = f2  p1 = p1
  Tokens <- TokenSet
  Logins <- OneLogin
  Refreshes <- OneRefresh
  Changes <- OneChange
SPECIFICATION Spec
INVARIANT RevocationEndsSessions
CHECK_DEADLOCK FALSE
