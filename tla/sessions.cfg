SPECIFICATION FairSpec
CONSTANTS
  u1 = u1
  u2 = u2
  t1 = t1
  t2 = t2
  i1 = i1
  i2 = i2
  Users = {u1}
  Tasks = {t1, t2}
  Instances = {i1, i2}
  Null = Null
  AccessTtl = 1
  RefreshTtl = 2
  MaxTime = 4
  MaxFaults = 1
  Operations = {"login", "refresh", "logout", "me", "close_account"}
  InitLogins <- MCInitLogins
INVARIANTS
  TypeOK
  SessionsHaveAccounts
PROPERTIES
  UsedUpForGood
  LockedOutInTime
  SessionsEndForAReason
  ExpiredAreSwept
