SPECIFICATION Spec
CONSTANTS
  u1 = u1
  u2 = u2
  t1 = t1
  t2 = t2
  i1 = i1
  i2 = i2
  Users = {u1}
  Tasks = {t1, t2}
  Instances = {i1}
  Null = Null
  AccessTtl = 1
  RefreshTtl = 2
  MaxTime = 2
  MaxFaults = 0
  Operations = {"refresh"}
  InitLogins <- MCInitLogins
SYMMETRY Symmetry
INVARIANTS
  SingleUse
