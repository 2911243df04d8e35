SPECIFICATION Spec
CONSTANTS
  u1 = u1
  u2 = u2
  u3 = u3
  o1 = o1
  o2 = o2
  o3 = o3
  a1 = a1
  a2 = a2
  t1 = t1
  t2 = t2
  Null = Null
  InitOrgOf <- MCInitOrgOf
  InitAnimals <- MCInitAnimals
  InitRequests <- MCInitRequests
  Users = {u1, u2}
  Orgs = {o1}
  Animals = {a1}
  Tasks = {t1, t2}
  RequestIds = {1}
  InFlight = 2
  Operations = {"adopt", "accept"}
  StatementsMayFail = FALSE
SYMMETRY Symmetry
PROPERTIES
  RequestForAvailable
