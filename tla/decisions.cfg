SPECIFICATION Spec
CONSTANTS
  u1 = u1
  u2 = u2
  u3 = u3
  o1 = o1
  o2 = o2
  o3 = o3
  a1 = a1
  a2 = a2
  t1 = t1
  t2 = t2
  t3 = t3
  Null = Null
  InitOrgOf <- MCInitOrgOf
  InitAnimals <- MCInitAnimals
  InitRequests <- MCInitRequests
  Users = {u1, u2, u3}
  Orgs = {o1}
  Animals = {a1}
  Tasks = {t1, t2, t3}
  RequestIds = {1, 2}
  InFlight = 3
  Operations = {"adopt", "accept", "deny", "update", "close_account"}
  StatementsMayFail = FALSE
SYMMETRY Symmetry
INVARIANTS
  AdopterAsked
PROPERTIES
  ImplementsLifecycle
