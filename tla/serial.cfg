SPECIFICATION Spec
CONSTANTS
  u1 = u1
  u2 = u2
  u3 = u3
  o1 = o1
  o2 = o2
  o3 = o3
  a1 = a1
  a2 = a2
  t1 = t1
  t2 = t2
  t3 = t3
  t4 = t4
  Null = Null
  InitOrgOf <- MCInitOrgOf
  InitAnimals <- MCInitAnimals
  InitRequests <- MCInitRequests
  Users = {u1, u2, u3}
  Orgs = {o1, o2}
  Animals = {a1}
  Tasks = {t1, t2, t3, t4}
  RequestIds = {1, 2, 3}
  InFlight = 1
  Operations = {"adopt", "accept", "deny", "update", "close_account", "open_org"}
  StatementsMayFail = TRUE
SYMMETRY Symmetry
INVARIANTS
  NoOrphanShelter
PROPERTIES
  RequestForAvailable
  AdoptionAnswersRequest
  AdopterKept
  OneShelterPerUser
