SPECIFICATION Spec
CONSTANTS
  u1 = u1
  u2 = u2
  u3 = u3
  o1 = o1
  o2 = o2
  o3 = o3
  a1 = a1
  a2 = a2
  t1 = t1
  t2 = t2
  Null = Null
  InitOrgOf <- MCTwoShelters
  InitAnimals <- MCInitAnimals
  InitRequests <- MCInitRequests
  Users = {u1, u2, u3}
  Orgs = {o1, o2, o3}
  Animals = {a1, a2}
  Tasks = {t1, t2}
  RequestIds = {1, 2, 3}
  InFlight = 2
  Operations = {"adopt", "accept", "deny", "update", "remove", "publish", "close_org", "close_account", "open_org"}
  StatementsMayFail = TRUE
SYMMETRY Symmetry
INVARIANTS
  TypeOK
  ForeignKeys
  OneRequestPerUser
  OwnerIsAdopted
PROPERTIES
  MemberWrites
  RefusalLeavesNoTrace
