SPECIFICATION RaceSpec
CONSTANTS
  u1 = u1
  u2 = u2
  o1 = o1
  o2 = o2
  a1 = a1
  b1 = b1
  f1 = f1
  f2 = f2
  f3 = f3
  f4 = f4
  f5 = f5
  t1 = t1
  t2 = t2
  t3 = t3
  t4 = t4
  Null = Null
  Users = {u1, u2}
  Orgs = {o1, o2}
  Animals = {a1}
  Posts = {b1}
  PhotoNames = {f1, f2, f3, f4, f5}
  PhotoOf <- MCPhotoOf
  ShelterOf <- MCShelterOf
  Founder <- MCFounder
  InitLive <- MCInitLive
  InitShown <- MCInitShown
  Tasks = {t1, t2, t3, t4}
  InFlight = 2
  Operations = {"upload", "create_animal", "create_post", "edit", "remove", "close_account"}
  Failures = {"statement", "s3"}
SYMMETRY Symmetry
INVARIANTS
  TypeOK
  ShownAreStored
  DroppedAreDeleted
PROPERTIES
  DeletedAfterDropped
  
