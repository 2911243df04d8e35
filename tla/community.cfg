SPECIFICATION Spec
CONSTANTS
  u1 = u1
  u2 = u2
  u3 = u3
  o1 = o1
  a1 = a1
  t1 = t1
  t2 = t2
  t3 = t3
  Null = Null
  InitOrgOf <- MCInitOrgOf
  InitAnimals <- MCInitAnimals
  InitRequests <- MCInitRequests
  InitAccounts <- MCInitAccounts
  InitReviews <- MCInitReviews
  Users = {u1, u2, u3}
  Orgs = {o1}
  Animals = {a1}
  Tasks = {t1, t2, t3}
  RequestIds = {1}
  ReviewIds = {1, 2}
  ReviewTexts <- MCReviewTexts
  Texts <- MCTexts
  LengthOf <- MCLengthOf
  BlankTexts <- MCBlankTexts
  MailTexts <- MCMailTexts
  LowerText <- MCLowerText
  RegisterBodies <- MCRegisterBodies
  ProfileBodies <- MCProfileBodies
  InFlight = 2
  Operations = {"review", "edit_review", "drop_review", "register", "edit_profile", "close_account", "accept", "remove"}
  StatementsMayFail = FALSE
SYMMETRY Symmetry
INVARIANTS
  TypeOK
  ReviewsStand
  OwnersLogIn
PROPERTIES
  OnlyAuthorsEdit
  OwnersEdit
  RefusalsLeaveNothing
  FailsOnlyBesideOthers
  PendingAreAccepted
