SPECIFICATION Spec
CONSTANTS
  Null = Null
  Users <- MCUsers
  Orgs <- MCOrgs
  Animals <- MCAnimals
  Requests <- MCRequests
  Posts <- MCPosts
  Reviews <- MCReviews
  Parents <- MCParents
  CityOf <- MCCityOf
  NameOf <- MCNameOf
  LowerOf <- MCLowerOf
  Breeds <- MCBreeds
  BreedType <- MCBreedType
  InitLive <- MCInitLive
  InitMember <- MCInitMember
  InitAnimals <- MCInitAnimals
  Forms <- MCForms
  Edits <- MCEdits
  Queries <- MCQueries
  Pages = {1, 7}
  PageSize = 3
  HalfInt = 8
  MaxWrites = 0
INVARIANT
  BeyondTheEndIsEmpty
