----------------------------- MODULE Attributes -----------------------------
(***************************************************************************)
(* The enumerated attributes of an animal.  A value has an enumerator in   *)
(* C++ and a name outside, and the code spells the names in four places:   *)
(* for JSON, for the text PostgreSQL returns for an enum_range, for the    *)
(* binary parameters and rows of userver, and in the schema.               *)
(***************************************************************************)

\* enum class AnimalSize ... AnimalType, without kUnspecified, which no name
\* stands for.
Enumerators ==
  [size       |-> {"kSmall", "kMedium", "kLarge"},
   gender     |-> {"kMale", "kFemale", "kUnknown"},
   care_level |-> {"kEasy", "kModerate", "kDifficult", "kSpecialNeeds"},
   good_with  |-> {"kDogs", "kCats", "kChildren", "kElderly"},
   color      |-> {"kBlack", "kWhite", "kBrown", "kGrey", "kOrange", "kCream", "kTan",
                   "kGolden", "kSpotted", "kStriped", "kBrindle", "kMixed"},
   status     |-> {"kAvailable", "kAdopted", "kUnavailable"},
   type       |-> {"kDog", "kCat", "kOther"}]

Attributes == DOMAIN Enumerators

-----------------------------------------------------------------------------
(* JSON: what Serialize writes for an enumerator and Parse reads it from.  *)

SizeNames   == [kSmall |-> "small", kMedium |-> "medium", kLarge |-> "large"]
GenderNames == [kMale |-> "male", kFemale |-> "female", kUnknown |-> "unknown"]
CareLevelNames ==
  [kEasy |-> "easy", kModerate |-> "moderate", kDifficult |-> "difficult",
   kSpecialNeeds |-> "special_needs"]
GoodWithNames ==
  [kDogs |-> "dogs", kCats |-> "cats", kChildren |-> "children", kElderly |-> "elderly"]
ColorNames ==
  [kBlack |-> "black", kWhite |-> "white", kBrown |-> "brown", kGrey |-> "grey",
   kOrange |-> "orange", kCream |-> "cream", kTan |-> "tan", kGolden |-> "golden",
   kSpotted |-> "spotted", kStriped |-> "striped", kBrindle |-> "brindle", kMixed |-> "mixed"]
StatusNames ==
  [kAvailable |-> "available", kAdopted |-> "adopted", kUnavailable |-> "unavailable"]
TypeNames   == [kDog |-> "dog", kCat |-> "cat", kOther |-> "other"]

JsonNames ==
  [size |-> SizeNames, gender |-> GenderNames, care_level |-> CareLevelNames,
   good_with |-> GoodWithNames, color |-> ColorNames, status |-> StatusNames,
   type |-> TypeNames]

ToJson(attribute, e) == JsonNames[attribute][e]
IsName(attribute, str) == \E e \in DOMAIN JsonNames[attribute] : ToJson(attribute, e) = str
FromJson(attribute, str) ==
  CHOOSE e \in DOMAIN JsonNames[attribute] : ToJson(attribute, e) = str

-----------------------------------------------------------------------------
(* PostgreSQL.                                                             *)

\* The enum types of the schema, in the order enum_range lists them.
EnumTypes ==
  [size       |-> <<"small", "medium", "large">>,
   gender     |-> <<"male", "female", "unknown">>,
   care_level |-> <<"easy", "moderate", "difficult", "special_needs">>,
   good_with  |-> <<"dogs", "cats", "children", "elderly">>,
   color      |-> <<"black", "white", "brown", "grey", "orange", "cream", "tan", "golden",
                    "spotted", "striped", "brindle", "mixed">>,
   status     |-> <<"available", "adopted", "unavailable">>,
   type       |-> <<"dog", "cat", "other">>]

\* CppToUserPg: the literal an enumerator is sent as and read from.
Literals ==
  [size       |-> [kSmall |-> "small", kMedium |-> "medium", kLarge |-> "large"],
   gender     |-> [kMale |-> "male", kFemale |-> "female", kUnknown |-> "unknown"],
   care_level |-> [kEasy |-> "easy", kModerate |-> "moderate", kDifficult |-> "difficult",
                   kSpecialNeeds |-> "special_needs"],
   good_with  |-> [kDogs |-> "dogs", kCats |-> "cats", kChildren |-> "children",
                   kElderly |-> "elderly"],
   color      |-> [kBlack |-> "black", kWhite |-> "white", kBrown |-> "brown",
                   kGrey |-> "grey", kOrange |-> "orange", kCream |-> "cream",
                   kTan |-> "tan", kGolden |-> "golden", kSpotted |-> "spotted",
                   kStriped |-> "striped", kBrindle |-> "brindle", kMixed |-> "mixed"],
   status     |-> [kAvailable |-> "available", kAdopted |-> "adopted",
                   kUnavailable |-> "unavailable"],
   type       |-> [kDog |-> "dog", kCat |-> "cat", kOther |-> "other"]]

\* Parse of a std::string, used for the arrays of enum_range: the names of
\* JSON once more.
FromText(attribute, str) == FromJson(attribute, str)

\* EnumToLiteral
Literal(attribute, e) == Literals[attribute][e]
IsLiteral(attribute, str) ==
  \E e \in DOMAIN Literals[attribute] : Literal(attribute, e) = str
FromLiteral(attribute, str) ==
  CHOOSE e \in DOMAIN Literals[attribute] : Literal(attribute, e) = str
=============================================================================
