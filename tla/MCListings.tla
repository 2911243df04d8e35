----------------------------- MODULE MCListings -----------------------------
(* A shelter with four animals, another one, and the searches of three     *)
(* users.                                                                  *)
EXTENDS Listings

MCUsers == {1, 2, 3}
MCOrgs == {11, 12, 13}
MCAnimals == {21, 22, 23, 24}
MCRequests == {31, 32, 33}
MCReviews == {41, 42, 43}
MCPosts == {51, 52, 53}

MCParents ==
  [i \in MCUsers \cup MCOrgs \cup MCAnimals \cup MCRequests \cup MCReviews \cup MCPosts |->
     CASE i \in MCUsers \cup MCOrgs -> {}
       [] i \in {21, 22, 23} \cup MCPosts -> {11}
       [] i = 24 -> {12}
       [] i \in {31, 41} -> {21, 3}
       [] i \in {32, 42} -> {22, 3}
       [] i \in {33, 43} -> {21, 2}]

MCInitLive == {1, 2, 3, 11, 12, 21, 22, 23, 31, 32, 41, 42, 51, 52, 53}
MCInitMember == [u \in MCUsers |-> IF u = 1 THEN 11 ELSE Null]

\* Names with every kind of character that LIKE treats specially.
MCNameOf ==
  [o \in MCOrgs |-> CASE o = 11 -> <<"a", "%">> [] o = 12 -> <<"A", "_", "b">>
                     [] o = 13 -> <<"\\", "B">>]
MCLowerOf ==
  [c \in {"a", "A", "b", "B", "%", "_", "\\"} |->
     CASE c = "A" -> "a" [] c = "B" -> "b" [] OTHER -> c]
MCCityOf == [o \in MCOrgs |-> IF o = 12 THEN 2 ELSE 1]
MCBreeds == {1, 2}
MCBreedType == <<"dog", "cat">>

Rex == [name |-> "Rex", breed_id |-> 1, age |-> 3, size |-> "large", gender |-> "male",
        care_level |-> "easy", good_with |-> "dogs", color |-> "black", status |-> "available"]
Tom == [name |-> "Tom", breed_id |-> 2, age |-> 0, size |-> "small", gender |-> "unknown",
        care_level |-> "special_needs", good_with |-> "cats", color |-> "striped",
        status |-> "unavailable"]

MCInitAnimals ==
  [a \in MCAnimals |->
     CASE a = 21 -> InsertedRow(FromRegisterDto(Tom))
       [] a = 22 -> [InsertedRow(FromRegisterDto(Rex)) EXCEPT !.status = "adopted", !.user_id = 3]
       [] a = 23 -> InsertedRow(FromRegisterDto(Rex))
       [] a = 24 -> Null]

MCForms == {Rex, Tom}
MCEdits == {[status |-> "available", age |-> -1], [gender |-> "female", age |-> 100], [age |-> -1],
            [breed_id |-> -1, name |-> "Max"]}

Search(args, by) == [kind |-> "animals", of |-> args, by |-> by]
Name(text) == [kind |-> "orgs", of |-> text, by |-> Null]

MCQueries ==
  {[kind |-> "requests", of |-> 11, by |-> 1], [kind |-> "requests", of |-> 11, by |-> 2],
   [kind |-> "shelter_animals", of |-> 11, by |-> 3],
   [kind |-> "reviews", of |-> 11, by |-> 3], [kind |-> "posts", of |-> 11, by |-> Null],
   [kind |-> "animal", of |-> 23, by |-> 2], [kind |-> "animal", of |-> 21, by |-> Null],
   Search(<<>>, Null), Search([age_gte |-> 1, colors |-> {"black", "striped"}], 3),
   Search([sizes |-> {}, genders |-> {"male", "unknown"}, age_lte |-> 3], Null),
   Search([statuses |-> {"lost"}], Null),
   Search([breeds |-> {1}, animal_types |-> {"dog", "cat"}, city_ids |-> {1, 2}], Null),
   Name(<<"%">>), Name(<<"_">>), Name(<<"a">>), Name(<<"\\">>)}
=============================================================================
