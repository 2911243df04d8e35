--------------------------- MODULE ListingsProofs ---------------------------
(***************************************************************************)
(* What Listings promises, proved for every set of ids, every page size    *)
(* and every search.                                                       *)
(***************************************************************************)
EXTENDS Listings, FiniteSetTheorems, WellFoundedInduction, TLAPS

-----------------------------------------------------------------------------
(* The spellings of an attribute.                                          *)

\* JSON and the driver's table spell every name alike.
LEMMA SpelledAlike == \A c \in Attributes : JsonNames[c] = Literals[c]
  BY DEF Attributes, Enumerators, JsonNames, Literals, SizeNames, GenderNames,
         CareLevelNames, GoodWithNames, ColorNames, StatusNames, TypeNames

\* No name stands for the enumerator of a missing field.
LEMMA UnspecifiedHasNoName == \A c \in Attributes : "kUnspecified" \notin DOMAIN JsonNames[c]
  BY DEF Attributes, Enumerators, JsonNames, SizeNames, GenderNames,
         CareLevelNames, GoodWithNames, ColorNames, StatusNames, TypeNames

\* The values of an enum type are the names of JSON.
LEMMA TypesAreNames ==
  \A c \in Attributes : \A s : IsName(c, s) <=> \E i \in DOMAIN EnumTypes[c] : EnumTypes[c][i] = s
<1> SUFFICES ASSUME NEW c \in Attributes, NEW s
             PROVE  IsName(c, s) <=> \E i \in DOMAIN EnumTypes[c] : EnumTypes[c][i] = s
  OBVIOUS
<1>1. CASE c = "size"
  BY <1>1 DEF IsName, ToJson, JsonNames, EnumTypes, SizeNames
<1>2. CASE c = "gender"
  BY <1>2 DEF IsName, ToJson, JsonNames, EnumTypes, GenderNames
<1>3. CASE c = "care_level"
  BY <1>3 DEF IsName, ToJson, JsonNames, EnumTypes, CareLevelNames
<1>4. CASE c = "good_with"
  BY <1>4 DEF IsName, ToJson, JsonNames, EnumTypes, GoodWithNames
<1>5. CASE c = "color"
  BY <1>5 DEF IsName, ToJson, JsonNames, EnumTypes, ColorNames
<1>6. CASE c = "status"
  BY <1>6 DEF IsName, ToJson, JsonNames, EnumTypes, StatusNames
<1>7. CASE c = "type"
  BY <1>7 DEF IsName, ToJson, JsonNames, EnumTypes, TypeNames
<1> QED
  BY <1>1, <1>2, <1>3, <1>4, <1>5, <1>6, <1>7 DEF Attributes, Enumerators

\* A name comes back unchanged from the column, whichever way it went: from
\* the body to the row, and from the row to the answer.
LEMMA NamesSurvive ==
  ASSUME NEW c \in Attributes, NEW s, IsName(c, s)
  PROVE  /\ FromJson(c, s) \in DOMAIN JsonNames[c]
         /\ FromJson(c, s) # "kUnspecified"
         /\ Literal(c, FromJson(c, s)) = s
         /\ ToJson(c, FromJson(c, s)) = s
         /\ ToJson(c, FromLiteral(c, s)) = s
<1>1. FromJson(c, s) \in DOMAIN JsonNames[c] /\ ToJson(c, FromJson(c, s)) = s
  BY DEF IsName, FromJson
<1>2. FromLiteral(c, s) \in DOMAIN Literals[c] /\ Literal(c, FromLiteral(c, s)) = s
  BY SpelledAlike DEF IsName, FromLiteral, Literal, ToJson
<1> QED
  BY <1>1, <1>2, SpelledAlike, UnspecifiedHasNoName DEF Literal, ToJson

-----------------------------------------------------------------------------
(* From a body to the row and to the answer.                               *)

\* The columns that hold names are attributes, and none of the others is one.
LEMMA Columns ==
  /\ EnumColumns \subseteq Attributes
  /\ \A c \in {"name", "breed_id", "age", "user_id"} : c \notin EnumColumns
  /\ "status" \in EnumColumns
  BY DEF EnumColumns, Attributes, Enumerators

\* A row is not Null.
LEMMA RowIsNoNull == \A row : IsRow(row) => row # Null
<1> SUFFICES ASSUME NEW row, IsRow(row)
             PROVE  row \in [RowColumns -> Cells]
  BY RowsAssumption
<1>0. \A v : v \in STRING \/ v \in Int \/ v = Null => v \in Cells
  BY Zenon DEF Cells
<1>1. ASSUME NEW c \in RowColumns
      PROVE  row[c] \in Cells
  <2>1. CASE c \in EnumColumns
    <3>1. PICK i \in DOMAIN EnumTypes[c] : EnumTypes[c][i] = row[c]
      BY <2>1 DEF IsRow, FitsEnumTypes
    <3>2. row[c] \in ToSet(EnumTypes[c])
      BY <3>1 DEF ToSet
    <3> QED
      BY <3>2, <2>1 DEF Cells
  <2> HIDE DEF Cells
  <2>2. CASE c = "name"
    BY <2>2, <1>0 DEF IsRow
  <2>3. CASE c \in {"breed_id", "age"}
    <3>1. row["breed_id"] \in Int /\ row["age"] \in Int
      BY RowsAssumption DEF IsRow
    <3> QED
      BY <2>3, <3>1, <1>0
  <2>4. CASE c = "user_id"
    <3>1. row["user_id"] \in Int \/ row["user_id"] = Null
      BY ListingsAssumption DEF IsRow, Ids
    <3> QED
      BY <2>4, <3>1, <1>0
  <2> QED
    BY <2>1, <2>2, <2>3, <2>4 DEF RowColumns, BodyColumns
<1> QED
  BY <1>1 DEF IsRow

\* A form that the validation lets pass becomes a row, which is served as the
\* form that it was.
LEMMA FormsBecomeRows ==
  ASSUME NEW body \in Forms
  PROVE  /\ IsRow(InsertedRow(FromRegisterDto(body)))
         /\ Served(InsertedRow(FromRegisterDto(body))) = body
<1> DEFINE row == InsertedRow(FromRegisterDto(body))
<1>1. IsForm(body)
  BY RowsAssumption
<1>2. row = [c \in RowColumns |-> row[c]] /\ DOMAIN row = RowColumns
  BY DEF InsertedRow, FromRegisterDto
<1>3. ASSUME NEW c \in EnumColumns
      PROVE  row[c] = body[c] /\ IsName(c, row[c]) /\ ToJson(c, FromLiteral(c, row[c])) = body[c]
  <2>1. IsName(c, body[c]) /\ c \in Attributes /\ c # "user_id"
    BY <1>1, Columns DEF IsForm
  <2>2. row[c] = Literal(c, FromJson(c, body[c]))
    BY <2>1 DEF InsertedRow, FromRegisterDto, StoredField, ParsedField, RowColumns, BodyColumns
  <2> QED
    BY <2>1, <2>2, NamesSurvive
<1>4. ASSUME NEW c \in {"name", "breed_id", "age"}
      PROVE  row[c] = body[c]
  <2>1. c \notin EnumColumns
    BY Columns
  <2> QED
    BY <2>1 DEF InsertedRow, FromRegisterDto, StoredField, ParsedField, RowColumns, BodyColumns
<1>5. row["user_id"] = Null
  BY Columns DEF InsertedRow, FromRegisterDto, StoredField, RowColumns
<1>6. FitsEnumTypes(row)
  BY <1>3, TypesAreNames, Columns DEF FitsEnumTypes
<1> HIDE DEF row
<1>7. IsRow(row)
  BY <1>1, <1>2, <1>4, <1>5, <1>6 DEF IsRow, IsForm
<1>8. Served(row) = [c \in BodyColumns |-> body[c]]
  BY <1>3, <1>4, Columns DEF Served, BodyColumns
<1> QED
  BY <1>1, <1>7, <1>8 DEF row, IsForm

\* What the edit of a body leaves in a column, and whether it is set.
EditLeaves(row, body, c) ==
  IF c \in DOMAIN body /\ ~(c \in {"breed_id", "age"} /\ body[c] = -1) THEN body[c] ELSE row[c]

\* An edit that the validation lets pass leaves a row, and in each of its
\* columns what the body says or what was there.
LEMMA EditsLeaveRows ==
  ASSUME NEW body \in Edits, NEW row, IsRow(row)
  PROVE  /\ IsRow(UpdatedRow(row, FromUpdateDto(body)))
         /\ \A c \in BodyColumns :
              Served(UpdatedRow(row, FromUpdateDto(body)))[c] = EditLeaves(Served(row), body, c)
<1> DEFINE animal == FromUpdateDto(body)
           new == UpdatedRow(row, animal)
<1>1. IsEdit(body)
  BY RowsAssumption
<1>2. row = [c \in RowColumns |-> row[c]] /\ DOMAIN row = RowColumns
  BY DEF IsRow
<1>3. new = [c \in RowColumns |-> new[c]] /\ DOMAIN new = RowColumns
  BY <1>2 DEF UpdatedRow
<1>4. ASSUME NEW c \in EnumColumns
      PROVE  /\ new[c] = EditLeaves(row, body, c) /\ IsName(c, new[c])
             /\ ToJson(c, FromLiteral(c, new[c])) = new[c]
             /\ ToJson(c, FromLiteral(c, row[c])) = row[c]
  <2>1. /\ c \in Attributes /\ c \notin {"name", "breed_id", "age", "user_id"}
        /\ c \in RowColumns /\ c \in BodyColumns
    BY Columns DEF RowColumns, BodyColumns
  <2>2. IsName(c, row[c])
    BY <2>1, TypesAreNames DEF IsRow, FitsEnumTypes
  <2>3. CASE c \in DOMAIN body
    <3>1. IsName(c, body[c])
      BY <1>1, <2>3 DEF IsEdit
    <3>2. animal[c] = FromJson(c, body[c]) /\ Unset[c] = "kUnspecified"
      BY <2>1, <2>3 DEF FromUpdateDto, ParsedField, Unset
    <3>3. c \in SetList(animal)
      BY <2>1, <3>1, <3>2, NamesSurvive DEF SetList
    <3>4. new[c] = Literal(c, FromJson(c, body[c]))
      BY <1>2, <2>1, <3>2, <3>3 DEF UpdatedRow, StoredField
    <3>5. new[c] = body[c]
      BY <2>1, <3>1, <3>4, NamesSurvive
    <3> HIDE DEF animal, new
    <3> QED
      BY <2>1, <2>2, <2>3, <3>1, <3>5, NamesSurvive DEF EditLeaves
  <2>4. CASE c \notin DOMAIN body
    <3>1. c \notin SetList(animal)
      BY <2>1, <2>4 DEF SetList, FromUpdateDto
    <3>2. new[c] = row[c]
      BY <1>2, <2>1, <3>1 DEF UpdatedRow
    <3> HIDE DEF animal, new
    <3> QED
      BY <2>1, <2>2, <2>4, <3>2, NamesSurvive DEF EditLeaves
  <2> QED
    BY <2>3, <2>4
<1>5. ASSUME NEW c \in {"name", "breed_id", "age"}
      PROVE  new[c] = EditLeaves(row, body, c)
  <2>1. c \notin EnumColumns /\ c \in RowColumns /\ c \in BodyColumns /\ c # "user_id"
    BY Columns DEF RowColumns, BodyColumns
  <2>2. Unset[c] = IF c = "name" THEN "" ELSE -1
    BY <2>1 DEF Unset
  <2>3. animal[c] = IF c \in DOMAIN body THEN body[c] ELSE Unset[c]
    BY <2>1 DEF FromUpdateDto, ParsedField
  <2>4. c \in SetList(animal) <=> c \in DOMAIN body /\ body[c] # Unset[c]
    BY <2>1, <2>3 DEF SetList
  <2>5. new[c] = IF c \in SetList(animal) THEN animal[c] ELSE row[c]
    BY <1>2, <2>1 DEF UpdatedRow, StoredField
  <2>6. c = "name" /\ c \in DOMAIN body => body[c] # ""
    BY <1>1 DEF IsEdit
  <2> HIDE DEF animal, new
  <2> QED
    BY <2>2, <2>3, <2>4, <2>5, <2>6 DEF EditLeaves
<1>6. new["user_id"] \in {Null, row["user_id"]}
  <2>1. "user_id" \notin SetList(animal) /\ "user_id" \in RowColumns
    BY Columns DEF SetList, RowColumns, BodyColumns
  <2> QED
    BY <1>2, <2>1 DEF UpdatedRow
<1>7. FitsEnumTypes(new)
  BY <1>4, TypesAreNames, Columns DEF FitsEnumTypes
<1> HIDE DEF new
<1>8. /\ new["name"] \in STRING /\ new["breed_id"] \in Breeds /\ new["age"] \in Int
      /\ new["user_id"] \in Users \cup {Null}
  BY <1>1, <1>5, <1>6 DEF IsRow, IsEdit, EditLeaves
<1>9. IsRow(new)
  BY <1>3, <1>7, <1>8 DEF IsRow
<1>10. \A c \in BodyColumns : Served(new)[c] = EditLeaves(Served(row), body, c)
  BY <1>4, <1>5, Columns DEF Served, BodyColumns, EditLeaves
<1> QED
  BY <1>9, <1>10 DEF new

-----------------------------------------------------------------------------
(* The tables.                                                             *)

\* A shelter has one member at most, and none before its founder is linked.
MembersSound ==
  /\ \A u, v \in Users : memberOf[u] = memberOf[v] => u = v \/ memberOf[u] = Null
  /\ founder \in [Orgs -> Users \cup {Null}]
  /\ \A o \in Orgs : founder[o] # Null =>
       /\ {founder[o], o} \cap unused = {}
       /\ \A u \in Users : memberOf[u] # o

\* What the foreign keys, the sequences and the columns' types keep.
TablesSound ==
  /\ live \subseteq Ids /\ unused \subseteq Ids /\ live \cap unused = {}
  /\ \A i \in live : Parents[i] \subseteq live
  /\ memberOf \in [Users -> Orgs \cup {Null}]
  /\ \A u \in Users : memberOf[u] # Null => {u, memberOf[u]} \subseteq live
  /\ MembersSound
  /\ animals = [a \in Animals |-> animals[a]]
  /\ \A a \in Animals : a \in live => IsRow(animals[a])
  /\ \A a \in Animals : a \notin live => animals[a] = Null

\* The rows that a row hangs on are its shelter, or its animal and its user.
LEMMA ParentKinds ==
  /\ \A i \in Users \cup Orgs : Parents[i] = {}
  /\ \A a \in Animals : OrgOf(a) \in Orgs /\ Parents[a] = {OrgOf(a)}
  /\ \A p \in Posts : \E o \in Orgs : Parents[p] = {o}
  /\ \A r \in Requests \cup Reviews :
       AnimalOf(r) \in Animals /\ UserOf(r) \in Users /\ Parents[r] = {AnimalOf(r), UserOf(r)}
<1>1. ASSUME NEW a \in Animals
      PROVE  OrgOf(a) \in Orgs /\ Parents[a] = {OrgOf(a)}
  BY ListingsAssumption DEF OrgOf
<1>2. ASSUME NEW r \in Requests \cup Reviews
      PROVE  /\ AnimalOf(r) \in Animals /\ UserOf(r) \in Users
             /\ Parents[r] = {AnimalOf(r), UserOf(r)}
  <2>1. PICK a \in Animals, u \in Users : Parents[r] = {a, u}
    BY ListingsAssumption
  <2>2. a \notin Users /\ u \notin Animals
    BY ListingsAssumption
  <2>3. AnimalOf(r) = a
    BY <2>1, <2>2 DEF AnimalOf
  <2>4. UserOf(r) = u
    BY <2>1, <2>2 DEF UserOf
  <2> QED
    BY <2>1, <2>3, <2>4
<1> QED
  BY <1>1, <1>2, ListingsAssumption

\* A deletion takes every row that hangs on one it takes, of the users only
\* the one it is about, and with a user the shelter.
LEMMA GoneIsClosed ==
  ASSUME TablesSound, NEW i \in live
  PROVE  /\ i \in GoneWith(i) /\ GoneWith(i) \subseteq live
         /\ \A j \in live : Parents[j] \cap GoneWith(i) # {} => j \in GoneWith(i)
         /\ \A u \in Users : u \in GoneWith(i) => u = i
         /\ i \in Users /\ memberOf[i] # Null => memberOf[i] \in GoneWith(i)
<1> DEFINE roots == {i} \cup (IF i \in Users THEN {memberOf[i]} \ {Null} ELSE {})
           next == roots \cup Children(roots)
<1>1. GoneWith(i) = next \cup Children(next)
  BY DEF GoneWith
<1>2. roots \subseteq live /\ i \in roots /\ next \subseteq live
  BY DEF TablesSound, Children
<1>3. \A u \in Users : u \in roots => u = i
  BY ListingsAssumption DEF TablesSound
<1>4. i \in Users /\ memberOf[i] # Null => memberOf[i] \in roots
  OBVIOUS
<1> HIDE DEF roots
<1>5. ASSUME NEW j \in live, NEW p \in Parents[j], p \in GoneWith(i)
      PROVE  j \in GoneWith(i)
  <2>1. CASE p \in next
    BY <1>1, <1>5, <2>1 DEF Children
  <2>2. CASE p \notin next
    <3>1. p \in live /\ Parents[p] \cap next # {}
      BY <1>1, <1>5, <2>2 DEF Children
    <3>2. p \in Animals
      <4>1. j \in Ids
        BY DEF TablesSound
      <4>2. p \in Users \cup Orgs \cup Animals
        BY <4>1, ParentKinds DEF Ids
      <4> QED
        BY <3>1, <4>2, ParentKinds
    <3>3. OrgOf(p) \in next /\ OrgOf(p) \in Orgs /\ Parents[p] = {OrgOf(p)}
      BY <3>1, <3>2, ParentKinds
    <3>4. OrgOf(p) \in roots
      BY <3>3, ParentKinds DEF Children
    <3> QED
      BY <2>2, <3>1, <3>3, <3>4 DEF Children
  <2> QED
    BY <2>1, <2>2
<1>6. ASSUME NEW u \in Users, u \in GoneWith(i)
      PROVE  u = i
  <2>1. u \in roots
    BY <1>1, <1>6, ParentKinds DEF Children
  <2> QED
    BY <2>1, <1>3
<1>7. GoneWith(i) \subseteq live
  BY <1>1, <1>2 DEF Children
<1> QED
  BY <1>1, <1>2, <1>4, <1>5, <1>6, <1>7

\* The rows at the start are rows.
LEMMA TablesSoundInit == Init => TablesSound
<1> SUFFICES ASSUME Init
             PROVE  TablesSound
  OBVIOUS
<1>1. MembersSound
  BY RowsAssumption DEF Init, MembersSound
<1> QED
  BY <1>1, ListingsAssumption, RowsAssumption DEF Init, TablesSound, Ids

\* Who is a member stays sound when nobody is linked and, of the rows, only such
\* are inserted as no registration has founded.
LEMMA MembersSoundKept ==
  ASSUME TablesSound, founder' = founder, unused' \subseteq unused,
         \A u \in Users : memberOf'[u] \in {memberOf[u], Null}
  PROVE  MembersSound'
<1>1. MembersSound
  BY DEF TablesSound
<1>2. \A u, v \in Users : memberOf'[u] = memberOf'[v] => u = v \/ memberOf'[u] = Null
  BY <1>1 DEF MembersSound
<1>3. \A o \in Orgs : o # Null
  BY ListingsAssumption DEF Ids
<1> QED
  BY <1>1, <1>2, <1>3 DEF MembersSound

\* The inserts, the edit and the link leave the tables sound.
LEMMA AddedRowsSound ==
  ASSUME TablesSound,
         \/ \E i \in Ids : InsertRow(i)
         \/ \E a \in Animals : (\E body \in Forms : Publish(a, body))
                               \/ (\E body \in Edits : Edit(a, body))
         \/ \E u \in Users, o \in Orgs : Found(u, o) \/ Link(u, o)
  PROVE  TablesSound'
<1>1. CASE \E i \in Ids : InsertRow(i)
  <2>1. MembersSound'
    BY <1>1, MembersSoundKept DEF InsertRow
  <2> QED
    BY <1>1, <2>1 DEF TablesSound, InsertRow
<1>2. CASE \E a \in Animals, body \in Forms : Publish(a, body)
  <2>1. PICK a \in Animals, body \in Forms : Publish(a, body)
    BY <1>2
  <2> DEFINE row == InsertedRow(FromRegisterDto(body))
  <2>2. IsRow(row)
    BY FormsBecomeRows
  <2> HIDE DEF row
  <2>3. /\ live' = live \cup {a} /\ unused' = unused \ {a} /\ Parents[a] \subseteq live
        /\ animals' = [animals EXCEPT ![a] = row] /\ memberOf' = memberOf /\ a \in unused
        /\ founder' = founder
    BY <2>1 DEF Publish, row
  <2>4. /\ live' \subseteq Ids /\ unused' \subseteq Ids /\ live' \cap unused' = {}
        /\ \A i \in live' : Parents[i] \subseteq live'
        /\ memberOf' \in [Users -> Orgs \cup {Null}]
        /\ \A u \in Users : memberOf'[u] # Null => {u, memberOf'[u]} \subseteq live'
    BY <2>3 DEF TablesSound
  <2>7. MembersSound'
    BY <2>3, MembersSoundKept
  <2>5. /\ animals' = [b \in Animals |-> animals'[b]]
        /\ \A b \in Animals : animals'[b] = IF b = a THEN row ELSE animals[b]
    BY <2>3 DEF TablesSound
  <2>6. /\ \A b \in Animals : b \in live' => IsRow(animals'[b])
        /\ \A b \in Animals : b \notin live' => animals'[b] = Null
    BY <2>2, <2>3, <2>5 DEF TablesSound
  <2> QED
    BY <2>4, <2>5, <2>6, <2>7 DEF TablesSound
<1>3. CASE \E a \in Animals, body \in Edits : Edit(a, body)
  <2>1. PICK a \in Animals, body \in Edits : Edit(a, body)
    BY <1>3
  <2>2. PICK row : row = UpdatedRow(animals[a], FromUpdateDto(body))
    OBVIOUS
  <2>3. /\ live' = live /\ unused' = unused /\ memberOf' = memberOf /\ founder' = founder
        /\ animals' = [animals EXCEPT ![a] = row] /\ a \in live
    BY <2>1, <2>2 DEF Edit
  <2>4. IsRow(row)
    BY <2>2, <2>3, EditsLeaveRows DEF TablesSound
  <2>5. /\ animals' = [b \in Animals |-> animals'[b]]
        /\ \A b \in Animals : animals'[b] = IF b = a THEN row ELSE animals[b]
    BY <2>3 DEF TablesSound
  <2>6. /\ \A b \in Animals : b \in live' => IsRow(animals'[b])
        /\ \A b \in Animals : b \notin live' => animals'[b] = Null
    BY <2>3, <2>4, <2>5 DEF TablesSound
  <2>7. MembersSound'
    BY <2>3, MembersSoundKept
  <2> QED
    BY <2>3, <2>5, <2>6, <2>7 DEF TablesSound
<1>4. CASE \E u \in Users, o \in Orgs : Found(u, o)
  <2>1. PICK u \in Users, o \in Orgs : Found(u, o)
    BY <1>4
  <2>2. /\ o \in unused /\ u \notin unused /\ live' = live \cup {o}
        /\ unused' = unused \ {o} /\ founder' = [founder EXCEPT ![o] = u]
        /\ memberOf' = memberOf /\ animals' = animals
    BY <2>1 DEF Found
  <2>3. MembersSound'
    <3>1. o # Null /\ o \notin live /\ MembersSound
      BY <2>2, ListingsAssumption DEF Ids, TablesSound
    <3>2. \A v \in Users : memberOf[v] # o
      BY <3>1 DEF TablesSound
    <3> QED
      BY <2>2, <3>1, <3>2 DEF MembersSound
  <2>4. o \notin Animals /\ Parents[o] = {}
    BY ListingsAssumption
  <2> QED
    BY <2>2, <2>3, <2>4 DEF TablesSound
<1>5. CASE \E u \in Users, o \in Orgs : Link(u, o)
  <2>1. PICK u \in Users, o \in Orgs : Link(u, o)
    BY <1>5
  <2>2. /\ founder[o] = u /\ {u, o} \subseteq live /\ live' = live /\ unused' = unused
        /\ founder' = [founder EXCEPT ![o] = Null]
        /\ memberOf' = [memberOf EXCEPT ![u] = o] /\ animals' = animals
    BY <2>1 DEF Link
  <2>3. u # Null /\ o # Null
    BY ListingsAssumption DEF Ids
  <2>4. MembersSound'
    BY <2>2, <2>3 DEF TablesSound, MembersSound
  <2> QED
    BY <2>2, <2>3, <2>4 DEF TablesSound
<1> QED
  BY <1>1, <1>2, <1>3, <1>4, <1>5

\* So does a deletion.
LEMMA DeletionsSound ==
  ASSUME TablesSound, NEW i \in Ids, DeleteRow(i)
  PROVE  TablesSound'
<1>1. PICK gone : gone = GoneWith(i)
  OBVIOUS
<1>2. /\ i \in live /\ live' = live \ gone /\ unused' = unused
      /\ animals' = [a \in Animals |-> IF a \in gone THEN Null ELSE animals[a]]
      /\ memberOf' = [u \in Users |-> IF {u, memberOf[u]} \cap gone # {} THEN Null
                                      ELSE memberOf[u]]
      /\ founder' = founder
  BY <1>1 DEF DeleteRow
<1>3. \A j \in live : Parents[j] \cap gone # {} => j \in gone
  BY <1>1, <1>2, GoneIsClosed
<1>4. live' \subseteq Ids /\ unused' \subseteq Ids /\ live' \cap unused' = {}
  BY <1>2 DEF TablesSound
<1>5. \A j \in live' : Parents[j] \subseteq live'
  BY <1>2, <1>3 DEF TablesSound
<1>6. /\ memberOf' \in [Users -> Orgs \cup {Null}]
      /\ \A u \in Users : memberOf'[u] # Null => {u, memberOf'[u]} \subseteq live'
  BY <1>2 DEF TablesSound
<1>7. \A a \in Animals : animals'[a] = IF a \in gone THEN Null ELSE animals[a]
  BY <1>2
<1>8. animals' = [a \in Animals |-> animals'[a]]
  BY <1>2
<1>9. /\ \A a \in Animals : a \in live' => IsRow(animals'[a])
      /\ \A a \in Animals : a \notin live' => animals'[a] = Null
  BY <1>2, <1>7 DEF TablesSound
<1>10. MembersSound'
  BY <1>2, MembersSoundKept
<1> QED
  BY <1>4, <1>5, <1>6, <1>8, <1>9, <1>10 DEF TablesSound

-----------------------------------------------------------------------------
(* A listing under way, its answer, and the pages turned so far.           *)

StepsOf ==
  [requests |-> {"member", "count", "page", "animals", "users"},
   shelter_animals |-> {"org", "count", "page", "requested"},
   reviews |-> {"org", "count", "page", "names"}, posts |-> {"org", "count", "page"},
   animals |-> {"count", "page", "requested"}, orgs |-> {"count", "page"},
   animal |-> {"animal", "requested"}]

RowsOf ==
  [requests |-> Requests, shelter_animals |-> Animals, reviews |-> Reviews, posts |-> Posts,
   animals |-> Animals, orgs |-> Orgs, animal |-> Animals]

\* The steps that come after a page was read.
Lookups == {"requested", "animals", "users", "names"}

\* The page of an order that the LIMIT and the OFFSET cut out.
PageOf(order, kind, page) ==
  SubSeq(order, Offset(kind, page) + 1, Min({Offset(kind, page) + PageSize, Len(order)}))

\* The ids of a page that a listing of the tables as they are shows.
Shown(q, page, ids) ==
  \E order \in Orders(q.kind, Matching(q)) : ids = PageOf(order, q.kind, page)

\* What a listing knows however the tables were written to.
CallTyped(c) ==
  /\ c.query \in Queries /\ c.page \in Pages /\ ~Unparsable(c.query)
  /\ c.step \in StepsOf[c.query.kind] /\ c.calm \in BOOLEAN
  /\ c = [query |-> c.query, page |-> c.page, step |-> c.step, calm |-> c.calm,
          count |-> c.count, rows |-> c.rows, open |-> c.open, found |-> c.found]
  /\ c.rows \in Seq(RowsOf[c.query.kind])
  /\ c.step \notin Lookups => c.rows = <<>>

\* A shelter that nobody but u is a member of, or will be.
OnlyOf(o, u) ==
  /\ o \notin unused /\ founder[o] = Null
  /\ \A v \in Users : memberOf[v] = o => v = u

\* Who passed the check of the membership asks for a shelter of nobody else.
MemberSound(c) ==
  c.query.kind = "requests" /\ c.step # "member" => OnlyOf(c.query.of, c.query.by)

\* What it knows when nobody wrote since it began.
CalmSound(c) ==
  c.calm =>
    /\ c.step = "page" => c.count = Cardinality(Matching(c.query))
    /\ c.step \in Lookups => ToSet(c.rows) \subseteq live
    /\ c.step \in Lookups /\ c.query.kind # "animal" =>
         /\ c.count = Cardinality(Matching(c.query)) /\ Offset(c.query.kind, c.page) >= 0
         /\ Shown(c.query, c.page, c.rows)
    /\ c.step = "requested" =>
         c.open = {a \in ToSet(c.rows) : animals[a].status = "available"}
    /\ c.step = "users" => c.found = {AnimalOf(r) : r \in ToSet(c.rows)}

\* An answer misses no name of a row that is there.
NamesSound(w) ==
  \A i \in DOMAIN w.items : w.items[i].named \/ (~w.calm /\ w.items[i].id \notin live)

\* Its marks are true, unless somebody wrote.
MarksSound(w) ==
  w.calm /\ w.query.by \in live /\ w.query.kind \in {"shelter_animals", "animals", "animal"} =>
    \A i \in DOMAIN w.items :
      w.items[i].mark <=>
        /\ animals[w.items[i].id].status = "available"
        /\ \A r \in live \cap Requests : Parents[r] # {w.items[i].id, w.query.by}

\* So are its page and its totals.
PageSound(w) ==
  w.calm /\ w.status = 200 /\ w.query.kind # "animal" =>
    /\ w.total = Cardinality(Matching(w.query)) /\ Offset(w.query.kind, w.page) >= 0
    /\ w.pages = TotalPages(w.total) \/ (w.query.kind = "requests" /\ w.items = <<>>)
    /\ Shown(w.query, w.page, IdsOf(w.items))

\* It failed for a reason.
AnswerSound(w) ==
  /\ w.query \in Queries /\ w.page \in Pages /\ w.status \in {200, 403, 404, 500}
  /\ w.status = 500 /\ ~Unparsable(w.query) => ~w.calm \/ Offset(w.query.kind, w.page) < 0
  /\ w.status = 200 => ~Unparsable(w.query)
  /\ NamesSound(w) /\ MarksSound(w) /\ PageSound(w)

\* The ids of the first pages of the one order.
WalkSound(w) ==
  /\ w.query \in Queries /\ ~Unparsable(w.query)
  /\ w.query.kind \notin {"orgs", "animal"} /\ w.turned \in Nat \ {0}
  /\ w = [query |-> w.query, turned |-> w.turned, ids |-> w.ids]
  /\ \E order \in Orders(w.query.kind, Matching(w.query)) :
       w.ids = SubSeq(order, 1, Min({w.turned * PageSize, Len(order)}))

Known(c) == CallTyped(c) /\ MemberSound(c) /\ CalmSound(c)

\* The inductive invariant.
LInv ==
  /\ TablesSound /\ writes \in 0..MaxWrites
  /\ \A c \in {call} \ {Null} : Known(c)
  /\ \A w \in {answer} \ {Null} : AnswerSound(w)

\* A statement that writes nothing changes nothing that a listing knows.
LEMMA TablesKept ==
  ASSUME UNCHANGED tables
  PROVE  /\ TablesSound' <=> TablesSound
         /\ \A q : Matching(q)' = Matching(q)
         /\ \A kind, rows : Orders(kind, rows)' = Orders(kind, rows)
         /\ \A q, p, ids : Shown(q, p, ids)' <=> Shown(q, p, ids)
         /\ \A c : Known(c)' <=> Known(c)
         /\ \A w : AnswerSound(w)' <=> AnswerSound(w)
         /\ \A w : WalkSound(w)' <=> WalkSound(w)
<1>1. /\ live' = live /\ unused' = unused /\ memberOf' = memberOf /\ founder' = founder
      /\ animals' = animals
  BY DEF tables
<1>2. TablesSound' <=> TablesSound
  BY <1>1 DEF TablesSound, MembersSound
<1>3. ASSUME NEW q
      PROVE  Matching(q)' = Matching(q)
  BY <1>1 DEF Matching, AnimalsIn, AnimalColumns
<1>4. ASSUME NEW kind, NEW rows
      PROVE  Orders(kind, rows)' = Orders(kind, rows)
  BY <1>1 DEF Orders, IsSorted, Before, Rank
<1>5. ASSUME NEW q, NEW p, NEW ids
      PROVE  Shown(q, p, ids)' <=> Shown(q, p, ids)
  BY <1>3, <1>4 DEF Shown
<1>6. ASSUME NEW c
      PROVE  Known(c)' <=> Known(c)
  <2>1. MemberSound(c)' <=> MemberSound(c)
    BY <1>1 DEF MemberSound, OnlyOf
  <2>2. CalmSound(c)' <=> CalmSound(c)
    BY <1>1, <1>3, <1>5 DEF CalmSound
  <2> QED
    BY <2>1, <2>2 DEF Known
<1>7. ASSUME NEW w
      PROVE  AnswerSound(w)' <=> AnswerSound(w)
  <2>1. NamesSound(w)' <=> NamesSound(w)
    BY <1>1 DEF NamesSound
  <2>2. MarksSound(w)' <=> MarksSound(w)
    <3>1. \A a : animals'[a].status = animals[a].status
      BY <1>1
    <3> QED
      BY <1>1, <3>1 DEF MarksSound
  <2>3. PageSound(w)' <=> PageSound(w)
    BY <1>3, <1>5 DEF PageSound
  <2> QED
    BY <2>1, <2>2, <2>3 DEF AnswerSound
<1>8. ASSUME NEW w
      PROVE  WalkSound(w)' <=> WalkSound(w)
  BY <1>3, <1>4 DEF WalkSound
<1> QED
  BY <1>2, <1>3, <1>4, <1>5, <1>6, <1>7, <1>8

\* What others write.
Statement ==
  \/ \E i \in Ids : InsertRow(i) \/ DeleteRow(i)
  \/ \E a \in Animals : (\E body \in Forms : Publish(a, body))
                        \/ (\E body \in Edits : Edit(a, body))
  \/ \E u \in Users, o \in Orgs : Found(u, o) \/ Link(u, o)

\* What one member had alone nobody else becomes a member of.
LEMMA OwnersStay ==
  ASSUME TablesSound, Statement, NEW u \in Users, NEW o \in Orgs, OnlyOf(o, u)
  PROVE  OnlyOf(o, u)'
<1>1. o # Null
  BY ListingsAssumption DEF Ids
<1>2. CASE /\ founder' = founder /\ unused' \subseteq unused
           /\ \A v \in Users : memberOf'[v] \in {memberOf[v], Null}
  BY <1>1, <1>2 DEF OnlyOf
<1>3. CASE \E i \in Ids : InsertRow(i)
  BY <1>2, <1>3 DEF InsertRow
<1>4. CASE \E i \in Ids : DeleteRow(i)
  BY <1>2, <1>4 DEF DeleteRow
<1>5. CASE \E a \in Animals, body \in Forms : Publish(a, body)
  BY <1>2, <1>5 DEF Publish
<1>6. CASE \E a \in Animals, body \in Edits : Edit(a, body)
  BY <1>2, <1>6 DEF Edit
<1>7. CASE \E v \in Users, p \in Orgs : Found(v, p)
  BY <1>7 DEF Found, OnlyOf, TablesSound, MembersSound
<1>8. CASE \E v \in Users, p \in Orgs : Link(v, p)
  <2>1. PICK v \in Users, p \in Orgs : Link(v, p)
    BY <1>8
  <2>2. /\ founder[p] = v /\ unused' = unused /\ founder' = [founder EXCEPT ![p] = Null]
        /\ memberOf' = [memberOf EXCEPT ![v] = p]
    BY <2>1 DEF Link
  <2>3. v # Null /\ p # o
    BY <2>2, ListingsAssumption DEF Ids, OnlyOf
  <2> QED
    BY <2>2, <2>3 DEF OnlyOf, TablesSound, MembersSound
<1> QED
  BY <1>3, <1>4, <1>5, <1>6, <1>7, <1>8 DEF Statement

\* A query has a kind, with its steps and its rows.
LEMMA KindsOfQueries ==
  \A q \in Queries :
    /\ q.kind \in DOMAIN FirstStep /\ q.kind \in DOMAIN StepsOf /\ q.kind \in DOMAIN RowsOf
    /\ FirstStep[q.kind] \in StepsOf[q.kind] /\ FirstStep[q.kind] \notin Lookups
    /\ q.kind = "requests" => q.by \in Users /\ q.of \in Orgs
  BY QueriesAssumption DEF FirstStep, StepsOf, RowsOf, Lookups

\* The statements of others leave a listing what it knows, except that it is
\* not calm any more.
LEMMA WritesSound == LInv /\ OthersWrite => LInv'
<1> SUFFICES ASSUME LInv, OthersWrite
             PROVE  LInv'
  OBVIOUS
<1>1. TablesSound /\ Statement /\ Write
  BY DEF LInv, OthersWrite, Statement
<1>2. TablesSound'
  BY <1>1, AddedRowsSound, DeletionsSound DEF Statement
<1>3. writes' \in 0..MaxWrites
  BY <1>1, ListingsAssumption DEF Write, LInv
<1>4. ASSUME NEW c \in {call'} \ {Null}
      PROVE  Known(c)'
  <2>1. PICK old : old = call
    OBVIOUS
  <2>2. old # Null /\ c = [old EXCEPT !.calm = FALSE]
    BY <1>1, <1>4, <2>1 DEF Write
  <2>3. CallTyped(old) /\ MemberSound(old)
    BY <2>1, <2>2 DEF LInv, Known
  <2>4. /\ c = [query |-> old.query, page |-> old.page, step |-> old.step, calm |-> FALSE,
                count |-> old.count, rows |-> old.rows, open |-> old.open, found |-> old.found]
    BY <2>2, <2>3 DEF CallTyped
  <2>5. CallTyped(c) /\ ~c.calm
    BY <2>3, <2>4 DEF CallTyped
  <2>6. MemberSound(c)'
    <3>1. SUFFICES ASSUME c.query.kind = "requests", c.step # "member"
                   PROVE  OnlyOf(c.query.of, c.query.by)'
      BY DEF MemberSound
    <3>2. OnlyOf(c.query.of, c.query.by)
      BY <2>3, <2>4, <3>1 DEF MemberSound
    <3>3. c.query.by \in Users /\ c.query.of \in Orgs
      BY <2>5, <3>1, KindsOfQueries DEF CallTyped
    <3> QED
      <4>1. PICK u \in Users, o \in Orgs : u = c.query.by /\ o = c.query.of
        BY <3>3
      <4>2. OnlyOf(o, u)'
        BY <1>1, <3>2, <4>1, OwnersStay
      <4> QED
        BY <4>1, <4>2
  <2>7. CalmSound(c)'
    BY <2>5 DEF CalmSound
  <2> QED
    BY <2>5, <2>6, <2>7 DEF Known
<1>5. answer' = Null
  BY <1>1 DEF Write
<1> QED
  BY <1>2, <1>3, <1>4, <1>5 DEF LInv

-----------------------------------------------------------------------------
(* Rows, orders and pages.                                                 *)

\* A listing selects rows of its kind that are there.
LEMMA MatchingRows ==
  ASSUME NEW q \in Queries, q.kind # "animal"
  PROVE  Matching(q) \subseteq live \cap RowsOf[q.kind]
<1>1. q.kind \in {"requests", "shelter_animals", "reviews", "posts", "animals", "orgs"}
  BY QueriesAssumption
<1>2. CASE q.kind = "requests"
  BY <1>2 DEF Matching, RowsOf
<1>3. CASE q.kind = "shelter_animals"
  BY <1>3 DEF Matching, RowsOf, AnimalsIn
<1>4. CASE q.kind = "reviews"
  BY <1>4 DEF Matching, RowsOf
<1>5. CASE q.kind = "posts"
  BY <1>5 DEF Matching, RowsOf
<1>6. CASE q.kind = "animals"
  <2>1. \A clause, columns : SelectedRows(clause, columns) \subseteq DOMAIN columns
    BY DEF SelectedRows
  <2>2. Matching(q) \subseteq DOMAIN [a \in live \cap Animals |-> AnimalColumns(a)]
    BY <1>6, <2>1 DEF Matching
  <2> QED
    BY <1>6, <2>2 DEF RowsOf
<1>7. CASE q.kind = "orgs"
  <2>1. \A clause, columns : SelectedRows(clause, columns) \subseteq DOMAIN columns
    BY DEF SelectedRows
  <2>2. Matching(q) \subseteq DOMAIN [o \in live \cap Orgs |-> [name |-> NameOf[o]]]
    BY <1>7, <2>1 DEF Matching
  <2> QED
    BY <1>7, <2>2 DEF RowsOf
<1> QED
  BY <1>1, <1>2, <1>3, <1>4, <1>5, <1>6, <1>7

\* There are finitely many of them.
LEMMA MatchingFinite ==
  ASSUME live \subseteq Ids, NEW q \in Queries, q.kind # "animal"
  PROVE  IsFiniteSet(Matching(q)) /\ Cardinality(Matching(q)) \in Nat
<1>1. PICK rows : rows = Matching(q)
  OBVIOUS
<1>2. rows \in SUBSET Ids /\ IsFiniteSet(Ids)
  BY <1>1, MatchingRows, ListingsAssumption
<1>3. IsFiniteSet(rows)
  BY <1>2, FS_Subset
<1> QED
  BY <1>1, <1>3, FS_CardinalityType

\* An order of some rows has each of them once.
LEMMA OrdersAre ==
  ASSUME NEW rows, IsFiniteSet(rows), NEW kind, NEW s \in Orders(kind, rows)
  PROVE  /\ s \in Seq(rows) /\ Len(s) = Cardinality(rows) /\ Len(s) \in Nat
         /\ ToSet(s) = rows
         /\ \A i, j \in 1..Len(s) : i # j => s[i] # s[j]
<1>1. Cardinality(rows) \in Nat
  BY FS_CardinalityType
<1> DEFINE D == 1..Cardinality(rows)
<1>2. s \in [D -> rows] /\ \A i, j \in D : i # j => s[i] # s[j]
  BY DEF Orders, SetToSeqs
<1>3. s \in Seq(rows) /\ Len(s) = Cardinality(rows)
  BY <1>1, <1>2
<1>4. s \in Injection(D, rows)
  BY <1>2 DEF Injection, IsInjective
<1>5. IsFiniteSet(D) /\ Cardinality(D) = Cardinality(rows)
  BY <1>1, FS_Interval
<1>6. s \in Surjection(D, rows)
  BY <1>4, <1>5, FS_Injection
<1>7. ToSet(s) = rows
  BY <1>2, <1>6 DEF ToSet, Surjection
<1> QED
  BY <1>1, <1>2, <1>3, <1>7

\* The smaller of two numbers.
LEMMA MinOfTwo == \A x, y \in Int : Min({x, y}) = IF x <= y THEN x ELSE y
  BY DEF Min

\* An offset is a number, and the product unless it overflows.
LEMMA OffsetIs ==
  ASSUME NEW kind, NEW page \in Pages
  PROVE  /\ Offset(kind, page) \in Int
         /\ (page - 1) * PageSize < HalfInt => Offset(kind, page) = (page - 1) * PageSize
<1>1. page \in Nat \ {0} /\ PageSize \in Nat \ {0} /\ HalfInt \in Nat \ {0}
  BY ListingsAssumption
<1>2. PICK n : n = (page - 1) * PageSize
  OBVIOUS
<1>3. n \in Nat
  BY <1>1, <1>2
<1>4. ToInt(n) \in Int /\ (n < HalfInt => ToInt(n) = n)
  BY <1>1, <1>3 DEF ToInt
<1> QED
  BY <1>2, <1>3, <1>4 DEF Offset

\* A page is a part of its order.
LEMMA PageIsPart ==
  ASSUME NEW S, NEW s \in Seq(S), NEW kind, NEW page \in Pages, Offset(kind, page) >= 0
  PROVE  LET k == Offset(kind, page)
             p == PageOf(s, kind, page)
         IN  /\ p \in Seq(S)
             /\ Len(p) = IF Len(s) <= k THEN 0
                         ELSE IF Len(s) <= k + PageSize THEN Len(s) - k ELSE PageSize
             /\ \A i \in 1..Len(p) : p[i] = s[k + i] /\ k + i \in 1..Len(s)
             /\ ToSet(p) \subseteq S /\ ToSet(p) \subseteq ToSet(s)
<1>1. PICK k : k = Offset(kind, page)
  OBVIOUS
<1>2. k \in Nat /\ PageSize \in Nat \ {0} /\ Len(s) \in Nat
  BY <1>1, OffsetIs, ListingsAssumption
<1>3. PICK m : m = Min({k + PageSize, Len(s)})
  OBVIOUS
<1>4. m \in Nat /\ m = IF k + PageSize <= Len(s) THEN k + PageSize ELSE Len(s)
  BY <1>2, <1>3, MinOfTwo
<1>5. PICK p : p = SubSeq(s, k + 1, m)
  OBVIOUS
<1>6. p = PageOf(s, kind, page)
  BY <1>1, <1>3, <1>5 DEF PageOf
<1>7. /\ p \in Seq(S) /\ Len(p) = (IF m < k + 1 THEN 0 ELSE m - k)
      /\ \A i \in 1..Len(p) : p[i] = s[i + k]
  BY <1>2, <1>4, <1>5
<1>8. \A i \in 1..Len(p) : p[i] = s[k + i] /\ k + i \in 1..Len(s)
  BY <1>2, <1>4, <1>7
<1>9. ToSet(p) \subseteq S /\ ToSet(p) \subseteq ToSet(s)
  BY <1>7, <1>8 DEF ToSet
<1> QED
  BY <1>1, <1>2, <1>4, <1>6, <1>7, <1>8, <1>9

\* What a listing shows of the tables are rows of its kind that match.
LEMMA ShownRows ==
  ASSUME live \subseteq Ids, NEW q \in Queries, q.kind # "animal", NEW p \in Pages, NEW ids,
         Offset(q.kind, p) >= 0, Shown(q, p, ids)
  PROVE  /\ ids \in Seq(RowsOf[q.kind])
         /\ ToSet(ids) \subseteq Matching(q) /\ ToSet(ids) \subseteq live
<1>1. PICK rows : rows = Matching(q)
  OBVIOUS
<1>2. IsFiniteSet(rows) /\ rows \subseteq live \cap RowsOf[q.kind]
  BY <1>1, MatchingFinite, MatchingRows
<1>3. PICK order \in Orders(q.kind, rows) : ids = PageOf(order, q.kind, p)
  BY <1>1 DEF Shown
<1>4. order \in Seq(rows)
  BY <1>2, <1>3, OrdersAre
<1>5. ids \in Seq(rows) /\ ToSet(ids) \subseteq rows
  BY <1>3, <1>4, PageIsPart
<1>6. ids \in Seq(RowsOf[q.kind])
  BY <1>2, <1>5
<1> QED
  BY <1>1, <1>2, <1>5, <1>6

-----------------------------------------------------------------------------
(* The steps of a listing.                                                 *)

AnswerOf(c, status, items, pages) ==
  [query |-> c.query, page |-> c.page, status |-> status, items |-> items,
   total |-> c.count, pages |-> pages, calm |-> c.calm]

\* The pages seen when a listing has answered.
WalkAfter(w) == IF w.calm /\ w.status = 200 THEN Turned(w, IdsOf(w.items)) ELSE Null

\* The step leaves the tables, a listing that knows what it knows, a sound
\* answer, and the pages seen or those and the answer's.
ReadsSoundly ==
  /\ UNCHANGED <<tables, writes>>
  /\ \A c \in {call'} \ {Null} : Known(c)
  /\ \A w \in {answer'} \ {Null} : AnswerSound(w)
  /\ walk' \in {Null, walk} \/ \E w : AnswerSound(w) /\ walk' = WalkAfter(w)

\* A refusal ends the pages seen, an answer adds its page.
LEMMA TurnedByAnswers ==
  ASSUME NEW c, NEW status, NEW items, NEW pages
  PROVE  WalkAfter(AnswerOf(c, status, items, pages))
           = IF c.calm /\ status = 200 THEN Turned(c, IdsOf(items)) ELSE Null
<1>1. PICK w : w = AnswerOf(c, status, items, pages)
  OBVIOUS
<1>2. /\ w.query = c.query /\ w.page = c.page /\ w.status = status /\ w.items = items
      /\ w.calm = c.calm
  BY <1>1 DEF AnswerOf
<1>3. Turned(w, IdsOf(items)) = Turned(c, IdsOf(items))
  BY <1>2 DEF Turned, Continues
<1> QED
  BY <1>1, <1>2, <1>3 DEF WalkAfter

\* A refusal is sound when there is a reason for it.
LEMMA FailuresSound ==
  ASSUME NEW c, CallTyped(c), NEW status \in {403, 404, 500},
         status = 500 => ~c.calm \/ Offset(c.query.kind, c.page) < 0
  PROVE  AnswerSound(AnswerOf(c, status, <<>>, 0))
<1> DEFINE w == AnswerOf(c, status, <<>>, 0)
<1>1. /\ w.query = c.query /\ w.page = c.page /\ w.status = status /\ w.items = <<>>
      /\ w.calm = c.calm
  BY DEF AnswerOf
<1> HIDE DEF w
<1>2. DOMAIN w.items = {}
  BY <1>1
<1>3. w.query \in Queries /\ w.page \in Pages
  BY <1>1 DEF CallTyped
<1>4. NamesSound(w) /\ MarksSound(w)
  BY <1>2 DEF NamesSound, MarksSound
<1>5. PageSound(w)
  BY <1>1 DEF PageSound
<1>6. AnswerSound(w)
  BY <1>1, <1>3, <1>4, <1>5 DEF AnswerSound
<1> QED
  BY <1>6 DEF w

\* What a call knows, it knows on its next step.
LEMMA StepTyped ==
  ASSUME NEW c, CallTyped(c), NEW step \in StepsOf[c.query.kind], step \notin Lookups,
         c.step \notin Lookups, NEW d, d = [c EXCEPT !.step = step]
  PROVE  /\ CallTyped(d) /\ d.query = c.query /\ d.page = c.page /\ d.calm = c.calm
         /\ d.step = step /\ d.rows = <<>> /\ d.count = c.count
<1>1. d = [query |-> c.query, page |-> c.page, step |-> step, calm |-> c.calm,
           count |-> c.count, rows |-> c.rows, open |-> c.open, found |-> c.found]
  BY DEF CallTyped
<1> QED
  BY <1>1 DEF CallTyped

\* A new listing knows what it needs, and no name it cannot parse gets so far.
LEMMA AskSound == LInv /\ Ask => ReadsSoundly
<1> SUFFICES ASSUME LInv, Ask
             PROVE  ReadsSoundly
  OBVIOUS
<1>1. PICK q \in Queries, p \in Pages :
        IF Unparsable(q) THEN Fails(NewCall(q, p), 500)
        ELSE /\ call' = NewCall(q, p) /\ answer' = Null /\ walk' \in {Null, walk}
             /\ UNCHANGED <<tables, writes>>
  BY DEF Ask
<1>2. CASE Unparsable(q)
  <2> DEFINE w == AnswerOf(NewCall(q, p), 500, <<>>, 0)
  <2>1. UNCHANGED <<tables, writes>> /\ call' = Null /\ answer' = w /\ walk' = Null
    BY <1>1, <1>2 DEF Fails, Reply, AnswerOf
  <2>2. w.query = q /\ w.page = p /\ w.status = 500 /\ w.items = <<>>
    BY DEF AnswerOf, NewCall
  <2> HIDE DEF w
  <2>3. AnswerSound(w)
    BY <1>2, <2>2 DEF AnswerSound, NamesSound, MarksSound, PageSound
  <2> QED
    BY <2>1, <2>3 DEF ReadsSoundly
<1>3. CASE ~Unparsable(q)
  <2> DEFINE c == NewCall(q, p)
  <2>1. /\ UNCHANGED <<tables, writes>> /\ call' = c /\ answer' = Null
        /\ walk' \in {Null, walk}
    BY <1>1, <1>3
  <2>2. c = [query |-> q, page |-> p, step |-> FirstStep[q.kind], calm |-> TRUE,
             count |-> 0, rows |-> <<>>, open |-> {}, found |-> {}]
    BY DEF NewCall
  <2> HIDE DEF c
  <2>3. CallTyped(c)
    BY <1>3, <2>2, KindsOfQueries DEF CallTyped
  <2>4. MemberSound(c)
    BY <2>2 DEF MemberSound, FirstStep
  <2>5. c.step \notin Lookups \cup {"page"}
    BY <2>2, QueriesAssumption DEF FirstStep, Lookups
  <2>6. CalmSound(c)
    BY <2>5 DEF CalmSound, Lookups
  <2> QED
    BY <2>1, <2>3, <2>4, <2>6 DEF ReadsSoundly, Known
<1> QED
  BY <1>2, <1>3

\* The checks of the membership and of the shelter.
LEMMA ChecksSound == LInv /\ (CheckMember \/ CheckOrg) => ReadsSoundly
<1> SUFFICES ASSUME LInv, CheckMember \/ CheckOrg
             PROVE  ReadsSoundly
  OBVIOUS
<1>1. PICK c : c = call
  OBVIOUS
<1>2. c # Null /\ c.step \in {"member", "org"} /\ CallTyped(c)
  BY <1>1 DEF CheckMember, CheckOrg, At, LInv, Known
<1>3. PICK d : d = [c EXCEPT !.step = "count"]
  OBVIOUS
<1>4. \/ \E status \in {403, 404} :
           call' = Null /\ answer' = AnswerOf(c, status, <<>>, 0) /\ walk' = Null
      \/ /\ call' = d /\ answer' = answer /\ walk' = walk
         /\ c.step = "member" => memberOf[c.query.by] = c.query.of
  <2>1. CASE CheckMember
    BY <1>1, <1>3, <2>1 DEF CheckMember, At, Goto, Fails, Reply, AnswerOf
  <2>2. CASE CheckOrg
    BY <1>1, <1>3, <2>2 DEF CheckOrg, At, Goto, Fails, Reply, AnswerOf
  <2> QED
    BY <2>1, <2>2
<1>5. UNCHANGED <<tables, writes>>
  BY DEF CheckMember, CheckOrg, Goto, Fails, Reply
<1>6. CASE \E status \in {403, 404} :
             call' = Null /\ answer' = AnswerOf(c, status, <<>>, 0) /\ walk' = Null
  BY <1>2, <1>5, <1>6, FailuresSound DEF ReadsSoundly
<1>7. CASE /\ call' = d /\ answer' = answer /\ walk' = walk
           /\ c.step = "member" => memberOf[c.query.by] = c.query.of
  <2>1. "count" \in StepsOf[c.query.kind] /\ (c.query.kind = "requests" => c.step = "member")
    BY <1>2, KindsOfQueries DEF CallTyped, StepsOf
  <2>2. /\ CallTyped(d) /\ d.query = c.query /\ d.step = "count"
    BY <1>2, <1>3, <2>1, StepTyped DEF Lookups
  <2>3. MemberSound(d)
    <3>1. SUFFICES ASSUME c.query.kind = "requests"
                   PROVE  OnlyOf(c.query.of, c.query.by)
      BY <2>2 DEF MemberSound
    <3>2. c.query.by \in Users /\ c.query.of \in Orgs
      BY <1>2, <3>1, KindsOfQueries DEF CallTyped
    <3>3. memberOf[c.query.by] = c.query.of /\ c.query.of # Null
      BY <1>7, <2>1, <3>1, <3>2, ListingsAssumption DEF Ids
    <3> QED
      BY <3>2, <3>3 DEF OnlyOf, LInv, TablesSound, MembersSound
  <2>4. CalmSound(d)
    BY <2>2 DEF CalmSound, Lookups
  <2> QED
    BY <1>5, <1>7, <2>2, <2>3, <2>4 DEF ReadsSoundly, Known, LInv
<1> QED
  BY <1>4, <1>6, <1>7

\* The count of the rows.
LEMMA CountSound == LInv /\ Count => ReadsSoundly
<1> SUFFICES ASSUME LInv, Count
             PROVE  ReadsSoundly
  OBVIOUS
<1>1. PICK c : c = call
  OBVIOUS
<1>2. c # Null /\ c.step = "count" /\ CallTyped(c) /\ MemberSound(c)
  BY <1>1 DEF Count, At, LInv, Known
<1>3. PICK n : n = Cardinality(Matching(c.query))
  OBVIOUS
<1>4. PICK d : d = [c EXCEPT !.count = n, !.step = "page"]
  OBVIOUS
<1>5. call' = d /\ UNCHANGED <<tables, writes, answer, walk>>
  BY <1>1, <1>3, <1>4 DEF Count, Goto
<1>6. d = [query |-> c.query, page |-> c.page, step |-> "page", calm |-> c.calm,
           count |-> n, rows |-> c.rows, open |-> c.open, found |-> c.found]
  BY <1>2, <1>4 DEF CallTyped
<1>7. "page" \in StepsOf[c.query.kind]
  BY <1>2, KindsOfQueries DEF CallTyped, StepsOf
<1>8. CallTyped(d)
  BY <1>2, <1>6, <1>7 DEF CallTyped, Lookups
<1>9. MemberSound(d)
  BY <1>2, <1>6 DEF MemberSound
<1>10. CalmSound(d)
  BY <1>3, <1>6 DEF CalmSound, Lookups
<1> QED
  BY <1>5, <1>8, <1>9, <1>10 DEF ReadsSoundly, Known, LInv

\* The items of an answer have the ids of the rows.
LEMMA ItemsHaveRows ==
  ASSUME NEW S, NEW c, c.rows \in Seq(S), NEW items, DOMAIN items = DOMAIN c.rows,
         \A i \in DOMAIN c.rows : items[i].id = c.rows[i]
  PROVE  IdsOf(items) = c.rows /\ \A i \in DOMAIN items : items[i].id \in ToSet(c.rows)
<1>1. IdsOf(items) = [i \in 1..Len(c.rows) |-> c.rows[i]]
  BY DEF IdsOf
<1>2. IdsOf(items) = c.rows
  BY <1>1
<1>3. \A i \in DOMAIN items : items[i].id \in ToSet(c.rows)
  BY DEF ToSet
<1> QED
  BY <1>2, <1>3

\* An answer whose items are the rows of a page is sound when their marks and
\* names are.
LEMMA RepliesSound ==
  ASSUME NEW c, CallTyped(c), NEW items, DOMAIN items = DOMAIN c.rows,
         \A i \in DOMAIN c.rows : items[i].id = c.rows[i],
         NEW pages, pages = TotalPages(c.count) \/ (c.query.kind = "requests" /\ items = <<>>),
         c.calm /\ c.query.kind # "animal" =>
           /\ c.count = Cardinality(Matching(c.query)) /\ Offset(c.query.kind, c.page) >= 0
           /\ Shown(c.query, c.page, c.rows),
         NamesSound(AnswerOf(c, 200, items, pages)), MarksSound(AnswerOf(c, 200, items, pages))
  PROVE  AnswerSound(AnswerOf(c, 200, items, pages))
<1>1. PICK w : w = AnswerOf(c, 200, items, pages)
  OBVIOUS
<1>2. /\ w.query = c.query /\ w.page = c.page /\ w.status = 200 /\ w.items = items
      /\ w.calm = c.calm /\ w.total = c.count /\ w.pages = pages
  BY <1>1 DEF AnswerOf
<1>3. IdsOf(items) = c.rows
  BY ItemsHaveRows DEF CallTyped
<1>4. PageSound(w)
  BY <1>2, <1>3 DEF PageSound
<1>5. w.query \in Queries /\ w.page \in Pages /\ ~Unparsable(w.query)
  BY <1>2 DEF CallTyped
<1> QED
  BY <1>1, <1>2, <1>4, <1>5 DEF AnswerSound

OpenIn(part) == {a \in ToSet(part) \cap Animals : animals[a].status = "available"}

\* What the next step, if there is one, finds in the listing is the page.
LEMMA PageShows ==
  ASSUME LInv, ReadPage, call' # Null
  PROVE  \A c \in {call}, d \in {call'} :
           Offset(c.query.kind, c.page) >= 0 /\ Shown(c.query, c.page, d.rows)
<1>1. PICK c : c = call
  OBVIOUS
<1>2. c # Null /\ c.step = "page" /\ CallTyped(c)
  BY <1>1 DEF ReadPage, At, LInv, Known
<1>3. PICK rows, kind, skip : /\ rows = Matching(c.query) /\ kind = c.query.kind
                              /\ skip = Offset(kind, c.page)
  OBVIOUS
<1>4. ~(skip < 0)
  BY <1>1, <1>3 DEF ReadPage, Fails, Reply
<1>5. PICK order, part, got :
        /\ order \in Orders(kind, rows) /\ part = PageOf(order, kind, c.page)
        /\ got = [c EXCEPT
             !.rows = part,
             !.open = {a \in ToSet(part) \cap Animals : animals[a].status = "available"}]
        /\ \/ kind = "requests" /\ part = <<>> /\ Reply(got, 200, <<>>, 1)
           \/ /\ AfterPage(got) = "none"
              /\ Reply(got, 200, PlainItems(got), TotalPages(got.count))
           \/ AfterPage(got) # "none" /\ Goto([got EXCEPT !.step = AfterPage(got)])
  BY <1>1, <1>3, <1>4 DEF ReadPage, PageOf
<1>6. call' = [got EXCEPT !.step = AfterPage(got)]
  BY <1>5 DEF Reply, Goto
<1>7. call'.rows = part
  BY <1>2, <1>5, <1>6 DEF CallTyped
<1>8. skip >= 0
  BY <1>2, <1>3, <1>4, OffsetIs DEF CallTyped
<1>9. Shown(c.query, c.page, part)
  BY <1>3, <1>5 DEF Shown
<1> QED
  BY <1>1, <1>3, <1>7, <1>8, <1>9

\* The page: its rows match, in the order of the listing.
LEMMA PageReadSound == LInv /\ ReadPage => ReadsSoundly
<1> SUFFICES ASSUME LInv, ReadPage
             PROVE  ReadsSoundly
  OBVIOUS
<1>1. PICK c : c = call
  OBVIOUS
<1>2. /\ c # Null /\ c.step = "page" /\ CallTyped(c) /\ MemberSound(c) /\ CalmSound(c)
  BY <1>1 DEF ReadPage, At, LInv, Known
<1>3. PICK rows, kind, skip : /\ rows = Matching(c.query) /\ kind = c.query.kind
                              /\ skip = Offset(kind, c.page)
  OBVIOUS
<1>4. /\ c.query \in Queries /\ c.page \in Pages /\ kind # "animal" /\ live \subseteq Ids
      /\ kind \in {"requests", "shelter_animals", "reviews", "posts", "animals", "orgs"}
  BY <1>2, <1>3, QueriesAssumption DEF CallTyped, StepsOf, LInv, TablesSound
<1>5. CASE skip < 0
  <2>1. /\ call' = Null /\ answer' = AnswerOf(c, 500, <<>>, 0) /\ walk' = Null
        /\ UNCHANGED <<tables, writes>>
    BY <1>1, <1>3, <1>5 DEF ReadPage, Fails, Reply, AnswerOf
  <2>2. AnswerSound(AnswerOf(c, 500, <<>>, 0))
    BY <1>2, <1>3, <1>5, FailuresSound
  <2> QED
    BY <2>1, <2>2 DEF ReadsSoundly
<1>6. CASE ~(skip < 0)
  <2>1. PICK order, part, got :
          /\ order \in Orders(kind, rows) /\ part = PageOf(order, kind, c.page)
          /\ got = [c EXCEPT !.rows = part, !.open = OpenIn(part)]
          /\ \/ /\ kind = "requests" /\ part = <<>>
                /\ call' = Null /\ answer' = AnswerOf(got, 200, <<>>, 1)
                /\ walk' = WalkAfter(AnswerOf(got, 200, <<>>, 1))
             \/ /\ AfterPage(got) = "none" /\ call' = Null
                /\ answer' = AnswerOf(got, 200, PlainItems(got), TotalPages(got.count))
                /\ walk' = WalkAfter(AnswerOf(got, 200, PlainItems(got), TotalPages(got.count)))
             \/ /\ AfterPage(got) # "none" /\ call' = [got EXCEPT !.step = AfterPage(got)]
                /\ answer' = answer /\ walk' = walk
          /\ UNCHANGED <<tables, writes>>
    <3>1. PICK order, part, got :
            /\ order \in Orders(kind, rows) /\ part = PageOf(order, kind, c.page)
            /\ got = [c EXCEPT
                 !.rows = part,
                 !.open = {a \in ToSet(part) \cap Animals : animals[a].status = "available"}]
            /\ \/ kind = "requests" /\ part = <<>> /\ Reply(got, 200, <<>>, 1)
               \/ /\ AfterPage(got) = "none"
                  /\ Reply(got, 200, PlainItems(got), TotalPages(got.count))
               \/ AfterPage(got) # "none" /\ Goto([got EXCEPT !.step = AfterPage(got)])
      BY <1>1, <1>3, <1>6 DEF ReadPage, PageOf
    <3>2. got = [c EXCEPT !.rows = part, !.open = OpenIn(part)]
      BY <3>1 DEF OpenIn
    <3>3. /\ \/ /\ kind = "requests" /\ part = <<>>
                /\ call' = Null /\ answer' = AnswerOf(got, 200, <<>>, 1)
                /\ walk' = WalkAfter(AnswerOf(got, 200, <<>>, 1))
             \/ /\ AfterPage(got) = "none" /\ call' = Null
                /\ answer' = AnswerOf(got, 200, PlainItems(got), TotalPages(got.count))
                /\ walk' = WalkAfter(AnswerOf(got, 200, PlainItems(got), TotalPages(got.count)))
             \/ /\ AfterPage(got) # "none" /\ call' = [got EXCEPT !.step = AfterPage(got)]
                /\ answer' = answer /\ walk' = walk
          /\ UNCHANGED <<tables, writes>>
      <4>1. /\ WalkAfter(AnswerOf(got, 200, <<>>, 1))
                 = IF got.calm THEN Turned(got, IdsOf(<<>>)) ELSE Null
            /\ WalkAfter(AnswerOf(got, 200, PlainItems(got), TotalPages(got.count)))
                 = IF got.calm THEN Turned(got, IdsOf(PlainItems(got))) ELSE Null
        BY TurnedByAnswers
      <4> QED
        BY <3>1, <4>1 DEF Reply, Goto, AnswerOf
    <3> QED
      BY <3>1, <3>2, <3>3
  <2>2. skip >= 0
    BY <1>3, <1>4, <1>6, OffsetIs
  <2>3. Shown(c.query, c.page, part)
    BY <1>3, <2>1 DEF Shown
  <2>4. /\ part \in Seq(RowsOf[kind]) /\ ToSet(part) \subseteq live
    BY <1>3, <1>4, <2>2, <2>3, ShownRows
  <2>5. PICK open : open = OpenIn(part)
    OBVIOUS
  <2>6. got = [query |-> c.query, page |-> c.page, step |-> "page", calm |-> c.calm,
               count |-> c.count, rows |-> part, open |-> open, found |-> c.found]
    BY <1>2, <2>1, <2>5 DEF CallTyped
  <2>7. UNCHANGED <<tables, writes>>
    BY <2>1
  <2>8. c.calm => c.count = Cardinality(Matching(c.query))
    BY <1>2 DEF CalmSound
  <2>9. CASE \E pages, items : /\ call' = Null /\ answer' = AnswerOf(got, 200, items, pages)
                               /\ walk' = WalkAfter(AnswerOf(got, 200, items, pages))
                               /\ DOMAIN items = DOMAIN part
                               /\ \A i \in DOMAIN part : items[i].id = part[i] /\ items[i].named
                               /\ pages = TotalPages(got.count)
                                  \/ (kind = "requests" /\ items = <<>>)
                               /\ kind \in {"shelter_animals", "animals"} => c.query.by = Null
    <3>1. PICK pages, items : /\ call' = Null /\ answer' = AnswerOf(got, 200, items, pages)
                              /\ walk' = WalkAfter(AnswerOf(got, 200, items, pages))
                              /\ DOMAIN items = DOMAIN part
                              /\ \A i \in DOMAIN part : items[i].id = part[i] /\ items[i].named
                              /\ pages = TotalPages(got.count)
                                 \/ (kind = "requests" /\ items = <<>>)
                              /\ kind \in {"shelter_animals", "animals"} => c.query.by = Null
      BY <2>9
    <3>2. PICK w : w = AnswerOf(got, 200, items, pages)
      OBVIOUS
    <3>3. w.items = items /\ w.query = c.query
      BY <2>6, <3>2 DEF AnswerOf
    <3>4. NamesSound(w)
      BY <3>1, <3>3 DEF NamesSound
    <3>5. MarksSound(w)
      <4>1. w.query.kind \in {"shelter_animals", "animals", "animal"} => w.query.by = Null
        BY <1>3, <1>4, <3>1, <3>3
      <4>2. Null \notin live
        BY <1>4, ListingsAssumption
      <4> QED
        BY <4>1, <4>2 DEF MarksSound
    <3>6. AnswerSound(w)
      <4>1. /\ w.page = c.page /\ w.status = 200 /\ w.calm = c.calm /\ w.total = c.count
            /\ w.pages = pages /\ got.count = c.count
        BY <2>6, <3>2 DEF AnswerOf
      <4>2. IdsOf(items) = part
        BY <2>4, <2>6, <3>1, ItemsHaveRows
      <4>3. PageSound(w)
        BY <1>3, <2>2, <2>3, <2>8, <3>1, <3>3, <4>1, <4>2 DEF PageSound
      <4>4. ~Unparsable(w.query)
        BY <1>2, <3>3 DEF CallTyped
      <4> QED
        BY <1>4, <3>3, <3>4, <3>5, <4>1, <4>3, <4>4 DEF AnswerSound
    <3> QED
      BY <2>7, <3>1, <3>2, <3>6 DEF ReadsSoundly
  <2>10. CASE /\ kind = "requests" /\ part = <<>>
              /\ call' = Null /\ answer' = AnswerOf(got, 200, <<>>, 1)
              /\ walk' = WalkAfter(AnswerOf(got, 200, <<>>, 1))
    BY <2>9, <2>10
  <2>11. CASE /\ AfterPage(got) = "none" /\ call' = Null
              /\ answer' = AnswerOf(got, 200, PlainItems(got), TotalPages(got.count))
              /\ walk' = WalkAfter(AnswerOf(got, 200, PlainItems(got), TotalPages(got.count)))
    <3>1. /\ DOMAIN PlainItems(got) = DOMAIN part
          /\ \A i \in DOMAIN part : PlainItems(got)[i].id = part[i] /\ PlainItems(got)[i].named
      BY <2>6 DEF PlainItems
    <3>2. kind \in {"shelter_animals", "animals"} => c.query.by = Null
      BY <1>3, <2>6, <2>11 DEF AfterPage
    <3> QED
      BY <2>9, <2>11, <3>1, <3>2
  <2>12. CASE /\ AfterPage(got) # "none" /\ call' = [got EXCEPT !.step = AfterPage(got)]
              /\ answer' = answer /\ walk' = walk
    <3>1. PICK step, d : step = AfterPage(got) /\ d = [got EXCEPT !.step = step]
      OBVIOUS
    <3>2. call' = d /\ answer' = answer /\ walk' = walk
      BY <2>12, <3>1
    <3>3. d = [query |-> c.query, page |-> c.page, step |-> step, calm |-> c.calm,
               count |-> c.count, rows |-> part, open |-> open, found |-> c.found]
      BY <2>6, <3>1
    <3>4. step \in StepsOf[kind] /\ step \in Lookups /\ step # "users"
          /\ (step = "requested" => RowsOf[kind] = Animals)
      BY <1>3, <1>4, <2>6, <2>12, <3>1 DEF AfterPage, StepsOf, Lookups, RowsOf
    <3>5. CallTyped(d)
      BY <1>2, <1>3, <2>4, <3>3, <3>4 DEF CallTyped
    <3>6. MemberSound(d)
      BY <1>2, <3>3 DEF MemberSound
    <3>7. step = "requested" => open = {a \in ToSet(part) : animals[a].status = "available"}
      <4>1. part \in Seq(Animals) => ToSet(part) \cap Animals = ToSet(part)
        BY DEF ToSet
      <4> QED
        BY <2>4, <2>5, <3>4, <4>1 DEF OpenIn
    <3>8. CalmSound(d)
      BY <1>3, <2>2, <2>3, <2>4, <2>8, <3>3, <3>4, <3>7 DEF CalmSound
    <3> QED
      BY <2>7, <3>2, <3>5, <3>6, <3>8 DEF ReadsSoundly, Known, LInv
  <2> QED
    BY <2>1, <2>10, <2>11, <2>12
<1> QED
  BY <1>5, <1>6

\* The one animal of GET /animals/{id}.
LEMMA AnimalReadSound == LInv /\ ReadAnimal => ReadsSoundly
<1> SUFFICES ASSUME LInv, ReadAnimal
             PROVE  ReadsSoundly
  OBVIOUS
<1>1. PICK c, a : c = call /\ a = c.query.of
  OBVIOUS
<1>2. /\ c # Null /\ c.step = "animal" /\ CallTyped(c)
  BY <1>1 DEF ReadAnimal, At, LInv, Known
<1>3. c.query \in Queries /\ c.page \in Pages /\ c.query.kind = "animal" /\ a \in Animals
  BY <1>1, <1>2, QueriesAssumption DEF CallTyped, StepsOf
<1>4. PICK open : open = IF a \in live /\ animals[a].status = "available" THEN {a} ELSE {}
  OBVIOUS
<1>5. PICK got : got = [c EXCEPT !.count = 1, !.rows = <<a>>, !.open = open]
  OBVIOUS
<1>6. got = [query |-> c.query, page |-> c.page, step |-> "animal", calm |-> c.calm,
             count |-> 1, rows |-> <<a>>, open |-> open, found |-> c.found]
  BY <1>2, <1>5 DEF CallTyped
<1>7. \/ a \notin live /\ Fails(c, 404)
      \/ a \in live /\ c.query.by = Null /\ Reply(got, 200, PlainItems(got), 1)
      \/ a \in live /\ Goto([got EXCEPT !.step = "requested"])
  BY <1>1, <1>4, <1>5 DEF ReadAnimal
<1>8. UNCHANGED <<tables, writes>>
  BY <1>7 DEF Fails, Reply, Goto
<1>9. CASE Fails(c, 404)
  <2>1. call' = Null /\ answer' = AnswerOf(c, 404, <<>>, 0) /\ walk' = Null
    BY <1>9 DEF Fails, Reply, AnswerOf
  <2> QED
    BY <1>2, <1>8, <2>1, FailuresSound DEF ReadsSoundly
<1>10. CASE c.query.by = Null /\ Reply(got, 200, PlainItems(got), 1)
  <2>1. PICK w : w = AnswerOf(got, 200, PlainItems(got), 1)
    OBVIOUS
  <2>2. call' = Null /\ answer' = w /\ walk' = WalkAfter(w)
    BY <1>10, <2>1, TurnedByAnswers DEF Reply, AnswerOf
  <2>3. w.query = c.query /\ w.page = c.page /\ w.status = 200 /\ w.items = PlainItems(got)
    BY <1>6, <2>1 DEF AnswerOf
  <2>4. NamesSound(w)
    BY <2>3 DEF NamesSound, PlainItems
  <2>5. Null \notin live
    BY ListingsAssumption DEF LInv, TablesSound
  <2>6. MarksSound(w) /\ PageSound(w)
    BY <1>3, <1>10, <2>3, <2>5 DEF MarksSound, PageSound
  <2>7. ~Unparsable(w.query)
    BY <1>2, <2>3 DEF CallTyped
  <2> QED
    BY <1>3, <1>8, <2>2, <2>3, <2>4, <2>6, <2>7 DEF ReadsSoundly, AnswerSound
<1>11. CASE a \in live /\ Goto([got EXCEPT !.step = "requested"])
  <2>1. PICK d : d = [got EXCEPT !.step = "requested"]
    OBVIOUS
  <2>2. call' = d /\ answer' = answer /\ walk' = walk
    BY <1>11, <2>1 DEF Goto
  <2>3. d = [query |-> c.query, page |-> c.page, step |-> "requested", calm |-> c.calm,
             count |-> 1, rows |-> <<a>>, open |-> open, found |-> c.found]
    BY <1>6, <2>1
  <2>4. <<a>> \in Seq(Animals) /\ ToSet(<<a>>) = {a}
    <3>1. <<a>> \in Seq(Animals) /\ DOMAIN <<a>> = {1} /\ <<a>>[1] = a
      BY <1>3
    <3>2. PICK s : s = <<a>>
      OBVIOUS
    <3>3. \A x : x \in ToSet(s) <=> x = a
      BY <3>1, <3>2 DEF ToSet
    <3> QED
      BY <3>1, <3>2, <3>3
  <2>5. CallTyped(d)
    <3>1. RowsOf[c.query.kind] = Animals /\ "requested" \in StepsOf[c.query.kind]
      BY <1>3 DEF RowsOf, StepsOf
    <3> QED
      BY <1>2, <2>3, <2>4, <3>1 DEF CallTyped, Lookups
  <2>6. MemberSound(d)
    BY <1>3, <2>3 DEF MemberSound
  <2>7. open = {b \in ToSet(<<a>>) : animals[b].status = "available"}
    BY <1>4, <1>11, <2>4
  <2>8. CalmSound(d)
    BY <1>3, <1>11, <2>3, <2>4, <2>7 DEF CalmSound
  <2> QED
    BY <1>8, <2>2, <2>5, <2>6, <2>8 DEF ReadsSoundly, Known, LInv
<1> QED
  BY <1>7, <1>9, <1>10, <1>11

\* The requests of the caller: the marks say whose request would be accepted.
LEMMA RequestedReadSound == LInv /\ ReadRequested => ReadsSoundly
<1> SUFFICES ASSUME LInv, ReadRequested
             PROVE  ReadsSoundly
  OBVIOUS
<1>1. PICK c : c = call
  OBVIOUS
<1>2. c # Null /\ c.step = "requested" /\ CallTyped(c) /\ CalmSound(c)
  BY <1>1 DEF ReadRequested, At, LInv, Known
<1>3. PICK asked : asked = {AnimalOf(r) : r \in {s \in live \cap Requests : UserOf(s) = c.query.by}}
  OBVIOUS
<1>4. PICK items : items = [i \in DOMAIN c.rows |->
        [id |-> c.rows[i], mark |-> CanBeAdopted(c.rows[i] \in c.open, asked, c.rows[i]),
         named |-> TRUE]]
  OBVIOUS
<1>5. PICK w : w = AnswerOf(c, 200, items, TotalPages(c.count))
  OBVIOUS
<1>6. call' = Null /\ answer' = w /\ walk' = WalkAfter(w) /\ UNCHANGED <<tables, writes>>
  <2>1. WalkAfter(w) = IF c.calm THEN Turned(c, IdsOf(items)) ELSE Null
    BY <1>5, TurnedByAnswers
  <2>2. Reply(c, 200, items, TotalPages(c.count))
    BY <1>1, <1>3, <1>4 DEF ReadRequested
  <2> QED
    BY <1>5, <2>1, <2>2 DEF Reply, AnswerOf
<1>7. w.items = items /\ w.query = c.query /\ w.calm = c.calm
  BY <1>5 DEF AnswerOf
<1>8. NamesSound(w)
  BY <1>4, <1>7 DEF NamesSound
<1>9. /\ c.query \in Queries /\ c.query.kind \in {"shelter_animals", "animals", "animal"}
      /\ c.rows \in Seq(Animals)
  BY <1>2, KindsOfQueries, QueriesAssumption DEF CallTyped, StepsOf, RowsOf
<1>10. MarksSound(w)
  <2> SUFFICES ASSUME w.calm, w.query.by \in live, NEW i \in DOMAIN w.items
               PROVE  w.items[i].mark <=>
                        /\ animals[w.items[i].id].status = "available"
                        /\ \A r \in live \cap Requests : Parents[r] # {w.items[i].id, w.query.by}
    BY Zenon DEF MarksSound
  <2>0. c.calm /\ c.query.by \in live /\ i \in DOMAIN c.rows
    BY <1>4, <1>7
  <2>1. PICK a : a = c.rows[i]
    OBVIOUS
  <2>2. w.items[i].id = a /\ (w.items[i].mark <=> a \in c.open /\ a \notin asked)
    <3>1. w.items[i] = [id |-> a, mark |-> CanBeAdopted(a \in c.open, asked, a), named |-> TRUE]
      BY <1>4, <1>7, <2>0, <2>1
    <3>2. w.items[i].id = a /\ w.items[i].mark = CanBeAdopted(a \in c.open, asked, a)
      BY <3>1
    <3> QED
      BY <3>2 DEF CanBeAdopted
  <2>3. a \in Animals /\ a \in ToSet(c.rows)
    BY <1>9, <2>0, <2>1 DEF ToSet
  <2>4. a \in c.open <=> animals[a].status = "available"
    BY <1>2, <2>0, <2>3 DEF CalmSound
  <2>5. c.query.by \in Users
    BY <1>9, <2>0, QueriesAssumption, ListingsAssumption DEF LInv, TablesSound
  <2>6. ASSUME NEW r \in live \cap Requests
        PROVE  Parents[r] = {a, c.query.by} <=> AnimalOf(r) = a /\ UserOf(r) = c.query.by
    <3>1. AnimalOf(r) \in Animals /\ UserOf(r) \in Users /\ Parents[r] = {AnimalOf(r), UserOf(r)}
      BY ParentKinds
    <3>2. AnimalOf(r) # c.query.by /\ UserOf(r) # a
      BY <2>3, <2>5, <3>1, ListingsAssumption
    <3> QED
      BY <3>1, <3>2
  <2>7. a \in asked <=> \E r \in live \cap Requests : Parents[r] = {a, c.query.by}
    BY <1>3, <2>6
  <2> QED
    BY <1>7, <2>2, <2>4, <2>7
<1>11. AnswerSound(w)
  <2>1. DOMAIN items = DOMAIN c.rows /\ \A i \in DOMAIN c.rows : items[i].id = c.rows[i]
    BY <1>4
  <2>2. c.calm /\ c.query.kind # "animal" =>
          /\ c.count = Cardinality(Matching(c.query)) /\ Offset(c.query.kind, c.page) >= 0
          /\ Shown(c.query, c.page, c.rows)
    BY <1>2 DEF CalmSound, Lookups
  <2> QED
    BY <1>2, <1>5, <1>8, <1>10, <2>1, <2>2, RepliesSound
<1> QED
  BY <1>6, <1>11 DEF ReadsSoundly

\* The animals of the requests on the page.
LEMMA AnimalsReadSound == LInv /\ ReadAnimals => ReadsSoundly
<1> SUFFICES ASSUME LInv, ReadAnimals
             PROVE  ReadsSoundly
  OBVIOUS
<1>1. PICK c : c = call
  OBVIOUS
<1>2. c # Null /\ c.step = "animals" /\ Known(c)
  BY <1>1 DEF ReadAnimals, At, LInv
<1>3. PICK found : found = {AnimalOf(r) : r \in ToSet(c.rows)} \cap live
  OBVIOUS
<1>4. PICK d : d = [c EXCEPT !.found = found, !.step = "users"]
  OBVIOUS
<1>5. call' = d /\ UNCHANGED <<tables, writes, answer, walk>>
  BY <1>1, <1>3, <1>4 DEF ReadAnimals, Goto
<1>6. d = [query |-> c.query, page |-> c.page, step |-> "users", calm |-> c.calm,
           count |-> c.count, rows |-> c.rows, open |-> c.open, found |-> found]
  BY <1>2, <1>4 DEF Known, CallTyped
<1>7. c.query \in Queries /\ c.query.kind = "requests" /\ c.rows \in Seq(Requests)
  BY <1>2, KindsOfQueries, QueriesAssumption DEF Known, CallTyped, StepsOf, RowsOf
<1>8. CallTyped(d)
  BY <1>2, <1>6, <1>7 DEF Known, CallTyped, StepsOf, Lookups
<1>9. MemberSound(d)
  BY <1>2, <1>6 DEF Known, MemberSound
<1>10. ASSUME c.calm
       PROVE  found = {AnimalOf(r) : r \in ToSet(c.rows)}
  <2>1. ToSet(c.rows) \subseteq live \cap Requests
    BY <1>2, <1>7, <1>10 DEF Known, CalmSound, Lookups, ToSet
  <2>2. \A r \in ToSet(c.rows) : AnimalOf(r) \in live
    BY <2>1, ParentKinds DEF LInv, TablesSound
  <2> QED
    BY <1>3, <2>2
<1>11. CalmSound(d)
  BY <1>2, <1>6, <1>10 DEF Known, CalmSound, Lookups
<1> QED
  BY <1>5, <1>8, <1>9, <1>11 DEF ReadsSoundly, Known, LInv

\* Their users: all are there, unless somebody wrote.
LEMMA UsersReadSound == LInv /\ ReadUsers => ReadsSoundly
<1> SUFFICES ASSUME LInv, ReadUsers
             PROVE  ReadsSoundly
  OBVIOUS
<1>1. PICK c : c = call
  OBVIOUS
<1>2. c # Null /\ c.step = "users" /\ CallTyped(c) /\ CalmSound(c)
  BY <1>1 DEF ReadUsers, At, LInv, Known
<1>3. c.query \in Queries /\ c.query.kind = "requests" /\ c.rows \in Seq(Requests)
  BY <1>2, KindsOfQueries, QueriesAssumption DEF CallTyped, StepsOf, RowsOf
<1>4. UNCHANGED <<tables, writes>> /\ call' = Null
  BY DEF ReadUsers, Reply, Fails
<1>5. CASE \A r \in ToSet(c.rows) : UserOf(r) \in live /\ AnimalOf(r) \in c.found
  <2>1. PICK w : w = AnswerOf(c, 200, PlainItems(c), TotalPages(c.count))
    OBVIOUS
  <2>2. answer' = w /\ walk' = WalkAfter(w)
    BY <1>1, <1>5, <2>1, TurnedByAnswers DEF ReadUsers, Reply, AnswerOf
  <2>3. w.items = PlainItems(c) /\ w.query = c.query
    BY <2>1 DEF AnswerOf
  <2>4. /\ DOMAIN PlainItems(c) = DOMAIN c.rows
        /\ \A i \in DOMAIN c.rows : PlainItems(c)[i].id = c.rows[i] /\ PlainItems(c)[i].named
    BY DEF PlainItems
  <2>5. NamesSound(w) /\ MarksSound(w)
    BY <1>3, <2>3, <2>4 DEF NamesSound, MarksSound
  <2>6. c.calm =>
          /\ c.count = Cardinality(Matching(c.query)) /\ Offset(c.query.kind, c.page) >= 0
          /\ Shown(c.query, c.page, c.rows)
    BY <1>2, <1>3 DEF CalmSound, Lookups
  <2>7. AnswerSound(w)
    BY <1>2, <2>1, <2>4, <2>5, <2>6, RepliesSound
  <2> QED
    BY <1>4, <2>2, <2>7 DEF ReadsSoundly
<1>6. CASE ~\A r \in ToSet(c.rows) : UserOf(r) \in live /\ AnimalOf(r) \in c.found
  <2>1. ~c.calm
    <3>1. SUFFICES ASSUME c.calm
                   PROVE  \A r \in ToSet(c.rows) : UserOf(r) \in live /\ AnimalOf(r) \in c.found
      BY <1>6
    <3>2. ToSet(c.rows) \subseteq live \cap Requests
      BY <1>2, <1>3, <3>1 DEF CalmSound, Lookups, ToSet
    <3>3. \A r \in ToSet(c.rows) : UserOf(r) \in live
      BY <3>2, ParentKinds DEF LInv, TablesSound
    <3> QED
      BY <1>2, <3>1, <3>3 DEF CalmSound
  <2>2. answer' = AnswerOf(c, 500, <<>>, 0) /\ walk' = Null
    BY <1>1, <1>6 DEF ReadUsers, Fails, Reply, AnswerOf
  <2>3. AnswerSound(AnswerOf(c, 500, <<>>, 0))
    BY <1>2, <2>1, FailuresSound
  <2> QED
    BY <1>4, <2>2, <2>3 DEF ReadsSoundly
<1> QED
  BY <1>5, <1>6

\* The names of the animals that were reviewed.
LEMMA NamesReadSound == LInv /\ ReadNames => ReadsSoundly
<1> SUFFICES ASSUME LInv, ReadNames
             PROVE  ReadsSoundly
  OBVIOUS
<1>1. PICK c : c = call
  OBVIOUS
<1>2. c # Null /\ c.step = "names" /\ CallTyped(c) /\ CalmSound(c)
  BY <1>1 DEF ReadNames, At, LInv, Known
<1>3. c.query \in Queries /\ c.query.kind = "reviews" /\ c.rows \in Seq(Reviews)
  BY <1>2, KindsOfQueries, QueriesAssumption DEF CallTyped, StepsOf, RowsOf
<1>4. PICK items : items = [i \in DOMAIN c.rows |->
        [id |-> c.rows[i], mark |-> UserOf(c.rows[i]) = c.query.by,
         named |-> AnimalOf(c.rows[i]) \in live]]
  OBVIOUS
<1>5. PICK w : w = AnswerOf(c, 200, items, TotalPages(c.count))
  OBVIOUS
<1>6. call' = Null /\ answer' = w /\ walk' = WalkAfter(w) /\ UNCHANGED <<tables, writes>>
  BY <1>1, <1>4, <1>5, TurnedByAnswers DEF ReadNames, Reply, AnswerOf
<1>7. w.items = items /\ w.query = c.query /\ w.calm = c.calm
  BY <1>5 DEF AnswerOf
<1>8. NamesSound(w)
  <2>1. SUFFICES ASSUME NEW i \in DOMAIN c.rows, AnimalOf(c.rows[i]) \notin live
                 PROVE  ~c.calm /\ c.rows[i] \notin live
    <3>1. /\ DOMAIN w.items = DOMAIN c.rows
          /\ \A i \in DOMAIN c.rows : /\ w.items[i].named = (AnimalOf(c.rows[i]) \in live)
                                     /\ w.items[i].id = c.rows[i]
      BY <1>4, <1>7
    <3> QED
      BY <1>7, <3>1, Zenon DEF NamesSound
  <2>2. c.rows[i] \in Reviews /\ c.rows[i] \in ToSet(c.rows)
    BY <1>3 DEF ToSet
  <2>3. c.rows[i] \notin live
    BY <2>1, <2>2, ParentKinds DEF LInv, TablesSound
  <2> QED
    BY <1>2, <2>2, <2>3 DEF CalmSound, Lookups
<1>9. MarksSound(w)
  BY <1>3, <1>7 DEF MarksSound
<1>10. AnswerSound(w)
  <2>1. DOMAIN items = DOMAIN c.rows /\ \A i \in DOMAIN c.rows : items[i].id = c.rows[i]
    BY <1>4
  <2>2. c.calm =>
          /\ c.count = Cardinality(Matching(c.query)) /\ Offset(c.query.kind, c.page) >= 0
          /\ Shown(c.query, c.page, c.rows)
    BY <1>2, <1>3 DEF CalmSound, Lookups
  <2> QED
    BY <1>2, <1>5, <1>8, <1>9, <2>1, <2>2, RepliesSound
<1> QED
  BY <1>6, <1>10 DEF ReadsSoundly

-----------------------------------------------------------------------------
(* The invariant holds.                                                    *)

\* Every read is sound.
LEMMA ReadsSound == LInv /\ Read => ReadsSoundly
<1>1. LInv /\ Leave => ReadsSoundly
  BY DEF Leave, LInv, ReadsSoundly
<1> QED
  BY <1>1, AskSound, ChecksSound, CountSound, PageReadSound, RequestedReadSound,
     AnimalReadSound, AnimalsReadSound, UsersReadSound, NamesReadSound DEF Read

\* Every step keeps the invariant.
LEMMA LInvKept == LInv /\ [Next]_vars => LInv'
<1> SUFFICES ASSUME LInv, [Next]_vars
             PROVE  LInv'
  OBVIOUS
<1>1. CASE OthersWrite
  BY <1>1, WritesSound
<1>2. CASE Read \/ UNCHANGED vars
  <2>1. ReadsSoundly
    BY <1>2, ReadsSound DEF vars, ReadsSoundly, LInv
  <2>2. UNCHANGED tables /\ writes' = writes
    BY <2>1 DEF ReadsSoundly
  <2>3. TablesSound' /\ writes' \in 0..MaxWrites
    BY <2>2, TablesKept DEF LInv
  <2>4. \A c \in {call'} \ {Null} : Known(c)'
    BY <2>1, <2>2, TablesKept DEF ReadsSoundly
  <2>5. \A w \in {answer'} \ {Null} : AnswerSound(w)'
    BY <2>1, <2>2, TablesKept DEF ReadsSoundly
  <2> QED
    BY <2>3, <2>4, <2>5 DEF LInv
<1> QED
  BY <1>1, <1>2 DEF Next

\* The invariant is an invariant.
LEMMA LInvInvariant == Spec => []LInv
<1>1. Init => LInv
  BY TablesSoundInit, ListingsAssumption DEF Init, LInv
<1> QED
  BY <1>1, LInvKept, PTL DEF Spec

\* Type correctness.  The tables keep their keys through every delete, with
\* the cascades and the trigger that go with it, and every row fits its types.
THEOREM ListingsTypeCorrect == Spec => []TypeOK
<1>1. LInv => TypeOK
  <2> SUFFICES ASSUME LInv
               PROVE  TypeOK
    OBVIOUS
  <2>1. \A a \in Animals : a \in live => animals[a] # Null /\ FitsEnumTypes(animals[a])
    BY RowIsNoNull DEF LInv, TablesSound, IsRow
  <2>2. \A a \in Animals : animals[a] # Null <=> a \in live
    BY <2>1 DEF LInv, TablesSound
  <2>3. answer # Null => answer.status \in {200, 403, 404, 500}
    BY DEF LInv, AnswerSound
  <2> QED
    BY <2>1, <2>2, <2>3 DEF LInv, TablesSound, MembersSound, TypeOK
<1> QED
  BY <1>1, LInvInvariant, PTL

\* Pages whose offset is an int.
OffsetsFit == \A p \in Pages : (p - 1) * PageSize < HalfInt

\* No listing fails while nobody writes, as far as the offsets are ints, and
\* no review lacks the name of an animal that is there.
THEOREM FailuresAreRaces == ASSUME OffsetsFit PROVE Spec => []FailsOnlyWhenRaced
<1>1. LInv => FailsOnlyWhenRaced
  <2> SUFFICES ASSUME LInv, answer # Null, ~Unparsable(answer.query)
               PROVE  /\ answer.status = 500 => ~answer.calm
                      /\ \A i \in DOMAIN answer.items :
                           \/ answer.items[i].named
                           \/ ~answer.calm /\ answer.items[i].id \notin live
    BY DEF FailsOnlyWhenRaced
  <2>1. AnswerSound(answer)
    BY DEF LInv
  <2>2. ~(Offset(answer.query.kind, answer.page) < 0)
    <3>1. PICK kind, p : kind = answer.query.kind /\ p = answer.page
      OBVIOUS
    <3>2. p \in Pages
      BY <2>1, <3>1 DEF AnswerSound
    <3>3. Offset(kind, p) = (p - 1) * PageSize /\ p - 1 \in Nat /\ PageSize \in Nat
      BY <3>2, OffsetsFit, OffsetIs, ListingsAssumption DEF OffsetsFit
    <3> QED
      BY <3>1, <3>3
  <2> QED
    BY <2>1, <2>2, Zenon DEF AnswerSound, NamesSound
<1> QED
  BY <1>1, LInvInvariant, PTL

\* The flag of an animal in a calm answer says whether a request of the
\* caller would be accepted.
THEOREM CanBeAdoptedTrue == Spec => []CanBeAdoptedIsTrue
<1>1. LInv => CanBeAdoptedIsTrue
  BY Zenon DEF LInv, AnswerSound, MarksSound, CanBeAdoptedIsTrue
<1> QED
  BY <1>1, LInvInvariant, PTL

\* Whoever is read the requests of a shelter, its animals and the users' e-mails,
\* nobody else is its member, also when registrations relink the caller on the way.
THEOREM OnlyMembersSeeRequests == Spec => []MembersSeeRequests
<1>1. LInv => MembersSeeRequests
  BY DEF LInv, Known, MemberSound, OnlyOf, MembersSeeRequests
<1> QED
  BY <1>1, LInvInvariant, PTL

\* A body of POST or PUT /animals comes back in the answers the way it was
\* sent, whatever else is written.
THEOREM BodiesServed == Spec => BodiesAreServed
<1>1. ASSUME LInv, [Next]_vars, NEW a \in Animals
      PROVE  /\ animals[a] = Null /\ animals'[a] # Null =>
                  \E body \in Forms : Served(animals'[a]) = body
             /\ animals[a] # Null /\ animals'[a] \notin {Null, animals[a]} =>
                  \E body \in Edits : \A c \in BodyColumns :
                    Served(animals'[a])[c] =
                      IF c \in DOMAIN body /\ ~(c \in {"breed_id", "age"} /\ body[c] = -1)
                      THEN body[c] ELSE Served(animals[a])[c]
  <2>1. CASE animals'[a] = animals[a]
    BY <2>1
  <2>2. CASE \E i \in Ids : InsertRow(i) \/ DeleteRow(i)
    BY <2>1, <2>2 DEF InsertRow, DeleteRow
  <2>3. ASSUME NEW b \in Animals, NEW body \in Forms, Publish(b, body)
        PROVE  animals'[a] = animals[a] \/ (animals[a] = Null /\ Served(animals'[a]) = body)
    <3>1. animals' = [animals EXCEPT ![b] = InsertedRow(FromRegisterDto(body))]
      BY <2>3 DEF Publish
    <3>2. animals[b] = Null /\ DOMAIN animals = Animals
      BY <2>3, <1>1 DEF Publish, LInv, TablesSound
    <3> QED
      BY <3>1, <3>2, FormsBecomeRows
  <2>4. ASSUME NEW b \in Animals, NEW body \in Edits, Edit(b, body)
        PROVE  \/ animals'[a] = animals[a]
               \/ \A c \in BodyColumns :
                    Served(animals'[a])[c] = EditLeaves(Served(animals[a]), body, c)
    <3>1. animals' = [animals EXCEPT ![b] = UpdatedRow(animals[b], FromUpdateDto(body))]
      BY <2>4 DEF Edit
    <3>2. IsRow(animals[b]) /\ DOMAIN animals = Animals
      BY <2>4, <1>1 DEF Edit, LInv, TablesSound
    <3>3. \A c \in BodyColumns : Served(UpdatedRow(animals[b], FromUpdateDto(body)))[c]
                                   = EditLeaves(Served(animals[b]), body, c)
      BY <3>2, EditsLeaveRows
    <3> QED
      BY <3>1, <3>2, <3>3
  <2>5. CASE \E b \in Animals, body \in Forms : Publish(b, body)
    BY <2>3, <2>5
  <2>6. CASE \E b \in Animals, body \in Edits : Edit(b, body)
    <3>1. PICK b \in Animals, body \in Edits : Edit(b, body)
      BY <2>6
    <3>2. CASE animals'[a] # animals[a]
      <4>1. animals[a] # Null
        BY <3>1, <3>2, <1>1, RowIsNoNull DEF Edit, LInv, TablesSound
      <4>2. \A c \in BodyColumns :
              Served(animals'[a])[c] = EditLeaves(Served(animals[a]), body, c)
        BY <2>4, <3>1, <3>2
      <4> QED
        BY <4>1, <4>2 DEF EditLeaves
    <3> QED
      BY <2>1, <3>2
  <2>7. CASE \E u \in Users, o \in Orgs : Found(u, o) \/ Link(u, o)
    BY <2>1, <2>7 DEF Found, Link
  <2>8. CASE Read
    BY <1>1, <2>1, <2>8, ReadsSound DEF ReadsSoundly, tables
  <2>9. CASE UNCHANGED vars
    BY <2>1, <2>9 DEF vars, tables
  <2> QED
    BY <1>1, <2>2, <2>5, <2>6, <2>7, <2>8, <2>9 DEF Next, OthersWrite
<1>2. LInv /\ [Next]_vars =>
        [\A a \in Animals :
           /\ animals[a] = Null /\ animals'[a] # Null =>
                \E body \in Forms : Served(animals'[a]) = body
           /\ animals[a] # Null /\ animals'[a] \notin {Null, animals[a]} =>
                \E body \in Edits : \A c \in BodyColumns :
                  Served(animals'[a])[c] =
                    IF c \in DOMAIN body /\ ~(c \in {"breed_id", "age"} /\ body[c] = -1)
                    THEN body[c] ELSE Served(animals[a])[c]]_vars
  BY <1>1
<1> QED
  BY <1>2, LInvInvariant, PTL DEF Spec, BodiesAreServed

-----------------------------------------------------------------------------
(* The search for animals.                                                 *)

\* The elements of two sequences, one after the other.
LEMMA ElementsOfBoth ==
  ASSUME NEW S, NEW s \in Seq(S), NEW t \in Seq(S)
  PROVE  s \o t \in Seq(S) /\ ToSet(s \o t) = ToSet(s) \cup ToSet(t)
<1>1. s \o t \in Seq(S) /\ Len(s \o t) = Len(s) + Len(t) /\ Len(s) \in Nat /\ Len(t) \in Nat
  OBVIOUS
<1>2. ASSUME NEW x \in ToSet(s \o t)
      PROVE  x \in ToSet(s) \cup ToSet(t)
  <2>1. PICK i \in 1..(Len(s) + Len(t)) : x = (s \o t)[i]
    BY <1>1, <1>2 DEF ToSet
  <2>2. CASE i <= Len(s)
    BY <1>1, <2>1, <2>2 DEF ToSet
  <2>3. CASE i > Len(s)
    <3>1. i - Len(s) \in 1..Len(t) /\ x = t[i - Len(s)]
      BY <1>1, <2>1, <2>3
    <3> QED
      BY <3>1 DEF ToSet
  <2> QED
    BY <1>1, <2>1, <2>2, <2>3
<1>3. ASSUME NEW x \in ToSet(s)
      PROVE  x \in ToSet(s \o t)
  <2>1. PICK i \in 1..Len(s) : x = s[i]
    BY <1>3 DEF ToSet
  <2>2. i \in 1..Len(s \o t) /\ (s \o t)[i] = x
    BY <1>1, <2>1
  <2> QED
    BY <1>1, <2>2 DEF ToSet
<1>4. ASSUME NEW x \in ToSet(t)
      PROVE  x \in ToSet(s \o t)
  <2>1. PICK i \in 1..Len(t) : x = t[i]
    BY <1>4 DEF ToSet
  <2>2. Len(s) + i \in 1..Len(s \o t) /\ (s \o t)[Len(s) + i] = x
    BY <1>1, <2>1
  <2> QED
    BY <1>1, <2>2 DEF ToSet
<1> QED
  BY <1>1, <1>2, <1>3, <1>4

\* The conditions that a filter asks for.
KeyOf ==
  [breeds |-> "breeds", city_ids |-> "cityIds", animal_types |-> "animalTypes",
   sizes |-> "sizes", genders |-> "genders", care_levels |-> "careLevels",
   colors |-> "colors", good_withs |-> "goodWiths", statuses |-> "statuses"]
Listed(filter, f) == Condition(KeyOf[f], "any", SentValues(f, filter[f]))
Asked(filter) ==
  {Listed(filter, f) : f \in {g \in ListFields : filter[g] # {}}}
  \cup {Condition("age", ">=", filter.min_age), Condition("age", "<=", filter.max_age)}

\* Each list that is not empty adds its condition, the ages always add theirs.
LEMMA ConditionsAsked ==
  ASSUME NEW filter
  PROVE  /\ BuildConditions(filter) \in Seq(Asked(filter))
         /\ ToSet(BuildConditions(filter)) = Asked(filter)
<1> DEFINE S == Asked(filter)
           Of(f) == IF filter[f] = {} THEN {} ELSE {Listed(filter, f)}
           Part(f) == AnyOf(filter, f, KeyOf[f])
           ages == <<Condition("age", ">=", filter.min_age),
                     Condition("age", "<=", filter.max_age)>>
<1>1. ASSUME NEW f \in ListFields
      PROVE  Part(f) \in Seq(S) /\ ToSet(Part(f)) = Of(f)
  <2>1. filter[f] # {} => Listed(filter, f) \in S
    BY DEF Asked
  <2>2. Part(f) = IF filter[f] = {} THEN <<>> ELSE <<Listed(filter, f)>>
    BY DEF AnyOf, Listed
  <2> QED
    BY <2>1, <2>2 DEF ToSet
<1>2. ages \in Seq(S)
      /\ ToSet(ages) = {Condition("age", ">=", filter.min_age),
                        Condition("age", "<=", filter.max_age)}
  <2>1. /\ Condition("age", ">=", filter.min_age) \in S
        /\ Condition("age", "<=", filter.max_age) \in S
    BY DEF Asked
  <2> QED
    BY <2>1 DEF ToSet
<1> HIDE DEF S, Of, Part, ages
<1>3. ListFields = {"animal_types", "sizes", "genders", "care_levels", "colors", "good_withs",
                    "statuses", "breeds", "city_ids"}
  BY DEF ListFields, EnumFields
<1>4. BuildConditions(filter)
        = Part("breeds") \o Part("city_ids") \o Part("animal_types") \o Part("sizes")
          \o Part("genders") \o Part("care_levels") \o Part("colors") \o Part("good_withs")
          \o Part("statuses") \o ages
  BY DEF BuildConditions, KeyOf, Part, ages
<1> DEFINE s1 == Part("breeds") \o Part("city_ids")
           s2 == s1 \o Part("animal_types")
           s3 == s2 \o Part("sizes")
           s4 == s3 \o Part("genders")
           s5 == s4 \o Part("care_levels")
           s6 == s5 \o Part("colors")
           s7 == s6 \o Part("good_withs")
           s8 == s7 \o Part("statuses")
<1>5. s1 \in Seq(S) /\ ToSet(s1) = Of("breeds") \cup Of("city_ids")
  BY <1>1, <1>3, ElementsOfBoth
<1>6. s2 \in Seq(S) /\ ToSet(s2) = Of("breeds") \cup Of("city_ids") \cup Of("animal_types")
  <2> HIDE DEF s1
  <2> QED
    BY <1>1, <1>3, <1>5, ElementsOfBoth
<1>7. s3 \in Seq(S) /\ ToSet(s3) = ToSet(s2) \cup Of("sizes")
  <2> HIDE DEF s2
  <2> QED
    BY <1>1, <1>3, <1>6, ElementsOfBoth
<1>8. s4 \in Seq(S) /\ ToSet(s4) = ToSet(s3) \cup Of("genders")
  <2> HIDE DEF s3
  <2> QED
    BY <1>1, <1>3, <1>7, ElementsOfBoth
<1>9. s5 \in Seq(S) /\ ToSet(s5) = ToSet(s4) \cup Of("care_levels")
  <2> HIDE DEF s4
  <2> QED
    BY <1>1, <1>3, <1>8, ElementsOfBoth
<1>10. s6 \in Seq(S) /\ ToSet(s6) = ToSet(s5) \cup Of("colors")
  <2> HIDE DEF s5
  <2> QED
    BY <1>1, <1>3, <1>9, ElementsOfBoth
<1>11. s7 \in Seq(S) /\ ToSet(s7) = ToSet(s6) \cup Of("good_withs")
  <2> HIDE DEF s6
  <2> QED
    BY <1>1, <1>3, <1>10, ElementsOfBoth
<1>12. s8 \in Seq(S) /\ ToSet(s8) = ToSet(s7) \cup Of("statuses")
  <2> HIDE DEF s7
  <2> QED
    BY <1>1, <1>3, <1>11, ElementsOfBoth
<1>13. s8 \o ages \in Seq(S) /\ ToSet(s8 \o ages) = ToSet(s8) \cup ToSet(ages)
  <2> HIDE DEF s8
  <2> QED
    BY <1>2, <1>12, ElementsOfBoth
<1>14. BuildConditions(filter) = s8 \o ages
  BY <1>4
<1> HIDE DEF s1, s2, s3, s4, s5, s6, s7, s8
<1>15. S = (UNION {Of(f) : f \in ListFields}) \cup ToSet(ages)
  BY <1>2 DEF Asked, Of, S
<1>16. UNION {Of(f) : f \in ListFields} = ToSet(s8)
  BY <1>3, <1>6, <1>7, <1>8, <1>9, <1>10, <1>11, <1>12
<1> QED
  BY <1>13, <1>14, <1>15, <1>16 DEF S

\* Whether the value of a column meets a condition.
Meets(condition, value) ==
  CASE condition.op = "any"   -> value \in condition.value
    [] condition.op = ">="    -> value >= condition.value
    [] condition.op = "<="    -> value <= condition.value
    [] condition.op = "ilike" -> ILike(value, <<"%">> \o condition.value \o <<"%">>)

\* Every placeholder of a clause is bound to its own condition's value, so a
\* clause selects the rows that meet all of its conditions.
LEMMA ClausesSelect ==
  ASSUME NEW S, NEW conditions \in Seq(S), NEW fields, NEW columns
  PROVE  SelectedRows(BuildQueryClause(conditions, fields, Null), columns)
           = {r \in DOMAIN columns : \A c \in ToSet(conditions) :
                Meets(c, columns[r][fields[c.column]])}
<1> DEFINE n == Len(conditions)
           clause == BuildQueryClause(conditions, fields, Null)
<1>1. n \in Nat /\ DOMAIN conditions = 1..n
  OBVIOUS
<1>2. /\ clause.where = [i \in 1..n |-> [column |-> fields[conditions[i].column],
                                        op |-> conditions[i].op, hole |-> i]]
      /\ clause.params = [i \in 1..n |-> conditions[i].value]
  BY DEF BuildQueryClause
<1> HIDE DEF clause
<1>3. ASSUME NEW r \in DOMAIN columns
      PROVE  (\A i \in DOMAIN clause.where :
                Holds(clause.where[i], clause.params, columns[r][clause.where[i].column]))
             <=> \A c \in ToSet(conditions) : Meets(c, columns[r][fields[c.column]])
  <2>1. ASSUME NEW i \in 1..n
        PROVE  Holds(clause.where[i], clause.params, columns[r][clause.where[i].column])
                 <=> Meets(conditions[i], columns[r][fields[conditions[i].column]])
    <3>1. /\ clause.where[i].column = fields[conditions[i].column]
          /\ clause.where[i].op = conditions[i].op
          /\ clause.params[clause.where[i].hole] = conditions[i].value
      BY <1>2
    <3>2. PICK v, p, op : /\ v = columns[r][fields[conditions[i].column]]
                          /\ p = conditions[i].value /\ op = conditions[i].op
      OBVIOUS
    <3> QED
      BY <3>1, <3>2 DEF Holds, Meets
  <2>2. DOMAIN clause.where = 1..n
    BY <1>2
  <2> QED
    BY <1>1, <2>1, <2>2 DEF ToSet
<1> QED
  BY <1>3 DEF SelectedRows, clause

\* A search whose names can be parsed finds the animals that its arguments
\* mean.
LEMMA SearchesFind ==
  ASSUME TablesSound, NEW args, IsSearch(args),
         \A f \in DOMAIN EnumFields \cap DOMAIN args : \A s \in args[f] : IsName(EnumFields[f], s)
  PROVE  SelectedRows(BuildQueryClause(BuildConditions(FromDto(ParseFilters(args))), AnimalFields, Null),
                      [a \in live \cap Animals |-> AnimalColumns(a)])
           = {a \in live \cap Animals : Meant(args, a)}
<1> DEFINE filter == FromDto(ParseFilters(args))
           columns == [a \in live \cap Animals |-> AnimalColumns(a)]
           Given(f) == f \in DOMAIN args /\ args[f] # {}
<1>1. ASSUME NEW f \in ListFields
      PROVE  /\ filter[f] = {} <=> ~Given(f)
             /\ Given(f) => SentValues(f, filter[f]) = args[f]
  <2>1. f \in FilterFields /\ f \notin {"min_age", "max_age", "age_gte", "age_lte"}
    BY DEF ListFields, FilterFields, EnumFields
  <2>2. filter[f] = IF f \in DOMAIN ParseFilters(args) THEN ParseFilters(args)[f] ELSE {}
    BY <2>1 DEF FromDto
  <2>3. f \in DOMAIN ParseFilters(args) <=> Given(f)
    BY DEF ParseFilters
  <2>4. Given(f) => ParseFilters(args)[f] = IF f \in DOMAIN EnumFields
                                            THEN {FromJson(EnumFields[f], s) : s \in args[f]}
                                            ELSE args[f]
    BY DEF ParseFilters
  <2>5. CASE f \in DOMAIN EnumFields
    <3>1. EnumFields[f] \in Attributes
      BY <2>5 DEF EnumFields, Attributes, Enumerators
    <3>2. ASSUME Given(f), NEW s \in args[f]
          PROVE  Literal(EnumFields[f], FromJson(EnumFields[f], s)) = s
      BY <2>5, <3>1, <3>2, NamesSurvive
    <3> HIDE DEF filter
    <3> QED
      BY <2>2, <2>3, <2>4, <2>5, <3>2 DEF SentValues
  <2>6. CASE f \notin DOMAIN EnumFields
    <3> HIDE DEF filter
    <3> QED
      BY <2>2, <2>3, <2>4, <2>6 DEF SentValues
  <2> QED
    BY <2>5, <2>6
<1>2. /\ filter.min_age = IF "age_gte" \in DOMAIN args THEN args.age_gte ELSE 0
      /\ filter.max_age = IF "age_lte" \in DOMAIN args THEN args.age_lte ELSE 100
  <2>1. "age_gte" \notin ListFields /\ "age_lte" \notin ListFields
        /\ "age_gte" \notin DOMAIN EnumFields /\ "age_lte" \notin DOMAIN EnumFields
    BY DEF ListFields, EnumFields
  <2> QED
    BY <2>1 DEF FromDto, FilterFields, ParseFilters
<1> HIDE DEF filter
<1>3. ASSUME NEW a \in live \cap Animals
      PROVE  (\A c \in Asked(filter) : Meets(c, columns[a][AnimalFields[c.column]]))
               <=> Meant(args, a)
  <2> DEFINE value(f) == columns[a][AnimalFields[KeyOf[f]]]
             age == columns[a][AnimalFields["age"]]
  <2>1. (\A c \in Asked(filter) : Meets(c, columns[a][AnimalFields[c.column]]))
          <=> /\ \A f \in ListFields : filter[f] # {} => value(f) \in SentValues(f, filter[f])
              /\ age >= filter.min_age /\ age <= filter.max_age
    <3>1. ASSUME NEW f \in ListFields
          PROVE  /\ Listed(filter, f).column = KeyOf[f]
                 /\ Meets(Listed(filter, f), value(f)) <=> value(f) \in SentValues(f, filter[f])
      BY DEF Listed, Condition, Meets
    <3>2. /\ Meets(Condition("age", ">=", filter.min_age), age) <=> age >= filter.min_age
          /\ Meets(Condition("age", "<=", filter.max_age), age) <=> age <= filter.max_age
          /\ Condition("age", ">=", filter.min_age).column = "age"
          /\ Condition("age", "<=", filter.max_age).column = "age"
      BY DEF Meets, Condition
    <3> HIDE DEF columns
    <3> QED
      BY <3>1, <3>2 DEF Asked
  <2>2. /\ value("breeds") = animals[a].breed_id /\ value("city_ids") = CityOf[OrgOf(a)]
        /\ value("animal_types") = BreedType[animals[a].breed_id]
        /\ value("sizes") = animals[a].size /\ value("genders") = animals[a].gender
        /\ value("care_levels") = animals[a].care_level /\ value("colors") = animals[a].color
        /\ value("good_withs") = animals[a].good_with /\ value("statuses") = animals[a].status
        /\ age = animals[a].age
    BY DEF KeyOf, AnimalFields, AnimalColumns
  <2> HIDE DEF columns, value, age
  <2>3. ASSUME NEW c \in EnumColumns
        PROVE  Served(animals[a])[c] = animals[a][c]
    <3>1. IsName(c, animals[a][c]) /\ c \in Attributes /\ c \in BodyColumns
      BY <2>3, TypesAreNames, Columns DEF TablesSound, IsRow, FitsEnumTypes, BodyColumns
    <3> QED
      BY <2>3, <3>1, NamesSurvive DEF Served
  <2>4. {"size", "gender", "care_level", "color", "status", "good_with"} \subseteq EnumColumns
    BY DEF EnumColumns, Attributes, Enumerators
  <2>5. ASSUME NEW f \in ListFields
        PROVE  (filter[f] # {} => value(f) \in SentValues(f, filter[f]))
                 <=> (f \notin DOMAIN args \/ args[f] = {} \/ value(f) \in args[f])
    BY <1>1
  <2>6. ListFields = {"animal_types", "sizes", "genders", "care_levels", "colors", "good_withs",
                      "statuses", "breeds", "city_ids"}
    BY DEF ListFields, EnumFields
  <2>7. (\A f \in ListFields : filter[f] # {} => value(f) \in SentValues(f, filter[f]))
        <=> \A f \in ListFields : f \notin DOMAIN args \/ args[f] = {} \/ value(f) \in args[f]
    BY <2>5
  <2>8. Served(animals[a]).size = animals[a].size /\ Served(animals[a]).gender = animals[a].gender
        /\ Served(animals[a]).care_level = animals[a].care_level
        /\ Served(animals[a]).color = animals[a].color
        /\ Served(animals[a]).status = animals[a].status
        /\ Served(animals[a]).good_with = animals[a].good_with
    BY <2>3, <2>4
  <2> QED
    BY <1>2, <2>1, <2>2, <2>6, <2>7, <2>8 DEF Meant
<1> DEFINE conditions == BuildConditions(filter)
<1>4. conditions \in Seq(Asked(filter)) /\ ToSet(conditions) = Asked(filter)
  BY ConditionsAsked
<1>5. DOMAIN columns = live \cap Animals
  OBVIOUS
<1> HIDE DEF conditions, columns
<1>6. SelectedRows(BuildQueryClause(conditions, AnimalFields, Null), columns)
        = {r \in DOMAIN columns : \A c \in ToSet(conditions) :
             Meets(c, columns[r][AnimalFields[c.column]])}
  BY <1>4, ClausesSelect
<1>7. SelectedRows(BuildQueryClause(conditions, AnimalFields, Null), columns)
        = {a \in live \cap Animals : Meant(args, a)}
  BY <1>3, <1>4, <1>5, <1>6
<1> QED
  BY <1>7 DEF conditions, columns, filter

-----------------------------------------------------------------------------
(* The names that match a pattern.                                         *)

\* Induction on a set of numbers.
LEMMA Upwards ==
  ASSUME NEW T \in SUBSET Nat, 0 \in T, \A k \in T : k + 1 \in T
  PROVE  T = Nat
<1> SUFFICES ASSUME Nat \ T # {}
             PROVE  FALSE
  OBVIOUS
<1>1. PICK k \in Nat \ T : \A j \in Nat \ T : ~(<<j, k>> \in OpToRel(<, Nat))
  BY NatLessThanWellFounded, WFMin
<1>2. \A j \in Nat \ T : ~(j < k)
  BY <1>1 DEF OpToRel
<1>3. k # 0 /\ k - 1 \in Nat
  OBVIOUS
<1>4. k - 1 \in T
  BY <1>2, <1>3
<1> QED
  BY <1>3, <1>4

\* Induction from the end of an interval.
LEMMA Downwards ==
  ASSUME NEW n \in Nat, NEW T, n \in T, \A k \in 0..(n - 1) : k + 1 \in T => k \in T
  PROVE  0..n \subseteq T
<1> DEFINE U == {d \in Nat : d <= n => n - d \in T}
<1>1. 0 \in U
  OBVIOUS
<1>2. ASSUME NEW d \in U
      PROVE  d + 1 \in U
  <2>1. CASE d + 1 <= n
    <3>1. d \in Nat /\ n - (d + 1) \in 0..(n - 1) /\ (n - (d + 1)) + 1 = n - d /\ n - d \in T
      BY <2>1
    <3> QED
      BY <3>1
  <2>2. CASE ~(d + 1 <= n)
    BY <2>2
  <2> QED
    BY <2>1, <2>2
<1> HIDE DEF U
<1>3. U = Nat
  <2>1. U \in SUBSET Nat
    BY DEF U
  <2> QED
    BY <1>1, <1>2, <2>1, Upwards
<1>4. ASSUME NEW k \in 0..n
      PROVE  k \in T
  <2>1. n - k \in U /\ n - k <= n /\ n - (n - k) = k
    BY <1>3
  <2> QED
    BY <2>1 DEF U
<1> QED
  BY <1>4

\* What the table of ILike says of the pattern from i on and the text from j
\* on, in terms of the positions behind.
LikeCell(text, pattern, f, i, j) ==
  IF i > Len(pattern) THEN i = Len(pattern) + 1 /\ j = Len(text) + 1
  ELSE IF pattern[i] = "%" THEN f[<<i + 1, j>>] \/ (j <= Len(text) /\ f[<<i, j + 1>>])
  ELSE IF j > Len(text) THEN FALSE
  ELSE IF pattern[i] = "\\"
       THEN i < Len(pattern) /\ SameLetter(pattern[i + 1], text[j]) /\ f[<<i + 2, j + 1>>]
  ELSE (pattern[i] = "_" \/ SameLetter(pattern[i], text[j])) /\ f[<<i + 1, j + 1>>]

LikeTable(text, pattern, f) ==
  f = [p \in (1..(Len(pattern) + 2)) \X (1..(Len(text) + 1)) |->
         LikeCell(text, pattern, f, p[1], p[2])]

\* There is such a table: it can be filled from the end.
LEMMA TableExists ==
  ASSUME NEW S, NEW text \in Seq(S), NEW pattern \in Seq(S)
  PROVE  \E f : LikeTable(text, pattern, f)
<1> DEFINE m == Len(pattern)
           n == Len(text)
           Left(i, j) == (m + 2 - i) + (n + 1 - j)
           Filled(k) == {f \in [(1..(m + 2)) \X (1..(n + 1)) -> BOOLEAN] :
                           \A i \in 1..(m + 2), j \in 1..(n + 1) :
                             Left(i, j) < k => f[<<i, j>>] = LikeCell(text, pattern, f, i, j)}
           T == {k \in Nat : Filled(k) # {}}
<1>1. m \in Nat /\ n \in Nat
  OBVIOUS
<1>2. 0 \in T
  <2>1. [p \in (1..(m + 2)) \X (1..(n + 1)) |-> FALSE] \in Filled(0)
    BY <1>1
  <2> QED
    BY <2>1
<1>3. ASSUME NEW k \in T
      PROVE  k + 1 \in T
  <2>1. k \in Nat
    BY <1>3
  <2>0. PICK f \in Filled(k) : TRUE
    BY <1>3
  <2> DEFINE g == [p \in (1..(m + 2)) \X (1..(n + 1)) |->
                     IF Left(p[1], p[2]) < k THEN f[p] ELSE LikeCell(text, pattern, f, p[1], p[2])]
  <2>2. g \in [(1..(m + 2)) \X (1..(n + 1)) -> BOOLEAN]
    <3>1. ASSUME NEW i \in 1..(m + 2), NEW j \in 1..(n + 1)
          PROVE  f[<<i, j>>] \in BOOLEAN /\ LikeCell(text, pattern, f, i, j) \in BOOLEAN
      BY <2>0 DEF LikeCell
    <3> QED
      BY <3>1
  <2>3. ASSUME NEW i \in 1..(m + 2), NEW j \in 1..(n + 1), Left(i, j) < k + 1
        PROVE  g[<<i, j>>] = LikeCell(text, pattern, g, i, j)
    <3>1. g[<<i, j>>] = LikeCell(text, pattern, f, i, j)
      BY <2>0, <2>1, <2>3
    <3>2. ASSUME NEW a \in 1..(m + 2), NEW b \in 1..(n + 1), Left(a, b) < Left(i, j)
          PROVE  g[<<a, b>>] = f[<<a, b>>]
      <4>1. Left(a, b) < k
        BY <1>1, <2>1, <2>3, <3>2
      <4> HIDE DEF Left
      <4> QED
        BY <4>1
    <3>3. i <= m => /\ i + 1 \in 1..(m + 2) /\ i + 2 \in 1..(m + 2)
                    /\ Left(i + 1, j) < Left(i, j)
      BY <1>1
    <3>4. j <= n => /\ j + 1 \in 1..(n + 1) /\ Left(i, j + 1) < Left(i, j)
                    /\ Left(i + 1, j + 1) < Left(i, j) /\ Left(i + 2, j + 1) < Left(i, j)
      BY <1>1
    <3> HIDE DEF g, Left
    <3>5. /\ i <= m => g[<<i + 1, j>>] = f[<<i + 1, j>>]
          /\ j <= n => g[<<i, j + 1>>] = f[<<i, j + 1>>]
          /\ i <= m /\ j <= n => g[<<i + 1, j + 1>>] = f[<<i + 1, j + 1>>] /\ g[<<i + 2, j + 1>>] = f[<<i + 2, j + 1>>]
      BY <3>2, <3>3, <3>4
    <3>6. (i > m <=> ~(i <= m)) /\ (j > n <=> ~(j <= n))
      BY <1>1
    <3> QED
      BY <3>1, <3>5, <3>6 DEF LikeCell
  <2> HIDE DEF g
  <2>4. g \in Filled(k + 1)
    BY <2>2, <2>3
  <2> HIDE DEF Filled
  <2> QED
    BY <2>1, <2>4
<1>4. m + n + 4 \in T
  <2>1. T = Nat
    <3>1. T \in SUBSET Nat
      OBVIOUS
    <3> HIDE DEF T
    <3> QED
      BY <1>2, <1>3, <3>1, Upwards
  <2> HIDE DEF T
  <2> QED
    BY <1>1, <2>1
<1>5. PICK f \in Filled(m + n + 4) : TRUE
  <2> HIDE DEF Filled
  <2> QED
    BY <1>4
<1>6. \A i \in 1..(m + 2), j \in 1..(n + 1) : f[<<i, j>>] = LikeCell(text, pattern, f, i, j)
  <2> SUFFICES ASSUME NEW i \in 1..(m + 2), NEW j \in 1..(n + 1)
               PROVE  f[<<i, j>>] = LikeCell(text, pattern, f, i, j)
    OBVIOUS
  <2>1. Left(i, j) < m + n + 4
    BY <1>1
  <2> HIDE DEF Left
  <2> QED
    BY <1>5, <2>1
<1>7. f = [p \in (1..(m + 2)) \X (1..(n + 1)) |-> f[p]]
  BY <1>5
<1>8. f = [p \in (1..(m + 2)) \X (1..(n + 1)) |-> LikeCell(text, pattern, f, p[1], p[2])]
  <2>1. \A p \in (1..(m + 2)) \X (1..(n + 1)) : f[p] = LikeCell(text, pattern, f, p[1], p[2])
    BY <1>6
  <2> QED
    BY <1>7, <2>1
<1> QED
  BY <1>8 DEF LikeTable

\* So ILIKE looks up its first position.
LEMMA LikeIsItsTable ==
  ASSUME NEW S, NEW text \in Seq(S), NEW pattern \in Seq(S)
  PROVE  \E f : LikeTable(text, pattern, f) /\ ILike(text, pattern) = f[<<1, 1>>]
<1> DEFINE f == CHOOSE f : LikeTable(text, pattern, f)
<1>1. LikeTable(text, pattern, f)
  BY TableExists
<1>2. ILike(text, pattern) = f[<<1, 1>>]
  BY DEF ILike, LikeTable, LikeCell
<1> QED
  BY <1>1, <1>2

\* A function into the integers has a least value on a finite set.
LEMMA LeastValue ==
  ASSUME NEW S, IsFiniteSet(S), S # {}, NEW f \in [S -> Int]
  PROVE  \E x \in S : \A y \in S : f[x] <= f[y]
<1> DEFINE Less(x) == {y \in S : f[y] < f[x]}
           Sizes == {Cardinality(Less(x)) : x \in S}
<1>1. ASSUME NEW x \in S
      PROVE  IsFiniteSet(Less(x)) /\ Cardinality(Less(x)) \in Nat
  <2>1. Less(x) \in SUBSET S
    OBVIOUS
  <2> HIDE DEF Less
  <2> QED
    BY <2>1, FS_Subset, FS_CardinalityType
<1>2. ASSUME NEW x \in S, NEW y \in S, f[y] < f[x]
      PROVE  Cardinality(Less(y)) < Cardinality(Less(x))
  <2>1. Less(y) \in SUBSET Less(x) /\ Less(y) # Less(x)
    <3>1. y \in Less(x) /\ y \notin Less(y)
      BY <1>2
    <3>2. \A z \in Less(y) : z \in Less(x)
      BY <1>2
    <3> HIDE DEF Less
    <3> QED
      BY <3>1, <3>2
  <2>2. IsFiniteSet(Less(x)) /\ Cardinality(Less(x)) \in Nat /\ Cardinality(Less(y)) \in Nat
    BY <1>1
  <2> HIDE DEF Less
  <2>3. /\ Cardinality(Less(y)) <= Cardinality(Less(x))
        /\ Cardinality(Less(x)) = Cardinality(Less(y)) => Less(x) = Less(y)
    BY <2>1, <2>2, FS_Subset
  <2> QED
    BY <2>1, <2>2, <2>3
<1> HIDE DEF Less
<1>3. Sizes \subseteq Nat /\ Sizes # {}
  BY <1>1
<1>4. PICK n \in Sizes : \A m \in Sizes : ~(<<m, n>> \in OpToRel(<, Nat))
  <2> HIDE DEF Sizes
  <2> QED
    BY <1>3, NatLessThanWellFounded, WFMin
<1>5. PICK x \in S : n = Cardinality(Less(x))
  BY <1>4
<1>6. \A m \in Sizes : ~(m < n)
  <2> HIDE DEF Sizes
  <2> QED
    BY <1>3, <1>4 DEF OpToRel
<1>7. \A y \in S : ~(f[y] < f[x])
  BY <1>2, <1>5, <1>6
<1> QED
  BY <1>7

\* A nonempty set of positions has a last one.
LEMMA LastPosition ==
  ASSUME NEW n \in Nat, NEW s \in SUBSET (1..n), s # {}
  PROVE  Max(s) \in s /\ IsFiniteSet(s) /\ \A i \in s : i <= Max(s)
<1>1. IsFiniteSet(s)
  <2>1. IsFiniteSet(1..n)
    BY FS_Interval
  <2> QED
    BY <2>1, FS_Subset
<1> DEFINE f == [i \in s |-> 0 - i]
<1>2. f \in [s -> Int] /\ \A i \in s : f[i] = 0 - i
  OBVIOUS
<1> HIDE DEF f
<1>3. PICK x \in s : \A i \in s : f[x] <= f[i]
  BY <1>1, <1>2, LeastValue
<1>4. \A i \in s : x >= i
  BY <1>2, <1>3
<1>5. Max(s) \in s /\ \A i \in s : Max(s) >= i
  BY <1>3, <1>4 DEF Max
<1> QED
  BY <1>1, <1>5

\* What stands for a character in a pattern.
Wildcards == {"%", "_", "\\"}
Escaped(c) ==
  IF c \in Wildcards THEN <<"\\", c>> ELSE <<c>>

\* It is made of the same characters.
LEMMA EscapedIsSeq == ASSUME NEW S, "\\" \in S, NEW c \in S PROVE Escaped(c) \in Seq(S)
<1>1. <<"\\", c>> \in Seq(S) /\ <<c>> \in Seq(S)
  OBVIOUS
<1> QED
  BY <1>1 DEF Escaped

\* One step of the fold, which takes the last position of a set away.
EscapeCell(text, f, s) ==
  IF s = {} THEN <<>> ELSE f[s \ {Max(s)}] \o Escaped(text[Max(s)])

\* The fold of EscapeForLike is defined for every set of positions.
LEMMA FoldExists ==
  ASSUME NEW S, "\\" \in S, NEW text \in Seq(S)
  PROVE  \E f \in [SUBSET (1..Len(text)) -> Seq(S)] :
           f = [s \in SUBSET (1..Len(text)) |-> EscapeCell(text, f, s)]
<1> DEFINE n == Len(text)
           Parts == SUBSET (1..n)
           Filled(k) == {f \in [Parts -> Seq(S)] :
                           \A s \in Parts : Cardinality(s) < k => f[s] = EscapeCell(text, f, s)}
           T == {k \in Nat : Filled(k) # {}}
<1>1. n \in Nat /\ \A i \in 1..n : text[i] \in S
  OBVIOUS
<1>2. ASSUME NEW s \in Parts
      PROVE  IsFiniteSet(s) /\ Cardinality(s) \in Nat /\ Cardinality(s) <= n
  <2>1. IsFiniteSet(1..n) /\ Cardinality(1..n) = n
    <3>1. IsFiniteSet(1..n) /\ Cardinality(1..n) = IF 1 > n THEN 0 ELSE n - 1 + 1
      BY <1>1, FS_Interval
    <3> QED
      BY <1>1, <3>1
  <2>2. IsFiniteSet(s) /\ Cardinality(s) <= Cardinality(1..n)
    BY <2>1, FS_Subset
  <2> QED
    BY <2>1, <2>2, FS_CardinalityType
<1>3. ASSUME NEW s \in Parts, s # {}
      PROVE  /\ Max(s) \in 1..n /\ s \ {Max(s)} \in Parts
             /\ Cardinality(s \ {Max(s)}) = Cardinality(s) - 1
  <2>1. Max(s) \in s
    BY <1>1, <1>3, LastPosition
  <2>2. Cardinality(s \ {Max(s)}) = Cardinality(s) - 1
    BY <1>2, <2>1, FS_RemoveElement
  <2> QED
    BY <2>1, <2>2
<1>4. ASSUME NEW f \in [Parts -> Seq(S)], NEW s \in Parts
      PROVE  EscapeCell(text, f, s) \in Seq(S)
  <2>1. CASE s = {}
    BY <2>1 DEF EscapeCell
  <2>2. CASE s # {}
    <3>1. PICK c, w : c = text[Max(s)] /\ w = f[s \ {Max(s)}]
      OBVIOUS
    <3>2. c \in S /\ w \in Seq(S)
      BY <1>1, <1>3, <2>2, <3>1
    <3>3. Escaped(c) \in Seq(S)
      BY <3>2, EscapedIsSeq
    <3>4. EscapeCell(text, f, s) = w \o Escaped(c)
      BY <2>2, <3>1 DEF EscapeCell
    <3> QED
      BY <3>2, <3>3, <3>4
  <2> QED
    BY <2>1, <2>2
<1> HIDE DEF Parts
<1>5. 0 \in T
  <2>1. [s \in Parts |-> <<>>] \in [Parts -> Seq(S)]
    OBVIOUS
  <2>2. \A s \in Parts : ~(Cardinality(s) < 0)
    BY <1>2
  <2>3. [s \in Parts |-> <<>>] \in Filled(0)
    BY <2>1, <2>2
  <2> HIDE DEF Filled
  <2> QED
    BY <2>3
<1>6. ASSUME NEW k \in T
      PROVE  k + 1 \in T
  <2>1. k \in Nat
    BY <1>6
  <2>2. PICK f \in Filled(k) : TRUE
    BY <1>6
  <2> DEFINE g == [s \in Parts |-> IF Cardinality(s) < k THEN f[s] ELSE EscapeCell(text, f, s)]
  <2>3. f \in [Parts -> Seq(S)]
    BY <2>2
  <2>4. g \in [Parts -> Seq(S)]
    BY <1>4, <2>3
  <2>5. ASSUME NEW s \in Parts, Cardinality(s) < k + 1
        PROVE  g[s] = EscapeCell(text, g, s)
    <3>1. g[s] = EscapeCell(text, f, s)
      BY <2>2
    <3>2. s # {} => g[s \ {Max(s)}] = f[s \ {Max(s)}]
      <4>1. ASSUME s # {}
            PROVE  Cardinality(s \ {Max(s)}) < k /\ s \ {Max(s)} \in Parts
        <5>1. Cardinality(s) \in Nat /\ s \ {Max(s)} \in Parts
              /\ Cardinality(s \ {Max(s)}) = Cardinality(s) - 1
          BY <1>2, <1>3, <4>1
        <5> QED
          BY <2>1, <2>5, <5>1
      <4> QED
        BY <4>1
    <3> HIDE DEF g
    <3> QED
      BY <3>1, <3>2 DEF EscapeCell
  <2> HIDE DEF g
  <2>6. g \in Filled(k + 1)
    BY <2>4, <2>5
  <2> HIDE DEF Filled
  <2> QED
    BY <2>1, <2>6
<1>7. n + 1 \in T
  <2>1. T = Nat
    <3>1. T \in SUBSET Nat
      OBVIOUS
    <3> HIDE DEF T
    <3> QED
      BY <1>5, <1>6, <3>1, Upwards
  <2> HIDE DEF T
  <2> QED
    BY <1>1, <2>1
<1>8. PICK f \in Filled(n + 1) : TRUE
  <2> HIDE DEF Filled
  <2> QED
    BY <1>7
<1>9. f \in [Parts -> Seq(S)] /\ \A s \in Parts : f[s] = EscapeCell(text, f, s)
  BY <1>1, <1>2, <1>8
<1>10. f = [s \in Parts |-> EscapeCell(text, f, s)]
  BY <1>9
<1> QED
  BY <1>9, <1>10 DEF Parts

\* The pattern grows by what stands for each character.
LEMMA EscapesInOrder ==
  ASSUME NEW S, "\\" \in S, NEW text \in Seq(S)
  PROVE  \E e \in [0..Len(text) -> Seq(S)] :
           /\ e[0] = <<>> /\ e[Len(text)] = EscapeForLike(text)
           /\ \A k \in 0..(Len(text) - 1) : e[k + 1] = e[k] \o Escaped(text[k + 1])
<1> DEFINE n == Len(text)
           f == CHOOSE f : f = [s \in SUBSET (1..n) |-> EscapeCell(text, f, s)]
           e == [k \in 0..n |-> f[1..k]]
<1>1. n \in Nat /\ DOMAIN text = 1..n
  OBVIOUS
<1>2. EscapeForLike(text) = f[1..n]
  BY <1>1 DEF EscapeForLike, FoldLeft, MapThenFoldSet, EscapeCell, Escaped, Wildcards
<1>3. f = [s \in SUBSET (1..n) |-> EscapeCell(text, f, s)]
  BY FoldExists
<1> HIDE DEF f
<1>4. ASSUME NEW k \in 0..n
      PROVE  1..k \in SUBSET (1..n) /\ f[1..k] = EscapeCell(text, f, 1..k)
  <2>1. 1..k \in SUBSET (1..n)
    BY <1>1
  <2> QED
    BY <1>3, <2>1
<1>5. f[1..0] = <<>>
  <2>1. 0 \in 0..n /\ 1..0 = {}
    BY <1>1
  <2> QED
    BY <1>4, <2>1 DEF EscapeCell
<1>6. ASSUME NEW k \in 0..(n - 1)
      PROVE  f[1..(k + 1)] = f[1..k] \o Escaped(text[k + 1])
  <2>1. k + 1 \in 0..n /\ k + 1 \in 1..(k + 1) /\ 1..(k + 1) # {} /\ k + 1 \in Nat
    <3>1. k \in Nat /\ k + 1 <= n
      BY <1>1
    <3>2. k + 1 \in 0..n /\ k + 1 \in 1..(k + 1) /\ k + 1 \in Nat
      BY <1>1, <3>1
    <3>3. 1..(k + 1) # {}
      BY <3>2, Zenon
    <3> QED
      BY <3>2, <3>3, Zenon
  <2>2. PICK s : s = 1..(k + 1)
    OBVIOUS
  <2>3. Max(s) \in s /\ \A i \in s : i <= Max(s)
    BY <2>1, <2>2, LastPosition
  <2>4. Max(s) = k + 1
    BY <2>1, <2>2, <2>3
  <2>5. s \ {k + 1} = 1..k
    BY <1>6, <2>2
  <2> QED
    BY <1>4, <2>1, <2>2, <2>4, <2>5 DEF EscapeCell
<1>7. ASSUME NEW k \in 0..n
      PROVE  f[1..k] \in Seq(S)
  <2> DEFINE K == {i \in Nat : i <= n => f[1..i] \in Seq(S)}
  <2>2. 0 \in K
    <3>1. <<>> \in Seq(S)
      OBVIOUS
    <3> QED
      BY <1>5, <3>1
  <2>3. ASSUME NEW i \in K
        PROVE  i + 1 \in K
    <3>1. CASE i + 1 <= n
      <4>1. i \in 0..(n - 1) /\ f[1..i] \in Seq(S) /\ i + 1 \in 1..n
        BY <1>1, <3>1
      <4>2. text[i + 1] \in S
        BY <4>1
      <4>3. PICK c, w : c = text[i + 1] /\ w = f[1..i]
        OBVIOUS
      <4>4. Escaped(c) \in Seq(S) /\ w \in Seq(S)
        BY <4>1, <4>2, <4>3, EscapedIsSeq
      <4>5. f[1..(i + 1)] = w \o Escaped(c)
        BY <1>6, <4>1, <4>3
      <4>6. w \o Escaped(c) \in Seq(S)
        BY <4>4
      <4>7. i + 1 \in Nat /\ f[1..(i + 1)] \in Seq(S)
        BY <4>1, <4>5, <4>6
      <4> QED
        BY <4>7
    <3>2. CASE ~(i + 1 <= n)
      BY <3>2
    <3> QED
      BY <3>1, <3>2
  <2>4. K = Nat
    <3>1. K \in SUBSET Nat
      OBVIOUS
    <3> HIDE DEF K
    <3> QED
      BY <2>2, <2>3, <3>1, Upwards
  <2>5. k \in K /\ k <= n
    BY <1>1, <2>4
  <2> QED
    BY <2>5
<1>8. e \in [0..n -> Seq(S)]
  BY <1>7
<1>9. e[0] = <<>> /\ e[n] = EscapeForLike(text)
  BY <1>1, <1>2, <1>5
<1>10. \A k \in 0..(n - 1) : e[k + 1] = e[k] \o Escaped(text[k + 1])
  BY <1>1, <1>6
<1> QED
  BY <1>8, <1>9, <1>10

\* Where what stands for the first k characters of the text ends in the
\* pattern.
EndsAt(at, text, pattern) ==
  /\ at[0] = 0 /\ at[Len(text)] = Len(pattern)
  /\ \A k \in 0..(Len(text) - 1) :
       /\ at[k + 1] <= Len(pattern)
       /\ IF text[k + 1] \in Wildcards
          THEN /\ at[k + 1] = at[k] + 2
               /\ pattern[at[k] + 1] = "\\" /\ pattern[at[k] + 2] = text[k + 1]
          ELSE at[k + 1] = at[k] + 1 /\ pattern[at[k] + 1] = text[k + 1]

\* Every character has its place.
LEMMA EscapesAt ==
  ASSUME NEW S, "\\" \in S, NEW text \in Seq(S)
  PROVE  /\ EscapeForLike(text) \in Seq(S)
         /\ \E at \in [0..Len(text) -> Nat] : EndsAt(at, text, EscapeForLike(text))
<1>1. PICK n, pattern : n = Len(text) /\ pattern = EscapeForLike(text)
  OBVIOUS
<1>2. PICK e \in [0..n -> Seq(S)] :
        /\ e[0] = <<>> /\ e[n] = pattern
        /\ \A k \in 0..(n - 1) : e[k + 1] = e[k] \o Escaped(text[k + 1])
  BY <1>1, EscapesInOrder
<1>3. n \in Nat /\ \A k \in 1..n : text[k] \in S
  BY <1>1
<1> DEFINE at == [k \in 0..n |-> Len(e[k])]
           Begins(k) == /\ Len(e[k]) <= Len(pattern)
                        /\ \A i \in 1..Len(e[k]) : pattern[i] = e[k][i]
<1>4. ASSUME NEW k \in 0..(n - 1)
      PROVE  /\ k \in 0..n /\ k + 1 \in 0..n /\ text[k + 1] \in S
             /\ e[k] \in Seq(S) /\ Escaped(text[k + 1]) \in Seq(S)
             /\ e[k + 1] = e[k] \o Escaped(text[k + 1])
  <2>1. k \in 0..n /\ k + 1 \in 0..n /\ k + 1 \in 1..n
    BY <1>3
  <2> QED
    BY <1>2, <1>3, <2>1, EscapedIsSeq
<1>5. \A k \in 0..n : Begins(k)
  <2> DEFINE T == {k \in 0..n : Begins(k)}
  <2>1. n \in T
    BY <1>2, <1>3
  <2>2. ASSUME NEW k \in 0..(n - 1), k + 1 \in T
        PROVE  k \in T
    <3>1. PICK u, w, v : u = e[k] /\ w = Escaped(text[k + 1]) /\ v = e[k + 1]
      OBVIOUS
    <3>2. u \in Seq(S) /\ w \in Seq(S) /\ v = u \o w
      BY <1>4, <3>1
    <3>3. Len(u) <= Len(v) /\ (\A i \in 1..Len(u) : v[i] = u[i] /\ i \in 1..Len(v))
          /\ Len(u) \in Nat /\ Len(v) \in Nat
      BY <3>2
    <3>4. Len(v) <= Len(pattern) /\ \A i \in 1..Len(v) : pattern[i] = v[i]
      BY <2>2, <3>1
    <3>5. pattern \in Seq(S) /\ Len(pattern) \in Nat
      BY <1>2, <1>3
    <3>6. Len(u) <= Len(pattern) /\ \A i \in 1..Len(u) : pattern[i] = u[i]
      BY <3>3, <3>4, <3>5
    <3> QED
      BY <1>4, <3>1, <3>6
  <2> HIDE DEF T
  <2>3. 0..n \subseteq T
    BY <1>3, <2>1, <2>2, Downwards
  <2> QED
    BY <2>3 DEF T
<1>6. ASSUME NEW k \in 0..(n - 1), NEW c, c = text[k + 1]
      PROVE  /\ at[k + 1] <= Len(pattern)
             /\ IF c \in Wildcards
                THEN /\ at[k + 1] = at[k] + 2
                     /\ pattern[at[k] + 1] = "\\" /\ pattern[at[k] + 2] = c
                ELSE at[k + 1] = at[k] + 1 /\ pattern[at[k] + 1] = c
  <2>1. PICK u, v : u = e[k] /\ v = e[k + 1]
    OBVIOUS
  <2>2. at[k] = Len(u) /\ at[k + 1] = Len(v) /\ u \in Seq(S) /\ v = u \o Escaped(c) /\ c \in S
    BY <1>4, <1>6, <2>1
  <2>3. Len(v) <= Len(pattern) /\ \A i \in 1..Len(v) : pattern[i] = v[i]
    BY <1>4, <1>5, <2>1
  <2> HIDE DEF at
  <2>4. CASE c \in Wildcards
    <3>1. v = u \o <<"\\", c>>
      BY <2>2, <2>4 DEF Escaped
    <3>2. /\ Len(v) = Len(u) + 2 /\ v[Len(u) + 1] = "\\" /\ v[Len(u) + 2] = c
          /\ Len(u) + 1 \in 1..Len(v) /\ Len(u) + 2 \in 1..Len(v)
      BY <2>2, <3>1
    <3> QED
      BY <2>2, <2>3, <2>4, <3>2
  <2>5. CASE c \notin Wildcards
    <3>1. v = u \o <<c>>
      BY <2>2, <2>5 DEF Escaped
    <3>2. Len(v) = Len(u) + 1 /\ v[Len(u) + 1] = c /\ Len(u) + 1 \in 1..Len(v)
      BY <2>2, <3>1
    <3> QED
      BY <2>2, <2>3, <2>5, <3>2
  <2> QED
    BY <2>4, <2>5
<1>7. at \in [0..n -> Nat] /\ at[0] = 0 /\ at[n] = Len(pattern) /\ pattern \in Seq(S)
  BY <1>2, <1>3
<1>8. \A k \in 0..(n - 1) :
        /\ at[k + 1] <= Len(pattern)
        /\ IF text[k + 1] \in Wildcards
           THEN /\ at[k + 1] = at[k] + 2
                /\ pattern[at[k] + 1] = "\\" /\ pattern[at[k] + 2] = text[k + 1]
           ELSE at[k + 1] = at[k] + 1 /\ pattern[at[k] + 1] = text[k + 1]
  <2> HIDE DEF at
  <2> QED
    BY <1>6
<1> HIDE DEF at
<1> QED
  BY <1>1, <1>7, <1>8 DEF EndsAt

\* Both kinds of characters compare one letter and go on.
LEMMA CellOfEscape ==
  ASSUME NEW text, NEW pattern, NEW f, NEW i, NEW j, ~(i > Len(pattern)),
         pattern[i] = "\\", i < Len(pattern)
  PROVE  LikeCell(text, pattern, f, i, j)
           <=> /\ ~(j > Len(text)) /\ SameLetter(pattern[i + 1], text[j])
               /\ f[<<i + 2, j + 1>>]
<1>1. pattern[i] # "%"
  OBVIOUS
<1> QED
  BY <1>1 DEF LikeCell

\* A character that is none of the special ones stands for itself.
LEMMA CellOfCharacter ==
  ASSUME NEW text, NEW pattern, NEW f, NEW i, NEW j, ~(i > Len(pattern)),
         pattern[i] \notin Wildcards
  PROVE  LikeCell(text, pattern, f, i, j)
           <=> /\ ~(j > Len(text)) /\ SameLetter(pattern[i], text[j])
               /\ f[<<i + 1, j + 1>>]
<1>1. pattern[i] # "%" /\ pattern[i] # "_" /\ pattern[i] # "\\"
  BY DEF Wildcards
<1> QED
  BY <1>1 DEF LikeCell

\* A pattern made of a text matches the names that contain it: every wildcard
\* and backslash of the text stands for itself.
LEMMA PatternsMatch ==
  ASSUME NEW S, Wildcards \subseteq S, NEW name \in Seq(S), NEW typed \in Seq(S)
  PROVE  ILike(name, <<"%">> \o EscapeForLike(typed) \o <<"%">>)
           <=> \E k \in 0..(Len(name) - Len(typed)) :
                 \A i \in DOMAIN typed : SameLetter(name[k + i], typed[i])
<1>0. "%" \in S /\ "\\" \in S
  BY Zenon DEF Wildcards
<1>1. PICK n, l, inner, pattern : /\ n = Len(name) /\ l = Len(typed)
                                  /\ inner = EscapeForLike(typed)
                                  /\ pattern = <<"%">> \o inner \o <<"%">>
  OBVIOUS
<1>a. PICK at \in [0..l -> Nat] : inner \in Seq(S) /\ EndsAt(at, typed, inner)
  BY <1>0, <1>1, EscapesAt
<1>2. /\ inner \in Seq(S) /\ at[0] = 0 /\ at[l] = Len(inner)
      /\ \A k \in 0..(l - 1) :
           /\ at[k + 1] <= Len(inner)
           /\ IF typed[k + 1] \in Wildcards
              THEN /\ at[k + 1] = at[k] + 2
                   /\ inner[at[k] + 1] = "\\" /\ inner[at[k] + 2] = typed[k + 1]
              ELSE at[k + 1] = at[k] + 1 /\ inner[at[k] + 1] = typed[k + 1]
  BY <1>1, <1>a DEF EndsAt
<1>3. n \in Nat /\ l \in Nat
  BY <1>1
<1>4. PICK m : m = Len(inner) + 2
  OBVIOUS
<1>5. /\ m \in Nat /\ m >= 2 /\ pattern \in Seq(S) /\ Len(pattern) = m
      /\ pattern[1] = "%" /\ pattern[m] = "%"
      /\ \A i \in 1..Len(inner) : pattern[i + 1] = inner[i]
  <2>1. <<"%">> \in Seq(S) /\ Len(inner) \in Nat
    BY <1>0, <1>2
  <2> QED
    BY <1>1, <1>2, <1>4, <2>1
<1>6. PICK t : LikeTable(name, pattern, t) /\ ILike(name, pattern) = t[<<1, 1>>]
  BY <1>5, LikeIsItsTable
<1>7. \A i \in 1..(m + 2), j \in 1..(n + 1) : t[<<i, j>>] = LikeCell(name, pattern, t, i, j)
  BY <1>1, <1>5, <1>6 DEF LikeTable
<1>8. ASSUME NEW i \in 1..m, pattern[i] = "%", NEW j \in 1..(n + 1)
      PROVE  t[<<i, j>>] <=> t[<<i + 1, j>>] \/ (j <= n /\ t[<<i, j + 1>>])
  <2>1. i \in 1..(m + 2) /\ ~(i > m)
    BY <1>5
  <2> QED
    BY <1>1, <1>5, <1>7, <1>8, <2>1 DEF LikeCell
\* The last wildcard takes the rest of the name.
<1>9. \A j \in 1..(n + 1) : t[<<m, j>>]
  <2> DEFINE T == {d \in 0..n : t[<<m, d + 1>>]}
  <2>1. n \in T
    <3>1. m + 1 \in 1..(m + 2) /\ n + 1 \in 1..(n + 1) /\ m \in 1..m /\ n \in 0..n
      BY <1>3, <1>5
    <3>2. m + 1 > Len(pattern) /\ m + 1 = Len(pattern) + 1 /\ n + 1 = Len(name) + 1
      BY <1>1, <1>5
    <3>3. LikeCell(name, pattern, t, m + 1, n + 1)
      BY <3>2, Zenon DEF LikeCell
    <3>4. t[<<m + 1, n + 1>>]
      BY <1>7, <3>1, <3>3
    <3>5. t[<<m, n + 1>>]
      BY <1>5, <1>8, <3>1, <3>4
    <3> QED
      BY <3>1, <3>5
  <2>2. ASSUME NEW d \in 0..(n - 1), d + 1 \in T
        PROVE  d \in T
    <3>1. m \in 1..m /\ d + 1 \in 1..(n + 1) /\ d + 1 <= n /\ d \in 0..n
      BY <1>3, <1>5
    <3> QED
      BY <1>5, <1>8, <2>2, <3>1
  <2> HIDE DEF T
  <2>3. 0..n \subseteq T
    BY <1>3, <2>1, <2>2, Downwards
  <2>4. ASSUME NEW j \in 1..(n + 1)
        PROVE  t[<<m, j>>]
    <3>1. j - 1 \in T /\ (j - 1) + 1 = j
      BY <1>3, <2>3
    <3> QED
      BY <3>1 DEF T
  <2> QED
    BY <2>4
\* From the place of a character on, the rest of the text is compared.
<1> DEFINE Fits(k, j) == /\ (j - 1) + (l - k) <= n
                         /\ \A v \in (k + 1)..l : SameLetter(name[(j - 1) + (v - k)], typed[v])
<1>10. \A k \in 0..l : \A j \in 1..(n + 1) : t[<<at[k] + 2, j>>] <=> Fits(k, j)
  <2> DEFINE T == {k \in 0..l : \A j \in 1..(n + 1) : t[<<at[k] + 2, j>>] <=> Fits(k, j)}
  <2>1. l \in T
    <3>1. \A j \in 1..(n + 1) : Fits(l, j)
      BY <1>3
    <3>2. at[l] + 2 = m
      BY <1>2, <1>4
    <3> HIDE DEF Fits
    <3> QED
      BY <1>3, <1>9, <3>1, <3>2
  <2>2. ASSUME NEW k \in 0..(l - 1), k + 1 \in T
        PROVE  k \in T
    <3>1. PICK c, i, next : c = typed[k + 1] /\ i = at[k] + 2 /\ next = at[k + 1] + 2
      OBVIOUS
    <3>2. k \in 0..l /\ k + 1 \in 0..l /\ at[k] \in Nat /\ at[k + 1] \in Nat
          /\ at[k + 1] <= Len(inner)
      BY <1>2, <1>3
    <3>3. \A j \in 1..(n + 1) : t[<<next, j>>] <=> Fits(k + 1, j)
      BY <2>2, <3>1
    <3> HIDE DEF Fits, T
    <3>4. /\ i \in 1..(m + 2) /\ i <= m /\ i < next /\ next <= m
          /\ IF c \in Wildcards
             THEN next = i + 2 /\ pattern[i] = "\\" /\ pattern[i + 1] = c
             ELSE next = i + 1 /\ pattern[i] = c
      <4>1. CASE c \in Wildcards
        <5>1. at[k + 1] = at[k] + 2 /\ inner[at[k] + 1] = "\\" /\ inner[at[k] + 2] = c
          BY <1>2, <3>1, <4>1
        <5>2. at[k] + 1 \in 1..Len(inner) /\ at[k] + 2 \in 1..Len(inner)
          BY <3>2, <5>1
        <5>3. pattern[(at[k] + 1) + 1] = "\\" /\ pattern[(at[k] + 2) + 1] = c
          BY <1>5, <5>1, <5>2
        <5>4. (at[k] + 1) + 1 = i /\ (at[k] + 2) + 1 = i + 1 /\ next = i + 2
              /\ i \in 1..(m + 2) /\ i <= m /\ i < next /\ next <= m
          BY <1>4, <1>5, <3>1, <3>2, <5>1
        <5> QED
          BY <4>1, <5>3, <5>4
      <4>2. CASE c \notin Wildcards
        <5>1. at[k + 1] = at[k] + 1 /\ inner[at[k] + 1] = c
          BY <1>2, <3>1, <4>2
        <5>2. at[k] + 1 \in 1..Len(inner)
          BY <3>2, <5>1
        <5>3. pattern[(at[k] + 1) + 1] = c
          BY <1>5, <5>1, <5>2
        <5>4. (at[k] + 1) + 1 = i /\ next = i + 1
              /\ i \in 1..(m + 2) /\ i <= m /\ i < next /\ next <= m
          BY <1>4, <1>5, <3>1, <3>2, <5>1
        <5> QED
          BY <4>2, <5>3, <5>4
      <4> QED
        BY <4>1, <4>2
    <3>5. ASSUME NEW j \in 1..(n + 1)
          PROVE  t[<<i, j>>] <=> j <= n /\ SameLetter(c, name[j]) /\ t[<<next, j + 1>>]
      <4>1. t[<<i, j>>] = LikeCell(name, pattern, t, i, j)
        BY <1>7, <3>4
      <4>2. ~(i > Len(pattern)) /\ (j > Len(name) <=> ~(j <= n))
        BY <1>1, <1>3, <1>5, <3>4
      <4>3. CASE c \in Wildcards
        <5>1. pattern[i] = "\\" /\ pattern[i + 1] = c /\ next = i + 2 /\ i < Len(pattern)
          BY <1>5, <3>4, <4>3
        <5> QED
          BY <4>1, <4>2, <5>1, CellOfEscape
      <4>4. CASE c \notin Wildcards
        <5>1. pattern[i] = c /\ next = i + 1
          BY <3>4, <4>4
        <5> QED
          BY <4>1, <4>2, <4>4, <5>1, CellOfCharacter
      <4> QED
        BY <4>3, <4>4
    <3>6. ASSUME NEW j \in 1..(n + 1)
          PROVE  Fits(k, j) <=> j <= n /\ SameLetter(c, name[j]) /\ Fits(k + 1, j + 1)
      <4>1. (j - 1) + (l - k) <= n <=> j <= n /\ ((j + 1) - 1) + (l - (k + 1)) <= n
        BY <1>3, <3>2
      <4>2. \A v \in (k + 1)..l : v = k + 1 \/ v \in ((k + 1) + 1)..l
        BY <1>3, <3>2
      <4>3. k + 1 \in (k + 1)..l /\ ((k + 1) + 1)..l \subseteq (k + 1)..l
        BY <1>3, <3>2
      <4>4. (j - 1) + ((k + 1) - k) = j
        BY <1>3, <3>2
      <4>5. \A v \in ((k + 1) + 1)..l : (j - 1) + (v - k) = ((j + 1) - 1) + (v - (k + 1))
        BY <1>3, <3>2
      <4>6. SameLetter(c, name[j]) <=> SameLetter(name[(j - 1) + ((k + 1) - k)], typed[k + 1])
        BY <3>1, <4>4 DEF SameLetter
      <4> QED
        BY <4>1, <4>2, <4>3, <4>5, <4>6 DEF Fits
    <3>7. ASSUME NEW j \in 1..(n + 1)
          PROVE  t[<<i, j>>] <=> Fits(k, j)
      <4>1. j <= n => j + 1 \in 1..(n + 1)
        BY <1>3
      <4> QED
        BY <3>3, <3>5, <3>6, <4>1
    <3> QED
      BY <3>1, <3>2, <3>7 DEF T
  <2> HIDE DEF T
  <2>3. 0..l \subseteq T
    BY <1>3, <2>1, <2>2, Downwards
  <2> QED
    BY <2>3 DEF T
\* The first wildcard looks for a place where the text fits.
<1>11. \A d \in 0..n : t[<<1, d + 1>>] <=> \E h \in (d + 1)..(n + 1) : Fits(0, h)
  <2> DEFINE T == {d \in 0..n : t[<<1, d + 1>>] <=> \E h \in (d + 1)..(n + 1) : Fits(0, h)}
  <2>1. ASSUME NEW j \in 1..(n + 1)
        PROVE  t[<<1, j>>] <=> Fits(0, j) \/ (j <= n /\ t[<<1, j + 1>>])
    <3>1. 1 \in 1..m /\ 1 + 1 = at[0] + 2 /\ 0 \in 0..l
      BY <1>2, <1>3, <1>5
    <3>2. t[<<1 + 1, j>>] <=> Fits(0, j)
      <4> HIDE DEF Fits
      <4> QED
        BY <1>10, <3>1
    <3> HIDE DEF Fits
    <3> QED
      BY <1>5, <1>8, <3>1, <3>2
  <2> HIDE DEF Fits
  <2>2. n \in T
    <3>1. n + 1 \in 1..(n + 1) /\ ~(n + 1 <= n) /\ (n + 1)..(n + 1) = {n + 1} /\ n \in 0..n
      BY <1>3
    <3> QED
      BY <2>1, <3>1
  <2>3. ASSUME NEW d \in 0..(n - 1), d + 1 \in T
        PROVE  d \in T
    <3>1. d + 1 \in 1..(n + 1) /\ d + 1 <= n /\ d \in 0..n
          /\ (d + 1)..(n + 1) = {d + 1} \cup ((d + 1) + 1)..(n + 1)
      BY <1>3
    <3> QED
      BY <2>1, <2>3, <3>1
  <2> HIDE DEF T
  <2>4. 0..n \subseteq T
    BY <1>3, <2>2, <2>3, Downwards
  <2> QED
    BY <2>4 DEF T
<1>12. ILike(name, pattern) <=> \E h \in 1..(n + 1) : Fits(0, h)
  <2> HIDE DEF Fits
  <2>1. 0 \in 0..n /\ 0 + 1 = 1
    BY <1>3
  <2> QED
    BY <1>6, <1>11, <2>1
<1>13. ASSUME NEW h \in 1..(n + 1), Fits(0, h)
       PROVE  \E k \in 0..(n - l) : \A i \in 1..l : SameLetter(name[k + i], typed[i])
  <2>1. h - 1 \in 0..(n - l)
    BY <1>3, <1>13
  <2>2. ASSUME NEW i \in 1..l
        PROVE  SameLetter(name[(h - 1) + i], typed[i])
    <3>1. i \in (0 + 1)..l /\ (h - 1) + (i - 0) = (h - 1) + i
      BY <1>3
    <3> QED
      BY <1>13, <3>1
  <2> QED
    BY <2>1, <2>2
<1>14. ASSUME NEW k \in 0..(n - l), \A i \in 1..l : SameLetter(name[k + i], typed[i])
       PROVE  k + 1 \in 1..(n + 1) /\ Fits(0, k + 1)
  <2>1. k + 1 \in 1..(n + 1) /\ ((k + 1) - 1) + (l - 0) <= n
    BY <1>3
  <2>2. ASSUME NEW v \in (0 + 1)..l
        PROVE  SameLetter(name[((k + 1) - 1) + (v - 0)], typed[v])
    <3>1. v \in 1..l /\ ((k + 1) - 1) + (v - 0) = k + v
      BY <1>3
    <3> QED
      BY <1>14, <3>1
  <2> QED
    BY <2>1, <2>2
<1>15. DOMAIN typed = 1..l
  BY <1>1
<1> HIDE DEF Fits
<1> QED
  BY <1>1, <1>12, <1>13, <1>14, <1>15

\* GET /orgs finds the shelters whose name contains what was typed, in any
\* case, whatever characters were typed.
THEOREM NamesMatch ==
  ASSUME NEW name \in Seq(DOMAIN LowerOf), NEW typed \in Seq(DOMAIN LowerOf)
  PROVE  ILike(name, <<"%">> \o EscapeForLike(typed) \o <<"%">>) <=> NameHas(name, typed)
<1> DEFINE S == DOMAIN LowerOf \cup Wildcards
<1>1. Wildcards \subseteq S /\ DOMAIN LowerOf \subseteq S
  OBVIOUS
<1> HIDE DEF S
<1>2. name \in Seq(S) /\ typed \in Seq(S)
  BY <1>1
<1>3. ILike(name, <<"%">> \o EscapeForLike(typed) \o <<"%">>)
        <=> \E k \in 0..(Len(name) - Len(typed)) :
              \A i \in DOMAIN typed : SameLetter(name[k + i], typed[i])
  BY <1>1, <1>2, PatternsMatch
<1> QED
  BY <1>3 DEF NameHas

-----------------------------------------------------------------------------
(* Pages and totals.                                                       *)

\* What a query selects is what it asks for.
LEMMA MatchingIsWanted ==
  ASSUME TablesSound, NEW q \in Queries, ~Unparsable(q)
  PROVE  Matching(q) = Wanted(q)
<1>1. CASE q.kind = "animals"
  <2>1. /\ IsSearch(q.of)
        /\ \A f \in DOMAIN EnumFields \cap DOMAIN q.of : \A s \in q.of[f] : IsName(EnumFields[f], s)
    BY <1>1, QueriesAssumption DEF Unparsable
  <2>2. Matching(q)
          = SelectedRows(BuildQueryClause(BuildConditions(FromDto(ParseFilters(q.of))),
                                          AnimalFields, Null),
                         [a \in live \cap Animals |-> AnimalColumns(a)])
    BY <1>1 DEF Matching, SearchClause
  <2>3. Wanted(q) = {a \in live \cap Animals : Meant(q.of, a)}
    BY <1>1 DEF Wanted
  <2> QED
    BY <2>1, <2>2, <2>3, SearchesFind
<1>2. CASE q.kind = "orgs"
  <2> DEFINE columns == [o \in live \cap Orgs |-> [name |-> NameOf[o]]]
             conditions == <<NameCondition(q.of)>>
             fields == [name |-> "name"]
  <2>1. Matching(q) = SelectedRows(BuildQueryClause(conditions, fields, Null), columns)
    BY <1>2 DEF Matching, SearchClause
  <2>2. conditions \in Seq({NameCondition(q.of)}) /\ ToSet(conditions) = {NameCondition(q.of)}
    BY DEF ToSet
  <2>3. NameCondition(q.of) = [column |-> "name", op |-> "ilike", value |-> EscapeForLike(q.of)]
    BY DEF NameCondition, Condition
  <2> HIDE DEF conditions
  <2>4. SelectedRows(BuildQueryClause(conditions, fields, Null), columns)
          = {o \in DOMAIN columns : \A c \in {NameCondition(q.of)} :
               Meets(c, columns[o][fields[c.column]])}
    BY <2>2, ClausesSelect
  <2>5. ASSUME NEW o \in live \cap Orgs
        PROVE  Meets(NameCondition(q.of), columns[o][fields[NameCondition(q.of).column]])
                 <=> NameHas(NameOf[o], q.of)
    <3>1. columns[o][fields[NameCondition(q.of).column]] = NameOf[o]
      BY <2>3
    <3>2. Meets(NameCondition(q.of), NameOf[o])
            <=> ILike(NameOf[o], <<"%">> \o EscapeForLike(q.of) \o <<"%">>)
      BY <2>3 DEF Meets
    <3> HIDE DEF columns, fields
    <3>3. ILike(NameOf[o], <<"%">> \o EscapeForLike(q.of) \o <<"%">>) <=> NameHas(NameOf[o], q.of)
      BY <1>2, RowsAssumption, QueriesAssumption, NamesMatch
    <3> QED
      BY <3>1, <3>2, <3>3
  <2>6. DOMAIN columns = live \cap Orgs
    OBVIOUS
  <2> HIDE DEF columns, fields
  <2> QED
    BY <1>2, <2>1, <2>4, <2>5, <2>6 DEF Wanted
<1>3. CASE q.kind \notin {"animals", "orgs"}
  BY <1>3 DEF Wanted
<1> QED
  BY <1>1, <1>2, <1>3

\* The number of the last page.
LEMMA LastPage ==
  ASSUME NEW n \in Nat \ {0}
  PROVE  /\ TotalPages(n) \in 1..n
         /\ TotalPages(n) * PageSize >= n /\ (TotalPages(n) - 1) * PageSize < n
         /\ \A k \in Nat : k * PageSize >= n => k >= TotalPages(n)
<1>1. PageSize \in Nat \ {0}
  BY ListingsAssumption
<1>2. PICK t : t = (n + PageSize - 1) \div PageSize
  OBVIOUS
<1>3. t = TotalPages(n)
  BY <1>2 DEF TotalPages
<1>4. t \in Nat /\ PageSize * t <= n + PageSize - 1 /\ n + PageSize - 1 < PageSize * t + PageSize
  BY <1>1, <1>2
<1>5. t * PageSize >= n /\ (t - 1) * PageSize < n
  BY <1>1, <1>4
<1>6. ASSUME NEW k \in Nat, k * PageSize >= n
      PROVE  k >= t
  BY <1>1, <1>4, <1>5, <1>6
<1>7. t \in 1..n
  BY <1>1, <1>4, <1>5
<1> QED
  BY <1>3, <1>5, <1>6, <1>7

\* Offsets that are ints are the products they stand for.
LEMMA OffsetsAre ==
  ASSUME OffsetsFit, NEW kind, NEW p \in Pages
  PROVE  Offset(kind, p) = (p - 1) * PageSize /\ Offset(kind, p) >= 0
<1>1. p - 1 \in Nat /\ PageSize \in Nat
  BY ListingsAssumption
<1>2. Offset(kind, p) = (p - 1) * PageSize
  BY OffsetsFit, OffsetIs DEF OffsetsFit
<1> QED
  BY <1>1, <1>2

\* As long as the offsets are ints and the patterns fit, the page of a calm
\* listing goes with its totals, whatever the order of the rows.
THEOREM PagesGoWithTotals ==
  ASSUME OffsetsFit PROVE Spec => []PagesAgree
<1>1. LInv => PagesAgree
  <2> SUFFICES ASSUME LInv, answer # Null, answer.status = 200, answer.calm,
                      answer.query.kind # "animal"
               PROVE  LET n == Cardinality(Wanted(answer.query))
                          last == IF n = 0 THEN 1
                                  ELSE CHOOSE k \in 1..n : /\ k * PageSize >= n
                                                          /\ (k - 1) * PageSize < n
                      IN  /\ answer.total = n
                          /\ \/ answer.pages = last
                             \/ answer.query.kind = "requests" /\ answer.items = <<>>
                          /\ {answer.items[i].id : i \in DOMAIN answer.items}
                               \subseteq Wanted(answer.query)
                          /\ Len(answer.items) =
                               IF answer.page < last THEN PageSize
                               ELSE IF answer.page = last THEN n - (last - 1) * PageSize ELSE 0
    BY DEF PagesAgree
  <2>1. PICK w, q, rows, ids, n : /\ w = answer /\ q = w.query /\ rows = Matching(q)
                                  /\ ids = IdsOf(w.items) /\ n = Cardinality(rows)
    OBVIOUS
  <2>2. /\ q \in Queries /\ w.page \in Pages /\ ~Unparsable(q) /\ q.kind # "animal"
        /\ w.total = n /\ (w.pages = TotalPages(n) \/ (q.kind = "requests" /\ w.items = <<>>))
        /\ Shown(q, w.page, ids)
    BY <2>1 DEF LInv, AnswerSound, PageSound
  <2>3. rows = Wanted(q) /\ IsFiniteSet(rows) /\ n \in Nat
    BY <2>1, <2>2, MatchingIsWanted, MatchingFinite DEF LInv, TablesSound
  <2>4. PICK order \in Orders(q.kind, rows) : ids = PageOf(order, q.kind, w.page)
    BY <2>1, <2>2 DEF Shown
  <2>5. order \in Seq(rows) /\ Len(order) = n
    BY <2>1, <2>3, <2>4, OrdersAre
  <2>6. PICK k : k = (w.page - 1) * PageSize
    OBVIOUS
  <2>7. k = Offset(q.kind, w.page) /\ k \in Nat /\ PageSize \in Nat \ {0}
    <3>1. PICK kind, p : kind = q.kind /\ p = w.page
      OBVIOUS
    <3>2. p \in Pages
      BY <2>2, <3>1
    <3>3. Offset(kind, p) = (p - 1) * PageSize /\ Offset(kind, p) >= 0
      BY <3>2, OffsetsAre
    <3>4. Offset(kind, p) \in Int
      BY <3>2, OffsetIs
    <3> QED
      BY <2>6, <3>1, <3>3, <3>4, ListingsAssumption
  <2>8. /\ ids \in Seq(rows)
        /\ Len(ids) = IF n <= k THEN 0 ELSE IF n <= k + PageSize THEN n - k ELSE PageSize
    BY <2>2, <2>4, <2>5, <2>7, PageIsPart
  <2>9. DOMAIN w.items = 1..Len(ids) /\ \A i \in DOMAIN w.items : w.items[i].id = ids[i]
    BY <2>1, <2>8 DEF IdsOf
  <2>10. Len(w.items) = Len(ids)
    BY <2>8, <2>9
  <2>11. {w.items[i].id : i \in DOMAIN w.items} \subseteq rows
    BY <2>8, <2>9
  <2>12. PICK last : last = IF n = 0 THEN 1
                            ELSE CHOOSE m \in 1..n : m * PageSize >= n /\ (m - 1) * PageSize < n
    OBVIOUS
  <2>13. last = TotalPages(n)
    <3>1. CASE n = 0
      BY <2>12, <3>1 DEF TotalPages
    <3>2. CASE n # 0
      <4>1. PICK t : t = TotalPages(n)
        OBVIOUS
      <4>2. /\ t \in 1..n /\ t * PageSize >= n /\ (t - 1) * PageSize < n
            /\ \A m \in Nat : m * PageSize >= n => m >= t
        BY <2>3, <3>2, <4>1, LastPage
      <4>3. last \in 1..n /\ last * PageSize >= n /\ (last - 1) * PageSize < n
        BY <2>12, <3>2, <4>2
      <4>4. last >= t
        BY <2>3, <4>2, <4>3
      <4>5. last - 1 >= t => (last - 1) * PageSize >= t * PageSize
        BY <2>3, <2>7, <4>2, <4>3
      <4> QED
        BY <2>3, <2>7, <4>1, <4>2, <4>3, <4>4, <4>5
    <3> QED
      BY <3>1, <3>2
  <2>14. Len(ids) = IF w.page < last THEN PageSize
                    ELSE IF w.page = last THEN n - (last - 1) * PageSize ELSE 0
    <3>1. w.page \in Nat \ {0}
      BY <2>2, ListingsAssumption
    <3>2. CASE n = 0
      BY <2>7, <2>8, <2>12, <3>1, <3>2
    <3>3. CASE n # 0
      <4>1. last \in 1..n /\ last * PageSize >= n /\ (last - 1) * PageSize < n
        BY <2>3, <2>13, <3>3, LastPage
      <4>2. CASE w.page < last
        <5>1. w.page * PageSize <= (last - 1) * PageSize
          BY <2>3, <2>7, <3>1, <4>1, <4>2
        <5>2. k + PageSize = w.page * PageSize
          BY <2>6, <2>7, <3>1
        <5> QED
          BY <2>3, <2>7, <2>8, <3>1, <4>1, <4>2, <5>1, <5>2
      <4>3. CASE w.page = last
        <5>1. k = (last - 1) * PageSize
          BY <2>6, <4>3
        <5>2. last * PageSize = (last - 1) * PageSize + PageSize
          BY <2>7, <3>1, <4>3
        <5>3. k < n /\ n <= k + PageSize
          BY <2>3, <2>7, <4>1, <5>1, <5>2
        <5>4. Len(ids) = n - k
          BY <2>3, <2>7, <2>8, <5>3
        <5> QED
          BY <3>1, <4>3, <5>1, <5>4
      <4>4. CASE w.page > last
        <5>1. k >= last * PageSize
          BY <2>3, <2>6, <2>7, <3>1, <4>1, <4>4
        <5> QED
          BY <2>3, <2>7, <2>8, <3>1, <4>1, <4>4, <5>1
      <4> QED
        BY <2>3, <3>1, <4>1, <4>2, <4>3, <4>4
    <3> QED
      BY <3>2, <3>3
  <2> QED
    <3>1. w.pages = last \/ (q.kind = "requests" /\ w.items = <<>>)
      BY <2>2, <2>13
    <3>2. PICK wanted : wanted = Wanted(answer.query)
      OBVIOUS
    <3>3. wanted = rows /\ Cardinality(wanted) = n
      BY <2>1, <2>3, <3>2
    <3>4. LET m == Cardinality(wanted)
              final == IF m = 0 THEN 1
                       ELSE CHOOSE j \in 1..m : j * PageSize >= m /\ (j - 1) * PageSize < m
          IN  /\ answer.total = m
              /\ answer.pages = final \/ (answer.query.kind = "requests" /\ answer.items = <<>>)
              /\ {answer.items[i].id : i \in DOMAIN answer.items} \subseteq wanted
              /\ Len(answer.items) =
                   IF answer.page < final THEN PageSize
                   ELSE IF answer.page = final THEN m - (final - 1) * PageSize ELSE 0
      <4>1. Len(w.items) = IF w.page < last THEN PageSize
                           ELSE IF w.page = last THEN n - (last - 1) * PageSize ELSE 0
        BY <2>10, <2>14
      <4> QED
        BY <2>1, <2>2, <2>11, <2>12, <3>1, <3>3, <4>1
    <3> QED
      BY <3>2, <3>4
<1> QED
  BY <1>1, LInvInvariant, PTL

-----------------------------------------------------------------------------
(* Turning the pages.                                                      *)

\* No two rows come before each other.
LEMMA BeforeIsStrict ==
  \A kind : \A i, j \in Int : Before(kind, i, j) => ~Before(kind, j, i)
<1>1. \A i : Rank(i) \in {1, 2}
  BY DEF Rank
<1> QED
  BY <1>1 DEF Before

\* A listing that sorts its rows has one order for them.
LEMMA OneOrder ==
  ASSUME NEW rows, IsFiniteSet(rows), rows \subseteq Int, NEW kind, kind # "orgs"
  PROVE  \A s, t \in Orders(kind, rows) : s = t
<1> SUFFICES ASSUME NEW s \in Orders(kind, rows), NEW t \in Orders(kind, rows)
             PROVE  s = t
  OBVIOUS
<1>1. /\ s \in Seq(rows) /\ Len(s) = Cardinality(rows) /\ Len(s) \in Nat /\ ToSet(s) = rows
      /\ \A i, j \in 1..Len(s) : i # j => s[i] # s[j]
  BY OrdersAre
<1>2. /\ t \in Seq(rows) /\ Len(t) = Len(s) /\ ToSet(t) = rows
      /\ \A i, j \in 1..Len(t) : i # j => t[i] # t[j]
  BY <1>1, OrdersAre
<1>3. /\ \A i, j \in 1..Len(s) : i < j => Before(kind, s[i], s[j])
      /\ \A i, j \in 1..Len(t) : i < j => Before(kind, t[i], t[j])
  BY DEF Orders, IsSorted
<1>4. SUFFICES ASSUME s # t
               PROVE  FALSE
  OBVIOUS
<1> DEFINE Differs == {i \in 1..Len(s) : s[i] # t[i]}
<1>5. Differs \subseteq Nat /\ Differs # {}
  BY <1>1, <1>2, <1>4
<1> HIDE DEF Differs
<1>6. PICK i \in Differs : \A j \in Differs : ~(<<j, i>> \in OpToRel(<, Nat))
  BY <1>5, NatLessThanWellFounded, WFMin
<1>7. \A j \in Differs : ~(j < i)
  BY <1>5, <1>6 DEF OpToRel
<1>8. i \in 1..Len(s) /\ s[i] # t[i] /\ \A j \in 1..Len(s) : j < i => s[j] = t[j]
  BY <1>7 DEF Differs
<1>9. PICK j \in 1..Len(t) : t[j] = s[i]
  <2>1. s[i] \in ToSet(t)
    BY <1>1, <1>2, <1>8
  <2> QED
    BY <1>1, <1>2, <2>1 DEF ToSet
<1>10. PICK k \in 1..Len(s) : s[k] = t[i]
  <2>1. t[i] \in ToSet(s)
    BY <1>1, <1>2, <1>8
  <2> QED
    BY <1>1, <2>1 DEF ToSet
<1>11. j > i
  <2>1. j < i => s[j] = s[i] /\ j \in 1..Len(s)
    BY <1>2, <1>8, <1>9
  <2> QED
    BY <1>1, <1>8, <1>9, <2>1
<1>12. k > i
  <2>1. k < i => t[k] = t[i] /\ k \in 1..Len(t) /\ i \in 1..Len(t)
    BY <1>2, <1>8, <1>10
  <2> QED
    BY <1>1, <1>2, <1>8, <1>10, <2>1
<1>13. Before(kind, t[i], t[j]) /\ Before(kind, s[i], s[k])
  BY <1>1, <1>2, <1>3, <1>8, <1>9, <1>10, <1>11, <1>12
<1>14. s[i] \in Int /\ t[i] \in Int
  <2>1. i \in 1..Len(s) /\ i \in 1..Len(t)
    BY <1>2, <1>8
  <2>2. s[i] \in rows /\ t[i] \in rows
    BY <1>1, <1>2, <2>1
  <2> QED
    BY <2>2
<1> QED
  BY <1>9, <1>10, <1>13, <1>14, BeforeIsStrict

\* What a reader of pages has seen is the beginning of the one order.
WInv == \A v \in {walk} \ {Null} : WalkSound(v)


\* The beginning of a sequence and the part that follows it.
LEMMA CutInTwo ==
  ASSUME NEW S, NEW s \in Seq(S), NEW a \in Nat, NEW b \in Nat, a <= b, b <= Len(s)
  PROVE  SubSeq(s, 1, a) \o SubSeq(s, a + 1, b) = SubSeq(s, 1, b)
OBVIOUS

\* A page read while nobody wrote begins what was seen, or goes on with it.
LEMMA TurnedSound ==
  ASSUME OffsetsFit, live \subseteq Ids, WInv, NEW w, AnswerSound(w), w.calm, w.status = 200,
         NEW v, v = Turned(w, IdsOf(w.items)), v # Null
  PROVE  WalkSound(v)
<1>1. PICK q, rows, ids, k : /\ q = w.query /\ rows = Matching(q) /\ ids = IdsOf(w.items)
                             /\ k = (w.page - 1) * PageSize
  OBVIOUS
<1>2. q \in Queries /\ w.page \in Pages /\ ~Unparsable(q)
  BY <1>1 DEF AnswerSound
<1>3. w.page \in Nat \ {0} /\ PageSize \in Nat \ {0}
  BY <1>2, ListingsAssumption
<1>4. \/ /\ w.page = 1 /\ q.kind \notin {"orgs", "animal"}
         /\ v = [query |-> q, turned |-> 1, ids |-> ids]
      \/ /\ walk # Null /\ walk.query = q /\ walk.turned = w.page - 1
         /\ v = [walk EXCEPT !.turned = @ + 1, !.ids = @ \o ids]
  BY <1>1 DEF Turned, Continues
<1>5. PICK u : u = walk
  OBVIOUS
<1>6. u # Null => WalkSound(u)
  BY <1>5 DEF WInv
<1>7. q.kind \notin {"orgs", "animal"}
  BY <1>4, <1>5, <1>6 DEF WalkSound
<1>8. PICK order \in Orders(q.kind, rows) : ids = PageOf(order, q.kind, w.page)
  BY <1>1, <1>7 DEF AnswerSound, PageSound, Shown
<1>9. IsFiniteSet(rows) /\ rows \subseteq Int
  <2>1. rows \subseteq live /\ IsFiniteSet(rows)
    BY <1>1, <1>2, <1>7, MatchingRows, MatchingFinite
  <2> QED
    BY <2>1, ListingsAssumption
<1>10. order \in Seq(rows) /\ Len(order) \in Nat
  BY <1>8, <1>9, OrdersAre
<1>11. Offset(q.kind, w.page) = k /\ k \in Nat
  <2>1. PICK p : p = w.page
    OBVIOUS
  <2>2. Offset(q.kind, p) = (p - 1) * PageSize /\ Offset(q.kind, p) >= 0
    BY <1>2, <2>1, OffsetsAre
  <2>3. Offset(q.kind, p) \in Int
    BY <1>2, <2>1, OffsetIs
  <2> QED
    BY <1>1, <2>1, <2>2, <2>3
<1>12. k + PageSize = w.page * PageSize
  BY <1>1, <1>3
<1>13. PICK m : m = Min({k + PageSize, Len(order)})
  OBVIOUS
<1>14. m \in Nat /\ m = IF k + PageSize <= Len(order) THEN k + PageSize ELSE Len(order)
  BY <1>3, <1>10, <1>11, <1>13, MinOfTwo
<1>15. ids = SubSeq(order, k + 1, m)
  BY <1>8, <1>11, <1>13 DEF PageOf
<1>16. m = Min({w.page * PageSize, Len(order)})
  BY <1>12, <1>13
<1>17. CASE w.page = 1 /\ v = [query |-> q, turned |-> 1, ids |-> ids]
  <2>1. k = 0
    BY <1>1, <1>3, <1>17
  <2>2. v.ids = ids /\ v.query = q /\ v.turned = w.page
    BY <1>17
  <2>3. v.ids = SubSeq(order, 1, Min({v.turned * PageSize, Len(order)}))
    <3>1. k + 1 = 1
      BY <2>1
    <3>2. ids = SubSeq(order, 1, m)
      BY <1>15, <3>1
    <3>3. m = Min({v.turned * PageSize, Len(order)})
      BY <1>16, <2>2
    <3> QED
      BY <2>2, <3>2, <3>3
  <2>4. v = [query |-> v.query, turned |-> v.turned, ids |-> v.ids]
    BY <1>17
  <2> QED
    BY <1>1, <1>2, <1>3, <1>7, <1>8, <2>2, <2>3, <2>4 DEF WalkSound
<1>18. CASE /\ walk # Null /\ walk.query = q /\ walk.turned = w.page - 1
            /\ v = [walk EXCEPT !.turned = @ + 1, !.ids = @ \o ids]
  <2>1. WalkSound(u) /\ u.query = q /\ u.turned = w.page - 1
    BY <1>5, <1>6, <1>18
  <2>2. PICK other \in Orders(q.kind, rows) :
          u.ids = SubSeq(other, 1, Min({u.turned * PageSize, Len(other)}))
    BY <1>1, <2>1 DEF WalkSound
  <2>3. other = order
    <3>1. PICK kind : kind = q.kind
      OBVIOUS
    <3>2. kind # "orgs" /\ other \in Orders(kind, rows) /\ order \in Orders(kind, rows)
      BY <1>7, <1>8, <2>2, <3>1
    <3>3. \A s, t \in Orders(kind, rows) : s = t
      BY <1>9, <3>2, OneOrder
    <3> QED
      BY <3>2, <3>3
  <2>4. PICK h : h = Min({k, Len(order)})
    OBVIOUS
  <2>5. h \in Nat /\ h = IF k <= Len(order) THEN k ELSE Len(order)
    BY <1>10, <1>11, <2>4, MinOfTwo
  <2>6. u.ids = SubSeq(order, 1, h)
    BY <1>1, <2>1, <2>2, <2>3, <2>4
  <2>7. SubSeq(order, 1, h) \o ids = SubSeq(order, 1, m)
    <3>1. CASE k <= Len(order)
      <4>1. h = k /\ h <= m /\ m <= Len(order)
        BY <1>3, <1>10, <1>11, <1>14, <2>5, <3>1
      <4>2. SubSeq(order, 1, h) \o SubSeq(order, h + 1, m) = SubSeq(order, 1, m)
        BY <1>10, <1>14, <2>5, <4>1, CutInTwo
      <4> QED
        BY <1>15, <4>1, <4>2
    <3>2. CASE k > Len(order)
      <4>1. h = Len(order) /\ m = Len(order)
        BY <1>3, <1>10, <1>11, <1>14, <2>5, <3>2
      <4>2. ids = <<>>
        BY <1>10, <1>11, <1>15, <3>2, <4>1
      <4>3. SubSeq(order, 1, h) \o <<>> = SubSeq(order, 1, h)
        BY <1>10, <2>5, <4>1
      <4> QED
        BY <4>1, <4>2, <4>3
    <3>3. k <= Len(order) \/ k > Len(order)
      BY <1>10, <1>11
    <3> QED
      BY <3>1, <3>2, <3>3
  <2>8. u = [query |-> u.query, turned |-> u.turned, ids |-> u.ids]
    BY <2>1 DEF WalkSound
  <2>9. v = [query |-> q, turned |-> w.page, ids |-> u.ids \o ids]
    <3>1. v = [u EXCEPT !.turned = u.turned + 1, !.ids = u.ids \o ids]
      BY <1>5, <1>18
    <3>2. u.turned + 1 = w.page
      BY <1>3, <2>1
    <3> QED
      BY <2>1, <2>8, <3>1, <3>2
  <2>10. v.query = q /\ v.turned = w.page /\ v.ids = u.ids \o ids
    BY <2>9
  <2>11. v.ids = SubSeq(order, 1, Min({v.turned * PageSize, Len(order)}))
    BY <1>16, <2>6, <2>7, <2>10
  <2> QED
    BY <1>1, <1>2, <1>3, <1>7, <1>8, <2>9, <2>10, <2>11 DEF WalkSound
<1> QED
  BY <1>4, <1>17, <1>18

\* Every step keeps what has been seen the beginning of the order.
LEMMA WInvInvariant == ASSUME OffsetsFit PROVE Spec => []WInv
<1>1. Init => WInv
  BY DEF Init, WInv
<1>2. LInv /\ WInv /\ [Next]_vars => WInv'
  <2> SUFFICES ASSUME LInv, WInv, [Next]_vars
               PROVE  WInv'
    OBVIOUS
  <2>1. CASE OthersWrite
    BY <2>1 DEF OthersWrite, Write, WInv
  <2>2. CASE UNCHANGED vars
    <3>1. UNCHANGED tables /\ walk' = walk
      BY <2>2 DEF vars
    <3>2. \A v \in {walk'} \ {Null} : WalkSound(v)'
      BY <3>1, TablesKept DEF WInv
    <3> QED
      BY <3>2 DEF WInv
  <2>3. CASE Read
    <3>1. ReadsSoundly
      BY <2>3, ReadsSound
    <3>2. UNCHANGED tables
      BY <3>1 DEF ReadsSoundly
    <3>3. ASSUME NEW v, v = walk', v # Null
          PROVE  WalkSound(v)
      <4>1. CASE v = walk
        BY <3>3, <4>1 DEF WInv
      <4>2. CASE \E w : AnswerSound(w) /\ v = WalkAfter(w)
        <5>1. PICK w : AnswerSound(w) /\ v = WalkAfter(w)
          BY <4>2
        <5>2. w.calm /\ w.status = 200 /\ v = Turned(w, IdsOf(w.items))
          BY <3>3, <5>1 DEF WalkAfter
        <5> QED
          BY <3>3, <5>1, <5>2, TurnedSound DEF LInv, TablesSound
      <4> QED
        BY <3>1, <3>3, <4>1, <4>2 DEF ReadsSoundly
    <3>4. \A v \in {walk'} \ {Null} : WalkSound(v)'
      BY <3>2, <3>3, TablesKept
    <3> QED
      BY <3>4 DEF WInv
  <2> QED
    BY <2>1, <2>2, <2>3 DEF Next
<1> QED
  BY <1>1, <1>2, LInvInvariant, PTL DEF Spec

\* Who turns the pages of an ordered listing while nobody writes sees every
\* row once, none that was not asked for and, in the end, all of them.
THEOREM WalksShowAll ==
  ASSUME OffsetsFit PROVE Spec => []WalkShowsAll
<1>1. LInv /\ WInv => WalkShowsAll
  <2> SUFFICES ASSUME LInv, WInv, walk # Null
               PROVE  WalkShowsAll
    BY DEF WalkShowsAll
  <2>1. PICK v, q, rows, n : /\ v = walk /\ q = v.query /\ rows = Matching(q)
                             /\ n = Cardinality(rows)
    OBVIOUS
  <2>2. WalkSound(v)
    BY <2>1 DEF WInv
  <2>3. /\ q \in Queries /\ ~Unparsable(q) /\ q.kind \notin {"orgs", "animal"}
        /\ v.turned \in Nat \ {0}
    BY <2>1, <2>2 DEF WalkSound
  <2>4. rows = Wanted(q) /\ IsFiniteSet(rows) /\ n \in Nat
    BY <2>1, <2>3, MatchingIsWanted, MatchingFinite DEF LInv, TablesSound
  <2>5. PICK order \in Orders(q.kind, rows) :
          v.ids = SubSeq(order, 1, Min({v.turned * PageSize, Len(order)}))
    BY <2>1, <2>2 DEF WalkSound
  <2>6. /\ order \in Seq(rows) /\ Len(order) = n /\ ToSet(order) = rows
        /\ \A i, j \in 1..n : i # j => order[i] # order[j]
    BY <2>1, <2>4, <2>5, OrdersAre
  <2>7. PICK m, seen : m = Min({v.turned * PageSize, n}) /\ seen = v.ids
    OBVIOUS
  <2>8. /\ PageSize \in Nat \ {0} /\ m \in Nat /\ m <= n
        /\ (n <= v.turned * PageSize => m = n)
    <3>1. PICK k : k = v.turned * PageSize
      OBVIOUS
    <3>2. PageSize \in Nat \ {0}
      BY ListingsAssumption
    <3>3. k \in Nat
      BY <2>3, <3>1, <3>2
    <3>4. m = IF k <= n THEN k ELSE n
      BY <2>4, <2>7, <3>1, <3>3, MinOfTwo
    <3> QED
      BY <2>4, <3>1, <3>2, <3>3, <3>4
  <2>9. seen = SubSeq(order, 1, m)
    BY <2>5, <2>6, <2>7
  <2>10. seen \in Seq(rows) /\ Len(seen) = m /\ \A i \in 1..m : seen[i] = order[i]
    BY <2>6, <2>8, <2>9
  <2>11. ToSet(seen) \subseteq rows
    BY <2>10 DEF ToSet
  <2>12. Cardinality(ToSet(seen)) = Len(seen)
    <3>1. seen \in [1..m -> ToSet(seen)]
      BY <2>10 DEF ToSet
    <3>2. \A i, j \in 1..m : seen[i] = seen[j] => i = j
      BY <2>6, <2>8, <2>10
    <3>3. \A x \in ToSet(seen) : \E i \in 1..m : seen[i] = x
      BY <2>10 DEF ToSet
    <3>4. seen \in Bijection(1..m, ToSet(seen))
      BY <3>1, <3>2, <3>3 DEF Bijection, Injection, Surjection, IsInjective
    <3>5. IsFiniteSet(1..m) /\ Cardinality(1..m) = m
      BY <2>8, FS_Interval
    <3> QED
      BY <2>10, <3>4, <3>5, FS_Bijection DEF ExistsBijection
  <2>13. ASSUME v.turned >= TotalPages(n)
         PROVE  ToSet(seen) = rows
    <3>1. n <= v.turned * PageSize
      <4>1. CASE n = 0
        BY <2>3, <2>8, <4>1
      <4>2. CASE n # 0
        <5>1. PICK t : t = TotalPages(n)
          OBVIOUS
        <5>2. t \in 1..n /\ t * PageSize >= n
          BY <2>4, <4>2, <5>1, LastPage
        <5>3. v.turned * PageSize >= t * PageSize
          BY <2>3, <2>4, <2>8, <2>13, <5>1, <5>2
        <5> QED
          BY <2>3, <2>4, <2>8, <5>2, <5>3
      <4> QED
        BY <4>1, <4>2
    <3>2. m = n
      BY <2>8, <3>1
    <3>3. seen = order
      BY <2>6, <2>9, <3>2
    <3> QED
      BY <2>6, <3>3
  <2>14. Wanted(walk.query) = rows
    BY <2>1, <2>4
  <2> QED
    BY <2>1, <2>7, <2>11, <2>12, <2>13, <2>14 DEF WalkShowsAll
<1> QED
  BY <1>1, LInvInvariant, WInvInvariant, PTL


-----------------------------------------------------------------------------
(* The options of a search.                                                *)

\* The bounds of a nonempty set of rows are ages, and no age is outside.
LEMMA AgesAreBounded ==
  ASSUME NEW rows, IsFiniteSet(rows), rows # {}, \A r \in rows : r.age \in Int
  PROVE  /\ Min(Ages(rows)) \in Int /\ Max(Ages(rows)) \in Int
         /\ \A r \in rows : Min(Ages(rows)) <= r.age /\ r.age <= Max(Ages(rows))
<1> DEFINE f == [r \in rows |-> r.age]
           g == [r \in rows |-> 0 - r.age]
           ages == Ages(rows)
<1>1. f \in [rows -> Int] /\ g \in [rows -> Int]
  OBVIOUS
<1>2. /\ \A r \in rows : f[r] = r.age /\ g[r] = 0 - r.age /\ r.age \in ages
      /\ ages \subseteq Int /\ \A n \in ages : \E r \in rows : n = r.age
  BY DEF Ages
<1> HIDE DEF f, g, ages
<1>3. PICK x \in rows : \A y \in rows : f[x] <= f[y]
  BY <1>1, LeastValue
<1>4. PICK z \in rows : \A y \in rows : g[z] <= g[y]
  BY <1>1, LeastValue
<1>5. x.age \in ages /\ \A n \in ages : x.age <= n
  BY <1>2, <1>3
<1>6. z.age \in ages /\ \A n \in ages : z.age >= n
  <2>1. ASSUME NEW n \in ages
        PROVE  z.age >= n
    <3>1. PICK r \in rows : n = r.age
      BY <1>2, <2>1
    <3>2. g[z] <= g[r] /\ g[z] = 0 - z.age /\ g[r] = 0 - r.age /\ r.age \in Int /\ z.age \in Int
      BY <1>2, <1>4
    <3> QED
      BY <3>1, <3>2
  <2> QED
    BY <1>2, <2>1
<1>7. Min(ages) \in ages /\ \A n \in ages : Min(ages) <= n
  BY <1>5 DEF Min
<1>8. Max(ages) \in ages /\ \A n \in ages : Max(ages) >= n
  BY <1>6 DEF Max
<1>9. Min(ages) \in Int /\ Max(ages) \in Int /\ \A r \in rows : Min(ages) <= r.age /\ r.age <= Max(ages)
  BY <1>2, <1>7, <1>8
<1> QED
  BY <1>9 DEF ages

\* The names that are offered for an attribute are all it has.
LEMMA NamesOffered ==
  ASSUME NEW c \in Attributes
  PROVE  \A s : s \in {ToJson(c, e) : e \in EnumRange(c) \ {"kUnspecified"}} <=> IsName(c, s)
<1>1. \A s : s \in ToSet(EnumTypes[c]) <=> IsName(c, s)
  BY TypesAreNames DEF ToSet
<1>2. ASSUME NEW s, IsName(c, s)
      PROVE  s \in {ToJson(c, e) : e \in EnumRange(c) \ {"kUnspecified"}}
  <2>1. FromJson(c, s) \in EnumRange(c)
    BY <1>1, <1>2 DEF EnumRange, FromText
  <2> QED
    BY <1>2, <2>1, NamesSurvive
<1>3. ASSUME NEW e \in EnumRange(c) \ {"kUnspecified"}
      PROVE  IsName(c, ToJson(c, e))
  <2>1. PICK s : IsName(c, s) /\ e = FromJson(c, s)
    BY <1>1, <1>3 DEF EnumRange, FromText
  <2> QED
    BY <2>1, NamesSurvive
<1> QED
  BY <1>2, <1>3

\* A search for every option that is offered finds every animal.
THEOREM OptionsFindAll == Spec => []OptionsSelectAll
<1>1. TablesSound => OptionsSelectAll
  <2> SUFFICES ASSUME TablesSound
               PROVE  OptionsSelectAll
    OBVIOUS
  <2>1. PICK rows, cities, all, q :
          /\ rows = {animals[a] : a \in live \cap Animals}
          /\ cities = {CityOf[OrgOf(a)] : a \in live \cap Animals}
          /\ all = OfferedOptions(AvailableFilters(rows, cities))
          /\ q = [kind |-> "animals", of |-> all, by |-> Null]
    OBVIOUS
  <2>2. DOMAIN all = SearchArguments
    BY <2>1 DEF OfferedOptions
  <2>3. /\ all["breeds"] = Breeds /\ all["city_ids"] = cities
        /\ all["age_gte"] = IF rows = {} THEN 0 ELSE Min(Ages(rows))
        /\ all["age_lte"] = IF rows = {} THEN 100 ELSE Max(Ages(rows))
    BY <2>1 DEF OfferedOptions, AvailableFilters, SearchArguments, ListFields, EnumFields,
                FilterFields
  <2>4. ASSUME NEW f \in DOMAIN EnumFields
        PROVE  EnumFields[f] \in Attributes /\ \A s : s \in all[f] <=> IsName(EnumFields[f], s)
    <3>1. EnumFields[f] \in Attributes
      BY <2>4 DEF EnumFields, Attributes, Enumerators
    <3>2. f \notin {"age_gte", "age_lte", "min_age", "max_age", "breeds", "city_ids"}
          /\ f \in SearchArguments /\ f \in FilterFields
      BY <2>4 DEF EnumFields, SearchArguments, FilterFields, ListFields
    <3>3. AvailableFilters(rows, cities)[f] = EnumRange(EnumFields[f])
      BY <3>2 DEF AvailableFilters
    <3>4. all[f] = {ToJson(EnumFields[f], e) : e \in EnumRange(EnumFields[f]) \ {"kUnspecified"}}
      BY <2>1, <2>4, <3>2, <3>3 DEF OfferedOptions
    <3> QED
      BY <3>1, <3>4, NamesOffered
  <2>5. ASSUME NEW a \in live \cap Animals
        PROVE  animals[a] \in rows /\ IsRow(animals[a]) /\ CityOf[OrgOf(a)] \in cities
    BY <2>1, <2>5 DEF TablesSound
  <2>6. IsFiniteSet(rows)
    <3>1. IsFiniteSet(live \cap Animals)
      BY ListingsAssumption, FS_Subset DEF TablesSound
    <3>2. [a \in live \cap Animals |-> animals[a]] \in Surjection(live \cap Animals, rows)
      BY <2>1 DEF Surjection
    <3> QED
      BY <3>1, <3>2, FS_Surjection
  <2>7. \A r \in rows : IsRow(r) /\ r.age \in Int
    BY <2>1, <2>5 DEF IsRow
  <2>8. /\ rows # {} => all["age_gte"] \in Int /\ all["age_lte"] \in Int
        /\ \A r \in rows : all["age_gte"] <= r.age /\ r.age <= all["age_lte"]
    BY <2>3, <2>6, <2>7, AgesAreBounded
  <2>9. IsSearch(all)
    <3>1. all["age_gte"] \in Int /\ all["age_lte"] \in Int
      BY <2>3, <2>8
    <3> QED
      BY <2>2, <3>1 DEF IsSearch
  <2>10. ASSUME NEW a \in live \cap Animals
         PROVE  Meant(all, a)
    <3>1. PICK row : row = animals[a]
      OBVIOUS
    <3>2. IsRow(row) /\ row \in rows
      BY <2>5, <3>1
    <3>3. row.breed_id \in all["breeds"] /\ CityOf[OrgOf(a)] \in all["city_ids"]
      BY <2>3, <2>5, <3>2 DEF IsRow
    <3>4. BreedType[row.breed_id] \in all["animal_types"]
      <4>1. EnumFields["animal_types"] = "type" /\ "animal_types" \in DOMAIN EnumFields
        BY DEF EnumFields
      <4>2. IsName("type", BreedType[row.breed_id])
        BY <3>2, RowsAssumption DEF IsRow
      <4> QED
        BY <2>4, <4>1, <4>2
    <3>5. ASSUME NEW f \in {"sizes", "genders", "care_levels", "colors", "statuses", "good_withs"}
          PROVE  Served(row)[EnumFields[f]] \in all[f]
      <4>1. f \in DOMAIN EnumFields /\ EnumFields[f] \in EnumColumns
        BY <3>5 DEF EnumFields, EnumColumns, Attributes, Enumerators
      <4>2. PICK c : c = EnumFields[f]
        OBVIOUS
      <4>3. c \in EnumColumns /\ c \in Attributes /\ c \in BodyColumns
        BY <4>1, <4>2, Columns DEF BodyColumns
      <4>4. IsName(c, row[c])
        BY <3>2, <4>3, TypesAreNames DEF IsRow, FitsEnumTypes
      <4>5. Served(row)[c] = row[c]
        BY <4>3, <4>4, NamesSurvive DEF Served
      <4> QED
        BY <2>4, <4>1, <4>2, <4>4, <4>5
    <3>6. /\ EnumFields["sizes"] = "size" /\ EnumFields["genders"] = "gender"
          /\ EnumFields["care_levels"] = "care_level" /\ EnumFields["colors"] = "color"
          /\ EnumFields["statuses"] = "status" /\ EnumFields["good_withs"] = "good_with"
      BY DEF EnumFields
    <3>7. /\ Served(row).size \in all["sizes"] /\ Served(row).gender \in all["genders"]
          /\ Served(row).care_level \in all["care_levels"] /\ Served(row).color \in all["colors"]
          /\ Served(row).status \in all["statuses"]
          /\ Served(row).good_with \in all["good_withs"]
      BY <3>5, <3>6
    <3>8. row.age >= all["age_gte"] /\ row.age <= all["age_lte"]
      BY <2>3, <2>7, <2>8, <3>2
    <3>9. "age_gte" \in DOMAIN all /\ "age_lte" \in DOMAIN all
      BY <2>2 DEF SearchArguments
    <3> QED
      BY <3>1, <3>3, <3>4, <3>7, <3>8, <3>9 DEF Meant
  <2>11. Matching(q) = {a \in live \cap Animals : Meant(all, a)}
    <3>1. Matching(q)
            = SelectedRows(BuildQueryClause(BuildConditions(FromDto(ParseFilters(all))),
                                            AnimalFields, Null),
                           [a \in live \cap Animals |-> AnimalColumns(a)])
      BY <2>1 DEF Matching, SearchClause
    <3>2. \A f \in DOMAIN EnumFields \cap DOMAIN all : \A s \in all[f] : IsName(EnumFields[f], s)
      BY <2>4
    <3> QED
      BY <2>9, <3>1, <3>2, SearchesFind
  <2> QED
    BY <2>1, <2>10, <2>11 DEF OptionsSelectAll
<1> QED
  BY <1>1, LInvInvariant, PTL DEF LInv
=============================================================================
