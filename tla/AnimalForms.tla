----------------------------- MODULE AnimalForms -----------------------------
(***************************************************************************)
(* From the body of POST or PUT /animals to the row of the table, and from *)
(* the row to the JSON of an answer.  A body is a record of the fields it  *)
(* has, with the names of Attributes for values; a row holds PostgreSQL's  *)
(* literals.  Photos and the description are left out.                     *)
(***************************************************************************)
EXTENDS Attributes, Integers

CONSTANT Null

EnumColumns == Attributes \ {"type"}
BodyColumns == EnumColumns \cup {"name", "breed_id", "age"}
RowColumns == BodyColumns \cup {"user_id"}

ParsedField(c, v) == IF c \in EnumColumns THEN FromJson(c, v) ELSE v
StoredField(c, v) == IF c \in EnumColumns THEN Literal(c, v) ELSE v

-----------------------------------------------------------------------------
(* POST /animals                                                           *)

\* Parse of AnimalRegisterDTO and from_register_dto, which takes the fields
\* by position.
FromRegisterDto(body) ==
  [c \in RowColumns |-> IF c = "user_id" THEN Null ELSE ParsedField(c, body[c])]

\* Mutant of InsertedRow: an array of the columns is bound in another order.
InsertedSwapped(animal) ==
  [c \in DOMAIN animal |->
     IF c = "good_with" /\ animal[c] = "kCats" THEN "dogs" ELSE StoredField(c, animal[c])]

\* AnimalRepository::Create: VALUES in the order of the column list.
InsertedRow(animal) == [c \in DOMAIN animal |-> StoredField(c, animal[c])]

-----------------------------------------------------------------------------
(* PUT /animals/{id}                                                       *)

\* What from_update_dto writes for a field that is not in the body, and what
\* Update takes for one.
Unset ==
  [c \in BodyColumns |-> CASE c = "name" -> ""
                          [] c \in {"breed_id", "age"} -> -1
                          [] OTHER -> "kUnspecified"]

FromUpdateDto(body) ==
  [c \in BodyColumns |-> IF c \in DOMAIN body THEN ParsedField(c, body[c]) ELSE Unset[c]]

\* The SET list.  PostgreSQL refuses an empty one.
SetList(animal) == {c \in BodyColumns : animal[c] # Unset[c]}

\* Mutant of UpdatedRow: the fields that are no enums are always written.
UpdatedPlainFields(row, animal) ==
  [c \in DOMAIN row |->
     IF c = "user_id" THEN Null
     ELSE IF c \in EnumColumns \ SetList(animal) THEN row[c]
     ELSE StoredField(c, animal[c])]

\* A status in the body clears the adopter.
UpdatedRow(row, animal) ==
  [c \in DOMAIN row |->
     IF c \in SetList(animal) THEN StoredField(c, animal[c])
     ELSE IF c = "user_id" /\ "status" \in SetList(animal) THEN Null
     ELSE row[c]]

-----------------------------------------------------------------------------

\* The row as userver reads it, to_dto and Serialize: what an answer shows.
Served(row) ==
  [c \in BodyColumns |->
     IF c \in EnumColumns THEN ToJson(c, FromLiteral(c, row[c])) ELSE row[c]]

\* An INSERT or UPDATE is refused when a value is none of its enum type's.
FitsEnumTypes(row) ==
  \A c \in EnumColumns : \E i \in DOMAIN EnumTypes[c] : EnumTypes[c][i] = row[c]
=============================================================================
