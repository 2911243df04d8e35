------------------------------ MODULE Filters ------------------------------
(***************************************************************************)
(* The SQL that searches send: utils/sql_builder, the filters of GET       *)
(* /animals and the name pattern of GET /orgs.  A clause names columns and *)
(* numbered placeholders; its parameters are bound by position.  What      *)
(* PostgreSQL makes of a clause is modelled at the end.                    *)
(***************************************************************************)
EXTENDS AnimalForms, SequencesExt

CONSTANTS
  LowerOf,      \* the lower case of each character of a name
  Breeds,       \* ids of the rows of breeds
  BreedType     \* breeds.animal_type

-----------------------------------------------------------------------------
(* From the query arguments to the filter.                                 *)

\* The arguments of GET /animals that list names of an attribute.
EnumFields ==
  [animal_types |-> "type", sizes |-> "size", genders |-> "gender",
   care_levels |-> "care_level", colors |-> "color", good_withs |-> "good_with",
   statuses |-> "status"]
ListFields == DOMAIN EnumFields \cup {"breeds", "city_ids"}
SearchArguments == ListFields \cup {"age_gte", "age_lte"}
FilterFields == ListFields \cup {"min_age", "max_age"}

\* ParseFiltersFromRequest: args has a field for each argument of the URL.
\* An empty list is an absent one.
ParseFilters(args) ==
  [f \in {g \in DOMAIN args : g \in ListFields => args[g] # {}} |->
     IF f \in DOMAIN EnumFields THEN {FromJson(EnumFields[f], s) : s \in args[f]}
     ELSE args[f]]

\* AnimalFilters::from_dto
FromDto(dto) ==
  [f \in FilterFields |->
     CASE f = "min_age" -> IF "age_gte" \in DOMAIN dto THEN dto.age_gte ELSE 0
       [] f = "max_age" -> IF "age_lte" \in DOMAIN dto THEN dto.age_lte ELSE 100
       [] OTHER -> IF f \in DOMAIN dto THEN dto[f] ELSE {}]

\* The arguments that a search may have; whole numbers for ages.
IsSearch(args) ==
  /\ DOMAIN args \subseteq SearchArguments
  /\ \A f \in {"age_gte", "age_lte"} \cap DOMAIN args : args[f] \in Int

-----------------------------------------------------------------------------
(* The query builder.                                                      *)

\* kFilterWhitelist of AnimalRepository.
AnimalFields ==
  [breeds |-> "a.breed_id", cityIds |-> "o.city_id", animalTypes |-> "b.animal_type::text",
   sizes |-> "a.size::text", genders |-> "a.gender::text",
   careLevels |-> "a.care_level::text", colors |-> "a.color::text",
   goodWiths |-> "a.good_with::text", statuses |-> "a.status::text", age |-> "a.age"]

\* EnumsToLiterals
SentValues(f, values) ==
  IF f \in DOMAIN EnumFields THEN {Literal(EnumFields[f], e) : e \in values} ELSE values

Condition(column, op, value) == [column |-> column, op |-> op, value |-> value]

\* A list that is empty restricts nothing.
AnyOf(filter, field, column) ==
  IF filter[field] = {} THEN <<>>
  ELSE <<Condition(column, "any", SentValues(field, filter[field]))>>

\* build_conditions
BuildConditions(filter) ==
  AnyOf(filter, "breeds", "breeds") \o AnyOf(filter, "city_ids", "cityIds")
  \o AnyOf(filter, "animal_types", "animalTypes") \o AnyOf(filter, "sizes", "sizes")
  \o AnyOf(filter, "genders", "genders") \o AnyOf(filter, "care_levels", "careLevels")
  \o AnyOf(filter, "colors", "colors") \o AnyOf(filter, "good_withs", "goodWiths")
  \o AnyOf(filter, "statuses", "statuses")
  \o <<Condition("age", ">=", filter.min_age), Condition("age", "<=", filter.max_age)>>

\* Mutant of EscapeForLike: the text is used as it is.
EscapeNothing(text) == text

\* Every wildcard and every backslash gets a backslash in front of it.
EscapeForLike(text) ==
  FoldLeft(LAMBDA done, c : done \o (IF c \in {"%", "_", "\\"} THEN <<"\\", c>> ELSE <<c>>),
           <<>>, text)

\* Condition::Ilike
NameCondition(name) == Condition("name", "ilike", EscapeForLike(name))

\* Each condition pushes one parameter and takes its number; page is Null or
\* <<limit, offset>>, which come last.
BuildQueryClause(conditions, fields, page) ==
  LET n == Len(conditions)
      values == [i \in 1..n |-> conditions[i].value]
  IN  [where  |-> [i \in 1..n |-> [column |-> fields[conditions[i].column],
                                  op |-> conditions[i].op, hole |-> i]],
       params |-> IF page = Null THEN values ELSE values \o page,
       limit  |-> IF page = Null THEN Null ELSE n + 1,
       offset |-> IF page = Null THEN Null ELSE n + 2]

-----------------------------------------------------------------------------
(* What PostgreSQL does with the clause.                                   *)

SameLetter(c, d) == LowerOf[c] = LowerOf[d]

\* text ILIKE pattern ESCAPE '\'
ILike(text, pattern) ==
  LET m == Len(pattern)
      n == Len(text)
      matches[p \in (1..(m + 2)) \X (1..(n + 1))] ==
        LET i == p[1]
            j == p[2]
        IN  IF i > m THEN i = m + 1 /\ j = n + 1
            ELSE IF pattern[i] = "%"
                 THEN matches[<<i + 1, j>>] \/ (j <= n /\ matches[<<i, j + 1>>])
            ELSE IF j > n THEN FALSE
            ELSE IF pattern[i] = "\\"
                 THEN /\ i < m /\ SameLetter(pattern[i + 1], text[j])
                      /\ matches[<<i + 2, j + 1>>]
            ELSE /\ pattern[i] = "_" \/ SameLetter(pattern[i], text[j])
                 /\ matches[<<i + 1, j + 1>>]
  IN  matches[<<1, 1>>]

\* One term of WHERE for the value of its column.
Holds(term, params, value) ==
  LET p == params[term.hole] IN
  CASE term.op = "any"   -> value \in p
    [] term.op = ">="    -> value >= p
    [] term.op = "<="    -> value <= p
    [] term.op = "ilike" -> ILike(value, <<"%">> \o p \o <<"%">>)

\* The rows that satisfy the clause; columns[r] has the value of each column
\* a clause may name.
SelectedRows(clause, columns) ==
  {r \in DOMAIN columns :
     \A i \in DOMAIN clause.where :
       Holds(clause.where[i], clause.params, columns[r][clause.where[i].column])}

-----------------------------------------------------------------------------
(* GET /animals/filters                                                    *)

\* enum_range
EnumRange(attribute) == {FromText(attribute, s) : s \in ToSet(EnumTypes[attribute])}

Ages(rows) == {r.age : r \in rows}

\* Mutant of AvailableFilters: the largest age is left out.
AvailableBelowMax(rows, cities) ==
  [f \in FilterFields |->
     CASE f = "breeds" -> Breeds
       [] f = "city_ids" -> cities
       [] f = "min_age" -> IF rows = {} THEN 0 ELSE Min(Ages(rows))
       [] f = "max_age" -> IF rows = {} THEN 100 ELSE Max(Ages(rows) \cup {1}) - 1
       [] OTHER -> EnumRange(EnumFields[f])]

\* AnimalRepository::GetAvailableFilters over the rows of animals and the
\* cities of their shelters.
AvailableFilters(rows, cities) ==
  [f \in FilterFields |->
     CASE f = "breeds" -> Breeds
       [] f = "city_ids" -> cities
       [] f = "min_age" -> IF rows = {} THEN 0 ELSE Min(Ages(rows))
       [] f = "max_age" -> IF rows = {} THEN 100 ELSE Max(Ages(rows))
       [] OTHER -> EnumRange(EnumFields[f])]

\* AnimalFilters::to_dto and Serialize: the options as the arguments of a
\* search for all of them.
OfferedOptions(filters) ==
  [f \in SearchArguments |->
     CASE f = "age_gte" -> filters.min_age
       [] f = "age_lte" -> filters.max_age
       [] f \in DOMAIN EnumFields ->
            {ToJson(EnumFields[f], e) : e \in filters[f] \ {"kUnspecified"}}
       [] OTHER -> filters[f]]
=============================================================================
