------------------------------ MODULE Listings ------------------------------
(***************************************************************************)
(* The endpoints that list rows a page at a time (requests, animals,       *)
(* organizations, reviews, posts) and GET /animals/{id}.  A listing sends  *)
(* up to five SELECTs, and other calls write between them.  Listings write *)
(* nothing, so one of them at a time, against every other call's           *)
(* statements, shows all there is to see.                                  *)
(***************************************************************************)
EXTENDS Filters

CONSTANTS
  Users, Orgs, Animals, Requests, Posts, Reviews,  \* ids, ascending in time
  Parents,     \* the rows that a row's ON DELETE CASCADE columns name
  CityOf,      \* organizations.city_id
  NameOf,      \* organizations.name
  InitLive, InitMember, InitAnimals,   \* the tables at the start
  Forms, Edits,  \* bound: bodies of POST and PUT /animals
  Queries,     \* bound: what is asked for, and who asks
  Pages,       \* bound: the page numbers in the URL
  PageSize,    \* kPageSize
  HalfInt,     \* the number of non-negative values of an int
  MaxWrites    \* bound: statements of other calls

Ids == Users \cup Orgs \cup Animals \cup Requests \cup Posts \cup Reviews

\* The tables' ids are told apart; animals and posts have a shelter, requests
\* and reviews an animal and a user, and a user asks for an animal once.
ASSUME ListingsAssumption ==
  /\ Ids \subseteq Nat /\ IsFiniteSet(Ids) /\ Null \notin Ids
  /\ Users \cap (Orgs \cup Animals \cup Requests \cup Posts \cup Reviews) = {}
  /\ Orgs \cap (Animals \cup Requests \cup Posts \cup Reviews) = {}
  /\ Animals \cap (Requests \cup Posts \cup Reviews) = {}
  /\ Pages \subseteq Nat \ {0}
  /\ PageSize \in Nat \ {0} /\ HalfInt \in Nat \ {0} /\ MaxWrites \in Nat
  /\ \A i \in Users \cup Orgs : Parents[i] = {}
  /\ \A i \in Animals \cup Posts : \E o \in Orgs : Parents[i] = {o}
  /\ \A i \in Requests \cup Reviews : \E a \in Animals, u \in Users : Parents[i] = {a, u}
  /\ \A i, j \in Requests : Parents[i] = Parents[j] => i = j

\* What a column of animals may hold.
Cells == STRING \cup Int \cup {Null} \cup (UNION {ToSet(EnumTypes[c]) : c \in EnumColumns})

\* A row of animals, the body of a POST that the validation lets pass, and
\* the body of such a PUT.
IsRow(row) ==
  /\ row = [c \in RowColumns |-> row[c]]
  /\ FitsEnumTypes(row) /\ row.name \in STRING
  /\ row.breed_id \in Breeds /\ row.age \in Int /\ row.user_id \in Users \cup {Null}
IsForm(body) ==
  /\ body = [c \in BodyColumns |-> body[c]]
  /\ \A c \in EnumColumns : IsName(c, body[c])
  /\ body.name \in STRING /\ body.breed_id \in Breeds /\ body.age \in Int
IsEdit(body) ==
  /\ DOMAIN body \subseteq BodyColumns
  /\ \A c \in EnumColumns \cap DOMAIN body : IsName(c, body[c])
  /\ "breed_id" \in DOMAIN body => body.breed_id \in Breeds \cup {-1}
  /\ "age" \in DOMAIN body => body.age \in Int
  /\ "name" \in DOMAIN body => body.name \in STRING \ {""}

ASSUME RowsAssumption ==
  /\ InitLive \subseteq Ids /\ \A i \in InitLive : Parents[i] \subseteq InitLive
  /\ InitMember \in [Users -> Orgs \cup {Null}]
  /\ \A u \in Users : InitMember[u] # Null => {u, InitMember[u]} \subseteq InitLive
  /\ \A u, v \in Users : InitMember[u] = InitMember[v] => u = v \/ InitMember[u] = Null
  /\ InitAnimals = [a \in Animals |-> InitAnimals[a]]
  /\ \A a \in Animals : IF a \in InitLive THEN IsRow(InitAnimals[a])
                         ELSE InitAnimals[a] = Null
  /\ Breeds \subseteq Int /\ Null \notin [RowColumns -> Cells]
  /\ \A body \in Forms : IsForm(body)
  /\ \A body \in Edits : IsEdit(body)
  /\ \A b \in Breeds : IsName("type", BreedType[b])
  /\ \A o \in Orgs : NameOf[o] \in Seq(DOMAIN LowerOf)

\* The search of animals has its validated arguments, the one of organizations
\* a text, the other listings an id; a listing of requests has a caller, who is logged in.
ASSUME QueriesAssumption ==
  \A q \in Queries :
    /\ q.kind \in {"requests", "shelter_animals", "reviews", "posts", "animals", "orgs", "animal"}
    /\ q.by \in Users \cup {Null}
    /\ q.kind \in {"requests", "shelter_animals", "reviews", "posts"} => q.of \in Orgs
    /\ q.kind = "requests" => q.by # Null
    /\ q.kind = "animal" => q.of \in Animals
    /\ q.kind = "animals" => IsSearch(q.of)
    /\ q.kind = "orgs" => q.of \in Seq(DOMAIN LowerOf)

VARIABLES
  live,      \* ids of the rows of all tables
  unused,    \* ids no sequence has handed out yet
  memberOf,  \* users.organization_id
  founder,   \* of a shelter: who registered it and is not linked to it yet, or Null
  animals,   \* the row of each animal, or Null
  writes,    \* the number of statements of other calls so far
  call,      \* the listing that runs, or Null
  answer,    \* what the last one answered, until the next or a write
  walk       \* the pages seen since page 1 while nobody wrote, or Null

tables == <<live, unused, memberOf, founder, animals>>
vars == <<tables, writes, call, answer, walk>>

Init ==
  /\ live = InitLive /\ unused = Ids \ InitLive
  /\ memberOf = InitMember /\ founder = [o \in Orgs |-> Null]
  /\ animals = InitAnimals
  /\ writes = 0 /\ call = Null /\ answer = Null /\ walk = Null

OrgOf(a) == CHOOSE o \in Orgs : o \in Parents[a]
AnimalOf(r) == CHOOSE a \in Animals : a \in Parents[r]
UserOf(r) == CHOOSE u \in Users : u \in Parents[r]

-----------------------------------------------------------------------------
(* The statements of other calls.                                          *)

Write ==
  /\ writes < MaxWrites /\ writes' = writes + 1
  /\ call' = IF call = Null THEN Null ELSE [call EXCEPT !.calm = FALSE]
  /\ answer' = Null /\ walk' = Null

InsertRow(i) ==
  /\ i \in unused \ (Animals \cup Orgs) /\ Parents[i] \subseteq live
  /\ live' = live \cup {i} /\ unused' = unused \ {i}
  /\ UNCHANGED <<memberOf, founder, animals>>

Publish(a, body) ==
  /\ a \in unused \cap Animals /\ Parents[a] \subseteq live
  /\ live' = live \cup {a} /\ unused' = unused \ {a}
  /\ animals' = [animals EXCEPT ![a] = InsertedRow(FromRegisterDto(body))]
  /\ UNCHANGED <<memberOf, founder>>

Edit(a, body) ==
  /\ a \in live \cap Animals /\ SetList(FromUpdateDto(body)) # {}
  /\ animals' = [animals EXCEPT ![a] = UpdatedRow(@, FromUpdateDto(body))]
  /\ UNCHANGED <<live, unused, memberOf, founder>>

\* OrganizationService::Register after its check: the INSERT of the shelter.
\* Every account was without a shelter once, and the check may be that old: u
\* may have a shelter by now, or be gone.
Found(u, o) ==
  /\ o \in unused /\ u \notin unused
  /\ live' = live \cup {o} /\ unused' = unused \ {o}
  /\ founder' = [founder EXCEPT ![o] = u]
  /\ UNCHANGED <<memberOf, animals>>

\* Then link_organization, which replaces the shelter the user has.  The
\* foreign key refuses a shelter that is gone, AsSingleRow a user.
Link(u, o) ==
  /\ founder[o] = u /\ {u, o} \subseteq live
  /\ memberOf' = [memberOf EXCEPT ![u] = o]
  /\ founder' = [founder EXCEPT ![o] = Null]
  /\ UNCHANGED <<live, unused, animals>>

Children(gone) == {i \in live : Parents[i] \cap gone # {}}

\* Mutant of GoneWith: fk_reviews_animal and fk_adopt_requests_animal have no
\* ON DELETE CASCADE.
GoneToAnimals(i) ==
  LET roots == {i} \cup (IF i \in Users THEN {memberOf[i]} \ {Null} ELSE {})
  IN  roots \cup Children(roots)

\* What goes with a row: the shelter of a user by the trigger, the rest by
\* cascades, from shelters to animals and from there to requests and reviews.
GoneWith(i) ==
  LET roots == {i} \cup (IF i \in Users THEN {memberOf[i]} \ {Null} ELSE {})
      next == roots \cup Children(roots)
  IN  next \cup Children(next)

\* The owner stays in the row of an animal, ON DELETE SET NULL or not: no
\* listing shows it.
DeleteRow(i) ==
  /\ i \in live
  /\ LET gone == GoneWith(i) IN
     /\ live' = live \ gone
     /\ animals' = [a \in Animals |-> IF a \in gone THEN Null ELSE animals[a]]
     /\ memberOf' = [u \in Users |-> IF {u, memberOf[u]} \cap gone # {} THEN Null
                                     ELSE memberOf[u]]
  /\ UNCHANGED <<unused, founder>>

OthersWrite ==
  /\ Write
  /\ \/ \E i \in Ids : InsertRow(i) \/ DeleteRow(i)
     \/ \E a \in Animals : (\E body \in Forms : Publish(a, body))
                           \/ (\E body \in Edits : Edit(a, body))
     \/ \E u \in Users, o \in Orgs : Found(u, o) \/ Link(u, o)

-----------------------------------------------------------------------------
(* What a listing selects, in which order, and which part of it.           *)

\* The columns the two searches may name.
AnimalColumns(a) ==
  LET row == animals[a] IN
  [c \in {AnimalFields[f] : f \in DOMAIN AnimalFields} |->
     CASE c = "a.breed_id" -> row.breed_id
       [] c = "o.city_id" -> CityOf[OrgOf(a)]
       [] c = "b.animal_type::text" -> BreedType[row.breed_id]
       [] c = "a.size::text" -> row.size
       [] c = "a.gender::text" -> row.gender
       [] c = "a.care_level::text" -> row.care_level
       [] c = "a.color::text" -> row.color
       [] c = "a.good_with::text" -> row.good_with
       [] c = "a.status::text" -> row.status
       [] c = "a.age" -> row.age]

\* FindByFiltersPaginated, FindByNameContainingPaginated
SearchClause(q, page) ==
  IF q.kind = "animals"
  THEN BuildQueryClause(BuildConditions(FromDto(ParseFilters(q.of))), AnimalFields, page)
  ELSE BuildQueryClause(<<NameCondition(q.of)>>, [name |-> "name"], page)

AnimalsIn(o) == {a \in live \cap Animals : OrgOf(a) = o}

\* The rows of FROM ... WHERE, the same in both statements of a listing.
Matching(q) ==
  CASE q.kind = "requests" -> {r \in live \cap Requests : AnimalOf(r) \in AnimalsIn(q.of)}
    [] q.kind = "shelter_animals" -> AnimalsIn(q.of)
    [] q.kind = "reviews" -> {r \in live \cap Reviews : AnimalOf(r) \in AnimalsIn(q.of)}
    [] q.kind = "posts" -> {p \in live \cap Posts : q.of \in Parents[p]}
    [] q.kind = "animals" ->
         SelectedRows(SearchClause(q, Null), [a \in live \cap Animals |-> AnimalColumns(a)])
    [] q.kind = "orgs" ->
         SelectedRows(SearchClause(q, Null), [o \in live \cap Orgs |-> [name |-> NameOf[o]]])

Rank(a) == IF animals[a].status = "available" THEN 1 ELSE 2

\* ORDER BY: the animals of a shelter with the available ones first, posts
\* and reviews with the latest first.
Before(kind, i, j) ==
  CASE kind = "shelter_animals" -> Rank(i) < Rank(j) \/ (Rank(i) = Rank(j) /\ i < j)
    [] kind \in {"posts", "reviews"} -> i > j
    [] OTHER -> i < j

\* Mutant of Orders: the status alone orders the animals of a shelter.
OrdersByStatus(kind, rows) ==
  CASE kind = "orgs" -> SetToSeqs(rows)
    [] kind = "shelter_animals" ->
         {s \in SetToSeqs(rows) : IsSorted(s, LAMBDA i, j : Rank(i) <= Rank(j))}
    [] OTHER -> {s \in SetToSeqs(rows) : IsSorted(s, LAMBDA i, j : Before(kind, i, j))}

\* The search for organizations has no ORDER BY: any order will do.
Orders(kind, rows) ==
  {s \in SetToSeqs(rows) : kind = "orgs" \/ IsSorted(s, LAMBDA i, j : Before(kind, i, j))}

\* static_cast<int>
ToInt(n) == ((n + HalfInt) % (2 * HalfInt)) - HalfInt

\* Mutant of Offset: pages are counted from zero.
OffsetFromZero(kind, page) == page * PageSize

\* Three of the repositories cast the 64-bit product to int.
Offset(kind, page) ==
  IF kind \in {"animals", "orgs", "reviews"} THEN ToInt((page - 1) * PageSize)
  ELSE (page - 1) * PageSize

TotalPages(total) == IF total = 0 THEN 1 ELSE (total + PageSize - 1) \div PageSize

-----------------------------------------------------------------------------
(* The listing.                                                            *)

\* An unknown name of an attribute: json::Exception, which nobody catches.
Unparsable(q) ==
  q.kind = "animals" /\ \E f \in DOMAIN EnumFields \cap DOMAIN q.of :
                          \E s \in q.of[f] : ~IsName(EnumFields[f], s)

FirstStep ==
  [requests |-> "member", shelter_animals |-> "org", reviews |-> "org", posts |-> "org",
   animals |-> "count", orgs |-> "count", animal |-> "animal"]

NewCall(q, p) ==
  [query |-> q, page |-> p, step |-> FirstStep[q.kind], calm |-> TRUE,
   count |-> 0, rows |-> <<>>, open |-> {}, found |-> {}]

\* Who turns the pages goes on with the next one.
Continues(q, p) == walk # Null /\ walk.query = q /\ walk.turned = p - 1

\* The pages seen once a calm listing has shown ids.
Turned(c, ids) ==
  IF c.page = 1 /\ c.query.kind \notin {"orgs", "animal"}
  THEN [query |-> c.query, turned |-> 1, ids |-> ids]
  ELSE IF Continues(c.query, c.page) THEN [walk EXCEPT !.turned = @ + 1, !.ids = @ \o ids]
  ELSE Null

IdsOf(items) == [i \in DOMAIN items |-> items[i].id]

\* items: the id of each, and the flag or name looked up for it.
Reply(c, status, items, pages) ==
  /\ answer' = [query |-> c.query, page |-> c.page, status |-> status, items |-> items,
                total |-> c.count, pages |-> pages, calm |-> c.calm]
  /\ walk' = IF c.calm /\ status = 200 THEN Turned(c, IdsOf(items)) ELSE Null
  /\ call' = Null
  /\ UNCHANGED <<tables, writes>>

Fails(c, status) == Reply(c, status, <<>>, 0)

Goto(c) == call' = c /\ UNCHANGED <<tables, writes, answer, walk>>

Ask ==
  /\ call = Null
  /\ \E q \in Queries, p \in Pages :
       /\ q.kind = "animal" => p = 1
       /\ answer = Null \/ Continues(q, p)
       /\ IF Unparsable(q) THEN Fails(NewCall(q, p), 500)
          ELSE /\ call' = NewCall(q, p) /\ answer' = Null
               /\ walk' = IF Continues(q, p) THEN walk ELSE Null
               /\ UNCHANGED <<tables, writes>>

\* The client has read the answer and turns no more pages.
Leave ==
  /\ answer # Null
  /\ answer' = Null /\ walk' = Null
  /\ UNCHANGED <<tables, writes, call>>

At(step) == call # Null /\ call.step = step

\* Mutant of CheckMember: any member of a shelter passes.
CheckSomeMember ==
  /\ At("member")
  /\ IF memberOf[call.query.by] # Null THEN Goto([call EXCEPT !.step = "count"])
     ELSE Fails(call, 403)

\* AdoptRequestService::GetByOrganizationId
CheckMember ==
  /\ At("member")
  /\ IF memberOf[call.query.by] = call.query.of THEN Goto([call EXCEPT !.step = "count"])
     ELSE Fails(call, 403)

\* OrganizationService::Get
CheckOrg ==
  /\ At("org")
  /\ IF call.query.of \in live THEN Goto([call EXCEPT !.step = "count"])
     ELSE Fails(call, 404)

Count ==
  /\ At("count")
  /\ Goto([call EXCEPT !.count = Cardinality(Matching(call.query)), !.step = "page"])

\* The statement after the page, or none.
AfterPage(c) ==
  CASE c.query.kind = "requests" -> "animals"
    [] c.query.kind \in {"shelter_animals", "animals"} /\ c.query.by # Null -> "requested"
    [] c.query.kind = "reviews" /\ c.rows # <<>> -> "names"
    [] OTHER -> "none"

PlainItems(c) ==
  [i \in DOMAIN c.rows |-> [id |-> c.rows[i], mark |-> FALSE, named |-> TRUE]]

\* LIMIT and OFFSET; PostgreSQL refuses a negative one.
ReadPage ==
  /\ At("page")
  /\ LET kind == call.query.kind
         skip == Offset(kind, call.page)
         rows == Matching(call.query)
     IN  IF skip < 0 THEN Fails(call, 500)
         ELSE \E order \in Orders(kind, rows) :
           LET part == SubSeq(order, skip + 1, Min({skip + PageSize, Len(order)}))
               got == [call EXCEPT
                 !.rows = part,
                 !.open = {a \in ToSet(part) \cap Animals : animals[a].status = "available"}]
           IN  IF kind = "requests" /\ part = <<>> THEN Reply(got, 200, <<>>, 1)
               ELSE IF AfterPage(got) = "none"
               THEN Reply(got, 200, PlainItems(got), TotalPages(got.count))
               ELSE Goto([got EXCEPT !.step = AfterPage(got)])

\* Mutant of CanBeAdopted: the user's own requests are not looked at.
CanBeAdoptedAnyway(available, asked, a) == available

CanBeAdopted(available, asked, a) == available /\ a \notin asked

\* GetAnimalIdsByUserId, last in every listing of animals with a caller.
ReadRequested ==
  /\ At("requested")
  /\ LET asked == {AnimalOf(r) : r \in {s \in live \cap Requests : UserOf(s) = call.query.by}}
         item(a) == [id |-> a, mark |-> CanBeAdopted(a \in call.open, asked, a), named |-> TRUE]
     IN  Reply(call, 200, [i \in DOMAIN call.rows |-> item(call.rows[i])],
               TotalPages(call.count))

\* AnimalRepository::GetById for GET /animals/{id}.
ReadAnimal ==
  /\ At("animal")
  /\ LET a == call.query.of
         got == [call EXCEPT !.count = 1, !.rows = <<a>>,
                   !.open = IF a \in live /\ animals[a].status = "available" THEN {a} ELSE {}]
     IN  IF a \notin live THEN Fails(call, 404)
         ELSE IF call.query.by = Null THEN Reply(got, 200, PlainItems(got), 1)
         ELSE Goto([got EXCEPT !.step = "requested"])

\* AnimalService::GetByIds
ReadAnimals ==
  /\ At("animals")
  /\ Goto([call EXCEPT !.found = {AnimalOf(r) : r \in ToSet(call.rows)} \cap live,
                       !.step = "users"])

\* Mutant of ReadUsers: the animals are looked up in the users' map.
ReadUsersOnly ==
  /\ At("users")
  /\ IF \A r \in ToSet(call.rows) : Parents[r] \subseteq live \cup {AnimalOf(r)}
     THEN Fails(call, 500)
     ELSE Reply(call, 200, PlainItems(call), TotalPages(call.count))

\* UserService::GetUsersByIds; at() throws for a user or an animal that was
\* not found, and nobody catches it.
ReadUsers ==
  /\ At("users")
  /\ IF \A r \in ToSet(call.rows) : UserOf(r) \in live /\ AnimalOf(r) \in call.found
     THEN Reply(call, 200, PlainItems(call), TotalPages(call.count))
     ELSE Fails(call, 500)

\* AnimalService::GetNames; the name of an animal that is gone is empty.  The
\* author may edit a review.
ReadNames ==
  /\ At("names")
  /\ LET item(r) == [id |-> r, mark |-> UserOf(r) = call.query.by,
                     named |-> AnimalOf(r) \in live]
     IN  Reply(call, 200, [i \in DOMAIN call.rows |-> item(call.rows[i])],
               TotalPages(call.count))

Read ==
  \/ Ask \/ Leave \/ CheckMember \/ CheckOrg \/ Count \/ ReadPage \/ ReadRequested
  \/ ReadAnimal \/ ReadAnimals \/ ReadUsers \/ ReadNames

Next == Read \/ OthersWrite

Spec == Init /\ [][Next]_vars

-----------------------------------------------------------------------------

\* The tables keep their keys: every row's parents are there, an animal's row
\* fits its enum types, and a member's shelter exists.
TypeOK ==
  /\ live \subseteq Ids /\ unused \subseteq Ids /\ live \cap unused = {}
  /\ \A i \in live : Parents[i] \subseteq live
  /\ \A a \in Animals : animals[a] # Null <=> a \in live
  /\ \A a \in live \cap Animals : FitsEnumTypes(animals[a])
  /\ \A u \in Users : memberOf[u] # Null => {u, memberOf[u]} \subseteq live
  /\ \A o \in Orgs : founder[o] # Null => {founder[o], o} \cap unused = {}
  /\ writes \in 0..MaxWrites
  /\ answer # Null => answer.status \in {200, 403, 404, 500}

(* What the arguments of a search ask for, in the words of its user.       *)

\* A filter that is given and does not name the attribute's value rejects the
\* animal.  Ages are between 0 and 100 unless the search says otherwise.
Meant(args, a) ==
  LET row == animals[a]
      accepts(f, v) == f \notin DOMAIN args \/ args[f] = {} \/ v \in args[f]
  IN  /\ accepts("breeds", row.breed_id) /\ accepts("city_ids", CityOf[OrgOf(a)])
      /\ accepts("animal_types", BreedType[row.breed_id])
      /\ accepts("sizes", Served(row).size) /\ accepts("genders", Served(row).gender)
      /\ accepts("care_levels", Served(row).care_level)
      /\ accepts("colors", Served(row).color) /\ accepts("statuses", Served(row).status)
      /\ accepts("good_withs", Served(row).good_with)
      /\ row.age >= (IF "age_gte" \in DOMAIN args THEN args.age_gte ELSE 0)
      /\ row.age <= (IF "age_lte" \in DOMAIN args THEN args.age_lte ELSE 100)

\* The name contains what was typed, in any case.
NameHas(name, typed) ==
  \E k \in 0..(Len(name) - Len(typed)) :
    \A i \in DOMAIN typed : SameLetter(name[k + i], typed[i])

Wanted(q) ==
  CASE q.kind = "animals" -> {a \in live \cap Animals : Meant(q.of, a)}
    [] q.kind = "orgs" -> {o \in live \cap Orgs : NameHas(NameOf[o], q.of)}
    [] OTHER -> Matching(q)

\* Who turns the pages of a listing while nobody writes sees every row once:
\* no row twice, none that was not asked for and, when the last page has been
\* turned, all of them.  The search for organizations is not ordered and
\* promises less (PagesAgree).
WalkShowsAll ==
  walk # Null =>
    /\ Cardinality(ToSet(walk.ids)) = Len(walk.ids)
    /\ ToSet(walk.ids) \subseteq Wanted(walk.query)
    /\ walk.turned >= TotalPages(Cardinality(Wanted(walk.query))) =>
         ToSet(walk.ids) = Wanted(walk.query)

\* A page of an undisturbed listing goes with its totals, ordered or not: it
\* shows rows that were asked for, full pages before the last one, the rest on
\* it and none after it.  Beyond the end, a listing of requests says that
\* there is one page.
PagesAgree ==
  answer # Null /\ answer.status = 200 /\ answer.calm /\ answer.query.kind # "animal" =>
    LET n == Cardinality(Wanted(answer.query))
        last == IF n = 0 THEN 1 ELSE CHOOSE k \in 1..n : /\ k * PageSize >= n
                                                       /\ (k - 1) * PageSize < n
    IN  /\ answer.total = n
        /\ answer.pages = last \/ (answer.query.kind = "requests" /\ answer.items = <<>>)
        /\ {answer.items[i].id : i \in DOMAIN answer.items} \subseteq Wanted(answer.query)
        /\ Len(answer.items) =
             IF answer.page < last THEN PageSize
             ELSE IF answer.page = last THEN n - (last - 1) * PageSize ELSE 0

\* A listing fails, or shows a review without its animal's name, only if a
\* row it had read was deleted while it ran; the lookups of requests find
\* what the join found otherwise.
FailsOnlyWhenRaced ==
  answer # Null /\ ~Unparsable(answer.query) =>
    /\ answer.status = 500 => ~answer.calm
    /\ \A i \in DOMAIN answer.items :
         answer.items[i].named \/ (~answer.calm /\ answer.items[i].id \notin live)

\* Nobody sees the requests of somebody else's shelter, although the membership
\* is read up to four statements before the requests and their users' e-mails, and a
\* second registration may link the caller to another shelter meanwhile: the
\* shelter the caller was a member of has no other member then, and never gets one.
MembersSeeRequests ==
  call # Null /\ call.query.kind = "requests" /\ call.step # "member" =>
    \A u \in Users : memberOf[u] = call.query.of => u = call.query.by

\* An undisturbed answer says that an animal can be adopted exactly if a
\* request of the caller would be accepted now.
CanBeAdoptedIsTrue ==
  answer # Null /\ answer.calm /\ answer.query.by \in live
  /\ answer.query.kind \in {"shelter_animals", "animals", "animal"} =>
    \A i \in DOMAIN answer.items :
      LET a == answer.items[i].id IN
      answer.items[i].mark <=>
        /\ animals[a].status = "available"
        /\ \A r \in live \cap Requests : Parents[r] # {a, answer.query.by}

\* A search for every option that GET /animals/filters offers finds every
\* animal, through four spellings of each name.
OptionsSelectAll ==
  LET rows == {animals[a] : a \in live \cap Animals}
      cities == {CityOf[OrgOf(a)] : a \in live \cap Animals}
      all == OfferedOptions(AvailableFilters(rows, cities))
  IN  Matching([kind |-> "animals", of |-> all, by |-> Null]) = live \cap Animals

\* Whatever is published or edited is served the way the body said it, and an
\* edit leaves the other fields alone.  The exception: a breed or an age of -1
\* stands for none.
BodiesAreServed ==
  [][\A a \in Animals :
       /\ animals[a] = Null /\ animals'[a] # Null =>
            \E body \in Forms : Served(animals'[a]) = body
       /\ animals[a] # Null /\ animals'[a] \notin {Null, animals[a]} =>
            \E body \in Edits : \A c \in BodyColumns :
              Served(animals'[a])[c] =
                IF c \in DOMAIN body /\ ~(c \in {"breed_id", "age"} /\ body[c] = -1) THEN body[c]
                ELSE Served(animals[a])[c]]_vars

\* A page after the last one is empty: tests/test_animal_list.py:653.
BeyondTheEndIsEmpty ==
  answer # Null /\ answer.status # 500 /\ answer.page > answer.pages => answer.items = <<>>
=============================================================================
