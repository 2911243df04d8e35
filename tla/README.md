# TLA+ specifications of the Pawspective backend

The backend (C++20, userver, PostgreSQL) runs an animal-shelter site: users
found shelters, shelters publish animals, users ask to adopt them, a member of
the shelter accepts or denies, and adopters write reviews. This directory
models the backend, checks it with TLC and proves its central invariants with
TLAPS.

## The system

`src/src/main.cpp` wires one server: handlers (`src/src/handlers`) parse a
request, services (`src/src/services`) hold the logic, repositories
(`src/src/repositories`) send SQL. One call is one userver coroutine. It sends
**single, auto-committed SQL statements**; no handler opens a transaction. Two
facts follow, and most of this project is about them:

* between two statements of a call any statement of any other call may run;
* a statement that throws ends the call with status 500 and undoes nothing.

What keeps the data sound is the schema (`src/postgresql/schemas`): foreign
keys with cascades, `SET NULL`s, a UNIQUE constraint and one trigger, all of
them part of the statement that sets them off.

| component | state | operations | correct when |
|---|---|---|---|
| schema | tables of users, organizations, animals, adopt_requests, sessions, reviews, posts | statements with their cascades and trigger | no row names a row that is gone |
| adoption requests | adopt_requests | Create, Accept, Deny, listing | one pending request per user and animal; only an applicant gets an animal; refused calls leave no trace |
| animals | animals | Create, Update, Delete, Adopt, listings | an adopter goes with status "adopted"; only members of the shelter write |
| organizations | organizations, users.organization_id | Register, Update, Delete, search | one shelter per user; no shelter without members |
| user accounts | users | Register, Update, Delete, Authenticate | one account per e-mail in any spelling, which its e-mail and password open; a deleted account leaves no session, request, shelter behind |
| sessions and tokens | auth_schema.sessions, the tokens clients hold | login, refresh, logout, access check | a used-up refresh token buys nothing; a deleted account is locked out in time |
| session cleaner | a lock row with a lease, one worker | sweep every 40 s under a DistLock | every expired row is deleted some day, whoever crashes |
| reviews | reviews | create, update, delete, pending list | one review per user and animal; none of a row that is gone; only the author edits; what is pending can be reviewed |
| posts | posts | create, update, delete | photos and rows agree |
| photos | S3 objects, columns that hold their URLs | upload, deletion after row changes | no row shows a deleted photo; no leaked objects |
| listings | none | pagination, filters, LIKE escaping | pages neither repeat nor skip and agree with their totals; the pattern matches what was typed; flags tell the truth |
| validation, enums, DTOs | none | bodies in, rows out | an attribute is served the way it was sent, through four spellings of each name |

Components interact through the tables only: a call reads a row in one
statement and acts on it in a later one. Ids travel in paths, in access
tokens (the `AuthChecker` believes a token without looking at the tables) and
between the statements of a call. There is no other shared state.

What is hard here: checks that are stale when the write they authorise runs
(adoption, membership, session validation); a decision in two writes that fails
between them; a deletion that sets off cascades under other calls' feet;
repeated calls; exceptions of the database that a handler does not catch; a
listing whose SELECTs see different tables; 32-bit offsets; the boundary second
of a token; the cleaner's lock after a crash. `PROJECT.json` lists each under "hazards", at its line.

## The modules

| module | what it models |
|---|---|
| `Schema` | the tables the shelter's handlers share, one operator per writing statement, cascades and trigger included |
| `Calls` | calls in flight: `pc` (the statement a call sends next), `call` (endpoint, caller, input), `seen` (what it carries from one statement to a later one), `reply`; a failing statement |
| `Adoption` | `POST /animals/{id}/adopt`, `POST /requests/accept/{id}`, `POST /requests/deny/{id}`, `PUT` and `DELETE /animals/{id}`, `POST /animals`, one action per statement |
| `Accounts` | `POST /orgs`, `DELETE /orgs/{id}`, `DELETE /user/{id}` |
| `Shelter` | composes `Adoption` and `Accounts` over the same tables, states their properties and the refinement |
| `Validator` | the rules for e-mails, names, passwords and reviews |
| `Reviews` | `POST /reviews`, `PUT` and `DELETE /reviews/{id}`, the pending list |
| `Profiles` | `POST /user/register`, `PUT /user/{id}`, the credentials of a log-in |
| `Community` | composes `Reviews` and `Profiles` with `Adoption` and `Accounts`, whose cascades take reviews and accounts away |
| `Photos` | `POST /upload/photo`, the photos of animals, posts and shelters in their Create, Update and Delete, `DELETE /user/{id}`, and the bucket |
| `PhotoRaces` | `Photos` with a history variable for the rows that two calls edited or deleted at once, and what rows and bucket owe each other |
| `Attributes` | the enums of an animal in their four spellings: JSON, C++, SQL text, columns |
| `AnimalForms` | an animal from the body of a `POST` or `PUT` to the row and back |
| `Filters` | the search arguments, the `SqlBuilder` clause made of them, what PostgreSQL makes of it; the LIKE pattern of a name |
| `Listings` | every paged listing, both searches and `GET /animals/{id}`, one SELECT at a time beside the writes of other calls |
| `AnimalLifecycle` | the abstract specification: an animal is published once, goes for good and is only given to somebody who asked |
| `Sessions` | tokens, session rows, `/auth/*`, account deletion, the cleaner, crashes, a clock |
| `ShelterProofs`, `ShelterStepProofs`, `LifecycleProofs` | theorems about `Shelter`: its tables, its steps, the refinement of `AnimalLifecycle` |
| `CommunityProofs`, `SessionsProofs`, `ListingsProofs` | theorems about `Community`, `Sessions` and `Listings` |
| `PhotosProofs`, `PhotoRaceProofs` | theorems about `Photos` and `PhotoRaces` |
| `MCShelter`, `MCSessions`, `MCPhotos`, `MCListings`, `MCCommunity` | instances for TLC |

An action is a statement together with the tests on its result up to the next
statement: nothing another call can observe lies between them. Guards that are
`if (...) throw` in the code are disjuncts that end in `Reply(t, status)`.
Where the code ignores a statement's result (Deny's DELETE, revoke_session),
the action does too.

How the pieces correspond:

* `adopt_requests` is `log` (every row ever inserted, its index the BIGSERIAL id)
  and `requests` (the ids the table holds now). Ids are never reused, which is
  why a request id in a path may name a row that is long gone.
* `unused` holds the organization and animal ids no sequence handed out yet.
* A user or an organization that is gone is absent from `users` or `orgs`.
  In `Shelter` every account exists at the start: registering adds a row no
  call can name before its answer, so it could only add users who do nothing.
  `Community` registers.
* `seen` is the organization id that Create, Update, Delete, Accept and Deny
  take from the animal's row and compare with the membership later, and the id
  of the shelter that Register links in its last statement.
* A session pair's index in `issued` stands for its random `jti`: equal users
  and seconds still give different tokens. `from` is a history variable: the
  pair whose refresh bought this one.

* In `Photos` the three services with photos share their actions: `ReadRow`,
  `CheckMember`, `UpdateRow`, `DeleteRow` and `Unlink` stand for the same steps
  of `AnimalService`, `PostService` and `OrganizationService`, which differ in
  what they read first (`FirstRead`) and in the number of photos of a row. An
  avatar is a list of one. `known`, `dropped` and `leaked` are history
  variables: the names uploads have returned, the photos a row has lost, and
  those whose deletion failed or was nobody's task. Replies are left out.
  `POST /orgs` is left out, so that a user has one shelter; it shows no avatar
  that `PUT /orgs/{id}` could not show.
* In `Community`, `reviews` is every review ever inserted, its index the id and
  `Null` once it is gone, and `accounts` the columns of each row of users. The
  statements of `Adoption` and `Accounts` know neither, so `Cascade` says what
  they do to them. A text is a value; `LengthOf`, `BlankTexts`, `MailTexts` and
  `LowerText` say what the rules look at. Of first and last name there is one:
  the code treats them alike. `*get_by_id(id)` of a row that is gone is
  undefined: `RereadUser` then answers 200 or fails. `alone` is a history
  variable, the calls nothing ran beside.
* In `Listings` a call is one listing (`call`), the other calls are their
  statements (`OthersWrite`): a listing writes nothing, so two listings cannot
  disturb each other. `live` is the ids of all tables, `Parents` what their
  cascading columns name. `walk` is a history variable, the pages a client has
  seen since the first one while nobody wrote; `calm` says that nobody wrote
  during a call. `ToInt` is the `static_cast<int>` of the offset, with
  `HalfInt` for 2^31.
* An attribute of an animal has a name in JSON, an enumerator, a name in SQL and
  an element of the column's type. `Attributes` keeps each table of names as the
  source writes it, and `Filters` has the conditions, the placeholders and the
  parameters as the builder emits them: the two lists are bound by position.

Assumptions about what surrounds the code:

* **One PostgreSQL host**, as in the repository's README and
  `docker-compose.yml`. Reads ask for a slave and fall back to the master; with
  a real replica every read could also be out of date, which is not modelled.
* A statement is atomic and sees everything committed before it.
* Any statement may throw (`StatementFails`, `CallFails`), before or after its
  effect: the second case is the statement followed by the failure. A crash of
  the backend fails every running call.
* A client lists photos it has uploaded for that row (`PhotoOf`) and does not
  bring back one that it knows was taken off. The code tests neither: a name is
  only matched against a pattern, so a client that shares one photo between
  two rows loses it when either drops it.
* Bodies of animals, posts and shelters that parsing or validation refuses (400)
  reach no statement and are left out; so are the columns `photos` and
  `description` of `AnimalForms`: `Photos` has the first, and no code looks at
  the second. The 400s of reviews and profiles are in `Community`.
* `Listings` and `Community` have no failing statements. A listing writes
  nothing, and a call of `Reviews` or `Profiles` writes once at most, so one
  that failed is one that never goes on, but for its answer.
* Breed and city are read-only tables: an unknown one is an outcome.

## Runs

Every bound is a CONSTANT marked "bound" in its module. Each call of a
behaviour is a member of `Tasks`; two calls suffice for any race of two
handlers, and the third (or a request already present at the start) sets up the
state they race for. Tasks are symmetric in every instance of `Shelter` and `Photos`; `sessions`
uses no symmetry because it checks liveness.

| run | instance | shows |
|---|---|---|
| `core` | 2 calls at once of any endpoint of `Shelter`, two shelters and one to found, failures | foreign keys, one request per user, adopter and status agree, no write on rows of somebody else's shelter, a refused call changed nothing |
| `decisions` | 3 calls at once on one animal | only applicants adopt; the handlers implement `AnimalLifecycle` |
| `serial` | 4 calls, one at a time, with failures | what the endpoints promise of a single call: a request is for an available animal, an adoption answers a pending request, an adopter keeps the animal, a shelter without members comes from a failed call only, one shelter per user |
| `community` | 3 calls, 2 at a time, three users of whom one has no account yet | reviews stay unique and attached, e-mails unique in any spelling and usable for log-in, rows change only by their owners, a refusal leaves nothing, a 500 needs another call beside it, what is pending can be reviewed |
| `listings` | one listing at a time, 2 rows a page, 2 statements of others | a client who turns the pages sees every row once, pages agree with totals, a listing fails only when a row it read went, nobody sees the requests of somebody else's shelter, `can_be_adopted` is true, every offered option selects, an attribute is served as it was sent |
| `sessions` | 2 calls, 2 cleaners, 4 ticks, 1 fault | the session properties and that expired rows are swept |
| `photos` | 4 calls, 2 at a time, failures of both stores | an object leaves the bucket only after a row has lost it; members write rows of their own shelter; but for rows two calls are about at once, rows show objects that exist, and what a row loses is deleted unless that failed or the row went in a cascade |
| `race_adopt`, `race_register`, `race_refresh`, `race_photos`, `page_overflow` | 1 to 3 calls | five disagreements, below |

In `core` a registration, a deletion of either shelter or account and any call
about an animal overlap in every way. In `serial` four calls reach the longest
stories its properties tell apart: a request, a decision that fails half-way,
another decision, and a follow-up. In `sessions` a refresh token lives two ticks
and the clock reaches four, so rows created during the first ticks of the run
expire and are swept; the access token lives one tick, so both boundaries
differ.

In `photos` an animal has two photos, a post one and a shelter two avatars:
enough to keep one photo and replace another, and for an upload, two edits and
a deletion of one row to overlap. A post does not exist at the start, so its
creation is among the calls.

In `community` the three calls are any race of two with one call before or after
it, for instance an acceptance, the review it makes possible and the deletion of
the animal. Two spellings of one e-mail meet in registrations and edits of two
users; one password is too short for log-in; an edit may have no field at all;
one review is there at the start, a second fits. In `listings` two rows a page
make the three animals of a shelter, its two or three reviews, posts and
requests, and both searches reach a full page, a partial one and an empty one;
two statements can delete a row between any two SELECTs and put another one in
its place. The animals differ in every attribute and the names hold every
character LIKE treats specially. `page_overflow` makes an int of four bits, so
that page 7 of three rows wraps around.

`MemberWrites` holds although the membership is read up to three statements
early: a user loses the shelter only when the shelter is deleted, and its
animals and requests go in the same statement. Two concurrent registrations
leave the first shelter without members (see the findings); its rows are then
nobody else's, which is what the property says.

`MembersSeeRequests` is the same story for the listing of requests, which reads
the membership first and the requests, animals and users' e-mails up to four
statements later. `Found` and `Link` of `Listings` are the two writes of
`OrganizationService::Register`, whose check may be older than the caller's
shelter: a member of shelter A whose second registration links shelter B in
between is still answered A's requests, although no longer a member of A. That
is what the code does; A then has no member at all and never gets one, so no
requests are shown that are somebody else's to answer.

`ShownAreStored` and `DroppedAreDeleted` hold of every row but those in `raced`:
of two edits of one row at once, the later UPDATE may show a photo again that
the other has dropped and deletes. Photos of rows that a cascade takes stay in
the bucket; no document says otherwise, and `leaked` excuses them.

Fairness. `Shelter`, `Community`, `Photos` and `Listings` have none: their
properties are safety. In `Sessions` weak
fairness is assumed of a cleaner's loop (`Sweep`, `WorkerStops`), of the
attempts to take the lock (DistLock retries for ever), of the lease's end (the
database's clock) and of `Restart` (`restart: unless-stopped` in
`docker-compose.yml`). No fairness is assumed of calls, clients or the clock.

## Findings

The first four are races of two calls; one call at a time is right (`serial`).

1. `race_adopt`: a request can be inserted for an animal that has just been
   adopted, and answers 201.
2. `race_register`: two registrations of one user both succeed; the first
   shelter is left without members, so nobody can edit or delete it.
3. `race_refresh`: one refresh token presented twice at once buys two sessions.
4. `race_photos`: an edit between the two statements of a deletion adds a photo
   that stays in the bucket when its animal is gone.
5. `page_overflow`: the offset of both searches and of the reviews is cast to
   `int`. With 20 animals a page, page 1073741825 has the offset 5 * 2^32, which
   the cast turns into 0: the answer is the first page. Other large pages have a
   negative offset and end in a 500.

The same window makes `AdopterKept` and `AdoptionAnswersRequest` hold only one
call at a time: two Accepts of different requests overwrite each other's
adopter, and an Accept that has read a request goes on after a Deny removed it.
No document promises otherwise for concurrent calls, so they are stated for
`serial` and not listed as findings. What survives every race is
`ImplementsLifecycle` and `AdopterAsked`: whoever has an animal asked for it.

## Proofs

`ShelterProofs` proves, for every number of users, shelters, animals, calls and
for every choice of enabled endpoints and failures, that `TypeOK`,
`ForeignKeys`, `OneRequestPerUser`, `OwnerIsAdopted` and `AdopterAsked` are
invariants of `Shelter`. The assumptions are `SchemaAssumption` and
`CallsAssumption`: `Null` is no id, and the initial tables are ones the
endpoints produce.

None of these is inductive alone. A DELETE that cascades keeps `ForeignKeys`
only if rows are of their types; Accept keeps `AdopterAsked` only because the
request it names was inserted once, even if it is gone by now. The inductive
invariant is `IInv == TypeOK /\ TablesInv /\ CallsInv`, where `TablesInv` is
the conjunction of the table properties and `CallsInv` says, for each label,
which endpoint a call serves and that the ids it carries named rows once.

The proof has two layers. First, one lemma per *statement* of `Schema`
(`InsertRequestSound` ... `DeleteUserSound`): under its precondition it keeps
`TablesInv`. Then one lemma per *handler step*: its guard gives the statement's
precondition, and `ReplySound`, `CarrySound` and `GotoSound` say how a step
moves one call and leaves the others' facts alone. `NextSound` splits `Next`
into these lemmas; `Invariance` is the temporal step. TLC checked `IInv` on the
instances of `core` and `serial` before it was proved.

`PhotosProofs` proves `TypeOK`, `DeletedAfterDropped` and `MembersOnly` of
`Photos` for any rows, photos, calls and failures, from `PhotosAssumption`
(ids of shelters, animals and posts differ, a row that is not there shows
nothing, the others photos that were uploaded for them). Both action properties
are about what a call read some statements ago, so the invariant `PInv` relates
it to the tables of now: what a call read of its row is still shown or is
dropped (`OldOK`), and the row it is going to write belongs to its caller's
shelter, or is gone and its id is never handed out again (`Authorized`). `Evolves` states what a step does to the tables as
the other calls see it; every lemma `...Sound` shows that its step evolves the
tables, `OthersKeep` that this keeps the facts of the calls that do not move,
and `OneCallMoves`, `DoneKeeps` and `UnlinkingKeeps` put both together.

`PhotoRaceProofs` adds `ShownAreStored` and `DroppedAreDeleted` for
`PhotoRaces`. `RInv` strengthens `PInv`: every row shows photos uploaded for it;
what a call has read of a row that is not in `raced` is *all* the row shows
(`OldFull`); the list of a running edit holds nothing dropped (`ListOK`); and a
dropped photo that is still stored is some call's to delete or has been given up
(`Owed`). `Effect` says what a step may do to rows, bucket and its own call;
there is one lemma for each step or group of steps and one for each part of
`RInv` (`ShownKept`, `ListKept`, `OldKept`, `OwedKept`).

`ShelterStepProofs` proves the action properties `RefusalLeavesNoTrace` and
`MemberWrites` of `Shelter`. Their invariant `JInv` adds to `IInv` that ids not
handed out name no row, that two accounts never share a shelter, and that past
its membership check (`AuthOK`) a call carries a shelter that is nobody else's
and that no registration is about to link. `SchemaAssumption` says of the
initial tables that a shelter has one founder. TLC checked `JInv` on the instance
of `core` first.

The same module proves what the run `serial` checks, under its hypothesis
`InFlight = 1`, which is what these properties are about: `race_adopt` and
`race_register` show two of them broken by two calls at once. It is the only
bound among the hypotheses; users, rows, calls one after another and failures
are any. `KInv` adds to `JInv` that at most one call runs, that an answered call
is done, and for the running call that what it has checked is `StillSo`: the
animal read as available is available, the applicant's request is in the table,
the caller has no shelter. No other call moves, so a step has to keep this
only of its own call. For `NoOrphanShelter` the bound is a sum: a step adds a
shelter without members only if it is the failure of a registration between
its two writes, which answers 500.

`LifecycleProofs` proves `ImplementsLifecycle`: under the mapping stated in
`Shelter` every statement is a step of `AnimalLifecycle` or invisible.
`AbstractSteps` says what a step must do to the abstract variables; one lemma
for each group of statements shows that it does so, cascades and the trigger
included. It needs `FreshIds` (an id published is unborn) and, for adoption,
that the request being accepted was once in the log.

`CommunityProofs` proves every property of `Community`. `CInv` has the tables (`RowsOK`), what each label says of
its call (`CallOK`: at `write_review` the review is the caller's or gone) and,
for calls nothing ran beside, that what they read is still so (`AloneOK`). A
step of `Adoption` or `Accounts` is treated by what it takes away
(`CascadeSound`), so the lemmas are those of the new handlers only. From
`CommunityAssumption` and the assumptions of `Validator`, `Profiles` and
`Reviews`.

`TypeOK` and `PendingAreAccepted` need more, in `DInv`: the tables of the
shelter are typed and an animal's shelter and adopter exist (`TablesTyped`,
`AnimalsAttached`), the calls of `Adoption` and `Accounts` carry ids that fit
them (`ForeignOK`), and a review call that nothing ran beside looks up the
shelter of its animal (`AtOrg`). An animal in the pending list then has all that
`POST /reviews` asks of it, statement by statement. `CommunityAssumption` says
for this that a member of a shelter at the start has an account.

`SessionsProofs` proves every safety property of `Sessions` for any number of
accounts, calls and instances, any times to live, crashes and lost locks. `SInv`
relates a pair to its account (none was made after the account was closed, and
the rows in the table have accounts) and types what a call carries.
`UsedUpForGood` follows because no step gives a call a validated token whose
row is gone.

`ListingsProofs` proves every property of `Listings` for any tables, bodies,
queries, page numbers and page sizes, from `ListingsAssumption` (what foreign keys
and UNIQUE say of the ids), `RowsAssumption` (the rows at the start are rows,
bodies have passed the validation) and `QueriesAssumption` (so have arguments).

* `LInv` says of the tables that they are sound (`TablesSound`), of a running
  listing what its next SELECT relies on, and of an answer what it may claim.
  A part holds in any case (`MemberSound`: who passed the check of the
  membership asks for a shelter that nobody else is a member of and no
  registration is about to link, which `OwnersStay` shows to last, hence
  `MembersSeeRequests`), a part while nobody wrote (`CalmSound`: the total is that
  of the table and the rows read are its page). Statements of others keep the
  first part and end the second. There is one lemma for each SELECT
  (`CountSound`, `PageReadSound`, ...).
* `PagesAgree` and `WalkShowsAll` rest on lemmas about pages: `LastPage`,
  `OffsetsAre`, `PageIsPart`. `WInv` says that what a client has seen is the
  beginning of an ORDER BY of the rows. That it may be *the* order of all its pages
  is `OneOrder`: two sequences of the same rows sorted by a strict order are
  equal. It is here that ties would matter.
* That a search selects what its arguments mean is `SearchesFind`:
  `ConditionsAsked` gives the list of conditions, `ClausesSelect` that each
  placeholder is bound to its own parameter, `NamesSurvive` that the spellings of
  a name agree. `OptionsSelectAll` follows with the least and the largest age
  (`AgesAreBounded`), and `BodiesAreServed` from the same spellings.
* `NamesMatch` is about the pattern of `GET /orgs`. ILIKE is a table over the
  positions of the pattern and the name, the escaping a fold. Both are recursive;
  `TableExists` and `FoldExists` show that there are functions that satisfy the
  recursion, filling them from the end or by size. `PatternsMatch` then goes
  through the pattern from its last wildcard to its first. `Upwards` and
  `Downwards` are induction on a set of numbers, from the theorem that such a
  set has a minimum.

Three of the theorems, `FailuresAreRaces`, `PagesGoWithTotals` and
`WalksShowAll`, have the hypothesis `OffsetsFit`: the offset of every page
asked for fits into an `int`. Without it they are false; `page_overflow` shows how.

Only model-checked: liveness (`ExpiredAreSwept`), which is out of the prover's
reach, and with it that the cleaner's lock is free again after a crash. The
other properties of the passing runs are theorems.

## Plan

1. An abstract specification of a log-in (out, in until a time, locked out) that
   `Sessions` implements, with the refinement proved as in `LifecycleProofs`.
2. Reads from a replica that lags behind.
3. The length rules of animals, shelters and posts.

## Not modelled

The Redis session service is not wired in `main.cpp`. Password hashing is
cryptography: a password stands for its hash. Cities and breeds are read-only
tables. Health and reference-data endpoints, the wiring of handlers and the
formatting of answers change no state. Of organizations the edit of name,
description, links and city is left out: one UPDATE of a row by its member, with
the race of `MembersOnly`. Beside a listing run the INSERTs, edits and deletions of
rows and both writes of a registration, but not Accept's UPDATE nor the `SET
NULL` of an animal's owner: no listing shows the owner, and `Edit` changes the
status. Two reviews or posts of the same microsecond tie in
their listing's ORDER BY; the model gives every row an instant of its own.
