------------------------------- MODULE Schema -------------------------------
(***************************************************************************)
(* The PostgreSQL tables the shelter's handlers share, and the statements  *)
(* that write them (src/postgresql/schemas/postgres-db.sql and the         *)
(* repositories).  Every Execute of the backend is one auto-committed      *)
(* statement, so one operator below is one atomic change, cascades and     *)
(* triggers included.  Columns no property depends on are left out.        *)
(***************************************************************************)
EXTENDS Naturals, Sequences

CONSTANTS
  Users, Orgs, Animals,  \* ids that BIGSERIAL columns hand out
  Null,                  \* SQL NULL, or no row
  InitOrgOf,             \* who founded which shelter before the run starts
  InitAnimals,           \* the animals published before the run starts
  InitRequests           \* possible adopt_requests tables at the start

Status == {"available", "adopted", "unavailable"}
AnimalRow == [org : Orgs, status : Status, owner : Users \cup {Null}]
RequestRow == [animal : Animals, user : Users]

\* The tables at the start are ones the endpoints produce: each shelter has
\* one founder, the animals belong to founded shelters and are not adopted
\* yet, and nobody asked twice for the same animal.
ASSUME SchemaAssumption ==
  /\ Null \notin Users \cup Orgs \cup AnimalRow \cup Status
  /\ Orgs \cap Animals = {}
  /\ InitOrgOf \in [Users -> Orgs \cup {Null}]
  /\ \A u, v \in Users : InitOrgOf[u] # Null /\ InitOrgOf[u] = InitOrgOf[v] => u = v
  /\ InitAnimals \in [Animals -> AnimalRow \cup {Null}]
  /\ \A a \in Animals : InitAnimals[a] # Null =>
        /\ \E u \in Users : InitOrgOf[u] = InitAnimals[a].org
        /\ InitAnimals[a].owner = Null
  /\ \A s \in InitRequests :
        /\ s \in Seq(RequestRow)
        /\ \A i \in DOMAIN s : InitAnimals[s[i].animal] # Null
        /\ \A i, j \in DOMAIN s : s[i] = s[j] => i = j

VARIABLES
  users,     \* ids of the rows of users
  orgs,      \* ids of the rows of organizations
  orgOf,     \* users.organization_id
  animals,   \* animals: the row of each id, or Null
  log,       \* every adopt_requests row ever inserted; its index is its id
  requests,  \* ids of the rows adopt_requests holds now
  unused     \* organization and animal ids no sequence has handed out yet

tables == <<users, orgs, orgOf, animals, log, requests, unused>>

TablesOK ==
  /\ users \subseteq Users
  /\ orgs \subseteq Orgs
  /\ orgOf \in [Users -> Orgs \cup {Null}]
  /\ animals \in [Animals -> AnimalRow \cup {Null}]
  /\ log \in Seq(RequestRow)
  /\ requests \subseteq DOMAIN log
  /\ unused \subseteq Orgs \cup Animals

TablesInit ==
  /\ users = Users
  /\ orgOf = InitOrgOf
  /\ orgs = {InitOrgOf[u] : u \in Users} \ {Null}
  /\ animals = InitAnimals
  /\ log \in InitRequests
  /\ requests = DOMAIN log
  /\ unused = (Orgs \ orgs) \cup {a \in Animals : InitAnimals[a] = Null}

-----------------------------------------------------------------------------
(* What the constraints of adopt_requests refuse.                          *)

\* Mutant of DuplicateRequest: the table has no UNIQUE constraint.
NoUniqueConstraint(row) == FALSE

\* unique_adopt_request_per_user_animal
DuplicateRequest(row) == \E r \in requests : log[r] = row

\* fk_adopt_requests_animal, fk_adopt_requests_user
DanglingRequest(row) == animals[row.animal] = Null \/ row.user \notin users

-----------------------------------------------------------------------------
(* The writing statements.                                                 *)

InsertRequestRow(row) ==
  /\ log' = Append(log, row)
  /\ requests' = requests \cup {Len(log) + 1}
  /\ UNCHANGED <<users, orgs, orgOf, animals, unused>>

DeleteRequestRows(gone) ==
  /\ requests' = requests \ gone
  /\ UNCHANGED <<users, orgs, orgOf, animals, log, unused>>

WriteAnimalRow(a, row) ==
  /\ animals' = [animals EXCEPT ![a] = row]
  /\ unused' = unused \ {a}
  /\ UNCHANGED <<users, orgs, orgOf, log, requests>>

\* Deleting animals takes their adoption requests along.
DeleteAnimalRow(a) ==
  /\ animals' = [animals EXCEPT ![a] = Null]
  /\ requests' = {r \in requests : log[r].animal # a}
  /\ UNCHANGED <<users, orgs, orgOf, log, unused>>

InsertOrgRow(o) ==
  /\ orgs' = orgs \cup {o}
  /\ unused' = unused \ {o}
  /\ UNCHANGED <<users, orgOf, animals, log, requests>>

LinkOrg(u, o) ==
  /\ orgOf' = [orgOf EXCEPT ![u] = o]
  /\ UNCHANGED <<users, orgs, animals, log, requests, unused>>

AnimalsOf(o) == {a \in Animals : animals[a] # Null /\ animals[a].org = o}

\* The shelter's animals and their requests go with it; its members stay.
DeleteOrgRow(o) ==
  /\ orgs' = orgs \ {o}
  /\ orgOf' = [u \in Users |-> IF orgOf[u] = o THEN Null ELSE orgOf[u]]
  /\ animals' = [a \in Animals |-> IF a \in AnimalsOf(o) THEN Null ELSE animals[a]]
  /\ requests' = {r \in requests : log[r].animal \notin AnimalsOf(o)}
  /\ UNCHANGED <<users, log, unused>>

\* Mutant of Disown: fk_animals_user has no ON DELETE action to run.
KeepOwner(row, u) == row

\* fk_animals_user: ON DELETE SET NULL.
Disown(row, u) ==
  IF row # Null /\ row.owner = u THEN [row EXCEPT !.owner = Null] ELSE row

\* Mutant of DeleteUserRow: the schema without trg_after_delete_user.
DeleteUserWithoutTrigger(u) ==
  /\ users' = users \ {u}
  /\ orgOf' = [orgOf EXCEPT ![u] = Null]
  /\ animals' = [a \in Animals |-> Disown(animals[a], u)]
  /\ requests' = {r \in requests : log[r].user # u}
  /\ UNCHANGED <<orgs, log, unused>>

\* The user's requests go, the animals the user adopted lose their adopter,
\* and the trigger deletes the user's shelter in the same statement.
DeleteUserRow(u) ==
  LET o == orgOf[u]
      gone == IF o = Null THEN {} ELSE AnimalsOf(o)
  IN  /\ users' = users \ {u}
      /\ orgs' = orgs \ {o}
      /\ orgOf' = [v \in Users |-> IF v = u \/ orgOf[v] = o THEN Null ELSE orgOf[v]]
      /\ animals' = [a \in Animals |->
                       IF a \in gone THEN Null ELSE Disown(animals[a], u)]
      /\ requests' = {r \in requests : log[r].user # u /\ log[r].animal \notin gone}
      /\ UNCHANGED <<log, unused>>
=============================================================================
