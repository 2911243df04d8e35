------------------------------ MODULE Adoption ------------------------------
(***************************************************************************)
(* The adoption endpoints and the animal endpoints that touch the same     *)
(* rows: AdoptRequestService, AnimalService, their repositories and their  *)
(* handlers.  One action per SQL statement; the replies are the statuses   *)
(* the handlers map the services' exceptions to, 500 where they catch none.*)
(***************************************************************************)
EXTENDS Calls

\* "other": fields but not the status change.  "refused": PostgreSQL refuses
\* the UPDATE, as for an empty body (no SET list) or an unknown breed.
Changes == Status \cup {"other", "refused"}

AdoptionCalls ==
  [op : {"adopt", "remove"}, by : Users, on : Animals]
    \cup [op : {"accept", "deny"}, by : Users, on : RequestIds]
    \cup [op : {"update"}, by : Users, on : Animals, set : Changes]
    \cup [op : {"publish"}, by : Users, on : Orgs, set : Status]

\* The statement each endpoint sends first.
FirstStatement ==
  [adopt |-> "read_animal", remove |-> "read_animal", update |-> "read_animal",
   accept |-> "read_request", deny |-> "read_request", publish |-> "read_member"]

\* The statement that follows the membership check.
AfterCheck ==
  [remove |-> "remove", update |-> "update", accept |-> "read_adoptable",
   deny |-> "deny", publish |-> "publish"]

ReceiveAdoptionCall(t) ==
  \E c \in AdoptionCalls :
    /\ c.op = "publish" => IdLeft("publish", Animals)
    /\ Begin(t, c, FirstStatement[c.op], IF c.op = "publish" THEN c.on ELSE Null)

Decides(t) == call[t].op \in {"accept", "deny"}

\* The row of the request in the path, as GetById returned it: rows never
\* change while they exist and ids are not used twice.
Request(t) == log[call[t].on]
Subject(t) == IF Decides(t) THEN Request(t).animal ELSE call[t].on
Row(t) == animals[Subject(t)]

\* What a missing animal becomes: the accept and deny handlers do not catch
\* AnimalNotFoundException.
AnimalMissing(t) == Reply(t, IF Decides(t) THEN 500 ELSE 404)

-----------------------------------------------------------------------------

\* Mutant of ReadRequest: a request that was answered is still found.
ReadAnyRequest(t) ==
  /\ pc[t] = "read_request"
  /\ IF call[t].on \in DOMAIN log THEN Goto(t, "read_animal") ELSE Reply(t, 404)
  /\ UNCHANGED tables

\* AdoptRequestRepository::GetById
ReadRequest(t) ==
  /\ pc[t] = "read_request"
  /\ IF call[t].on \in requests THEN Goto(t, "read_animal") ELSE Reply(t, 404)
  /\ UNCHANGED tables

\* Mutant of ReadAnimal: Create does not test the status.
ReadAnyAnimal(t) ==
  /\ pc[t] = "read_animal"
  /\ \/ Row(t) = Null /\ AnimalMissing(t)
     \/ Row(t) # Null /\ call[t].op = "adopt" /\ Goto(t, "insert")
     \/ Row(t) # Null /\ call[t].op # "adopt" /\ Carry(t, "read_member", Row(t).org)
  /\ UNCHANGED tables

\* AnimalRepository::GetById, then Create's test of the status or the
\* organization id the other endpoints keep for their membership check.
ReadAnimal(t) ==
  /\ pc[t] = "read_animal"
  /\ \/ Row(t) = Null /\ AnimalMissing(t)
     \/ /\ Row(t) # Null
        /\ call[t].op = "adopt"
        /\ IF Row(t).status = "available" THEN Goto(t, "insert") ELSE Reply(t, 409)
     \/ /\ Row(t) # Null
        /\ call[t].op # "adopt"
        /\ Carry(t, "read_member", Row(t).org)
  /\ UNCHANGED tables

\* Mutant of CheckMember: any user with a shelter passes.
CheckAnyMember(t) ==
  /\ pc[t] = "read_member"
  /\ IF orgOf[call[t].by] # Null THEN Goto(t, AfterCheck[call[t].op]) ELSE Reply(t, 403)
  /\ UNCHANGED tables

\* UserService::GetOrganizationId against the animal's organization.
CheckMember(t) ==
  /\ pc[t] = "read_member"
  /\ IF orgOf[call[t].by] = seen[t]
     THEN Goto(t, AfterCheck[call[t].op])
     ELSE Reply(t, 403)
  /\ UNCHANGED tables

-----------------------------------------------------------------------------
(* POST /animals/{id}/adopt                                                *)

\* AdoptRequestRepository::Create; only the unique violation is caught.
InsertRequest(t) ==
  /\ pc[t] = "insert"
  /\ LET row == [animal |-> call[t].on, user |-> call[t].by] IN
     \/ DuplicateRequest(row) /\ Reply(t, 409) /\ UNCHANGED tables
     \/ DanglingRequest(row) /\ Reply(t, 500) /\ UNCHANGED tables
     \/ /\ ~DuplicateRequest(row) /\ ~DanglingRequest(row)
        /\ InsertRequestRow(row)
        /\ Goto(t, "read_applicant")

\* Mutant of ReadApplicant: the handler maps the exception to 404.
ReadApplicantOr404(t) ==
  /\ pc[t] = "read_applicant"
  /\ Reply(t, IF call[t].by \in users THEN 201 ELSE 404)
  /\ UNCHANGED tables

\* UserService::GetUserById for the e-mail of the response; the handler does
\* not catch UserNotFoundException.
ReadApplicant(t) ==
  /\ pc[t] = "read_applicant"
  /\ Reply(t, IF call[t].by \in users THEN 201 ELSE 500)
  /\ UNCHANGED tables

-----------------------------------------------------------------------------
(* POST /requests/accept/{id} and /requests/deny/{id}                      *)

\* Mutant of ReadAdoptable: Adopt does not test CanBeAdopted.
ReadAnyAdoptable(t) ==
  /\ pc[t] = "read_adoptable"
  /\ IF Row(t) # Null THEN Goto(t, "adopt") ELSE Reply(t, 500)
  /\ UNCHANGED tables

\* AnimalService::Adopt reads the animal again and tests its status; the
\* handler catches neither exception.
ReadAdoptable(t) ==
  /\ pc[t] = "read_adoptable"
  /\ IF Row(t) # Null /\ Row(t).status = "available"
     THEN Goto(t, "adopt")
     ELSE Reply(t, 500)
  /\ UNCHANGED tables

\* Mutant of AdoptAnimal: the member who accepts becomes the adopter.
AdoptByCaller(t) ==
  /\ pc[t] = "adopt"
  /\ IF Row(t) = Null \/ Request(t).user \notin users
     THEN Reply(t, 500) /\ UNCHANGED tables
     ELSE /\ WriteAnimalRow(Subject(t),
               [Row(t) EXCEPT !.status = "adopted", !.owner = call[t].by])
          /\ Goto(t, "clear")

\* AnimalRepository::Adopt: the UPDATE names the animal and nothing else, so
\* it also overwrites what happened to the row since the test.
AdoptAnimal(t) ==
  /\ pc[t] = "adopt"
  /\ IF Row(t) = Null \/ Request(t).user \notin users
     THEN Reply(t, 500) /\ UNCHANGED tables
     ELSE /\ WriteAnimalRow(Subject(t),
               [Row(t) EXCEPT !.status = "adopted", !.owner = Request(t).user])
          /\ Goto(t, "clear")

\* AdoptRequestRepository::DeleteByAnimalId
ClearRequests(t) ==
  /\ pc[t] = "clear"
  /\ DeleteRequestRows({r \in requests : log[r].animal = Subject(t)})
  /\ Reply(t, 204)

\* AdoptRequestRepository::DeleteById; its result is ignored.
DenyRequest(t) ==
  /\ pc[t] = "deny"
  /\ DeleteRequestRows({call[t].on})
  /\ Reply(t, 204)

-----------------------------------------------------------------------------
(* PUT and DELETE /animals/{id}, POST /animals                             *)

\* Mutant of Changed: the SET list always holds the status.
ChangedUnconditionally(row, set) == [row EXCEPT !.status = set, !.owner = Null]

\* Mutant of Changed: a new status leaves the adopter in place.
ChangedKeepingOwner(row, set) ==
  IF set \in Status THEN [row EXCEPT !.status = set] ELSE row

\* A new status clears the adopter, whatever the status is.
Changed(row, set) ==
  IF set \in Status THEN [row EXCEPT !.status = set, !.owner = Null] ELSE row

\* Mutant of UpdateAnimal: the UPDATE is an INSERT ... ON CONFLICT of the row
\* the handler read.
UpsertAnimal(t) ==
  /\ pc[t] = "update"
  /\ WriteAnimalRow(Subject(t), [org |-> seen[t], status |-> "available", owner |-> Null])
  /\ Reply(t, 200)

UpdateAnimal(t) ==
  /\ pc[t] = "update"
  /\ \/ call[t].set = "refused" /\ Reply(t, 500) /\ UNCHANGED tables
     \/ /\ call[t].set # "refused" /\ Row(t) = Null
        /\ Reply(t, 404) /\ UNCHANGED tables
     \/ /\ call[t].set # "refused" /\ Row(t) # Null
        /\ WriteAnimalRow(Subject(t), Changed(Row(t), call[t].set))
        /\ Reply(t, 200)

RemoveAnimal(t) ==
  /\ pc[t] = "remove"
  /\ DeleteAnimalRow(Subject(t))
  /\ Reply(t, IF Row(t) = Null THEN 404 ELSE 204)

\* The breed in the body may be unknown; then AnimalRepository::Create, whose
\* fk_animals_organization is not caught.
PublishAnimal(t) ==
  /\ pc[t] = "publish"
  /\ \/ Reply(t, 404) /\ UNCHANGED tables
     \/ call[t].on \notin orgs /\ Reply(t, 500) /\ UNCHANGED tables
     \/ /\ call[t].on \in orgs
        /\ \E a \in unused \cap Animals :
             WriteAnimalRow(a, [org |-> call[t].on, status |-> call[t].set, owner |-> Null])
        /\ Reply(t, 201)

AdoptionStep(t) ==
  \/ ReceiveAdoptionCall(t) \/ ReadRequest(t) \/ ReadAnimal(t) \/ CheckMember(t)
  \/ InsertRequest(t) \/ ReadApplicant(t)
  \/ ReadAdoptable(t) \/ AdoptAnimal(t) \/ ClearRequests(t) \/ DenyRequest(t)
  \/ UpdateAnimal(t) \/ RemoveAnimal(t) \/ PublishAnimal(t)
=============================================================================
