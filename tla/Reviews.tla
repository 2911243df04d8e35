------------------------------ MODULE Reviews ------------------------------
(***************************************************************************)
(* The endpoints that write, edit and delete reviews of animals:           *)
(* ReviewService, ReviewRepository and their handlers, statement by        *)
(* statement.                                                              *)
(***************************************************************************)
EXTENDS Calls, Validator

CONSTANTS
  ReviewIds,    \* bound: the review ids a client may put in a path
  ReviewTexts   \* bound: the texts clients send

ASSUME ReviewsAssumption == ReviewTexts \subseteq Texts /\ ReviewIds \subseteq Nat

ReviewRow == [animal : Animals, user : Users, text : Texts]

VARIABLE reviews     \* the row of each review by its id, Null when it is gone

ReviewIsThere(i) == i \in DOMAIN reviews /\ reviews[i] # Null

\* What a client sends; Null is an edit without a text.
ReviewCalls ==
  [op : {"review"}, by : Users, on : Animals, text : ReviewTexts]
    \cup [op : {"edit_review"}, by : Users, on : ReviewIds, text : ReviewTexts \cup {Null}]
    \cup [op : {"drop_review"}, by : Users, on : ReviewIds]

ValidBody(c) == c.op = "drop_review" \/ c.text = Null \/ ValidReview(c.text)

\* The handlers validate the text before they send a statement.
ReceiveReviewCall(t) ==
  /\ \E c \in ReviewCalls :
       /\ c.op = "review" => Len(reviews) < Cardinality(ReviewIds)
       /\ Begin(t, c, IF ~ValidBody(c) THEN "refuse"
                      ELSE IF c.op = "review" THEN "review_animal" ELSE "find_review", Null)
  /\ UNCHANGED reviews

\* A body that is refused reaches no statement.
RefuseReview(t) ==
  /\ pc[t] = "refuse" /\ call[t].op \in {"review", "edit_review"}
  /\ Reply(t, 400)
  /\ UNCHANGED <<tables, reviews>>

-----------------------------------------------------------------------------
(* POST /reviews                                                           *)

\* AnimalService::Get
ReadReviewedAnimal(t) ==
  /\ pc[t] = "review_animal"
  /\ IF animals[call[t].on] = Null THEN Reply(t, 400)
     ELSE Carry(t, "review_org", animals[call[t].on].org)
  /\ UNCHANGED <<tables, reviews>>

\* OrganizationService::Get
ReadReviewedOrg(t) ==
  /\ pc[t] = "review_org"
  /\ IF seen[t] \in orgs THEN Goto(t, "review_exists") ELSE Reply(t, 400)
  /\ UNCHANGED <<tables, reviews>>

Reviewed(u, a) ==
  \E i \in DOMAIN reviews :
    reviews[i] # Null /\ reviews[i].user = u /\ reviews[i].animal = a

\* Mutant of CheckUnreviewed: any review of the animal counts.
CheckNobodyReviewed(t) ==
  /\ pc[t] = "review_exists"
  /\ IF \E u \in Users : Reviewed(u, call[t].on) THEN Reply(t, 409)
     ELSE Goto(t, "insert_review")
  /\ UNCHANGED <<tables, reviews>>

\* Mutant of CheckUnreviewed: the check is left out.
SkipUnreviewed(t) ==
  /\ pc[t] = "review_exists"
  /\ Goto(t, "insert_review")
  /\ UNCHANGED <<tables, reviews>>

\* ReviewRepository::ExistsUserReviewForAnimal
CheckUnreviewed(t) ==
  /\ pc[t] = "review_exists"
  /\ IF Reviewed(call[t].by, call[t].on) THEN Reply(t, 409) ELSE Goto(t, "insert_review")
  /\ UNCHANGED <<tables, reviews>>

\* Mutant of InsertReview: the table has no UNIQUE constraint.
InsertAnyReview(t) ==
  /\ pc[t] = "insert_review"
  /\ IF animals[call[t].on] = Null \/ call[t].by \notin users
     THEN Reply(t, 500) /\ UNCHANGED reviews
     ELSE /\ reviews' = Append(reviews, [animal |-> call[t].on, user |-> call[t].by,
                                         text |-> call[t].text])
          /\ Goto(t, "name_review")
  /\ UNCHANGED tables

\* ReviewRepository::Create: unique_review_per_user_animal, fk_reviews_animal
\* and fk_reviews_user refuse the row, and nobody catches the exception.
InsertReview(t) ==
  /\ pc[t] = "insert_review"
  /\ IF \/ animals[call[t].on] = Null \/ call[t].by \notin users
        \/ Reviewed(call[t].by, call[t].on)
     THEN Reply(t, 500) /\ UNCHANGED reviews
     ELSE /\ reviews' = Append(reviews, [animal |-> call[t].on, user |-> call[t].by,
                                         text |-> call[t].text])
          /\ Goto(t, "name_review")
  /\ UNCHANGED tables

\* AnimalService::Get for the name in the answer, after the write; only the
\* creation catches AnimalNotFoundException.
NameReview(t) ==
  /\ pc[t] = "name_review"
  /\ LET created == call[t].op = "review"
         a == IF created THEN call[t].on ELSE seen[t]
     IN  IF animals[a] # Null THEN Reply(t, IF created THEN 201 ELSE 200)
         ELSE Reply(t, IF created THEN 400 ELSE 500)
  /\ UNCHANGED <<tables, reviews>>

-----------------------------------------------------------------------------
(* PUT and DELETE /reviews/{id}                                            *)

\* Mutant of FindReview: everybody passes for the author.
FindAnyReview(t) ==
  /\ pc[t] = "find_review"
  /\ IF ~ReviewIsThere(call[t].on) THEN Reply(t, 404)
     ELSE Carry(t, IF call[t].op = "drop_review" THEN "delete_review" ELSE "write_review",
                reviews[call[t].on].animal)
  /\ UNCHANGED <<tables, reviews>>

\* ReviewRepository::GetById and the test of the author; an edit without a
\* new text writes nothing.
FindReview(t) ==
  /\ pc[t] = "find_review"
  /\ IF ~ReviewIsThere(call[t].on) THEN Reply(t, 404)
     ELSE LET row == reviews[call[t].on] IN
          IF row.user # call[t].by THEN Reply(t, 403)
          ELSE IF call[t].op = "drop_review" THEN Goto(t, "delete_review")
          ELSE Carry(t, IF call[t].text \in {Null, row.text} THEN "name_review"
                        ELSE "write_review", row.animal)
  /\ UNCHANGED <<tables, reviews>>

\* ReviewRepository::UpdateTextById
WriteReview(t) ==
  /\ pc[t] = "write_review"
  /\ IF ReviewIsThere(call[t].on)
     THEN /\ reviews' = [reviews EXCEPT ![call[t].on].text = call[t].text]
          /\ Goto(t, "name_review")
     ELSE Reply(t, 404) /\ UNCHANGED reviews
  /\ UNCHANGED tables

\* ReviewRepository::Delete
DeleteReview(t) ==
  /\ pc[t] = "delete_review"
  /\ IF ReviewIsThere(call[t].on)
     THEN reviews' = [reviews EXCEPT ![call[t].on] = Null] /\ Reply(t, 204)
     ELSE Reply(t, 404) /\ UNCHANGED reviews
  /\ UNCHANGED tables

ReviewStep(t) ==
  \/ ReceiveReviewCall(t) \/ RefuseReview(t)
  \/ ReadReviewedAnimal(t) \/ ReadReviewedOrg(t) \/ CheckUnreviewed(t)
  \/ InsertReview(t) \/ NameReview(t)
  \/ FindReview(t) \/ WriteReview(t) \/ DeleteReview(t)

-----------------------------------------------------------------------------

\* The cascades of fk_reviews_animal and fk_reviews_user in a statement that
\* leaves these users and animals.
ReviewsWithout(someUsers, someAnimals) ==
  [i \in DOMAIN reviews |->
     IF /\ reviews[i] # Null
        /\ reviews[i].user \in someUsers /\ someAnimals[reviews[i].animal] # Null
     THEN reviews[i] ELSE Null]

\* GetAdoptedAnimalsWithoutReviewsByUserId
PendingReviews(u) ==
  {a \in Animals : animals[a] # Null /\ animals[a].owner = u /\ ~Reviewed(u, a)}
=============================================================================
