--------------------------- MODULE AnimalLifecycle ---------------------------
(***************************************************************************)
(* What the backend promises about an animal, whatever runs concurrently:  *)
(* it is published once, goes once and for all, and is only ever given to  *)
(* somebody who asked for it.                                              *)
(***************************************************************************)
CONSTANTS Animals, Users, Null

VARIABLES
  stage,    \* "unborn", "listed" or "gone"
  status,   \* the status a listed animal shows, Null otherwise
  adopter,  \* who has it, or Null
  asked     \* the pairs of animal and user for which a request was ever made

lifeVars == <<stage, status, adopter, asked>>

Init ==
  /\ stage \in [Animals -> {"unborn", "listed"}]
  /\ status \in [Animals -> {"available", "adopted", "unavailable", Null}]
  /\ \A a \in Animals : status[a] = Null <=> stage[a] = "unborn"
  /\ adopter = [a \in Animals |-> Null]
  /\ asked \subseteq {a \in Animals : stage[a] = "listed"} \X Users

Publish(a, s) ==
  /\ stage[a] = "unborn"
  /\ stage' = [stage EXCEPT ![a] = "listed"]
  /\ status' = [status EXCEPT ![a] = s]
  /\ UNCHANGED <<adopter, asked>>

Ask(a, u) ==
  /\ stage[a] = "listed"
  /\ asked' = asked \cup {<<a, u>>}
  /\ UNCHANGED <<stage, status, adopter>>

\* A shelter may re-list an animal in any status; nobody has it then.
Relist(a, s) ==
  /\ stage[a] = "listed"
  /\ status' = [status EXCEPT ![a] = s]
  /\ adopter' = [adopter EXCEPT ![a] = Null]
  /\ UNCHANGED <<stage, asked>>

Adopt(a, u) ==
  /\ stage[a] = "listed"
  /\ <<a, u>> \in asked
  /\ status' = [status EXCEPT ![a] = "adopted"]
  /\ adopter' = [adopter EXCEPT ![a] = u]
  /\ UNCHANGED <<stage, asked>>

\* Closed accounts take their shelter's animals along and let go of the
\* animals they adopted.
Leave(gone, orphaned) ==
  /\ \A a \in gone : stage[a] = "listed"
  /\ stage' = [a \in Animals |-> IF a \in gone THEN "gone" ELSE stage[a]]
  /\ status' = [a \in Animals |-> IF a \in gone THEN Null ELSE status[a]]
  /\ adopter' = [a \in Animals |-> IF a \in gone \cup orphaned THEN Null ELSE adopter[a]]
  /\ UNCHANGED asked

Next ==
  \/ \E a \in Animals, s \in {"available", "adopted", "unavailable"} :
       Publish(a, s) \/ Relist(a, s)
  \/ \E a \in Animals, u \in Users : Ask(a, u) \/ Adopt(a, u)
  \/ \E gone, orphaned \in SUBSET Animals : Leave(gone, orphaned)

Spec == Init /\ [][Next]_lifeVars
=============================================================================
