----------------------------- MODULE MCCommunity -----------------------------
(***************************************************************************)
(* u1 founded o1, where a1 is on offer, and wrote a review of a1; u2 has   *)
(* asked for a1; u3 has no account yet.                                    *)
(***************************************************************************)
EXTENDS Community, TLC

CONSTANTS u1, u2, u3, o1, a1

MCTexts == {"", "Ann@x.org", "ann@x.org", "bob@x.org", "eve@x.org", "short", "password", "good", "fine"}
MCLengthOf == [x \in MCTexts |-> CASE x = "" -> 0 [] x = "short" -> 5
                                   [] x \in {"good", "fine"} -> 4
                                   [] x = "password" -> 8 [] OTHER -> 9]
MCBlankTexts == {""}
MCMailTexts == {"Ann@x.org", "ann@x.org", "bob@x.org", "eve@x.org"}
MCLowerText == [x \in MCTexts |-> IF x = "Ann@x.org" THEN "ann@x.org" ELSE x]

MCReviewTexts == {"", "fine"}

Body(email, password) == [email |-> email, password |-> password, first_name |-> "good"]

MCRegisterBodies == {Body("Ann@x.org", "password"), Body("bob@x.org", "short")}
MCProfileBodies ==
  {[email |-> "Ann@x.org"], [email |-> "bob@x.org", first_name |-> "fine"],
   [password |-> "short"], <<>>}

MCInitAccounts ==
  [u \in Users |-> CASE u = u1 -> Body("eve@x.org", "password")
                     [] u = u2 -> Body("bob@x.org", "password") [] OTHER -> Null]
MCInitOrgOf == [u \in Users |-> IF u = u1 THEN o1 ELSE Null]
MCInitAnimals == [a \in Animals |-> [org |-> o1, status |-> "available", owner |-> Null]]
MCInitRequests == {<<[animal |-> a1, user |-> u2]>>}
MCInitReviews == <<[animal |-> a1, user |-> u1, text |-> "good"]>>

Symmetry == Permutations(Tasks)
=============================================================================
