------------------------------ MODULE MCShelter ------------------------------
(***************************************************************************)
(* Small instances of Shelter: u1 founded o1, u2 and u3 are applicants and *)
(* a1 is available in o1.                                                  *)
(***************************************************************************)
EXTENDS Shelter, TLC

CONSTANTS u1, u2, u3, o1, o2, o3, a1, a2

MCInitOrgOf == [u \in Users |-> IF u = u1 THEN o1 ELSE Null]
MCTwoShelters == [MCInitOrgOf EXCEPT ![u3] = o2]
MCInitAnimals ==
  [a \in Animals |-> IF a = a1 THEN [org |-> o1, status |-> "available", owner |-> Null] ELSE Null]
MCInitRequests ==
  LET ask(u) == [animal |-> a1, user |-> u]
  IN  {s \in {<<>>, <<ask(u2)>>, <<ask(u2), ask(u3)>>} :
         \A i \in DOMAIN s : s[i].user \in Users}

Symmetry == Permutations(Tasks)
=============================================================================
