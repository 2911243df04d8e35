------------------------------ MODULE MCPhotos ------------------------------
(***************************************************************************)
(* Small instances of PhotoRaces: u1 founded o1, u2 founded o2.            *)
(***************************************************************************)
EXTENDS PhotoRaces, TLC

CONSTANTS u1, u2, o1, o2, a1, b1, f1, f2, f3, f4, f5

\* f1 and f2 for animal a1, f3 for post b1, f4 and f5 for the avatar of o1.
MCPhotoOf == [p \in PhotoNames |-> IF p \in {f1, f2} THEN a1 ELSE IF p = f3 THEN b1 ELSE o1]
MCShelterOf == [i \in Items |-> o1]
MCFounder == [o \in Orgs |-> IF o = o1 THEN u1 ELSE u2]
MCInitLive == Rows \ {b1}
MCInitShown ==
  [r \in Rows |-> IF r = a1 THEN {f1} \cap PhotoNames ELSE IF r = o1 THEN {f4} \cap PhotoNames ELSE {}]

Symmetry == Permutations(Tasks)
=============================================================================
