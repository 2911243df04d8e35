----------------------------- MODULE MCSessions -----------------------------
(***************************************************************************)
(* Small instances of Sessions: u1 is logged in on one device at the start.*)
(***************************************************************************)
EXTENDS Sessions, TLC

CONSTANTS u1, u2, t1, t2, i1, i2

MCInitLogins == <<u1>>
Symmetry == Permutations(Tasks)
=============================================================================
