----------------------------- MODULE PhotoRaces -----------------------------
(***************************************************************************)
(* Photos with a history variable: the rows that two calls have edited or  *)
(* deleted at once.  What rows and bucket owe each other holds for every   *)
(* other row, whatever else runs beside its calls.                         *)
(***************************************************************************)
EXTENDS Photos

VARIABLE raced

raceVars == <<vars, raced>>

\* Whether a running call edits or deletes row r.
Changes(t, r) == Running(t) /\ job[t].op \in {"edit", "remove"} /\ job[t].on = r

Contested == {r \in Rows : \E s, t \in Tasks : s # t /\ Changes(s, r) /\ Changes(t, r)}

RaceInit == Init /\ raced = {}
RaceNext == Next /\ raced' = raced \cup Contested'
RaceSpec == RaceInit /\ [][RaceNext]_raceVars

-----------------------------------------------------------------------------

\* A row shows no photo that is gone from the bucket, although its photos are
\* read before they are replaced and deleted after: only two calls about the
\* same row at once can bring that about, and no cascade, no failure and no
\* call about another row.
ShownAreStored == \A r \in Rows \ raced : shown[r] \subseteq stored

\* The dropped photos that stay in the bucket although nothing failed, no
\* cascade took their row and no call is about to delete them.
Leftovers ==
  (dropped \cap stored)
    \ (leaked \cup UNION {job[t].old : t \in {s \in Tasks : At(s, "unlink")}})

\* A photo off its row is deleted, unless its deletion failed, the call did,
\* the row went in a cascade or two calls were about the row at once.
DroppedAreDeleted == \A p \in Leftovers : PhotoOf[p] \in raced

\* Whatever a row loses is deleted from the bucket, as the tests expect.
NothingLeftBehind == Leftovers = {}
=============================================================================
