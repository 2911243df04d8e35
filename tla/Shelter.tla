------------------------------- MODULE Shelter -------------------------------
(***************************************************************************)
(* The shelter backend: adoption and account calls over the same tables,   *)
(* and what holds of them together.                                        *)
(***************************************************************************)
EXTENDS Adoption, Accounts

Init == TablesInit /\ CallsInit

\* The behaviour ends when every call has been answered.
AllAnswered == (\A t \in Tasks : pc[t] = "done") /\ UNCHANGED vars

Next ==
  \/ \E t \in Tasks : AdoptionStep(t) \/ AccountStep(t) \/ StatementFails(t)
  \/ AllAnswered

Spec == Init /\ [][Next]_vars

-----------------------------------------------------------------------------

Labels ==
  {"idle", "done", "read_request", "read_animal", "read_member", "insert",
   "read_applicant", "read_adoptable", "adopt", "clear", "deny", "update",
   "remove", "publish", "read_unaffiliated", "insert_org", "link",
   "read_founder", "read_org", "delete_org", "read_account", "delete_user"}

\* The tables and the calls have the types the code gives them.
TypeOK ==
  /\ TablesOK
  /\ pc \in [Tasks -> Labels]
  /\ call \in [Tasks -> AdoptionCalls \cup AccountCalls \cup {Null}]
  /\ seen \in [Tasks -> Orgs \cup {Null}]
  /\ reply \in [Tasks -> {0, 200, 201, 204, 403, 404, 409, 500}]

\* No row names a row that is gone, whichever cascades a deletion set off in
\* the middle of other calls: the schema's foreign keys and its trigger.
ForeignKeys ==
  /\ \A u \in Users : orgOf[u] # Null => u \in users /\ orgOf[u] \in orgs
  /\ \A a \in Animals : animals[a] # Null =>
        animals[a].org \in orgs /\ animals[a].owner \in users \cup {Null}
  /\ \A r \in requests : animals[log[r].animal] # Null /\ log[r].user \in users

\* However many times a user presses the button, the shelter sees one pending
\* request: Create relies on the table's UNIQUE constraint alone.
OneRequestPerUser ==
  \A q, r \in requests : log[q] = log[r] => q = r

\* An animal with an adopter shows as adopted: Adopt writes both columns,
\* Update clears the adopter, a closed account lets go.
OwnerIsAdopted ==
  \A a \in Animals :
    animals[a] # Null /\ animals[a].owner # Null => animals[a].status = "adopted"

Asked(a, u) == \E r \in DOMAIN log : log[r] = [animal |-> a, user |-> u]

\* Only somebody who asked for an animal ever has it, although Accept reads
\* the request three statements before it writes the adopter.
AdopterAsked ==
  \A a \in Animals :
    animals[a] # Null /\ animals[a].owner # Null => Asked(a, animals[a].owner)

\* The write of a decision or of an edit never falls on rows of a shelter that
\* somebody else belongs to at that moment, although the membership was read
\* one to three statements earlier: losing the shelter takes its rows along,
\* and a shelter left for a second one (see OneShelterPerUser) stays empty.
MemberWrites ==
  [][\A t \in Tasks :
       /\ pc[t] \in {"adopt", "clear", "deny", "update", "remove", "publish"}
       /\ pc'[t] # pc[t]
       => LET NobodyElses(row) ==
                \A u \in Users : orgOf[u] = row.org => u = call[t].by
          IN
          /\ \A a \in Animals : animals'[a] # animals[a] =>
               NobodyElses(IF animals[a] = Null THEN animals'[a] ELSE animals[a])
          /\ \A r \in requests \ requests' : NobodyElses(animals[log[r].animal])]_vars

\* A user's shelter changes only from none to one or back to none.
OneShelterPerUser ==
  [][\A u \in Users : orgOf[u] # Null => orgOf'[u] \in {orgOf[u], Null}]_vars

\* A call that is refused has changed nothing: every check comes before the
\* first write, and a write that finds its row gone writes nothing.
RefusalLeavesNoTrace ==
  [][\A t \in Tasks :
       reply[t] = 0 /\ reply'[t] \in {403, 404, 409} =>
         UNCHANGED tables /\ pc[t] \notin {"read_applicant", "clear", "link"}]_vars

-----------------------------------------------------------------------------
(* What the endpoints do when one call runs at a time.                     *)

\* A new request is for an animal that is available when the row appears.
RequestForAvailable ==
  [][Len(log') > Len(log) => animals[log'[Len(log')].animal].status = "available"]_vars

\* An animal changes hands only to somebody whose request is still pending.
AdoptionAnswersRequest ==
  [][\A a \in Animals :
       animals[a] # Null /\ animals'[a] # Null /\ animals'[a].owner \notin {Null, animals[a].owner}
         => \E r \in requests : log[r] = [animal |-> a, user |-> animals'[a].owner]]_vars

\* Nobody's adopted animal is given to somebody else.
AdopterKept ==
  [][\A a \in Animals :
       animals[a] # Null /\ animals'[a] # Null /\ animals[a].owner # Null
         => animals'[a].owner \in {animals[a].owner, Null}]_vars

\* A user founds a shelter only when the user has none and takes it along, so
\* a shelter without members is the trace of a registration that failed
\* between its two writes.
Orphans ==
  {o \in orgs : /\ \A u \in users : orgOf[u] # o
                /\ \A t \in Tasks : pc[t] = "link" => seen[t] # o}

NoOrphanShelter ==
  Cardinality(Orphans) <= Cardinality({t \in Tasks : reply[t] = 500})

-----------------------------------------------------------------------------

\* The life of each animal as the tables show it.
Lifecycle == INSTANCE AnimalLifecycle WITH
  stage <- [a \in Animals |-> IF animals[a] # Null THEN "listed"
                              ELSE IF a \in unused THEN "unborn" ELSE "gone"],
  status <- [a \in Animals |-> IF animals[a] = Null THEN Null ELSE animals[a].status],
  adopter <- [a \in Animals |-> IF animals[a] = Null THEN Null ELSE animals[a].owner],
  asked <- {<<log[r].animal, log[r].user>> : r \in DOMAIN log}

\* The detailed handlers implement the abstract life cycle.
ImplementsLifecycle == Lifecycle!Spec
=============================================================================
