--------------------------- MODULE LifecycleProofs ---------------------------
(***************************************************************************)
(* The shelter's handlers implement AnimalLifecycle, for any number of     *)
(* users, animals and concurrent calls: each statement is one step of the  *)
(* life of the animals it touches, or invisible.                           *)
(***************************************************************************)
EXTENDS ShelterStepProofs

\* The refinement mapping of Shelter, by name.
StageOf ==
  [a \in Animals |-> IF animals[a] # Null THEN "listed"
                     ELSE IF a \in unused THEN "unborn" ELSE "gone"]
StatusOf == [a \in Animals |-> IF animals[a] = Null THEN Null ELSE animals[a].status]
AdopterOf == [a \in Animals |-> IF animals[a] = Null THEN Null ELSE animals[a].owner]
AskedPairs == {<<log[r].animal, log[r].user>> : r \in DOMAIN log}
lifeOf == <<StageOf, StatusOf, AdopterOf, AskedPairs>>

LifeStep == Lifecycle!Next \/ UNCHANGED lifeOf

\* What a step has to do to the abstract variables to be one of the life cycle.
LEMMA AbstractSteps ==
  /\ \A a \in Animals, s \in Status :
       /\ StageOf[a] = "unborn"
       /\ StageOf' = [StageOf EXCEPT ![a] = "listed"]
       /\ StatusOf' = [StatusOf EXCEPT ![a] = s]
       /\ UNCHANGED <<AdopterOf, AskedPairs>>
       => LifeStep
  /\ \A a \in Animals, u \in Users :
       /\ StageOf[a] = "listed"
       /\ AskedPairs' = AskedPairs \cup {<<a, u>>}
       /\ UNCHANGED <<StageOf, StatusOf, AdopterOf>>
       => LifeStep
  /\ \A a \in Animals, s \in Status :
       /\ StageOf[a] = "listed"
       /\ StatusOf' = [StatusOf EXCEPT ![a] = s]
       /\ AdopterOf' = [AdopterOf EXCEPT ![a] = Null]
       /\ UNCHANGED <<StageOf, AskedPairs>>
       => LifeStep
  /\ \A a \in Animals, u \in Users :
       /\ StageOf[a] = "listed"
       /\ <<a, u>> \in AskedPairs
       /\ StatusOf' = [StatusOf EXCEPT ![a] = "adopted"]
       /\ AdopterOf' = [AdopterOf EXCEPT ![a] = u]
       /\ UNCHANGED <<StageOf, AskedPairs>>
       => LifeStep
  /\ \A gone, orphaned \in SUBSET Animals :
       /\ \A a \in gone : StageOf[a] = "listed"
       /\ StageOf' = [a \in Animals |-> IF a \in gone THEN "gone" ELSE StageOf[a]]
       /\ StatusOf' = [a \in Animals |-> IF a \in gone THEN Null ELSE StatusOf[a]]
       /\ AdopterOf' =
            [a \in Animals |-> IF a \in gone \cup orphaned THEN Null ELSE AdopterOf[a]]
       /\ UNCHANGED AskedPairs
       => LifeStep
<1>1. ASSUME NEW a \in Animals, NEW s \in Status,
             StageOf[a] = "unborn",
             StageOf' = [StageOf EXCEPT ![a] = "listed"],
             StatusOf' = [StatusOf EXCEPT ![a] = s],
             UNCHANGED <<AdopterOf, AskedPairs>>
      PROVE  LifeStep
  <2>1. Lifecycle!Publish(a, s)
    BY <1>1 DEF Lifecycle!Publish, StageOf, StatusOf, AdopterOf, AskedPairs
  <2> QED BY <2>1 DEF Lifecycle!Next, LifeStep, Status
<1>2. ASSUME NEW a \in Animals, NEW u \in Users,
             StageOf[a] = "listed",
             AskedPairs' = AskedPairs \cup {<<a, u>>},
             UNCHANGED <<StageOf, StatusOf, AdopterOf>>
      PROVE  LifeStep
  <2>1. Lifecycle!Ask(a, u)
    BY <1>2 DEF Lifecycle!Ask, StageOf, StatusOf, AdopterOf, AskedPairs
  <2> QED BY <2>1 DEF Lifecycle!Next, LifeStep
<1>3. ASSUME NEW a \in Animals, NEW s \in Status,
             StageOf[a] = "listed",
             StatusOf' = [StatusOf EXCEPT ![a] = s],
             AdopterOf' = [AdopterOf EXCEPT ![a] = Null],
             UNCHANGED <<StageOf, AskedPairs>>
      PROVE  LifeStep
  <2>1. Lifecycle!Relist(a, s)
    BY <1>3 DEF Lifecycle!Relist, StageOf, StatusOf, AdopterOf, AskedPairs
  <2> QED BY <2>1 DEF Lifecycle!Next, LifeStep, Status
<1>4. ASSUME NEW a \in Animals, NEW u \in Users,
             StageOf[a] = "listed",
             <<a, u>> \in AskedPairs,
             StatusOf' = [StatusOf EXCEPT ![a] = "adopted"],
             AdopterOf' = [AdopterOf EXCEPT ![a] = u],
             UNCHANGED <<StageOf, AskedPairs>>
      PROVE  LifeStep
  <2>1. Lifecycle!Adopt(a, u)
    BY <1>4 DEF Lifecycle!Adopt, StageOf, StatusOf, AdopterOf, AskedPairs
  <2> QED BY <2>1 DEF Lifecycle!Next, LifeStep
<1>5. ASSUME NEW gone \in SUBSET Animals, NEW orphaned \in SUBSET Animals,
             \A a \in gone : StageOf[a] = "listed",
             StageOf' = [a \in Animals |-> IF a \in gone THEN "gone" ELSE StageOf[a]],
             StatusOf' = [a \in Animals |-> IF a \in gone THEN Null ELSE StatusOf[a]],
             AdopterOf' =
               [a \in Animals |-> IF a \in gone \cup orphaned THEN Null ELSE AdopterOf[a]],
             UNCHANGED AskedPairs
      PROVE  LifeStep
  <2>1. Lifecycle!Leave(gone, orphaned)
    BY <1>5 DEF Lifecycle!Leave, StageOf, StatusOf, AdopterOf, AskedPairs
  <2> QED BY <2>1 DEF Lifecycle!Next, LifeStep
<1> QED BY <1>1, <1>2, <1>3, <1>4, <1>5

\* A statement that touches neither animals nor their ids is invisible.
LEMMA InvisibleStep ==
  ASSUME animals' = animals, log' = log,
         \A a \in Animals : animals[a] = Null => (a \in unused' <=> a \in unused)
  PROVE  LifeStep
<1>1. StageOf' = StageOf
  BY DEF StageOf
<1> QED BY <1>1 DEF LifeStep, lifeOf, StatusOf, AdopterOf, AskedPairs

\* A new request is somebody asking for a listed animal.
LEMMA AskStep ==
  ASSUME TablesOK, NEW row \in RequestRow, ~DanglingRequest(row), InsertRequestRow(row)
  PROVE  LifeStep
<1>1. /\ DOMAIN log' = DOMAIN log \cup {Len(log) + 1} /\ log'[Len(log) + 1] = row
      /\ \A r \in DOMAIN log : log'[r] = log[r]
  BY DEF TablesOK, InsertRequestRow
<1>2. AskedPairs' = AskedPairs \cup {<<row.animal, row.user>>}
  BY <1>1 DEF AskedPairs
<1>3. row.animal \in Animals /\ row.user \in Users /\ StageOf[row.animal] = "listed"
  BY DEF RequestRow, DanglingRequest, StageOf
<1>4. UNCHANGED <<StageOf, StatusOf, AdopterOf>>
  BY DEF InsertRequestRow, StageOf, StatusOf, AdopterOf
<1> QED BY <1>2, <1>3, <1>4, AbstractSteps

\* Writing the row of one animal, as the mapping shows it.
LEMMA WrittenRow ==
  ASSUME TablesOK, NEW a \in Animals, NEW row \in AnimalRow, WriteAnimalRow(a, row)
  PROVE  /\ StageOf' = [StageOf EXCEPT ![a] = "listed"]
         /\ StatusOf' = [StatusOf EXCEPT ![a] = row.status]
         /\ AdopterOf' = [AdopterOf EXCEPT ![a] = row.owner]
         /\ AskedPairs' = AskedPairs
<1>1. /\ animals' = [animals EXCEPT ![a] = row] /\ animals \in [Animals -> AnimalRow \cup {Null}]
      /\ unused' = unused \ {a} /\ log' = log /\ row # Null
  BY SchemaAssumption DEF WriteAnimalRow, TablesOK
<1>2. StageOf' = [StageOf EXCEPT ![a] = "listed"]
  BY <1>1 DEF StageOf
<1>3. StatusOf' = [StatusOf EXCEPT ![a] = row.status]
  BY <1>1 DEF StatusOf
<1>4. AdopterOf' = [AdopterOf EXCEPT ![a] = row.owner]
  BY <1>1 DEF AdopterOf
<1> QED BY <1>1, <1>2, <1>3, <1>4 DEF AskedPairs

\* Animals that leave, and adopters that let go of theirs.
LEMMA LeaveStep ==
  ASSUME TablesOK, FreshIds, NEW gone \in SUBSET Animals, NEW orphaned \in SUBSET Animals,
         \A a \in gone : animals[a] # Null /\ animals'[a] = Null,
         \A a \in Animals \ gone :
           /\ (animals'[a] = Null) <=> (animals[a] = Null)
           /\ animals[a] # Null =>
                /\ animals'[a].status = animals[a].status
                /\ animals'[a].owner = IF a \in orphaned THEN Null ELSE animals[a].owner,
         log' = log, unused' = unused
  PROVE  LifeStep
<1>1. \A a \in gone : StageOf[a] = "listed" /\ a \notin unused
  BY DEF StageOf, FreshIds
<1>2. StageOf' = [a \in Animals |-> IF a \in gone THEN "gone" ELSE StageOf[a]]
  BY <1>1 DEF StageOf
<1>3. StatusOf' = [a \in Animals |-> IF a \in gone THEN Null ELSE StatusOf[a]]
  BY DEF StatusOf
<1>4. AdopterOf' = [a \in Animals |-> IF a \in gone \cup orphaned THEN Null ELSE AdopterOf[a]]
  BY DEF AdopterOf
<1>5. AskedPairs' = AskedPairs
  BY DEF AskedPairs
<1> QED BY <1>1, <1>2, <1>3, <1>4, <1>5, AbstractSteps

-----------------------------------------------------------------------------
(* The statements of the handlers.                                         *)

\* Decisions: an adoption, or requests that go.
LEMMA DecisionLives ==
  ASSUME JInv, NEW t \in Tasks, AdoptAnimal(t) \/ ClearRequests(t) \/ DenyRequest(t)
  PROVE  LifeStep
<1>1. CASE UNCHANGED tables
  BY <1>1, InvisibleStep DEF tables
<1>2. CASE \E gone : DeleteRequestRows(gone)
  BY <1>2, InvisibleStep DEF DeleteRequestRows
<1>3. CASE /\ AdoptAnimal(t) /\ Row(t) # Null
           /\ WriteAnimalRow(Subject(t),
                [Row(t) EXCEPT !.status = "adopted", !.owner = Request(t).user])
  <2> DEFINE row == [Row(t) EXCEPT !.status = "adopted", !.owner = Request(t).user]
             a == Subject(t)
             u == Request(t).user
  <2>1. /\ a \in Animals /\ Row(t) \in AnimalRow /\ u \in Users
        /\ call[t].on \in DOMAIN log /\ Request(t) = [animal |-> a, user |-> u]
        /\ TablesOK
    BY <1>3, SubjectType DEF AdoptAnimal, JInv, IInv, CallsInv, CallOK, TypeOK
  <2>2. row \in AnimalRow /\ row.status = "adopted" /\ row.owner = u
    BY <2>1 DEF AnimalRow, Status
  <2>3. <<a, u>> \in AskedPairs
    BY <2>1 DEF AskedPairs, Request
  <2>4. StageOf[a] = "listed" /\ WriteAnimalRow(a, row)
    BY <1>3, <2>1 DEF StageOf, Row
  <2> HIDE DEF a, u, row
  <2>5. /\ StageOf' = [StageOf EXCEPT ![a] = "listed"]
        /\ StatusOf' = [StatusOf EXCEPT ![a] = "adopted"]
        /\ AdopterOf' = [AdopterOf EXCEPT ![a] = u]
        /\ AskedPairs' = AskedPairs
    BY <2>1, <2>2, <2>4, WrittenRow
  <2>6. StageOf' = StageOf
    BY <2>1, <2>4, <2>5 DEF StageOf
  <2> QED BY <2>1, <2>3, <2>4, <2>5, <2>6, AbstractSteps
<1> QED BY <1>1, <1>2, <1>3 DEF AdoptAnimal, ClearRequests, DenyRequest

\* An edit with a status lists the animal anew, any other shows nothing.
LEMMA UpdateLives ==
  ASSUME JInv, NEW t \in Tasks, UpdateAnimal(t)
  PROVE  LifeStep
<1>1. CASE UNCHANGED tables
  BY <1>1, InvisibleStep DEF tables
<1>2. CASE Row(t) # Null /\ WriteAnimalRow(Subject(t), Changed(Row(t), call[t].set))
  <2> DEFINE row == Changed(Row(t), call[t].set)
             a == Subject(t)
             s == call[t].set
  <2>1. a \in Animals /\ Row(t) \in AnimalRow /\ TablesOK /\ a \notin unused
    BY <1>2, SubjectType DEF UpdateAnimal, JInv, IInv, TypeOK, FreshIds, Row
  <2>2. StageOf[a] = "listed" /\ StageOf \in [Animals -> {"listed", "unborn", "gone"}]
    BY <1>2, <2>1 DEF StageOf, Row
  <2>3. CASE s \in Status
    <3>1. row \in AnimalRow /\ row.status = s /\ row.owner = Null
      BY <2>1, <2>3 DEF AnimalRow, Changed
    <3>2. /\ StageOf' = [StageOf EXCEPT ![a] = "listed"]
          /\ StatusOf' = [StatusOf EXCEPT ![a] = s]
          /\ AdopterOf' = [AdopterOf EXCEPT ![a] = Null]
          /\ AskedPairs' = AskedPairs
      BY <1>2, <2>1, <3>1, WrittenRow
    <3> HIDE DEF a, s, row
    <3>3. StageOf' = StageOf
      BY <2>1, <2>2, <3>2
    <3> QED BY <2>1, <2>2, <2>3, <3>2, <3>3, AbstractSteps
  <2>4. CASE s \notin Status
    <3>1. row = Row(t)
      BY <2>4 DEF Changed
    <3>2. animals' = animals /\ unused' = unused /\ log' = log
      BY <1>2, <2>1, <3>1 DEF WriteAnimalRow, TablesOK, Row
    <3> QED BY <3>2, InvisibleStep
  <2> QED BY <2>3, <2>4
<1> QED BY <1>1, <1>2 DEF UpdateAnimal

\* An animal is published with an id no animal had.
LEMMA PublishLives ==
  ASSUME JInv, NEW t \in Tasks, PublishAnimal(t)
  PROVE  LifeStep
<1>1. CASE UNCHANGED tables
  BY <1>1, InvisibleStep DEF tables
<1>2. CASE \E a \in unused \cap Animals :
             WriteAnimalRow(a, [org |-> call[t].on, status |-> call[t].set, owner |-> Null])
  <2> DEFINE row == [org |-> call[t].on, status |-> call[t].set, owner |-> Null]
  <2>1. PICK a \in unused \cap Animals : WriteAnimalRow(a, row)
    BY <1>2
  <2>2. TablesOK /\ call[t].set \in Status /\ row \in AnimalRow
    <3>1. CallOK(t) /\ TablesOK
      BY DEF JInv, IInv, CallsInv, TypeOK
    <3>2. call[t] \in AnyCall /\ call[t].op = "publish"
      BY <3>1 DEF PublishAnimal, CallOK, Running, AnyCall
    <3> QED BY <3>1, <3>2, CallFields DEF AnimalRow
  <2>3. animals[a] = Null
    BY <2>1 DEF JInv, FreshIds
  <2>4. StageOf[a] = "unborn" /\ AdopterOf[a] = Null
    BY <2>1, <2>3 DEF StageOf, AdopterOf
  <2>5. row.status = call[t].set /\ row.owner = Null
    OBVIOUS
  <2> HIDE DEF row
  <2>6. /\ StageOf' = [StageOf EXCEPT ![a] = "listed"]
        /\ StatusOf' = [StatusOf EXCEPT ![a] = call[t].set]
        /\ AdopterOf' = [AdopterOf EXCEPT ![a] = Null]
        /\ AskedPairs' = AskedPairs
    BY <2>1, <2>2, <2>5, WrittenRow
  <2>7. AdopterOf' = AdopterOf
    BY <2>4, <2>6 DEF AdopterOf
  <2> QED BY <2>1, <2>2, <2>4, <2>6, <2>7, AbstractSteps
<1> QED BY <1>1, <1>2 DEF PublishAnimal

\* Deletions, with everything that cascades.
LEMMA DeletionLives ==
  ASSUME JInv, NEW t \in Tasks, RemoveAnimal(t) \/ DeleteOrg(t) \/ DeleteUser(t)
  PROVE  LifeStep
<1>1. /\ TablesOK /\ FreshIds /\ CallOK(t)
      /\ animals \in [Animals -> AnimalRow \cup {Null}]
  BY DEF JInv, IInv, CallsInv, TypeOK, TablesOK
<1>2. CASE RemoveAnimal(t)
  <2>1. Subject(t) \in Animals /\ DeleteAnimalRow(Subject(t))
    BY <1>2, SubjectType DEF RemoveAnimal, JInv
  <2> DEFINE gone == {a \in {Subject(t)} : animals[a] # Null}
  <2>2. /\ gone \in SUBSET Animals
        /\ \A a \in gone : animals[a] # Null /\ animals'[a] = Null
        /\ \A a \in Animals \ gone : animals'[a] = animals[a]
        /\ log' = log /\ unused' = unused
    BY <1>1, <2>1 DEF DeleteAnimalRow
  <2> HIDE DEF gone
  <2> QED BY <1>1, <2>2, LeaveStep
<1>3. CASE DeleteOrg(t)
  <2> DEFINE gone == AnimalsOf(call[t].on)
  <2>1. DeleteOrgRow(call[t].on)
    BY <1>3 DEF DeleteOrg
  <2>2. /\ gone \in SUBSET Animals
        /\ \A a \in gone : animals[a] # Null /\ animals'[a] = Null
        /\ \A a \in Animals \ gone : animals'[a] = animals[a]
        /\ log' = log /\ unused' = unused
    BY <1>1, <2>1 DEF DeleteOrgRow, AnimalsOf
  <2> HIDE DEF gone
  <2> QED BY <1>1, <2>2, LeaveStep
<1>4. CASE DeleteUser(t)
  <2> DEFINE u == call[t].on
             gone == IF orgOf[u] = Null THEN {} ELSE AnimalsOf(orgOf[u])
             orphaned == {a \in Animals : animals[a] # Null /\ animals[a].owner = u}
  <2>1. DeleteUserRow(u)
    BY <1>4 DEF DeleteUser
  <2>2. /\ gone \in SUBSET Animals /\ orphaned \in SUBSET Animals
        /\ \A a \in gone : animals[a] # Null
        /\ animals' = [a \in Animals |-> IF a \in gone THEN Null ELSE Disown(animals[a], u)]
        /\ log' = log /\ unused' = unused
    BY <2>1 DEF DeleteUserRow, AnimalsOf
  <2>3. \A a \in Animals :
          /\ (Disown(animals[a], u) = Null) <=> (animals[a] = Null)
          /\ animals[a] # Null =>
               /\ Disown(animals[a], u).status = animals[a].status
               /\ Disown(animals[a], u).owner = IF a \in orphaned THEN Null ELSE animals[a].owner
    <3> SUFFICES ASSUME NEW a \in Animals, animals[a] # Null
                 PROVE  /\ Disown(animals[a], u) # Null
                        /\ Disown(animals[a], u).status = animals[a].status
                        /\ Disown(animals[a], u).owner =
                             IF a \in orphaned THEN Null ELSE animals[a].owner
      BY DEF Disown
    <3>1. animals[a] \in AnimalRow
      BY <1>1
    <3>2. CASE animals[a].owner = u
      <4>1. Disown(animals[a], u) = [animals[a] EXCEPT !.owner = Null] /\ a \in orphaned
        BY <3>2 DEF Disown
      <4>2. /\ [animals[a] EXCEPT !.owner = Null] \in AnimalRow
            /\ [animals[a] EXCEPT !.owner = Null].owner = Null
            /\ [animals[a] EXCEPT !.owner = Null].status = animals[a].status
        BY <3>1 DEF AnimalRow
      <4> QED BY <4>1, <4>2, SchemaAssumption
    <3>3. CASE animals[a].owner # u
      BY <3>3 DEF Disown
    <3> QED BY <3>2, <3>3
  <2> HIDE DEF u, gone, orphaned
  <2>4. /\ \A a \in gone : animals[a] # Null /\ animals'[a] = Null
        /\ \A a \in Animals \ gone : animals'[a] = Disown(animals[a], u)
    BY <2>2
  <2> QED BY <1>1, <2>2, <2>3, <2>4, LeaveStep
<1> QED BY <1>2, <1>3, <1>4

\* The statements that write no animal's row.
LEMMA OtherLives ==
  ASSUME JInv, NEW t \in Tasks, InsertRequest(t) \/ InsertOrg(t) \/ LinkFounder(t)
  PROVE  LifeStep
<1>1. TablesOK /\ CallOK(t)
  BY DEF JInv, IInv, CallsInv, TypeOK
<1>2. CASE UNCHANGED tables
  BY <1>2, InvisibleStep DEF tables
<1>3. CASE InsertRequest(t)
  <2> DEFINE row == [animal |-> call[t].on, user |-> call[t].by]
  <2>1. call[t] \in AnyCall /\ call[t].op = "adopt"
    BY <1>1, <1>3 DEF InsertRequest, CallOK, AnyCall, Running
  <2>2. row \in RequestRow
    BY <2>1, CallFields DEF RequestRow
  <2>3. UNCHANGED tables \/ (~DanglingRequest(row) /\ InsertRequestRow(row))
    BY <1>3 DEF InsertRequest
  <2> HIDE DEF row
  <2> QED BY <1>1, <1>2, <2>2, <2>3, AskStep
<1>4. CASE \E o \in unused \cap Orgs : InsertOrgRow(o)
  BY <1>4, InvisibleStep, SchemaAssumption DEF InsertOrgRow
<1>5. CASE LinkOrg(call[t].by, seen[t])
  BY <1>5, InvisibleStep DEF LinkOrg
<1> QED BY <1>2, <1>3, <1>4, <1>5 DEF InsertOrg, LinkFounder

\* Everything else leaves the tables alone.
LEMMA QuietSteps ==
  ASSUME NEW t \in Tasks,
         \/ ReceiveAdoptionCall(t) \/ ReceiveAccountCall(t) \/ StatementFails(t)
         \/ ReadRequest(t) \/ ReadAnimal(t) \/ CheckMember(t) \/ ReadApplicant(t)
         \/ ReadAdoptable(t) \/ CheckUnaffiliated(t) \/ ReadFounder(t) \/ ReadOrg(t)
         \/ ReadAccount(t)
  PROVE  LifeStep
<1>1. UNCHANGED tables
  BY DEF ReceiveAdoptionCall, ReceiveAccountCall, Begin, StatementFails, ReadRequest,
         ReadAnimal, CheckMember, ReadApplicant, ReadAdoptable, CheckUnaffiliated,
         ReadFounder, ReadOrg, ReadAccount
<1> QED BY <1>1, InvisibleStep DEF tables

\* Every step is one of the life cycle.
LEMMA StepLives == JInv /\ [Next]_vars => LifeStep
<1> SUFFICES ASSUME JInv, [Next]_vars
             PROVE  LifeStep
  OBVIOUS
<1>1. CASE UNCHANGED vars
  BY <1>1, InvisibleStep DEF vars, tables
<1>2. ASSUME NEW t \in Tasks, AdoptionStep(t)
      PROVE  LifeStep
  BY <1>2, QuietSteps, OtherLives, DecisionLives, UpdateLives, PublishLives, DeletionLives
     DEF AdoptionStep
<1>3. ASSUME NEW t \in Tasks, AccountStep(t)
      PROVE  LifeStep
  BY <1>3, QuietSteps, OtherLives, DeletionLives DEF AccountStep
<1>4. ASSUME NEW t \in Tasks, StatementFails(t)
      PROVE  LifeStep
  BY <1>4, QuietSteps
<1> QED BY <1>1, <1>2, <1>3, <1>4 DEF Next, AllAnswered

\* The instances start in a state of the life cycle.
LEMMA InitLives == Init => Lifecycle!Init
<1> SUFFICES ASSUME Init
             PROVE  Lifecycle!Init
  OBVIOUS
<1>1. /\ animals \in [Animals -> AnimalRow \cup {Null}] /\ log \in Seq(RequestRow)
      /\ \A a \in Animals : animals[a] = Null => a \in unused
      /\ \A a \in Animals : animals[a] # Null => animals[a].owner = Null
      /\ \A r \in DOMAIN log : animals[log[r].animal] # Null
  BY SchemaAssumption DEF Init, TablesInit
<1>2. StageOf \in [Animals -> {"unborn", "listed"}]
  BY <1>1 DEF StageOf
<1>3. StatusOf \in [Animals -> {"available", "adopted", "unavailable", Null}]
  BY <1>1 DEF StatusOf, AnimalRow, Status
<1>4. \A a \in Animals : StatusOf[a] = Null <=> StageOf[a] = "unborn"
  <2> SUFFICES ASSUME NEW a \in Animals
               PROVE  StatusOf[a] = Null <=> StageOf[a] = "unborn"
    OBVIOUS
  <2>1. CASE animals[a] = Null
    BY <1>1, <2>1 DEF StatusOf, StageOf
  <2>2. CASE animals[a] # Null
    <3>1. animals[a].status \in Status /\ animals[a].status # Null
      BY <1>1, <2>2, SchemaAssumption DEF AnimalRow
    <3> QED BY <2>2, <3>1 DEF StatusOf, StageOf
  <2> QED BY <2>1, <2>2
<1>5. AdopterOf = [a \in Animals |-> Null]
  BY <1>1 DEF AdopterOf
<1>6. AskedPairs \subseteq {a \in Animals : StageOf[a] = "listed"} \X Users
  <2>1. \A r \in DOMAIN log : log[r].animal \in Animals /\ log[r].user \in Users
    <3>1. \A r \in DOMAIN log : log[r] \in RequestRow
      BY <1>1
    <3> QED BY <3>1 DEF RequestRow
  <2>2. \A r \in DOMAIN log : StageOf[log[r].animal] = "listed"
    BY <1>1, <2>1 DEF StageOf
  <2> QED BY <2>1, <2>2 DEF AskedPairs
<1> QED BY <1>2, <1>3, <1>4, <1>5, <1>6
     DEF Lifecycle!Init, StageOf, StatusOf, AdopterOf, AskedPairs

\* Whatever runs concurrently, fails half-way or cascades, an animal is
\* published once, leaves once and for all, and is given only to somebody who
\* asked for it: the handlers implement the life cycle.
THEOREM HandlersImplementLifecycle == Spec => ImplementsLifecycle
<1>1. JInv /\ [Next]_vars => [Lifecycle!Next]_(Lifecycle!lifeVars)
  BY StepLives
     DEF LifeStep, lifeOf, Lifecycle!lifeVars, StageOf, StatusOf, AdopterOf, AskedPairs
<1> QED BY <1>1, InitLives, ShelterStepInvariant, PTL
     DEF Spec, ImplementsLifecycle, Lifecycle!Spec
=============================================================================
