---------------------------- MODULE ShelterProofs ----------------------------
(***************************************************************************)
(* What holds of the shelter for any number of users, animals, shelters    *)
(* and concurrent calls.  The tables' invariant is shown to survive every  *)
(* statement first; a handler's step is then a statement whose inputs the  *)
(* invariant about the calls types.                                        *)
(***************************************************************************)
EXTENDS Shelter, TLAPS

TablesInv ==
  /\ TablesOK
  /\ ForeignKeys
  /\ OneRequestPerUser
  /\ OwnerIsAdopted
  /\ AdopterAsked

\* Which endpoint a call serves at each label, and that the ids it carries
\* name rows that existed once.
CallOK(t) ==
  /\ Running(t) => call[t] \in AdoptionCalls \cup AccountCalls
  /\ pc[t] = "read_request" => call[t].op \in {"accept", "deny"}
  /\ pc[t] = "read_animal" =>
       call[t].op \in {"adopt", "remove", "update", "accept", "deny"}
  /\ pc[t] = "read_member" =>
       call[t].op \in {"remove", "update", "accept", "deny", "publish"} /\ seen[t] \in Orgs
  /\ pc[t] \in {"insert", "read_applicant"} => call[t].op = "adopt"
  /\ pc[t] \in {"read_adoptable", "adopt", "clear"} => call[t].op = "accept"
  /\ pc[t] \in {"deny", "update", "remove", "publish"} => call[t].op = pc[t]
  /\ pc[t] \in {"read_unaffiliated", "insert_org", "link"} => call[t].op = "open_org"
  /\ pc[t] = "link" => seen[t] \in Orgs
  /\ pc[t] \in {"read_founder", "read_org", "delete_org"} => call[t].op = "close_org"
  /\ pc[t] \in {"read_account", "delete_user"} => call[t].op = "close_account"
  /\ Running(t) /\ pc[t] # "read_request" /\ call[t].op \in {"accept", "deny"} =>
       call[t].on \in DOMAIN log

CallsInv == \A t \in Tasks : CallOK(t)

IInv == TypeOK /\ TablesInv /\ CallsInv

-----------------------------------------------------------------------------

\* Every request ever made names an animal and a user.
LEMMA LogRows ==
  ASSUME TablesOK
  PROVE  \A r \in DOMAIN log :
           log[r] \in RequestRow /\ log[r].animal \in Animals /\ log[r].user \in Users
<1> SUFFICES ASSUME NEW r \in DOMAIN log
             PROVE  log[r] \in RequestRow /\ log[r].animal \in Animals /\ log[r].user \in Users
  OBVIOUS
<1>1. log \in Seq(RequestRow)
  BY DEF TablesOK
<1>2. r \in 1..Len(log) /\ log[r] \in RequestRow
  BY <1>1
<1> QED BY <1>2 DEF RequestRow

(* The statements.                                                         *)

\* An INSERT the constraints of adopt_requests accept keeps the tables sound.
LEMMA InsertRequestSound ==
  ASSUME TablesInv, NEW row \in RequestRow,
         ~DuplicateRequest(row), ~DanglingRequest(row), InsertRequestRow(row)
  PROVE  TablesInv'
<1> DEFINE new == Len(log) + 1
<1> USE DEF InsertRequestRow
<1>1. /\ log \in Seq(RequestRow) /\ requests \subseteq DOMAIN log
      /\ log' \in Seq(RequestRow) /\ DOMAIN log' = DOMAIN log \cup {new}
      /\ \A i \in DOMAIN log : log'[i] = log[i]
      /\ log'[new] = row /\ new \notin DOMAIN log
      /\ requests' = requests \cup {new}
  BY DEF TablesInv, TablesOK
<1>2. TablesOK'
  BY <1>1 DEF TablesInv, TablesOK
<1>3. ForeignKeys'
  BY <1>1 DEF TablesInv, ForeignKeys, DanglingRequest
<1>4. OneRequestPerUser'
  BY <1>1 DEF TablesInv, OneRequestPerUser, DuplicateRequest
<1>5. OwnerIsAdopted'
  BY DEF TablesInv, OwnerIsAdopted
<1>6. AdopterAsked'
  BY <1>1 DEF TablesInv, AdopterAsked, Asked
<1> QED BY <1>2, <1>3, <1>4, <1>5, <1>6 DEF TablesInv

\* Deleting requests cannot break anything.
LEMMA DeleteRequestsSound ==
  ASSUME TablesInv, NEW gone, DeleteRequestRows(gone)
  PROVE  TablesInv'
BY DEF TablesInv, TablesOK, ForeignKeys, OneRequestPerUser, OwnerIsAdopted, AdopterAsked,
       Asked, DeleteRequestRows

\* Writing an animal row is sound if the row is.
LEMMA WriteAnimalSound ==
  ASSUME TablesInv, NEW a \in Animals, NEW row \in AnimalRow,
         row.org \in orgs, row.owner \in users \cup {Null},
         row.owner # Null => row.status = "adopted" /\ Asked(a, row.owner),
         WriteAnimalRow(a, row)
  PROVE  TablesInv'
<1> USE DEF WriteAnimalRow
<1>1. animals \in [Animals -> AnimalRow \cup {Null}]
  BY DEF TablesInv, TablesOK
<1>2. TablesOK'
  BY <1>1 DEF TablesInv, TablesOK
<1>3. row # Null
  BY SchemaAssumption
<1>4. ForeignKeys'
  BY <1>1, <1>3 DEF TablesInv, ForeignKeys
<1>5. OneRequestPerUser'
  BY DEF TablesInv, OneRequestPerUser
<1>6. OwnerIsAdopted'
  BY <1>1 DEF TablesInv, OwnerIsAdopted
<1>7. AdopterAsked'
  BY <1>1 DEF TablesInv, AdopterAsked, Asked
<1> QED BY <1>2, <1>4, <1>5, <1>6, <1>7 DEF TablesInv

\* Deleting an animal takes exactly the requests along that would dangle.
LEMMA DeleteAnimalSound ==
  ASSUME TablesInv, NEW a \in Animals, DeleteAnimalRow(a)
  PROVE  TablesInv'
<1> USE DEF DeleteAnimalRow
<1>1. /\ animals \in [Animals -> AnimalRow \cup {Null}]
      /\ log \in Seq(RequestRow) /\ requests \subseteq DOMAIN log
  BY DEF TablesInv, TablesOK
<1>2. \A r \in requests : log[r].animal \in Animals
  BY <1>1, LogRows DEF TablesInv
<1>3. TablesOK'
  BY <1>1 DEF TablesInv, TablesOK
<1>4. ForeignKeys'
  BY <1>1, <1>2 DEF TablesInv, ForeignKeys
<1>5. OneRequestPerUser'
  BY DEF TablesInv, OneRequestPerUser
<1>6. OwnerIsAdopted'
  BY <1>1 DEF TablesInv, OwnerIsAdopted
<1>7. AdopterAsked'
  BY <1>1 DEF TablesInv, AdopterAsked, Asked
<1> QED BY <1>3, <1>4, <1>5, <1>6, <1>7 DEF TablesInv

\* A new shelter has no members and no animals yet.
LEMMA InsertOrgSound ==
  ASSUME TablesInv, NEW o \in Orgs, InsertOrgRow(o)
  PROVE  TablesInv'
BY DEF TablesInv, TablesOK, ForeignKeys, OneRequestPerUser, OwnerIsAdopted, AdopterAsked,
       Asked, InsertOrgRow

\* Linking an account that exists to a shelter that exists.
LEMMA LinkOrgSound ==
  ASSUME TablesInv, NEW u \in users, NEW o \in orgs, LinkOrg(u, o)
  PROVE  TablesInv'
<1> USE DEF LinkOrg
<1>1. TablesOK'
  BY DEF TablesInv, TablesOK
<1>2. ForeignKeys'
  BY DEF TablesInv, TablesOK, ForeignKeys
<1> QED BY <1>1, <1>2 DEF TablesInv, OneRequestPerUser, OwnerIsAdopted, AdopterAsked, Asked

\* Deleting a shelter unlinks its members and takes its animals and their
\* requests along.
LEMMA DeleteOrgSound ==
  ASSUME TablesInv, NEW o \in Orgs, DeleteOrgRow(o)
  PROVE  TablesInv'
<1> USE DEF DeleteOrgRow
<1>1. /\ animals \in [Animals -> AnimalRow \cup {Null}]
      /\ orgOf \in [Users -> Orgs \cup {Null}]
      /\ log \in Seq(RequestRow) /\ requests \subseteq DOMAIN log
  BY DEF TablesInv, TablesOK
<1>2. \A r \in requests : log[r].animal \in Animals
  BY <1>1, LogRows DEF TablesInv
<1>3. TablesOK'
  BY <1>1 DEF TablesInv, TablesOK
<1>4. ForeignKeys'
  BY <1>1, <1>2 DEF TablesInv, ForeignKeys, AnimalsOf
<1>5. OneRequestPerUser'
  BY DEF TablesInv, OneRequestPerUser
<1>6. OwnerIsAdopted'
  BY <1>1 DEF TablesInv, OwnerIsAdopted
<1>7. AdopterAsked'
  BY <1>1 DEF TablesInv, AdopterAsked, Asked
<1> QED BY <1>3, <1>4, <1>5, <1>6, <1>7 DEF TablesInv

\* Deleting an account: the user's requests, adoptions and shelter go in the
\* same statement, so nothing is left that names any of them.
LEMMA DeleteUserSound ==
  ASSUME TablesInv, NEW u \in Users, DeleteUserRow(u)
  PROVE  TablesInv'
<1> DEFINE o == orgOf[u]
           gone == IF o = Null THEN {} ELSE AnimalsOf(o)
<1>1. /\ animals \in [Animals -> AnimalRow \cup {Null}]
      /\ orgOf \in [Users -> Orgs \cup {Null}]
      /\ log \in Seq(RequestRow) /\ requests \subseteq DOMAIN log
  BY DEF TablesInv, TablesOK
<1>2. /\ users' = users \ {u} /\ orgs' = orgs \ {o}
      /\ orgOf' = [v \in Users |-> IF v = u \/ orgOf[v] = o THEN Null ELSE orgOf[v]]
      /\ animals' = [a \in Animals |-> IF a \in gone THEN Null ELSE Disown(animals[a], u)]
      /\ requests' = {r \in requests : log[r].user # u /\ log[r].animal \notin gone}
      /\ log' = log /\ unused' = unused
  BY DEF DeleteUserRow
<1>3. \A a \in Animals : animals'[a] # Null =>
        /\ a \notin gone /\ animals[a] # Null
        /\ animals'[a] \in AnimalRow
        /\ animals'[a].org = animals[a].org /\ animals'[a].status = animals[a].status
        /\ animals'[a].owner = IF animals[a].owner = u THEN Null ELSE animals[a].owner
  BY <1>1, <1>2 DEF Disown, AnimalRow
<1>4. \A r \in requests' : log[r].animal \in Animals /\ animals'[log[r].animal] # Null
  <2>1. \A r \in requests : log[r].animal \in Animals /\ animals[log[r].animal] # Null
    BY <1>1, LogRows DEF TablesInv, ForeignKeys
  <2>2. \A a \in Animals : a \notin gone /\ animals[a] # Null => animals'[a] # Null
    BY <1>1, <1>2, SchemaAssumption DEF Disown, AnimalRow
  <2> QED BY <1>2, <2>1, <2>2
<1> HIDE DEF gone
<1>5. TablesOK'
  <2>1. animals' \in [Animals -> AnimalRow \cup {Null}]
    BY <1>2, <1>3
  <2> QED BY <1>1, <1>2, <2>1 DEF TablesInv, TablesOK
<1>6. ForeignKeys'
  <2>1. \A v \in Users : orgOf'[v] # Null => v \in users' /\ orgOf'[v] \in orgs'
    BY <1>1, <1>2 DEF TablesInv, ForeignKeys
  <2>2. \A a \in Animals : animals'[a] # Null =>
          animals'[a].org \in orgs' /\ animals'[a].owner \in users' \cup {Null}
    <3> SUFFICES ASSUME NEW a \in Animals, animals'[a] # Null
                 PROVE  animals[a].org # o /\ animals'[a].owner # u
                        /\ animals[a].org \in orgs /\ animals[a].owner \in users \cup {Null}
      BY <1>2, <1>3
    <3>1. animals[a].org \in orgs /\ animals[a].owner \in users \cup {Null}
      BY <1>3 DEF TablesInv, ForeignKeys
    <3>2. animals[a].org # o
      BY <1>3, <3>1, SchemaAssumption DEF gone, AnimalsOf, TablesInv, TablesOK
    <3>3. animals'[a].owner # u
      BY <1>3, SchemaAssumption
    <3> QED BY <3>1, <3>2, <3>3
  <2>3. \A r \in requests' : log'[r].user \in users'
    BY <1>2 DEF TablesInv, ForeignKeys
  <2> QED BY <1>2, <1>4, <2>1, <2>2, <2>3 DEF ForeignKeys
<1>7. OneRequestPerUser'
  BY <1>2 DEF TablesInv, OneRequestPerUser
<1>8. OwnerIsAdopted'
  BY <1>3 DEF TablesInv, OwnerIsAdopted
<1>9. AdopterAsked'
  BY <1>2, <1>3 DEF TablesInv, AdopterAsked, Asked
<1> QED BY <1>5, <1>6, <1>7, <1>8, <1>9 DEF TablesInv

-----------------------------------------------------------------------------
(* The control steps.                                                      *)

Codes == {0, 200, 201, 204, 403, 404, 409, 500}
AnyCall == AdoptionCalls \cup AccountCalls

\* The fields of a call.
LEMMA CallFields ==
  ASSUME NEW c \in AnyCall
  PROVE  /\ c.by \in Users
         /\ c.op \in {"adopt", "remove", "update"} => c.on \in Animals
         /\ c.op \in {"accept", "deny"} => c.on \in RequestIds
         /\ c.op = "update" => c.set \in Changes
         /\ c.op = "publish" => c.on \in Orgs /\ c.set \in Status
         /\ c.op = "close_org" => c.on \in Orgs
         /\ c.op = "close_account" => c.on \in Users
BY DEF AnyCall, AdoptionCalls, AccountCalls

\* A step of one call that forgets no request keeps the invariant if it
\* keeps the tables sound and the call's own label right.
LEMMA OneCallMoves ==
  ASSUME IInv, NEW t \in Tasks, TablesInv', DOMAIN log \subseteq DOMAIN log',
         NEW l \in Labels, NEW c \in AnyCall \cup {Null}, NEW v \in Orgs \cup {Null},
         NEW n \in Codes,
         pc' = [pc EXCEPT ![t] = l], call' = [call EXCEPT ![t] = c],
         seen' = [seen EXCEPT ![t] = v], reply' = [reply EXCEPT ![t] = n],
         CallOK(t)'
  PROVE  IInv'
<1>1. TypeOK'
  BY DEF IInv, TypeOK, TablesInv, Codes, AnyCall
<1>2. CallsInv'
  <2> SUFFICES ASSUME NEW s \in Tasks, s # t
               PROVE  CallOK(s)'
    BY DEF CallsInv
  <2>1. CallOK(s) /\ pc'[s] = pc[s] /\ call'[s] = call[s] /\ seen'[s] = seen[s]
    BY DEF IInv, TypeOK, CallsInv
  <2> QED BY <2>1 DEF CallOK, Running
<1> QED BY <1>1, <1>2 DEF IInv

LEMMA ReplySound ==
  ASSUME IInv, NEW t \in Tasks, TablesInv', DOMAIN log \subseteq DOMAIN log',
         NEW n \in Codes, Reply(t, n)
  PROVE  IInv'
<1>1. CallOK(t)'
  BY DEF IInv, TypeOK, Reply, CallOK, Running
<1>2. "done" \in Labels
  BY DEF Labels
<1> QED BY <1>1, <1>2, OneCallMoves DEF Reply

LEMMA CarrySound ==
  ASSUME IInv, NEW t \in Tasks, Running(t), TablesInv', DOMAIN log \subseteq DOMAIN log',
         NEW l \in Labels, NEW v \in Orgs \cup {Null}, Carry(t, l, v), CallOK(t)'
  PROVE  IInv'
<1>1. call[t] \in AnyCall /\ reply[t] \in Codes
  BY DEF IInv, TypeOK, CallsInv, CallOK, Codes, AnyCall
<1>2. call' = [call EXCEPT ![t] = call[t]] /\ reply' = [reply EXCEPT ![t] = reply[t]]
  BY DEF Carry, IInv, TypeOK
<1> QED BY <1>1, <1>2, OneCallMoves DEF Carry

LEMMA GotoSound ==
  ASSUME IInv, NEW t \in Tasks, Running(t), TablesInv', DOMAIN log \subseteq DOMAIN log',
         NEW l \in Labels, Goto(t, l), CallOK(t)'
  PROVE  IInv'
<1>1. seen[t] \in Orgs \cup {Null} /\ seen' = [seen EXCEPT ![t] = seen[t]]
  BY DEF Goto, IInv, TypeOK
<1>2. Carry(t, l, seen[t])
  BY <1>1 DEF Carry, Goto
<1> QED BY <1>1, <1>2, CarrySound

\* The tables' invariant reads nothing but the tables.
LEMMA TablesUnchanged ==
  ASSUME TablesInv, UNCHANGED tables
  PROVE  TablesInv' /\ DOMAIN log \subseteq DOMAIN log'
BY DEF TablesInv, TablesOK, ForeignKeys, OneRequestPerUser, OwnerIsAdopted, AdopterAsked,
       Asked, tables

-----------------------------------------------------------------------------
(* One lemma per handler step.                                             *)

LEMMA ReceiveSound ==
  ASSUME IInv, NEW t \in Tasks, ReceiveAdoptionCall(t) \/ ReceiveAccountCall(t)
  PROVE  IInv'
<1>1. PICK c \in AnyCall, l \in Labels, v \in Orgs \cup {Null} :
        /\ Begin(t, c, l, v)
        /\ c.op \in DOMAIN FirstStatement => l = FirstStatement[c.op]
        /\ c.op \in DOMAIN FirstRead => l = FirstRead[c.op]
        /\ c.op \in DOMAIN FirstStatement \cup DOMAIN FirstRead
        /\ c.op = "publish" => v = c.on
  <2>1. CASE ReceiveAdoptionCall(t)
    <3>1. PICK c \in AdoptionCalls :
            Begin(t, c, FirstStatement[c.op], IF c.op = "publish" THEN c.on ELSE Null)
      BY <2>1 DEF ReceiveAdoptionCall
    <3>2. c.op \in {"adopt", "remove", "update", "accept", "deny", "publish"}
      BY DEF AdoptionCalls
    <3>3. c.op = "publish" => c.on \in Orgs
      BY CallFields DEF AnyCall
    <3> QED BY <3>1, <3>2, <3>3 DEF FirstStatement, FirstRead, Labels, AnyCall
  <2>2. CASE ReceiveAccountCall(t)
    <3>1. PICK c \in AccountCalls : Begin(t, c, FirstRead[c.op], Null)
      BY <2>2 DEF ReceiveAccountCall
    <3>2. c.op \in {"open_org", "close_org", "close_account"}
      BY DEF AccountCalls
    <3> QED BY <3>1, <3>2 DEF FirstStatement, FirstRead, Labels, AnyCall
  <2> QED BY <2>1, <2>2
<1>2. TablesInv' /\ DOMAIN log \subseteq DOMAIN log'
  BY <1>1, TablesUnchanged DEF Begin, IInv
<1>3. pc'[t] = l /\ call'[t] = c /\ seen'[t] = v
  BY <1>1 DEF Begin, IInv, TypeOK
<1>4. CallOK(t)'
  <2>1. c.op = "publish" => v \in Orgs
    BY <1>1, CallFields
  <2> QED BY <1>1, <1>3, <2>1 DEF CallOK, Running, FirstStatement, FirstRead, AnyCall
<1>5. reply[t] \in Codes /\ reply' = [reply EXCEPT ![t] = reply[t]]
  BY <1>1 DEF Begin, IInv, TypeOK, Codes
<1> QED BY <1>1, <1>2, <1>4, <1>5, OneCallMoves DEF Begin

LEMMA ReadRequestSound ==
  ASSUME IInv, NEW t \in Tasks, ReadRequest(t)
  PROVE  IInv'
<1>1. CallOK(t) /\ Running(t) /\ pc[t] = "read_request"
  BY DEF ReadRequest, Running, IInv, CallsInv
<1>2. CASE call[t].on \in requests
  <2>1. Goto(t, "read_animal") /\ UNCHANGED tables /\ "read_animal" \in Labels
    BY <1>2 DEF ReadRequest, Labels
  <2>2. pc'[t] = "read_animal" /\ call'[t] = call[t] /\ seen'[t] = seen[t]
    BY <2>1 DEF Goto, IInv, TypeOK
  <2>3. call[t].on \in DOMAIN log'
    BY <1>2, <2>1, TablesUnchanged DEF IInv, TablesInv, TablesOK
  <2>4. CallOK(t)'
    BY <1>1, <2>2, <2>3 DEF CallOK, Running
  <2> QED BY <1>1, <2>1, <2>4, TablesUnchanged, GotoSound DEF IInv
<1>3. CASE call[t].on \notin requests
  BY <1>1, <1>3, TablesUnchanged, ReplySound DEF ReadRequest, Codes, IInv
<1> QED BY <1>2, <1>3

\* The animal a call is about is one the program knows the id of.
LEMMA SubjectType ==
  ASSUME IInv, NEW t \in Tasks,
         pc[t] \in {"read_animal", "read_adoptable", "adopt", "clear", "deny", "update", "remove"}
  PROVE  /\ Subject(t) \in Animals
         /\ Row(t) = Null \/ Row(t) \in AnimalRow
         /\ call[t].op = "accept" =>
              /\ Request(t) = [animal |-> Subject(t), user |-> Request(t).user]
              /\ Request(t).user \in Users /\ call[t].on \in DOMAIN log
<1>1. CallOK(t) /\ Running(t) /\ TablesOK
  BY DEF IInv, CallsInv, TypeOK, Running
<1>2. call[t] \in AnyCall
  BY <1>1 DEF CallOK, AnyCall
<1>3. call[t].op \in {"accept", "deny"} =>
        call[t].on \in DOMAIN log /\ Request(t) \in RequestRow /\ Request(t).animal \in Animals
        /\ Request(t).user \in Users
  BY <1>1, LogRows DEF CallOK, Request
<1>4. call[t].op \in {"adopt", "remove", "update"} => call[t].on \in Animals
  BY <1>2, CallFields
<1>5. call[t].op \in {"adopt", "remove", "update", "accept", "deny"}
  BY <1>1 DEF CallOK
<1>6. Subject(t) \in Animals
  BY <1>3, <1>4, <1>5 DEF Subject, Decides
<1>7. Row(t) = Null \/ Row(t) \in AnimalRow
  BY <1>1, <1>6 DEF Row, TablesOK
<1>8. call[t].op = "accept" => Request(t) = [animal |-> Subject(t), user |-> Request(t).user]
  BY <1>3 DEF Subject, Decides, RequestRow
<1> QED BY <1>3, <1>6, <1>7, <1>8

LEMMA ReadAnimalSound ==
  ASSUME IInv, NEW t \in Tasks, ReadAnimal(t)
  PROVE  IInv'
<1>1. CallOK(t) /\ Running(t) /\ pc[t] = "read_animal" /\ UNCHANGED tables
  BY DEF ReadAnimal, Running, IInv, CallsInv
<1>2. Row(t) = Null \/ Row(t) \in AnimalRow
  BY <1>1, SubjectType
<1>3. TablesInv' /\ DOMAIN log \subseteq DOMAIN log' /\ log' = log
  BY <1>1, TablesUnchanged DEF IInv, tables
<1>4. CASE \E n \in Codes : Reply(t, n)
  BY <1>3, <1>4, ReplySound
<1>5. CASE Goto(t, "insert") /\ call[t].op = "adopt"
  <2>1. pc'[t] = "insert" /\ call'[t] = call[t]
    BY <1>5 DEF Goto, IInv, TypeOK
  <2>2. CallOK(t)'
    BY <1>1, <1>5, <2>1 DEF CallOK, Running
  <2> QED BY <1>1, <1>3, <1>5, <2>2, GotoSound DEF Labels
<1>6. CASE Carry(t, "read_member", Row(t).org) /\ call[t].op # "adopt" /\ Row(t) \in AnimalRow
  <2>1. Row(t).org \in Orgs
    BY <1>6 DEF AnimalRow
  <2>2. pc'[t] = "read_member" /\ call'[t] = call[t] /\ seen'[t] = Row(t).org
    BY <1>6 DEF Carry, IInv, TypeOK
  <2>3. CallOK(t)'
    BY <1>1, <1>3, <1>6, <2>1, <2>2 DEF CallOK, Running
  <2> QED BY <1>1, <1>3, <1>6, <2>1, <2>3, CarrySound DEF Labels
<1> QED BY <1>2, <1>4, <1>5, <1>6 DEF ReadAnimal, AnimalMissing, Codes

LEMMA CheckMemberSound ==
  ASSUME IInv, NEW t \in Tasks, CheckMember(t)
  PROVE  IInv'
<1>1. CallOK(t) /\ Running(t) /\ pc[t] = "read_member" /\ UNCHANGED tables
  BY DEF CheckMember, Running, IInv, CallsInv
<1>2. TablesInv' /\ DOMAIN log \subseteq DOMAIN log' /\ log' = log
  BY <1>1, TablesUnchanged DEF IInv, tables
<1>3. CASE Reply(t, 403)
  BY <1>2, <1>3, ReplySound DEF Codes
<1>4. CASE Goto(t, AfterCheck[call[t].op])
  <2>1. call[t].op \in {"remove", "update", "accept", "deny", "publish"}
    BY <1>1 DEF CallOK
  <2>2. AfterCheck[call[t].op] \in Labels
    BY <2>1 DEF AfterCheck, Labels
  <2>3. pc'[t] = AfterCheck[call[t].op] /\ call'[t] = call[t]
    BY <1>4 DEF Goto, IInv, TypeOK
  <2>4. CallOK(t)'
    BY <1>1, <1>2, <2>1, <2>3 DEF CallOK, Running, AfterCheck
  <2> QED BY <1>1, <1>2, <1>4, <2>2, <2>4, GotoSound
<1> QED BY <1>3, <1>4 DEF CheckMember

LEMMA InsertRequestStepSound ==
  ASSUME IInv, NEW t \in Tasks, InsertRequest(t)
  PROVE  IInv'
<1> DEFINE row == [animal |-> call[t].on, user |-> call[t].by]
<1>1. CallOK(t) /\ Running(t) /\ pc[t] = "insert"
  BY DEF InsertRequest, Running, IInv, CallsInv
<1>2. row \in RequestRow
  <2>1. call[t] \in AnyCall /\ call[t].op = "adopt"
    BY <1>1 DEF CallOK, AnyCall
  <2> QED BY <2>1, CallFields DEF RequestRow
<1>3. CASE UNCHANGED tables /\ \E n \in Codes : Reply(t, n)
  BY <1>3, TablesUnchanged, ReplySound DEF IInv
<1>4. CASE ~DuplicateRequest(row) /\ ~DanglingRequest(row) /\ InsertRequestRow(row)
           /\ Goto(t, "read_applicant")
  <2>1. TablesInv'
    BY <1>2, <1>4, InsertRequestSound DEF IInv
  <2>2. DOMAIN log \subseteq DOMAIN log'
    BY <1>2, <1>4 DEF InsertRequestRow, IInv, TablesInv, TablesOK
  <2>3. pc'[t] = "read_applicant" /\ call'[t] = call[t]
    BY <1>4 DEF Goto, IInv, TypeOK
  <2>4. CallOK(t)'
    BY <1>1, <2>2, <2>3 DEF CallOK, Running
  <2> QED BY <1>1, <1>4, <2>1, <2>2, <2>4, GotoSound DEF Labels
<1> QED BY <1>3, <1>4 DEF InsertRequest, Codes

LEMMA ReadApplicantSound ==
  ASSUME IInv, NEW t \in Tasks, ReadApplicant(t)
  PROVE  IInv'
BY TablesUnchanged, ReplySound DEF ReadApplicant, IInv, Codes

LEMMA ReadAdoptableSound ==
  ASSUME IInv, NEW t \in Tasks, ReadAdoptable(t)
  PROVE  IInv'
<1>1. CallOK(t) /\ Running(t) /\ pc[t] = "read_adoptable" /\ UNCHANGED tables
  BY DEF ReadAdoptable, Running, IInv, CallsInv
<1>2. TablesInv' /\ DOMAIN log \subseteq DOMAIN log' /\ log' = log
  BY <1>1, TablesUnchanged DEF IInv, tables
<1>3. CASE Reply(t, 500)
  BY <1>2, <1>3, ReplySound DEF Codes
<1>4. CASE Goto(t, "adopt")
  <2>1. pc'[t] = "adopt" /\ call'[t] = call[t]
    BY <1>4 DEF Goto, IInv, TypeOK
  <2>2. CallOK(t)'
    BY <1>1, <1>2, <2>1 DEF CallOK, Running
  <2> QED BY <1>1, <1>2, <1>4, <2>2, GotoSound DEF Labels
<1> QED BY <1>3, <1>4 DEF ReadAdoptable

\* The adopter is somebody who asked, for the request named in the path is in
\* the log; the animal's shelter exists, for the row does.
LEMMA AdoptAnimalSound ==
  ASSUME IInv, NEW t \in Tasks, AdoptAnimal(t)
  PROVE  IInv'
<1>1. CallOK(t) /\ Running(t) /\ pc[t] = "adopt" /\ call[t].op = "accept"
  BY DEF AdoptAnimal, Running, IInv, CallsInv, CallOK
<1>2. CASE Reply(t, 500) /\ UNCHANGED tables
  BY <1>2, TablesUnchanged, ReplySound DEF IInv, Codes
<1>3. CASE ~(Row(t) = Null \/ Request(t).user \notin users)
  <2> DEFINE row == [Row(t) EXCEPT !.status = "adopted", !.owner = Request(t).user]
  <2>1. /\ Subject(t) \in Animals /\ Row(t) \in AnimalRow
        /\ Request(t) = [animal |-> Subject(t), user |-> Request(t).user]
        /\ Request(t).user \in Users /\ call[t].on \in DOMAIN log
    BY <1>1, <1>3, SubjectType
  <2>2. row \in AnimalRow /\ row.org = Row(t).org /\ row.status = "adopted"
        /\ row.owner = Request(t).user
    BY <2>1 DEF AnimalRow, Status
  <2>3. row.org \in orgs
    BY <1>3, <2>1, <2>2 DEF IInv, TablesInv, ForeignKeys, Row
  <2>4. Asked(Subject(t), row.owner)
    BY <2>1, <2>2 DEF Asked, Request
  <2>5. WriteAnimalRow(Subject(t), row) /\ Goto(t, "clear")
    BY <1>3 DEF AdoptAnimal
  <2> HIDE DEF row
  <2>6. TablesInv'
    BY <1>3, <2>1, <2>2, <2>3, <2>4, <2>5, WriteAnimalSound DEF IInv
  <2>7. log' = log
    BY <2>5 DEF WriteAnimalRow
  <2>8. pc'[t] = "clear" /\ call'[t] = call[t]
    BY <2>5 DEF Goto, IInv, TypeOK
  <2>9. CallOK(t)'
    BY <1>1, <2>7, <2>8 DEF CallOK, Running
  <2> QED BY <1>1, <2>5, <2>6, <2>7, <2>9, GotoSound DEF Labels
<1> QED BY <1>2, <1>3 DEF AdoptAnimal

LEMMA DecisionSound ==
  ASSUME IInv, NEW t \in Tasks, ClearRequests(t) \/ DenyRequest(t)
  PROVE  IInv'
<1>1. PICK gone : DeleteRequestRows(gone) /\ Reply(t, 204)
  BY DEF ClearRequests, DenyRequest
<1>2. TablesInv' /\ log' = log
  BY <1>1, DeleteRequestsSound DEF IInv, DeleteRequestRows
<1> QED BY <1>1, <1>2, ReplySound DEF Codes

\* An edit keeps the shelter of the animal; with a new status it leaves
\* nobody as the adopter, without one the row keeps both columns.
LEMMA UpdateAnimalSound ==
  ASSUME IInv, NEW t \in Tasks, UpdateAnimal(t)
  PROVE  IInv'
<1>1. CallOK(t) /\ Running(t) /\ pc[t] = "update" /\ call[t].op = "update"
  BY DEF UpdateAnimal, Running, IInv, CallsInv, CallOK
<1>2. CASE \E n \in Codes : Reply(t, n) /\ UNCHANGED tables
  BY <1>2, TablesUnchanged, ReplySound DEF IInv
<1>3. CASE /\ Row(t) # Null /\ Reply(t, 200)
           /\ WriteAnimalRow(Subject(t), Changed(Row(t), call[t].set))
  <2> DEFINE row == Changed(Row(t), call[t].set)
  <2>1. Subject(t) \in Animals /\ Row(t) \in AnimalRow /\ Row(t) = animals[Subject(t)]
    BY <1>1, <1>3, SubjectType DEF Row
  <2>2. row \in AnimalRow /\ row.org = Row(t).org
    BY <2>1 DEF Changed, AnimalRow
  <2>3. row = Row(t) \/ row.owner = Null
    BY <2>1 DEF Changed, AnimalRow
  <2>4. row.org \in orgs /\ row.owner \in users \cup {Null}
    BY <1>3, <2>1, <2>2, <2>3 DEF IInv, TablesInv, ForeignKeys
  <2>5. row.owner # Null => row.status = "adopted" /\ Asked(Subject(t), row.owner)
    BY <1>3, <2>1, <2>3 DEF IInv, TablesInv, OwnerIsAdopted, AdopterAsked
  <2>6. WriteAnimalRow(Subject(t), row)
    BY <1>3
  <2> HIDE DEF row
  <2>7. TablesInv' /\ log' = log
    BY <2>1, <2>2, <2>4, <2>5, <2>6, WriteAnimalSound DEF IInv, WriteAnimalRow
  <2> QED BY <1>3, <2>7, ReplySound DEF Codes
<1> QED BY <1>2, <1>3 DEF UpdateAnimal, Codes

LEMMA RemoveAnimalSound ==
  ASSUME IInv, NEW t \in Tasks, RemoveAnimal(t)
  PROVE  IInv'
<1>1. Subject(t) \in Animals
  BY SubjectType DEF RemoveAnimal
<1>2. TablesInv' /\ log' = log
  BY <1>1, DeleteAnimalSound DEF RemoveAnimal, DeleteAnimalRow, IInv
<1>3. PICK n \in Codes : Reply(t, n)
  BY DEF RemoveAnimal, Codes
<1> QED BY <1>2, <1>3, ReplySound

LEMMA PublishAnimalSound ==
  ASSUME IInv, NEW t \in Tasks, PublishAnimal(t)
  PROVE  IInv'
<1>1. CASE UNCHANGED tables /\ \E n \in {404, 500} : Reply(t, n)
  BY <1>1, TablesUnchanged, ReplySound DEF IInv, Codes
<1>2. CASE /\ call[t].on \in orgs /\ Reply(t, 201)
           /\ \E a \in unused \cap Animals :
                WriteAnimalRow(a, [org |-> call[t].on, status |-> call[t].set, owner |-> Null])
  <2> DEFINE row == [org |-> call[t].on, status |-> call[t].set, owner |-> Null]
  <2>1. PICK a \in Animals : WriteAnimalRow(a, row)
    BY <1>2
  <2>2. call[t] \in AnyCall /\ call[t].op = "publish"
    BY DEF PublishAnimal, IInv, CallsInv, CallOK, Running, AnyCall
  <2>3. row \in AnimalRow /\ row.org = call[t].on /\ row.owner = Null
    BY <2>2, CallFields DEF AnimalRow
  <2> HIDE DEF row
  <2>4. TablesInv' /\ log' = log
    BY <1>2, <2>1, <2>3, WriteAnimalSound DEF IInv, WriteAnimalRow
  <2> QED BY <1>2, <2>4, ReplySound DEF Codes
<1> QED BY <1>1, <1>2 DEF PublishAnimal

LEMMA CheckUnaffiliatedSound ==
  ASSUME IInv, NEW t \in Tasks, CheckUnaffiliated(t)
  PROVE  IInv'
<1>1. CallOK(t) /\ Running(t) /\ pc[t] = "read_unaffiliated" /\ UNCHANGED tables
  BY DEF CheckUnaffiliated, Running, IInv, CallsInv
<1>2. TablesInv' /\ DOMAIN log \subseteq DOMAIN log'
  BY <1>1, TablesUnchanged DEF IInv
<1>3. CASE Reply(t, 403)
  BY <1>2, <1>3, ReplySound DEF Codes
<1>4. CASE Goto(t, "insert_org")
  <2>1. pc'[t] = "insert_org" /\ call'[t] = call[t]
    BY <1>4 DEF Goto, IInv, TypeOK
  <2>2. CallOK(t)'
    BY <1>1, <2>1 DEF CallOK, Running
  <2> QED BY <1>1, <1>2, <1>4, <2>2, GotoSound DEF Labels
<1> QED BY <1>3, <1>4 DEF CheckUnaffiliated

LEMMA InsertOrgStepSound ==
  ASSUME IInv, NEW t \in Tasks, InsertOrg(t)
  PROVE  IInv'
<1>1. CASE Reply(t, 404) /\ UNCHANGED tables
  BY <1>1, TablesUnchanged, ReplySound DEF IInv, Codes
<1>2. CASE \E o \in unused \cap Orgs : InsertOrgRow(o) /\ Carry(t, "link", o)
  <2>1. PICK o \in Orgs : InsertOrgRow(o) /\ Carry(t, "link", o)
    BY <1>2
  <2>2. CallOK(t) /\ Running(t) /\ pc[t] = "insert_org"
    BY DEF InsertOrg, Running, IInv, CallsInv
  <2>3. TablesInv' /\ log' = log
    BY <2>1, InsertOrgSound DEF IInv, InsertOrgRow
  <2>4. pc'[t] = "link" /\ call'[t] = call[t] /\ seen'[t] = o
    BY <2>1 DEF Carry, IInv, TypeOK
  <2>5. CallOK(t)'
    BY <2>2, <2>4 DEF CallOK, Running
  <2> QED BY <2>1, <2>2, <2>3, <2>5, CarrySound DEF Labels
<1> QED BY <1>1, <1>2 DEF InsertOrg

LEMMA LinkFounderSound ==
  ASSUME IInv, NEW t \in Tasks, LinkFounder(t)
  PROVE  IInv'
<1>1. CASE Reply(t, 500) /\ UNCHANGED tables
  BY <1>1, TablesUnchanged, ReplySound DEF IInv, Codes
<1>2. CASE call[t].by \in users /\ seen[t] \in orgs /\ LinkOrg(call[t].by, seen[t])
           /\ Reply(t, 201)
  <2>1. TablesInv' /\ log' = log
    BY <1>2, LinkOrgSound DEF IInv, LinkOrg
  <2> QED BY <1>2, <2>1, ReplySound DEF Codes
<1> QED BY <1>1, <1>2 DEF LinkFounder

LEMMA ReadsOfAccountsSound ==
  ASSUME IInv, NEW t \in Tasks, ReadFounder(t) \/ ReadOrg(t) \/ ReadAccount(t)
  PROVE  IInv'
<1>1. CallOK(t) /\ Running(t) /\ UNCHANGED tables
      /\ pc[t] \in {"read_founder", "read_org", "read_account"}
  BY DEF ReadFounder, ReadOrg, ReadAccount, Running, IInv, CallsInv
<1>2. TablesInv' /\ DOMAIN log \subseteq DOMAIN log'
  BY <1>1, TablesUnchanged DEF IInv
<1>3. CASE \E n \in Codes : Reply(t, n)
  BY <1>2, <1>3, ReplySound
<1>4. CASE \/ pc[t] = "read_founder" /\ Goto(t, "read_org")
           \/ pc[t] = "read_org" /\ Goto(t, "delete_org")
           \/ pc[t] = "read_account" /\ Goto(t, "delete_user")
  <2>1. PICK l \in {"read_org", "delete_org", "delete_user"} :
          /\ Goto(t, l)
          /\ l = "delete_user" <=> pc[t] = "read_account"
    BY <1>4
  <2>2. pc'[t] = l /\ call'[t] = call[t]
    BY <2>1 DEF Goto, IInv, TypeOK
  <2>3. CallOK(t)'
    BY <1>1, <2>1, <2>2 DEF CallOK, Running
  <2> QED BY <1>1, <1>2, <2>1, <2>3, GotoSound DEF Labels
<1> QED BY <1>3, <1>4 DEF ReadFounder, ReadOrg, ReadAccount, Codes

LEMMA ClosingSound ==
  ASSUME IInv, NEW t \in Tasks, DeleteOrg(t) \/ DeleteUser(t)
  PROVE  IInv'
<1>1. call[t] \in AnyCall /\ pc[t] \in {"delete_org", "delete_user"}
      /\ (pc[t] = "delete_org" => call[t].op = "close_org")
      /\ (pc[t] = "delete_user" => call[t].op = "close_account")
  BY DEF DeleteOrg, DeleteUser, IInv, CallsInv, CallOK, Running, AnyCall
<1>2. TablesInv' /\ log' = log
  <2>1. CASE DeleteOrg(t)
    <3>1. call[t].on \in Orgs
      BY <1>1, <2>1, CallFields DEF DeleteOrg
    <3> QED BY <2>1, <3>1, DeleteOrgSound DEF DeleteOrg, DeleteOrgRow, IInv
  <2>2. CASE DeleteUser(t)
    <3>1. call[t].on \in Users
      BY <1>1, <2>2, CallFields DEF DeleteUser
    <3> QED BY <2>2, <3>1, DeleteUserSound DEF DeleteUser, DeleteUserRow, IInv
  <2> QED BY <2>1, <2>2
<1>3. PICK n \in Codes : Reply(t, n)
  BY DEF DeleteOrg, DeleteUser, Codes
<1> QED BY <1>2, <1>3, ReplySound

LEMMA StatementFailsSound ==
  ASSUME IInv, NEW t \in Tasks, StatementFails(t)
  PROVE  IInv'
BY TablesUnchanged, ReplySound DEF StatementFails, IInv, Codes

LEMMA StutterSound ==
  ASSUME IInv, UNCHANGED vars
  PROVE  IInv'
<1>1. TypeOK' /\ TablesInv' /\ log' = log
  BY TablesUnchanged DEF IInv, TypeOK, TablesOK, vars, tables, callVars
<1>2. CallsInv'
  BY <1>1 DEF IInv, CallsInv, CallOK, Running, vars, callVars
<1> QED BY <1>1, <1>2 DEF IInv

-----------------------------------------------------------------------------
(* The theorems.                                                           *)

LEMMA InitSound == Init => IInv
<1> SUFFICES ASSUME Init PROVE IInv
  OBVIOUS
<1> USE DEF Init, TablesInit, CallsInit
<1>1. TablesOK
  <2>1. log \in Seq(RequestRow)
    BY SchemaAssumption
  <2>2. orgs \subseteq Orgs
    BY SchemaAssumption
  <2> QED BY <2>1, <2>2, SchemaAssumption DEF TablesOK
<1>2. ForeignKeys
  <2>1. \A u \in Users : orgOf[u] # Null => u \in users /\ orgOf[u] \in orgs
    BY SchemaAssumption
  <2>2. \A a \in Animals : animals[a] # Null =>
          animals[a].org \in orgs /\ animals[a].owner \in users \cup {Null}
    BY SchemaAssumption DEF AnimalRow
  <2>3. \A r \in requests : animals[log[r].animal] # Null /\ log[r].user \in users
    BY <1>1, LogRows, SchemaAssumption
  <2> QED BY <2>1, <2>2, <2>3 DEF ForeignKeys
<1>3. OneRequestPerUser
  BY SchemaAssumption DEF OneRequestPerUser
<1>4. OwnerIsAdopted /\ AdopterAsked
  BY SchemaAssumption DEF OwnerIsAdopted, AdopterAsked
<1>5. TypeOK
  BY <1>1 DEF TypeOK, Labels
<1>6. CallsInv
  BY DEF CallsInv, CallOK, Running
<1> QED BY <1>1, <1>2, <1>3, <1>4, <1>5, <1>6 DEF IInv, TablesInv

LEMMA NextSound == IInv /\ [Next]_vars => IInv'
<1> SUFFICES ASSUME IInv, [Next]_vars PROVE IInv'
  OBVIOUS
<1>1. CASE UNCHANGED vars
  BY <1>1, StutterSound
<1>2. ASSUME NEW t \in Tasks, AdoptionStep(t) PROVE IInv'
  BY <1>2, ReceiveSound, ReadRequestSound, ReadAnimalSound, CheckMemberSound,
     InsertRequestStepSound, ReadApplicantSound, ReadAdoptableSound, AdoptAnimalSound,
     DecisionSound, UpdateAnimalSound, RemoveAnimalSound, PublishAnimalSound
     DEF AdoptionStep
<1>3. ASSUME NEW t \in Tasks, AccountStep(t) PROVE IInv'
  BY <1>3, ReceiveSound, CheckUnaffiliatedSound, InsertOrgStepSound, LinkFounderSound,
     ReadsOfAccountsSound, ClosingSound
     DEF AccountStep
<1>4. ASSUME NEW t \in Tasks, StatementFails(t) PROVE IInv'
  BY <1>4, StatementFailsSound
<1> QED BY <1>1, <1>2, <1>3, <1>4 DEF Next, AllAnswered

\* The invariant holds of every reachable state.
THEOREM Invariance == Spec => []IInv
<1> QED BY InitSound, NextSound, PTL DEF Spec

\* Type correctness: tables, labels, inputs, carried ids and replies.
THEOREM TypeCorrect == Spec => []TypeOK
<1>1. IInv => TypeOK
  BY DEF IInv
<1> QED BY <1>1, Invariance, PTL

\* No interleaving of calls, failed statements and cascades leaves a row that
\* names a row that is gone.
THEOREM ReferencesIntact == Spec => []ForeignKeys
<1>1. IInv => ForeignKeys
  BY DEF IInv, TablesInv
<1> QED BY <1>1, Invariance, PTL

\* A user never has two pending requests for one animal.
THEOREM NoDuplicateRequest == Spec => []OneRequestPerUser
<1>1. IInv => OneRequestPerUser
  BY DEF IInv, TablesInv
<1> QED BY <1>1, Invariance, PTL

\* An animal somebody has is never shown as available.
THEOREM AdoptedShown == Spec => []OwnerIsAdopted
<1>1. IInv => OwnerIsAdopted
  BY DEF IInv, TablesInv
<1> QED BY <1>1, Invariance, PTL

\* Only somebody who asked for an animal ever has it.
THEOREM OnlyApplicantsAdopt == Spec => []AdopterAsked
<1>1. IInv => AdopterAsked
  BY DEF IInv, TablesInv
<1> QED BY <1>1, Invariance, PTL
=============================================================================
