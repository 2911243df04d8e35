-------------------------- MODULE ShelterStepProofs --------------------------
(***************************************************************************)
(* What no step of the shelter does, for any number of users, animals,     *)
(* shelters and concurrent calls: a refused call has written nothing, no   *)
(* write falls on a shelter somebody else belongs to, and every step is    *)
(* one of the abstract life cycle of an animal.  The invariant says in     *)
(* addition to IInv what a call may rely on of rows it read before.        *)
(***************************************************************************)
EXTENDS ShelterProofs, FiniteSetTheorems

\* Ids the sequences have not handed out name no rows.
FreshIds ==
  /\ orgs \cap unused = {}
  /\ \A a \in Animals : animals[a] # Null => a \notin unused

OneMember ==
  \A u, v \in Users : orgOf[u] # Null /\ orgOf[u] = orgOf[v] => u = v

\* The labels after the membership check.
Writing == {"read_adoptable", "adopt", "clear", "deny", "update", "remove", "publish"}

\* The shelter about to be linked is nobody's and no other call's.
LinkOK(t) ==
  pc[t] = "link" =>
    /\ seen[t] \notin unused
    /\ \A u \in Users : orgOf[u] # seen[t]
    /\ \A s \in Tasks \ {t} : pc[s] = "link" => seen[s] # seen[t]

\* What a call carries is the shelter of the row it is about, and stays so.
CarriesOrg(t) ==
  pc[t] \in Writing \cup {"read_member"} =>
    IF call[t].op = "publish" THEN call[t].on = seen[t]
    ELSE Subject(t) \in Animals \ unused /\ (Row(t) = Null \/ Row(t).org = seen[t])

\* Past the check, the shelter is nobody else's and will not be.
AuthOK(t) ==
  pc[t] \in Writing =>
    /\ seen[t] \in Orgs \ unused
    /\ \A u \in Users : orgOf[u] = seen[t] => u = call[t].by
    /\ \A s \in Tasks : pc[s] = "link" => seen[s] # seen[t]

JInv ==
  /\ IInv /\ FreshIds /\ OneMember
  /\ \A t \in Tasks : LinkOK(t) /\ CarriesOrg(t) /\ AuthOK(t)

-----------------------------------------------------------------------------
(* What a step does to the tables and to the calls.                        *)

\* A row that is there was there with the same shelter, or has a new id.
TablesKept ==
  /\ unused' \subseteq unused
  /\ \A a \in Animals : animals'[a] # Null =>
       \/ a \in unused \ unused'
       \/ animals[a] # Null /\ animals'[a].org = animals[a].org
  /\ DOMAIN log \subseteq DOMAIN log' /\ \A r \in DOMAIN log : log'[r] = log[r]
  /\ FreshIds'

\* Memberships end at any time and begin by the last statement of POST /orgs.
MembersKept(t) ==
  \A u \in Users :
    \/ orgOf'[u] \in {orgOf[u], Null}
    \/ pc[t] = "link" /\ orgOf'[u] = seen[t] /\ u = call[t].by

OthersStay(t) ==
  \A s \in Tasks \ {t} :
    pc'[s] = pc[s] /\ call'[s] = call[s] /\ seen'[s] = seen[s] /\ reply'[s] = reply[s]

\* Where the call itself goes.
GoesRight(t) ==
  /\ pc'[t] = "link" => pc[t] = "insert_org" /\ seen'[t] \in (unused \ unused') \cap Orgs
  /\ pc'[t] = "read_member" =>
       IF call'[t].op = "publish" THEN call'[t].on = seen'[t]
       ELSE /\ UNCHANGED tables /\ call'[t] = call[t] /\ Subject(t) \in Animals
            /\ Row(t) # Null /\ Row(t).org = seen'[t]
  /\ pc'[t] \in Writing =>
       /\ call'[t] = call[t] /\ seen'[t] = seen[t]
       /\ \/ pc[t] = "read_member" /\ orgOf[call[t].by] = seen[t] /\ UNCHANGED tables
          \/ pc[t] \in Writing

Effect(t) == TablesKept /\ MembersKept(t) /\ OthersStay(t) /\ GoesRight(t)

\* A call that answers goes nowhere, whatever it did to the tables.
LEMMA ReplyEffect ==
  ASSUME TypeOK, NEW t \in Tasks, NEW n, Reply(t, n)
  PROVE  OthersStay(t) /\ GoesRight(t) /\ pc'[t] = "done" /\ reply'[t] = n
BY DEF TypeOK, Reply, OthersStay, GoesRight, Writing

\* A call that goes on keeps its input.
LEMMA MoveEffect ==
  ASSUME TypeOK, NEW t \in Tasks, NEW l, NEW v,
         \/ Goto(t, l) /\ v = seen[t]
         \/ Carry(t, l, v)
  PROVE  /\ OthersStay(t) /\ reply' = reply
         /\ pc'[t] = l /\ call'[t] = call[t] /\ seen'[t] = v
BY DEF TypeOK, Goto, Carry, OthersStay

\* A step that writes nothing keeps the tables.
LEMMA ReadEffect ==
  ASSUME FreshIds, UNCHANGED tables, NEW t
  PROVE  TablesKept /\ MembersKept(t)
BY DEF FreshIds, TablesKept, MembersKept, tables

\* A new request leaves all other tables alone.
LEMMA InsertRequestEffect ==
  ASSUME TablesOK, FreshIds, NEW row \in RequestRow, InsertRequestRow(row), NEW t
  PROVE  TablesKept /\ MembersKept(t)
<1>1. DOMAIN log \subseteq DOMAIN log' /\ \A r \in DOMAIN log : log'[r] = log[r]
  BY DEF TablesOK, InsertRequestRow
<1> QED BY <1>1 DEF InsertRequestRow, FreshIds, TablesKept, MembersKept

\* An animal's row is written with a new id or keeps its shelter.
LEMMA WriteAnimalEffect ==
  ASSUME TablesOK, FreshIds, NEW a \in Animals, NEW row \in AnimalRow, WriteAnimalRow(a, row),
         a \in unused \/ (animals[a] # Null /\ row.org = animals[a].org), NEW t
  PROVE  TablesKept /\ MembersKept(t)
<1>1. /\ unused' = unused \ {a} /\ orgs' = orgs /\ orgOf' = orgOf /\ log' = log
      /\ animals'[a] = row /\ \A b \in Animals \ {a} : animals'[b] = animals[b]
  BY DEF WriteAnimalRow, TablesOK
<1> QED BY <1>1 DEF FreshIds, TablesKept, MembersKept

\* A statement that deletes rows, unlinks members and clears adopters.
LEMMA DeleteEffect ==
  ASSUME FreshIds, NEW t, log' = log, unused' = unused, orgs' \subseteq orgs,
         \A u \in Users : orgOf'[u] \in {orgOf[u], Null},
         \A a \in Animals : animals'[a] # Null =>
           animals[a] # Null /\ animals'[a].org = animals[a].org
  PROVE  TablesKept /\ MembersKept(t)
BY DEF FreshIds, TablesKept, MembersKept

\* Deleting an account changes no more of a row than its adopter.
LEMMA DeleteUserEffect ==
  ASSUME TablesOK, FreshIds, NEW u \in Users, DeleteUserRow(u), NEW t
  PROVE  TablesKept /\ MembersKept(t)
<1>1. \A a \in Animals : animals'[a] # Null =>
        animals[a] # Null /\ animals'[a].org = animals[a].org
  BY DEF TablesOK, DeleteUserRow, Disown, AnimalRow
<1>2. \A v \in Users : orgOf'[v] \in {orgOf[v], Null}
  BY DEF DeleteUserRow
<1>3. orgs' \subseteq orgs /\ log' = log /\ unused' = unused
  BY DEF DeleteUserRow
<1> QED BY <1>1, <1>2, <1>3, DeleteEffect

-----------------------------------------------------------------------------
(* One lemma per group of handler steps.                                   *)

\* A call begins with its input; the shelter of a publication is in the path.
LEMMA ReceiveEffect ==
  ASSUME JInv, NEW t \in Tasks, ReceiveAdoptionCall(t) \/ ReceiveAccountCall(t)
  PROVE  Effect(t) /\ reply' = reply
<1>1. PICK c, l, v :
        /\ Begin(t, c, l, v) /\ l \notin Writing \cup {"link"}
        /\ l = "read_member" => c.op = "publish" /\ c.on = v
  <2>1. CASE ReceiveAdoptionCall(t)
    <3>1. PICK c \in AdoptionCalls :
            Begin(t, c, FirstStatement[c.op], IF c.op = "publish" THEN c.on ELSE Null)
      BY <2>1 DEF ReceiveAdoptionCall
    <3>2. c.op \in {"adopt", "remove", "update", "accept", "deny", "publish"}
      BY DEF AdoptionCalls
    <3> QED BY <3>1, <3>2 DEF FirstStatement, Writing
  <2>2. CASE ReceiveAccountCall(t)
    <3>1. PICK c \in AccountCalls : Begin(t, c, FirstRead[c.op], Null)
      BY <2>2 DEF ReceiveAccountCall
    <3>2. c.op \in {"open_org", "close_org", "close_account"}
      BY DEF AccountCalls
    <3> QED BY <3>1, <3>2 DEF FirstRead, Writing
  <2> QED BY <2>1, <2>2
<1>2. /\ UNCHANGED tables /\ reply' = reply /\ OthersStay(t)
      /\ pc'[t] = l /\ call'[t] = c /\ seen'[t] = v
  BY <1>1 DEF Begin, OthersStay, JInv, IInv, TypeOK
<1>3. GoesRight(t)
  BY <1>1, <1>2 DEF GoesRight
<1> QED BY <1>2, <1>3, ReadEffect DEF Effect, JInv

\* The reads of all endpoints change no table.
LEMMA ReadsEffect ==
  ASSUME JInv, NEW t \in Tasks,
         \/ ReadRequest(t) \/ ReadAnimal(t) \/ CheckMember(t) \/ ReadApplicant(t)
         \/ ReadAdoptable(t) \/ CheckUnaffiliated(t) \/ ReadFounder(t) \/ ReadOrg(t)
         \/ ReadAccount(t)
  PROVE  Effect(t)
<1>1. TypeOK /\ FreshIds /\ CallOK(t)
  BY DEF JInv, IInv, CallsInv
<1>2. UNCHANGED tables /\ TablesKept /\ MembersKept(t)
  BY <1>1, ReadEffect
     DEF ReadRequest, ReadAnimal, CheckMember, ReadApplicant, ReadAdoptable,
         CheckUnaffiliated, ReadFounder, ReadOrg, ReadAccount
<1>3. CASE \E n : Reply(t, n)
  BY <1>1, <1>2, <1>3, ReplyEffect DEF Effect
<1>4. CASE \E l : Goto(t, l) /\ l \notin Writing \cup {"link", "read_member"}
  <2>1. OthersStay(t) /\ pc'[t] \notin Writing \cup {"link", "read_member"}
    BY <1>1, <1>4, MoveEffect
  <2> QED BY <1>2, <2>1 DEF Effect, GoesRight
<1>5. CASE ReadAnimal(t) /\ Carry(t, "read_member", Row(t).org) /\ Row(t) # Null
  <2>1. OthersStay(t) /\ pc'[t] = "read_member" /\ call'[t] = call[t] /\ seen'[t] = Row(t).org
    BY <1>1, <1>5, MoveEffect
  <2>2. Subject(t) \in Animals /\ call[t].op # "publish"
    BY <1>1, <1>5, SubjectType DEF ReadAnimal, JInv, CallOK
  <2> QED BY <1>2, <1>5, <2>1, <2>2 DEF Effect, GoesRight, Writing
<1>6. CASE CheckMember(t) /\ Goto(t, AfterCheck[call[t].op]) /\ orgOf[call[t].by] = seen[t]
  <2>1. OthersStay(t) /\ pc'[t] = AfterCheck[call[t].op] /\ call'[t] = call[t] /\ seen'[t] = seen[t]
    <3>1. PICK l : Goto(t, l) /\ l = AfterCheck[call[t].op]
      BY <1>6
    <3> QED BY <1>1, <3>1, MoveEffect
  <2>2. pc'[t] \in Writing /\ pc[t] = "read_member"
    BY <1>1, <1>6, <2>1 DEF CallOK, CheckMember, AfterCheck, Writing
  <2> QED BY <1>2, <1>6, <2>1, <2>2 DEF Effect, GoesRight, Writing
<1>7. CASE ReadAdoptable(t) /\ Goto(t, "adopt")
  <2>1. OthersStay(t) /\ pc'[t] = "adopt" /\ call'[t] = call[t] /\ seen'[t] = seen[t]
    BY <1>1, <1>7, MoveEffect
  <2> QED BY <1>2, <1>7, <2>1 DEF Effect, GoesRight, Writing, ReadAdoptable
<1>8. CASE ReadRequest(t) \/ ReadAnimal(t) \/ CheckMember(t)
  BY <1>3, <1>4, <1>5, <1>6, <1>8 DEF ReadRequest, ReadAnimal, AnimalMissing, CheckMember, Writing
<1>9. CASE ReadApplicant(t) \/ ReadAdoptable(t) \/ CheckUnaffiliated(t)
  BY <1>3, <1>4, <1>7, <1>9 DEF ReadApplicant, ReadAdoptable, CheckUnaffiliated, Writing
<1>10. CASE ReadFounder(t) \/ ReadOrg(t) \/ ReadAccount(t)
  BY <1>3, <1>4, <1>10 DEF ReadFounder, ReadOrg, ReadAccount, Writing
<1> QED BY <1>8, <1>9, <1>10

\* A new request.
LEMMA InsertRequestStepEffect ==
  ASSUME JInv, NEW t \in Tasks, InsertRequest(t)
  PROVE  Effect(t)
<1> DEFINE row == [animal |-> call[t].on, user |-> call[t].by]
<1>1. TypeOK /\ FreshIds /\ TablesOK /\ CallOK(t)
  BY DEF JInv, IInv, CallsInv, TypeOK
<1>2. row \in RequestRow
  <2>1. call[t] \in AnyCall /\ call[t].op = "adopt"
    BY <1>1 DEF InsertRequest, CallOK, AnyCall, Running
  <2> QED BY <2>1, CallFields DEF RequestRow
<1>3. CASE UNCHANGED tables /\ \E n : Reply(t, n)
  BY <1>1, <1>3, ReadEffect, ReplyEffect DEF Effect
<1>4. CASE InsertRequestRow(row) /\ Goto(t, "read_applicant")
  <2>1. OthersStay(t) /\ pc'[t] = "read_applicant"
    BY <1>1, <1>4, MoveEffect
  <2>2. TablesKept /\ MembersKept(t)
    BY <1>1, <1>2, <1>4, InsertRequestEffect
  <2> QED BY <2>1, <2>2 DEF Effect, GoesRight, Writing
<1> QED BY <1>3, <1>4 DEF InsertRequest

\* A decision: the adopter is written, then requests are deleted.
LEMMA DecisionEffect ==
  ASSUME JInv, NEW t \in Tasks, AdoptAnimal(t) \/ ClearRequests(t) \/ DenyRequest(t)
  PROVE  Effect(t)
<1>1. TypeOK /\ FreshIds /\ TablesOK
  BY DEF JInv, IInv, TypeOK
<1>2. CASE UNCHANGED tables /\ \E n : Reply(t, n)
  BY <1>1, <1>2, ReadEffect, ReplyEffect DEF Effect
<1>3. CASE /\ AdoptAnimal(t) /\ Row(t) # Null /\ Goto(t, "clear")
           /\ WriteAnimalRow(Subject(t),
                [Row(t) EXCEPT !.status = "adopted", !.owner = Request(t).user])
  <2> DEFINE row == [Row(t) EXCEPT !.status = "adopted", !.owner = Request(t).user]
  <2>1. /\ Subject(t) \in Animals /\ Row(t) \in AnimalRow /\ Request(t).user \in Users
        /\ pc[t] = "adopt"
    BY <1>3, SubjectType DEF AdoptAnimal, JInv, IInv, CallsInv, CallOK
  <2>2. row \in AnimalRow /\ row.org = Row(t).org
    BY <2>1 DEF AnimalRow, Status
  <2>3. TablesKept /\ MembersKept(t)
    BY <1>1, <1>3, <2>1, <2>2, WriteAnimalEffect DEF Row
  <2>4. OthersStay(t) /\ pc'[t] = "clear" /\ call'[t] = call[t] /\ seen'[t] = seen[t]
    BY <1>1, <1>3, MoveEffect
  <2> QED BY <2>1, <2>3, <2>4 DEF Effect, GoesRight, Writing
<1>4. CASE \E gone : DeleteRequestRows(gone) /\ Reply(t, 204)
  <2>1. TablesKept /\ MembersKept(t)
    BY <1>1, <1>4 DEF DeleteRequestRows, TablesKept, MembersKept, FreshIds
  <2> QED BY <1>1, <1>4, <2>1, ReplyEffect DEF Effect
<1> QED BY <1>2, <1>3, <1>4 DEF AdoptAnimal, ClearRequests, DenyRequest

\* Edits, deletions and publications of animals.
LEMMA AnimalEffect ==
  ASSUME JInv, NEW t \in Tasks, UpdateAnimal(t) \/ RemoveAnimal(t) \/ PublishAnimal(t)
  PROVE  Effect(t)
<1>1. TypeOK /\ FreshIds /\ TablesOK /\ CallOK(t)
  BY DEF JInv, IInv, CallsInv, TypeOK
<1>2. \E n : Reply(t, n)
  BY DEF UpdateAnimal, RemoveAnimal, PublishAnimal
<1>3. CASE UNCHANGED tables
  BY <1>1, <1>2, <1>3, ReadEffect, ReplyEffect DEF Effect
<1>4. CASE /\ UpdateAnimal(t) /\ Row(t) # Null
           /\ WriteAnimalRow(Subject(t), Changed(Row(t), call[t].set))
  <2>1. Subject(t) \in Animals /\ Row(t) \in AnimalRow
    BY <1>4, SubjectType DEF UpdateAnimal, JInv
  <2>2. /\ Changed(Row(t), call[t].set) \in AnimalRow
        /\ Changed(Row(t), call[t].set).org = Row(t).org
    BY <2>1 DEF Changed, AnimalRow
  <2>3. TablesKept /\ MembersKept(t)
    BY <1>1, <1>4, <2>1, <2>2, WriteAnimalEffect DEF Row
  <2> QED BY <1>1, <1>2, <2>3, ReplyEffect DEF Effect
<1>5. CASE RemoveAnimal(t)
  <2>1. DeleteAnimalRow(Subject(t))
    BY <1>5 DEF RemoveAnimal
  <2>2. \A a \in Animals : animals'[a] # Null => animals'[a] = animals[a]
    BY <1>1, <2>1 DEF DeleteAnimalRow, TablesOK
  <2>3. TablesKept /\ MembersKept(t)
    BY <1>1, <2>1, <2>2, DeleteEffect DEF DeleteAnimalRow
  <2> QED BY <1>1, <1>2, <2>3, ReplyEffect DEF Effect
<1>6. CASE /\ PublishAnimal(t) /\ call[t].on \in orgs
           /\ \E a \in unused \cap Animals :
                WriteAnimalRow(a, [org |-> call[t].on, status |-> call[t].set, owner |-> Null])
  <2> DEFINE row == [org |-> call[t].on, status |-> call[t].set, owner |-> Null]
  <2>1. PICK a \in unused \cap Animals : WriteAnimalRow(a, row)
    BY <1>6
  <2>2. call[t] \in AnyCall /\ call[t].op = "publish"
    BY <1>1, <1>6 DEF PublishAnimal, CallOK, Running, AnyCall
  <2>3. row \in AnimalRow
    BY <2>2, CallFields DEF AnimalRow
  <2> HIDE DEF row
  <2>4. TablesKept /\ MembersKept(t)
    BY <1>1, <2>1, <2>3, WriteAnimalEffect
  <2> QED BY <1>1, <1>2, <2>4, ReplyEffect DEF Effect
<1> QED BY <1>3, <1>4, <1>5, <1>6 DEF UpdateAnimal, PublishAnimal

\* A registration inserts a shelter with a new id and links it later.
LEMMA FoundingEffect ==
  ASSUME JInv, NEW t \in Tasks, InsertOrg(t) \/ LinkFounder(t)
  PROVE  Effect(t)
<1>1. TypeOK /\ FreshIds /\ TablesOK
  BY DEF JInv, IInv, TypeOK
<1>2. CASE UNCHANGED tables /\ \E n : Reply(t, n)
  BY <1>1, <1>2, ReadEffect, ReplyEffect DEF Effect
<1>3. CASE /\ pc[t] = "insert_org"
           /\ \E o \in unused \cap Orgs : InsertOrgRow(o) /\ Carry(t, "link", o)
  <2>1. PICK o \in unused \cap Orgs : InsertOrgRow(o) /\ Carry(t, "link", o)
    BY <1>3
  <2>2. OthersStay(t) /\ pc'[t] = "link" /\ seen'[t] = o
    BY <1>1, <2>1, MoveEffect
  <2>3. TablesKept /\ MembersKept(t)
    BY <1>1, <2>1 DEF InsertOrgRow, TablesKept, MembersKept, FreshIds
  <2>4. GoesRight(t)
    BY <1>3, <2>1, <2>2 DEF GoesRight, Writing, InsertOrgRow
  <2> QED BY <2>2, <2>3, <2>4 DEF Effect
<1>4. CASE LinkFounder(t) /\ LinkOrg(call[t].by, seen[t]) /\ Reply(t, 201)
  <2>1. TablesKept
    BY <1>1, <1>4 DEF LinkOrg, TablesKept, FreshIds
  <2>2. MembersKept(t)
    BY <1>1, <1>4 DEF LinkOrg, LinkFounder, MembersKept, TablesOK
  <2> QED BY <1>1, <1>4, <2>1, <2>2, ReplyEffect DEF Effect
<1> QED BY <1>2, <1>3, <1>4 DEF InsertOrg, LinkFounder

\* Shelters and accounts that close.
LEMMA ClosingEffect ==
  ASSUME JInv, NEW t \in Tasks, DeleteOrg(t) \/ DeleteUser(t)
  PROVE  Effect(t)
<1>1. TypeOK /\ FreshIds /\ TablesOK /\ CallOK(t) /\ \E n : Reply(t, n)
  BY DEF JInv, IInv, CallsInv, TypeOK, DeleteOrg, DeleteUser
<1>2. CASE DeleteOrgRow(call[t].on)
  <2>1. /\ log' = log /\ unused' = unused /\ orgs' \subseteq orgs
        /\ \A u \in Users : orgOf'[u] \in {orgOf[u], Null}
        /\ \A a \in Animals : animals'[a] # Null => animals'[a] = animals[a]
    BY <1>2 DEF DeleteOrgRow
  <2>2. TablesKept /\ MembersKept(t)
    BY <1>1, <2>1, DeleteEffect
  <2> QED BY <1>1, <2>2, ReplyEffect DEF Effect
<1>3. CASE DeleteUserRow(call[t].on) /\ DeleteUser(t)
  <2>1. call[t] \in AnyCall /\ call[t].op = "close_account"
    BY <1>1, <1>3 DEF DeleteUser, CallOK, Running, AnyCall
  <2>2. call[t].on \in Users
    BY <2>1, CallFields
  <2>3. TablesKept /\ MembersKept(t)
    BY <1>1, <1>3, <2>2, DeleteUserEffect
  <2> QED BY <1>1, <2>3, ReplyEffect DEF Effect
<1> QED BY <1>2, <1>3 DEF DeleteOrg, DeleteUser

\* What every step does.
LEMMA StepEffect ==
  ASSUME JInv, NEW t \in Tasks, AdoptionStep(t) \/ AccountStep(t) \/ StatementFails(t)
  PROVE  Effect(t)
<1>1. CASE AdoptionStep(t)
  BY <1>1, ReceiveEffect, ReadsEffect, InsertRequestStepEffect, DecisionEffect, AnimalEffect
     DEF AdoptionStep
<1>2. CASE AccountStep(t)
  BY <1>2, ReceiveEffect, ReadsEffect, FoundingEffect, ClosingEffect DEF AccountStep
<1>3. CASE StatementFails(t)
  BY <1>3, ReadEffect, ReplyEffect DEF StatementFails, Effect, JInv, IInv
<1> QED BY <1>1, <1>2, <1>3

-----------------------------------------------------------------------------
(* The invariant.                                                          *)

\* What a call carries survives a step that keeps its input.
LEMMA CarriesKept ==
  ASSUME JInv, NEW s \in Tasks, TablesKept, CarriesOrg(s), UNCHANGED <<call[s], seen[s]>>,
         pc[s] \in Writing \cup {"read_member"}
  PROVE  CarriesOrg(s)'
<1>1. CallOK(s) /\ Running(s) /\ pc[s] # "read_request"
  BY DEF JInv, IInv, CallsInv, Running, Writing
<1>2. CASE call[s].op = "publish"
  BY <1>2 DEF CarriesOrg
<1>3. CASE call[s].op # "publish"
  <2>1. Decides(s) => call[s].on \in DOMAIN log
    BY <1>1 DEF CallOK, Decides
  <2>2. Subject(s)' = Subject(s)
    BY <2>1 DEF Subject, Decides, Request, TablesKept
  <2>3. Subject(s) \in Animals \ unused /\ (Row(s) = Null \/ Row(s).org = seen[s])
    BY <1>3 DEF CarriesOrg
  <2>4. animals'[Subject(s)] = Null \/ animals'[Subject(s)].org = seen[s]
    BY <2>3 DEF TablesKept, Row
  <2> QED BY <1>3, <2>2, <2>3, <2>4 DEF CarriesOrg, Row, TablesKept
<1> QED BY <1>2, <1>3

\* No two accounts come to belong to one shelter.
LEMMA OneMemberKept ==
  ASSUME JInv, NEW t \in Tasks, MembersKept(t)
  PROVE  OneMember'
<1> SUFFICES ASSUME NEW u \in Users, NEW v \in Users, orgOf'[u] # Null, orgOf'[u] = orgOf'[v]
             PROVE  u = v
  BY DEF OneMember
<1>1. LinkOK(t) /\ OneMember
  BY DEF JInv
<1> QED BY <1>1 DEF MembersKept, LinkOK, OneMember

\* Memberships are of shelters that have an id already.
LEMMA MembersOfOldOrgs ==
  ASSUME JInv, NEW u \in Users, orgOf[u] # Null
  PROVE  orgOf[u] \notin unused
BY DEF JInv, IInv, TablesInv, ForeignKeys, FreshIds

\* The shelter a registration is about to link stays its own.
LEMMA LinkKept ==
  ASSUME JInv, NEW t \in Tasks, Effect(t), NEW s \in Tasks
  PROVE  LinkOK(s)'
<1> SUFFICES ASSUME pc'[s] = "link"
             PROVE  /\ seen'[s] \notin unused'
                    /\ \A u \in Users : orgOf'[u] # seen'[s]
                    /\ \A r \in Tasks \ {s} : pc'[r] = "link" => seen'[r] # seen'[s]
  BY DEF LinkOK
<1>1. /\ \A r \in Tasks : LinkOK(r) /\ CallOK(r)
      /\ unused' \subseteq unused /\ MembersKept(t) /\ OthersStay(t) /\ GoesRight(t)
  BY DEF JInv, IInv, CallsInv, Effect, TablesKept
<1>2. CASE s = t
  <2>1. /\ pc[t] = "insert_org" /\ seen'[t] \in unused /\ seen'[t] \notin unused'
        /\ seen'[t] # Null
    BY <1>1, <1>2, SchemaAssumption DEF GoesRight
  <2>2. \A u \in Users : orgOf'[u] # seen'[t]
    BY <1>1, <2>1, MembersOfOldOrgs DEF MembersKept
  <2>3. \A r \in Tasks \ {t} : pc'[r] = "link" => seen'[r] # seen'[t]
    BY <1>1, <2>1 DEF OthersStay, LinkOK
  <2> QED BY <1>2, <2>1, <2>2, <2>3
<1>3. CASE s # t
  <2>1. pc[s] = "link" /\ seen'[s] = seen[s]
    BY <1>1, <1>3 DEF OthersStay
  <2>2. seen[s] \notin unused /\ seen[s] # Null
    BY <1>1, <2>1, SchemaAssumption DEF LinkOK, CallOK
  <2>3. \A u \in Users : orgOf'[u] # seen[s]
    BY <1>1, <1>3, <2>1, <2>2 DEF MembersKept, LinkOK
  <2>4. \A r \in Tasks \ {s, t} : pc'[r] = "link" => seen'[r] # seen[s]
    BY <1>1, <2>1 DEF OthersStay, LinkOK
  <2>5. pc'[t] = "link" => seen'[t] # seen[s]
    BY <1>1, <2>2 DEF GoesRight
  <2> QED BY <1>1, <2>1, <2>2, <2>3, <2>4, <2>5
<1> QED BY <1>2, <1>3

\* What calls carry stays the shelter of the row they are about.
LEMMA CarriesOrgKept ==
  ASSUME JInv, NEW t \in Tasks, Effect(t), NEW s \in Tasks
  PROVE  CarriesOrg(s)'
<1>1. CarriesOrg(s) /\ TablesKept /\ OthersStay(t) /\ GoesRight(t) /\ FreshIds
  BY DEF JInv, Effect
<1>2. CASE pc'[s] \notin Writing \cup {"read_member"}
  BY <1>2 DEF CarriesOrg, Writing
<1>3. CASE s # t /\ pc'[s] \in Writing \cup {"read_member"}
  BY <1>1, <1>3, CarriesKept DEF OthersStay
<1>4. CASE s = t /\ pc'[s] \in Writing
  BY <1>1, <1>4, CarriesKept DEF GoesRight
<1>5. CASE s = t /\ pc'[s] = "read_member" /\ call'[s].op = "publish"
  BY <1>1, <1>5 DEF GoesRight, CarriesOrg
<1>6. CASE s = t /\ pc'[s] = "read_member" /\ call'[s].op # "publish"
  <2>1. /\ UNCHANGED tables /\ call'[t] = call[t] /\ Subject(t) \in Animals
        /\ Row(t) # Null /\ Row(t).org = seen'[t]
    BY <1>1, <1>6 DEF GoesRight
  <2>2. Subject(t)' = Subject(t) /\ Row(t)' = Row(t)
    BY <2>1 DEF Subject, Row, Decides, Request, tables
  <2>3. Subject(t) \notin unused'
    BY <1>1, <2>1 DEF FreshIds, Row, tables
  <2> QED BY <1>6, <2>1, <2>2, <2>3 DEF CarriesOrg
<1> QED BY <1>2, <1>3, <1>4, <1>5, <1>6

\* Who passed the membership check stays the only possible member.
LEMMA AuthKept ==
  ASSUME JInv, NEW t \in Tasks, Effect(t), NEW s \in Tasks
  PROVE  AuthOK(s)'
<1> SUFFICES ASSUME pc'[s] \in Writing
             PROVE  /\ seen'[s] \in Orgs \ unused'
                    /\ \A u \in Users : orgOf'[u] = seen'[s] => u = call'[s].by
                    /\ \A r \in Tasks : pc'[r] = "link" => seen'[r] # seen'[s]
  BY DEF AuthOK, Writing
<1>1. /\ \A r \in Tasks : LinkOK(r) /\ CallOK(r) /\ AuthOK(r)
      /\ unused' \subseteq unused /\ MembersKept(t) /\ OthersStay(t) /\ GoesRight(t)
      /\ OneMember
  BY DEF JInv, IInv, CallsInv, Effect, TablesKept
<1>2. call'[s] = call[s] /\ seen'[s] = seen[s]
  BY <1>1 DEF OthersStay, GoesRight
<1>3. CASE pc[s] \in Writing
  <2>1. /\ seen[s] \in Orgs \ unused /\ seen[s] # Null
        /\ \A u \in Users : orgOf[u] = seen[s] => u = call[s].by
        /\ \A r \in Tasks : pc[r] = "link" => seen[r] # seen[s]
    BY <1>1, <1>3, SchemaAssumption DEF AuthOK
  <2>2. \A u \in Users : orgOf'[u] = seen[s] => u = call[s].by
    BY <1>1, <2>1 DEF MembersKept
  <2>3. \A r \in Tasks : pc'[r] = "link" => seen'[r] # seen[s]
    BY <1>1, <2>1 DEF OthersStay, GoesRight
  <2> QED BY <1>1, <1>2, <2>1, <2>2, <2>3
<1>4. CASE pc[s] \notin Writing
  <2>1. /\ s = t /\ pc[t] = "read_member" /\ orgOf[call[t].by] = seen[t] /\ UNCHANGED tables
    BY <1>1, <1>4 DEF OthersStay, GoesRight
  <2>2. call[t].by \in Users /\ seen[t] \in Orgs /\ seen[t] # Null
    <3>1. call[t] \in AnyCall /\ seen[t] \in Orgs
      BY <1>1, <2>1 DEF CallOK, Running, AnyCall
    <3> QED BY <3>1, CallFields, SchemaAssumption
  <2>3. seen[t] \notin unused
    BY <2>1, <2>2, MembersOfOldOrgs
  <2>4. \A u \in Users : orgOf'[u] = seen[t] => u = call[t].by
    BY <1>1, <2>1, <2>2 DEF OneMember, tables
  <2>5. \A r \in Tasks : pc'[r] = "link" => seen'[r] # seen[t]
    BY <1>1, <2>1, <2>2 DEF OthersStay, LinkOK, Writing
  <2> QED BY <1>1, <1>2, <2>1, <2>2, <2>3, <2>4, <2>5
<1> QED BY <1>3, <1>4

\* The instances start with fresh ids and one founder per shelter.
LEMMA InitStepSound == Init => JInv
<1> SUFFICES ASSUME Init
             PROVE  JInv
  OBVIOUS
<1>1. IInv
  BY InitSound
<1>2. FreshIds
  BY SchemaAssumption DEF Init, TablesInit, FreshIds
<1>3. OneMember
  BY SchemaAssumption DEF Init, TablesInit, OneMember
<1>4. \A t \in Tasks : pc[t] = "idle"
  BY DEF Init, CallsInit
<1>5. \A t \in Tasks : LinkOK(t) /\ CarriesOrg(t) /\ AuthOK(t)
  BY <1>4 DEF LinkOK, CarriesOrg, AuthOK, Writing
<1> QED BY <1>1, <1>2, <1>3, <1>5 DEF JInv

\* Every step preserves it.
LEMMA NextStepSound == JInv /\ [Next]_vars => JInv'
<1> SUFFICES ASSUME JInv, [Next]_vars
             PROVE  JInv'
  OBVIOUS
<1>1. IInv'
  BY NextSound DEF JInv
<1>2. ASSUME NEW t \in Tasks, AdoptionStep(t) \/ AccountStep(t) \/ StatementFails(t)
      PROVE  JInv'
  <2>1. Effect(t)
    BY <1>2, StepEffect
  <2>2. FreshIds' /\ OneMember'
    BY <2>1, OneMemberKept DEF Effect, TablesKept
  <2>3. \A s \in Tasks : LinkOK(s)' /\ CarriesOrg(s)' /\ AuthOK(s)'
    BY <2>1, LinkKept, CarriesOrgKept, AuthKept
  <2> QED BY <1>1, <2>2, <2>3 DEF JInv
<1>3. CASE UNCHANGED vars
  <2>1. FreshIds' /\ OneMember'
    BY <1>3 DEF JInv, FreshIds, OneMember, vars, tables
  <2>2. \A s \in Tasks : LinkOK(s)' /\ AuthOK(s)'
    BY <1>3 DEF JInv, LinkOK, AuthOK, vars, tables, callVars
  <2>3. \A s \in Tasks : CarriesOrg(s)'
    BY <1>3 DEF JInv, CarriesOrg, Subject, Row, Decides, Request, vars, tables, callVars
  <2> QED BY <1>1, <2>1, <2>2, <2>3 DEF JInv
<1> QED BY <1>2, <1>3 DEF Next, AllAnswered

\* In every reachable state a call past its membership check works for the
\* only account that can belong to the shelter it carries.
THEOREM ShelterStepInvariant == Spec => []JInv
<1> QED BY InitStepSound, NextStepSound, PTL DEF Spec

-----------------------------------------------------------------------------
(* Refusals.                                                               *)

\* Deleting rows that are not there deletes nothing else.
LEMMA VoidDeletions ==
  ASSUME IInv
  PROVE  /\ \A a \in Animals : animals[a] = Null /\ DeleteAnimalRow(a) => UNCHANGED tables
         /\ \A o \in Orgs \ orgs : DeleteOrgRow(o) => UNCHANGED tables
         /\ \A u \in Users \ users : DeleteUserRow(u) => UNCHANGED tables
<1>1. /\ animals \in [Animals -> AnimalRow \cup {Null}] /\ orgOf \in [Users -> Orgs \cup {Null}]
      /\ Null \notin orgs /\ ForeignKeys
  BY SchemaAssumption DEF IInv, TypeOK, TablesOK, TablesInv
<1>2. ASSUME NEW a \in Animals, animals[a] = Null, DeleteAnimalRow(a)
      PROVE  UNCHANGED tables
  BY <1>1, <1>2 DEF DeleteAnimalRow, ForeignKeys, tables
<1>3. ASSUME NEW o \in Orgs \ orgs, DeleteOrgRow(o)
      PROVE  UNCHANGED tables
  <2>1. AnimalsOf(o) = {} /\ \A u \in Users : orgOf[u] # o
    BY <1>1, <1>3, SchemaAssumption DEF AnimalsOf, ForeignKeys
  <2>2. animals' = animals /\ orgOf' = orgOf /\ orgs' = orgs /\ requests' = requests
    BY <1>1, <1>3, <2>1 DEF DeleteOrgRow
  <2> QED BY <1>3, <2>2 DEF DeleteOrgRow, tables
<1>4. ASSUME NEW u \in Users \ users, DeleteUserRow(u)
      PROVE  UNCHANGED tables
  <2>1. orgOf[u] = Null /\ \A r \in requests : log[r].user # u
    BY <1>1, <1>4 DEF ForeignKeys
  <2>2. \A a \in Animals : Disown(animals[a], u) = animals[a]
    BY <1>1, <1>4, SchemaAssumption DEF Disown, ForeignKeys
  <2>3. animals' = animals
    BY <1>1, <1>4, <2>1, <2>2 DEF DeleteUserRow
  <2>4. orgOf' = orgOf
    BY <1>1, <1>4, <2>1 DEF DeleteUserRow
  <2>5. users' = users /\ orgs' = orgs /\ requests' = requests
    BY <1>1, <1>4, <2>1 DEF DeleteUserRow
  <2> QED BY <1>4, <2>3, <2>4, <2>5 DEF DeleteUserRow, tables
<1> QED BY <1>2, <1>3, <1>4

Refused(t) == reply[t] = 0 /\ reply'[t] \in {403, 404, 409}
NoTrace(t) == UNCHANGED tables /\ pc[t] \notin {"read_applicant", "clear", "link"}

\* A call that goes on has not been refused.
LEMMA MovesNotRefused ==
  ASSUME TypeOK, NEW t \in Tasks, NEW l, NEW v, Goto(t, l) \/ Carry(t, l, v)
  PROVE  ~Refused(t)
BY DEF Goto, Carry, Refused

\* The reads refuse before anything is written.
LEMMA ReadsRefuse ==
  ASSUME JInv, NEW t \in Tasks, Refused(t),
         \/ ReadRequest(t) \/ ReadAnimal(t) \/ CheckMember(t) \/ ReadApplicant(t)
         \/ ReadAdoptable(t) \/ CheckUnaffiliated(t) \/ ReadFounder(t) \/ ReadOrg(t)
         \/ ReadAccount(t)
  PROVE  NoTrace(t)
<1>1. TypeOK
  BY DEF JInv, IInv
<1>2. ~ReadApplicant(t)
  <2>1. ASSUME ReadApplicant(t)
        PROVE  reply'[t] \in {201, 500}
    BY <1>1, <2>1, ReplyEffect DEF ReadApplicant
  <2> QED BY <2>1 DEF Refused
<1> QED BY <1>2
     DEF NoTrace, ReadRequest, ReadAnimal, CheckMember, ReadAdoptable,
         CheckUnaffiliated, ReadFounder, ReadOrg, ReadAccount

\* A statement that is refused, or that finds its row gone, writes nothing.
LEMMA WritesRefuse ==
  ASSUME JInv, NEW t \in Tasks, Refused(t),
         \/ InsertRequest(t) \/ AdoptAnimal(t) \/ ClearRequests(t) \/ DenyRequest(t)
         \/ UpdateAnimal(t) \/ RemoveAnimal(t) \/ PublishAnimal(t)
         \/ InsertOrg(t) \/ LinkFounder(t) \/ DeleteOrg(t) \/ DeleteUser(t)
  PROVE  NoTrace(t)
<1>1. TypeOK /\ IInv /\ CallOK(t)
  BY DEF JInv, IInv, CallsInv
<1>2. \A n : Reply(t, n) => reply'[t] = n
  BY <1>1, ReplyEffect
<1>3. \A l, v : ~Goto(t, l) /\ ~Carry(t, l, v)
  BY <1>1, MovesNotRefused
<1>4. CASE InsertRequest(t) \/ AdoptAnimal(t) \/ ClearRequests(t) \/ DenyRequest(t)
  BY <1>2, <1>3, <1>4
     DEF InsertRequest, AdoptAnimal, ClearRequests, DenyRequest, Refused, NoTrace
<1>5. CASE UpdateAnimal(t) \/ PublishAnimal(t) \/ InsertOrg(t) \/ LinkFounder(t)
  BY <1>2, <1>3, <1>5
     DEF UpdateAnimal, PublishAnimal, InsertOrg, LinkFounder, Refused, NoTrace
<1>6. CASE RemoveAnimal(t)
  <2>1. Subject(t) \in Animals
    BY <1>1, <1>6, SubjectType DEF RemoveAnimal
  <2>2. Row(t) = Null
    BY <1>2, <1>6 DEF RemoveAnimal, Refused
  <2> QED BY <1>1, <1>6, <2>1, <2>2, VoidDeletions DEF RemoveAnimal, Row, NoTrace
<1>7. CASE DeleteOrg(t)
  <2>1. call[t] \in AnyCall /\ call[t].op = "close_org"
    BY <1>1, <1>7 DEF DeleteOrg, CallOK, Running, AnyCall
  <2>2. call[t].on \in Orgs \ orgs
    BY <1>2, <1>7, <2>1, CallFields DEF DeleteOrg, Refused
  <2> QED BY <1>1, <1>7, <2>2, VoidDeletions DEF DeleteOrg, NoTrace
<1>8. CASE DeleteUser(t)
  <2>1. call[t] \in AnyCall /\ call[t].op = "close_account"
    BY <1>1, <1>8 DEF DeleteUser, CallOK, Running, AnyCall
  <2>2. call[t].on \in Users \ users
    BY <1>2, <1>8, <2>1, CallFields DEF DeleteUser, Refused
  <2> QED BY <1>1, <1>8, <2>2, VoidDeletions DEF DeleteUser, NoTrace
<1> QED BY <1>4, <1>5, <1>6, <1>7, <1>8

\* A call refused with 403, 404 or 409 has changed nothing in the tables, and
\* is not one that wrote something earlier: every check of AdoptRequestService,
\* AnimalService, OrganizationService and UserService precedes the writes.
THEOREM RefusedWroteNothing == Spec => RefusalLeavesNoTrace
<1>1. ASSUME JInv, [Next]_vars
      PROVE  [\A t \in Tasks : Refused(t) => NoTrace(t)]_vars
  <2> SUFFICES ASSUME NEW t \in Tasks, Refused(t), vars' # vars
               PROVE  NoTrace(t)
    OBVIOUS
  <2>1. PICK s \in Tasks : AdoptionStep(s) \/ AccountStep(s) \/ StatementFails(s)
    BY <1>1 DEF Next, AllAnswered
  <2>2. Effect(s) /\ TypeOK
    BY <1>1, <2>1, StepEffect DEF JInv, IInv
  <2>3. s = t
    BY <2>2 DEF Effect, OthersStay, Refused
  <2>4. ~StatementFails(t)
    BY <2>2, ReplyEffect DEF StatementFails, Refused
  <2>5. ~ReceiveAdoptionCall(t) /\ ~ReceiveAccountCall(t)
    BY <1>1, ReceiveEffect DEF Refused
  <2> QED BY <1>1, <2>1, <2>3, <2>4, <2>5, ReadsRefuse, WritesRefuse
          DEF AdoptionStep, AccountStep
<1>2. Spec => [][\A t \in Tasks : Refused(t) => NoTrace(t)]_vars
  BY <1>1, ShelterStepInvariant, PTL DEF Spec
<1> QED BY <1>2 DEF RefusalLeavesNoTrace, Refused, NoTrace

-----------------------------------------------------------------------------
(* Writes.                                                                 *)

\* The rows a step changes, as they are before it or appear by it, are those
\* of the shelter the call carries.
FallsOnSeen(t) ==
  /\ \A a \in Animals : animals'[a] # animals[a] =>
       (IF animals[a] = Null THEN animals'[a] ELSE animals[a]).org = seen[t]
  /\ \A r \in requests \ requests' : animals[log[r].animal].org = seen[t]

\* Decisions write the animal of the request and its requests.
LEMMA DecisionsFallOnSeen ==
  ASSUME JInv, NEW t \in Tasks, AdoptAnimal(t) \/ ClearRequests(t) \/ DenyRequest(t)
  PROVE  FallsOnSeen(t)
<1>1. /\ pc[t] \in {"adopt", "clear", "deny"} /\ CallOK(t) /\ CarriesOrg(t) /\ ForeignKeys
      /\ animals \in [Animals -> AnimalRow \cup {Null}]
  BY DEF JInv, IInv, CallsInv, TypeOK, TablesOK, TablesInv, AdoptAnimal, ClearRequests, DenyRequest
<1>2. Subject(t) \in Animals /\ (Row(t) = Null \/ Row(t).org = seen[t])
  BY <1>1 DEF CallOK, CarriesOrg, Writing
<1>3. \A r \in requests : log[r].animal = Subject(t) => animals[log[r].animal].org = seen[t]
  BY <1>1, <1>2 DEF ForeignKeys, Row
<1>4. CASE AdoptAnimal(t)
  BY <1>1, <1>2, <1>4 DEF AdoptAnimal, WriteAnimalRow, FallsOnSeen, Row, tables
<1>5. CASE ClearRequests(t)
  BY <1>3, <1>5 DEF ClearRequests, DeleteRequestRows, FallsOnSeen
<1>6. CASE DenyRequest(t)
  <2>1. log[call[t].on].animal = Subject(t)
    BY <1>1, <1>6 DEF DenyRequest, CallOK, Subject, Decides, Request
  <2> QED BY <1>3, <1>6, <2>1 DEF DenyRequest, DeleteRequestRows, FallsOnSeen
<1> QED BY <1>4, <1>5, <1>6

\* Edits and deletions write the animal in the path, publications a new one.
LEMMA EditsFallOnSeen ==
  ASSUME JInv, NEW t \in Tasks, UpdateAnimal(t) \/ RemoveAnimal(t) \/ PublishAnimal(t)
  PROVE  FallsOnSeen(t)
<1>1. /\ pc[t] \in {"update", "remove", "publish"} /\ CallOK(t) /\ CarriesOrg(t) /\ ForeignKeys
      /\ animals \in [Animals -> AnimalRow \cup {Null}] /\ FreshIds
  BY DEF JInv, IInv, CallsInv, TypeOK, TablesOK, TablesInv, UpdateAnimal, RemoveAnimal, PublishAnimal
<1>2. CASE PublishAnimal(t)
  <2>1. call[t].on = seen[t]
    BY <1>1, <1>2 DEF PublishAnimal, CallOK, CarriesOrg, Writing
  <2> QED BY <1>1, <1>2, <2>1 DEF PublishAnimal, WriteAnimalRow, FallsOnSeen, FreshIds, tables
<1>3. CASE UpdateAnimal(t) \/ RemoveAnimal(t)
  <2>1. Subject(t) \in Animals /\ (Row(t) = Null \/ Row(t).org = seen[t])
    BY <1>1, <1>3 DEF CallOK, CarriesOrg, Writing, UpdateAnimal, RemoveAnimal
  <2>2. CASE UpdateAnimal(t)
    BY <1>1, <2>1, <2>2 DEF UpdateAnimal, WriteAnimalRow, FallsOnSeen, Row, tables
  <2>3. CASE RemoveAnimal(t)
    <3>1. DeleteAnimalRow(Subject(t))
      BY <2>3 DEF RemoveAnimal
    <3>2. \A a \in Animals : animals'[a] # animals[a] => a = Subject(t) /\ animals[a] # Null
      BY <1>1, <2>1, <3>1 DEF DeleteAnimalRow
    <3>3. \A r \in requests \ requests' :
            log[r].animal = Subject(t) /\ animals[log[r].animal] # Null
      BY <1>1, <3>1 DEF DeleteAnimalRow, ForeignKeys
    <3> QED BY <2>1, <3>2, <3>3 DEF FallsOnSeen, Row
  <2> QED BY <1>3, <2>2, <2>3
<1> QED BY <1>2, <1>3

\* What MemberWrites asks of one call.
WritesOwn(t) ==
  /\ pc[t] \in {"adopt", "clear", "deny", "update", "remove", "publish"}
  /\ pc'[t] # pc[t]
  => LET NobodyElses(row) == \A u \in Users : orgOf[u] = row.org => u = call[t].by
     IN  /\ \A a \in Animals : animals'[a] # animals[a] =>
              NobodyElses(IF animals[a] = Null THEN animals'[a] ELSE animals[a])
         /\ \A r \in requests \ requests' : NobodyElses(animals[log[r].animal])

\* Whatever runs between a membership check and the write it guards, the write
\* falls on rows of a shelter no other account belongs to at that moment.
THEOREM WritesStayInside == Spec => MemberWrites
<1>1. ASSUME JInv, [Next]_vars
      PROVE  [\A t \in Tasks : WritesOwn(t)]_vars
  <2> SUFFICES ASSUME NEW t \in Tasks, pc'[t] # pc[t],
                      pc[t] \in {"adopt", "clear", "deny", "update", "remove", "publish"}
               PROVE  WritesOwn(t)
    BY DEF WritesOwn
  <2>1. PICK s \in Tasks : AdoptionStep(s) \/ AccountStep(s) \/ StatementFails(s)
    BY <1>1 DEF Next, AllAnswered, vars, callVars
  <2>2. s = t
    BY <1>1, <2>1, StepEffect DEF Effect, OthersStay
  <2>3. \A u \in Users : orgOf[u] = seen[t] => u = call[t].by
    BY <1>1 DEF JInv, AuthOK, Writing
  <2>4. CASE \/ AdoptAnimal(t) \/ ClearRequests(t) \/ DenyRequest(t)
             \/ UpdateAnimal(t) \/ RemoveAnimal(t) \/ PublishAnimal(t)
    <3>1. FallsOnSeen(t)
      BY <1>1, <2>4, DecisionsFallOnSeen, EditsFallOnSeen
    <3> QED BY <2>3, <3>1 DEF FallsOnSeen, WritesOwn
  <2>5. CASE StatementFails(t)
    BY <2>5 DEF StatementFails, tables, WritesOwn
  <2> QED BY <2>1, <2>2, <2>4, <2>5
       DEF AdoptionStep, AccountStep, ReceiveAdoptionCall, ReceiveAccountCall, Begin,
           ReadRequest, ReadAnimal, CheckMember, InsertRequest, ReadApplicant, ReadAdoptable,
           CheckUnaffiliated, InsertOrg, LinkFounder, ReadFounder, ReadOrg, DeleteOrg,
           ReadAccount, DeleteUser
<1>2. Spec => [][\A t \in Tasks : WritesOwn(t)]_vars
  BY <1>1, ShelterStepInvariant, PTL DEF Spec
<1> QED BY <1>2 DEF MemberWrites, WritesOwn

-----------------------------------------------------------------------------
(* One call at a time.                                                     *)

OneAtATime == \A s, t \in Tasks : Running(s) /\ Running(t) => s = t

AnsweredIsDone == \A t \in Tasks : reply[t] # 0 => pc[t] = "done"

\* What the running call has read is still so, for no other call runs.
StillSo(t) ==
  /\ pc[t] = "insert" => Row(t) # Null /\ Row(t).status = "available"
  /\ pc[t] \in {"read_animal", "read_member", "read_adoptable", "adopt"}
     /\ call[t].op = "accept" => call[t].on \in requests
  /\ pc[t] = "adopt" => Row(t) # Null /\ Row(t).status = "available"
  /\ pc[t] \in {"insert_org", "link"} => orgOf[call[t].by] = Null

KInv == JInv /\ OneAtATime /\ AnsweredIsDone /\ \A t \in Tasks : StillSo(t)

\* A call begins when none runs.
LEMMA BeginsAlone ==
  ASSUME InFlight = 1, OneAtATime, NEW t \in Tasks, ReceiveAdoptionCall(t) \/ ReceiveAccountCall(t)
  PROVE  \A s \in Tasks : ~Running(s)
<1> SUFFICES ASSUME NEW s \in Tasks, Running(s)
             PROVE  FALSE
  OBVIOUS
<1>1. {r \in Tasks : Running(r)} = {s}
  BY DEF OneAtATime
<1>2. Cardinality({s}) = 1
  BY FS_Singleton
<1>3. Cardinality({r \in Tasks : Running(r)}) < InFlight
  BY DEF ReceiveAdoptionCall, ReceiveAccountCall, Begin
<1> QED BY <1>1, <1>2, <1>3

\* Any other step is one of a call that runs, which goes on or is answered.
LEMMA GoesOnOrAnswers ==
  ASSUME NEW t \in Tasks, AdoptionStep(t) \/ AccountStep(t) \/ StatementFails(t),
         ~ReceiveAdoptionCall(t), ~ReceiveAccountCall(t)
  PROVE  /\ Running(t)
         /\ (\E n : Reply(t, n)) \/ (\E l : Goto(t, l)) \/ (\E l, v : Carry(t, l, v))
<1>1. CASE ReadRequest(t) \/ ReadAnimal(t) \/ CheckMember(t) \/ InsertRequest(t) \/ ReadApplicant(t)
  BY <1>1 DEF Running, ReadRequest, ReadAnimal, AnimalMissing, CheckMember, InsertRequest,
              ReadApplicant
<1>2. CASE ReadAdoptable(t) \/ AdoptAnimal(t) \/ ClearRequests(t) \/ DenyRequest(t)
  BY <1>2 DEF Running, ReadAdoptable, AdoptAnimal, ClearRequests, DenyRequest
<1>3. CASE UpdateAnimal(t) \/ RemoveAnimal(t) \/ PublishAnimal(t) \/ StatementFails(t)
  BY <1>3 DEF Running, UpdateAnimal, RemoveAnimal, PublishAnimal, StatementFails
<1>4. CASE CheckUnaffiliated(t) \/ InsertOrg(t) \/ LinkFounder(t) \/ ReadFounder(t)
  BY <1>4 DEF Running, CheckUnaffiliated, InsertOrg, LinkFounder, ReadFounder
<1>5. CASE ReadOrg(t) \/ DeleteOrg(t) \/ ReadAccount(t) \/ DeleteUser(t)
  BY <1>5 DEF Running, ReadOrg, DeleteOrg, ReadAccount, DeleteUser
<1> QED BY <1>1, <1>2, <1>3, <1>4, <1>5 DEF AdoptionStep, AccountStep

\* So there is one at a time, and an answer ends it.
LEMMA OneAtATimeKept ==
  ASSUME InFlight = 1, KInv, NEW t \in Tasks,
         AdoptionStep(t) \/ AccountStep(t) \/ StatementFails(t)
  PROVE  /\ OneAtATime' /\ AnsweredIsDone'
         /\ \A s \in Tasks \ {t} : ~Running(s) /\ ~Running(s)'
<1>1. OthersStay(t) /\ TypeOK /\ OneAtATime /\ AnsweredIsDone
  BY StepEffect DEF KInv, JInv, IInv, Effect
<1>2. \A s \in Tasks \ {t} : ~Running(s) /\ ~Running(s)'
  <2>1. \A s \in Tasks \ {t} : ~Running(s)
    BY <1>1, BeginsAlone, GoesOnOrAnswers DEF OneAtATime
  <2> QED BY <1>1, <2>1 DEF OthersStay, Running
<1>3. AnsweredIsDone'
  <2>1. reply'[t] # 0 => pc'[t] = "done"
    <3>1. CASE ReceiveAdoptionCall(t) \/ ReceiveAccountCall(t)
      BY <1>1, <3>1 DEF ReceiveAdoptionCall, ReceiveAccountCall, Begin, AnsweredIsDone
    <3>2. CASE ~ReceiveAdoptionCall(t) /\ ~ReceiveAccountCall(t)
      <4>1. Running(t) /\ reply[t] = 0
        BY <1>1, <3>2, GoesOnOrAnswers DEF AnsweredIsDone, Running
      <4> QED BY <1>1, <3>2, <4>1, GoesOnOrAnswers, ReplyEffect, MoveEffect
    <3> QED BY <3>1, <3>2
  <2> QED BY <1>1, <2>1 DEF OthersStay, AnsweredIsDone
<1> QED BY <1>2, <1>3 DEF OneAtATime

\* A call that goes on without writing keeps its subject.
LEMMA MovesInPlace ==
  ASSUME TypeOK, NEW t \in Tasks, UNCHANGED tables, NEW l, Goto(t, l) \/ \E v : Carry(t, l, v)
  PROVE  /\ pc'[t] = l /\ call'[t] = call[t] /\ requests' = requests /\ orgOf' = orgOf
         /\ Subject(t)' = Subject(t) /\ Row(t)' = Row(t)
<1>1. pc'[t] = l /\ call'[t] = call[t]
  BY MoveEffect
<1> QED BY <1>1 DEF Subject, Row, Decides, Request, tables

\* Each test of a call holds until the write it is for.
LEMMA StillSoKept ==
  ASSUME KInv, NEW t \in Tasks, AdoptionStep(t) \/ AccountStep(t) \/ StatementFails(t)
  PROVE  StillSo(t)'
<1>1. TypeOK /\ CallOK(t) /\ StillSo(t)
  BY DEF KInv, JInv, IInv, CallsInv
<1>2. CASE \E n : Reply(t, n)
  BY <1>1, <1>2, ReplyEffect DEF StillSo
<1>3. CASE ReceiveAdoptionCall(t) \/ ReceiveAccountCall(t)
  <2>1. PICK c, l, v :
          /\ Begin(t, c, l, v)
          /\ l \notin {"insert", "adopt", "insert_org", "link", "read_adoptable"}
          /\ c.op = "accept" => l \notin {"read_animal", "read_member"}
    <3>1. CASE ReceiveAdoptionCall(t)
      <4>1. PICK c \in AdoptionCalls :
              Begin(t, c, FirstStatement[c.op], IF c.op = "publish" THEN c.on ELSE Null)
        BY <3>1 DEF ReceiveAdoptionCall
      <4>2. c.op \in {"adopt", "remove", "update", "accept", "deny", "publish"}
        BY DEF AdoptionCalls
      <4> QED BY <4>1, <4>2 DEF FirstStatement
    <3>2. CASE ReceiveAccountCall(t)
      <4>1. PICK c \in AccountCalls : Begin(t, c, FirstRead[c.op], Null)
        BY <3>2 DEF ReceiveAccountCall
      <4>2. c.op \in {"open_org", "close_org", "close_account"}
        BY DEF AccountCalls
      <4> QED BY <4>1, <4>2 DEF FirstRead
    <3> QED BY <1>3, <3>1, <3>2
  <2>2. pc'[t] = l /\ call'[t] = c
    BY <1>1, <2>1 DEF Begin, TypeOK
  <2> QED BY <2>1, <2>2 DEF StillSo
<1>4. CASE \E l : /\ Goto(t, l)
                  /\ l \notin {"insert", "read_animal", "read_member", "read_adoptable",
                               "adopt", "insert_org", "link"}
  BY <1>1, <1>4, MoveEffect DEF StillSo
<1>5. CASE ReadRequest(t) /\ Goto(t, "read_animal") /\ call[t].on \in requests
  BY <1>1, <1>5, MovesInPlace DEF ReadRequest, StillSo
<1>6. CASE ReadAnimal(t) /\ Goto(t, "insert") /\ Row(t) # Null /\ Row(t).status = "available"
  BY <1>1, <1>6, MovesInPlace DEF ReadAnimal, StillSo
<1>7. CASE ReadAnimal(t) /\ Carry(t, "read_member", Row(t).org)
  BY <1>1, <1>7, MovesInPlace DEF ReadAnimal, StillSo
<1>8. CASE CheckMember(t) /\ \E l : Goto(t, l) /\ l = AfterCheck[call[t].op]
  <2>1. PICK l : Goto(t, l) /\ l = AfterCheck[call[t].op]
    BY <1>8
  <2>2. l \in {"remove", "update", "read_adoptable", "deny", "publish"}
    BY <1>1, <1>8, <2>1 DEF CheckMember, CallOK, AfterCheck
  <2> QED BY <1>1, <1>8, <2>1, <2>2, MovesInPlace DEF CheckMember, StillSo
<1>9. CASE ReadAdoptable(t) /\ Goto(t, "adopt") /\ Row(t) # Null /\ Row(t).status = "available"
  BY <1>1, <1>9, MovesInPlace DEF ReadAdoptable, StillSo
<1>10. CASE CheckUnaffiliated(t) /\ Goto(t, "insert_org") /\ orgOf[call[t].by] = Null
  BY <1>1, <1>10, MovesInPlace DEF CheckUnaffiliated, StillSo
<1>11. CASE InsertOrg(t) /\ \E o : InsertOrgRow(o) /\ Carry(t, "link", o)
  BY <1>1, <1>11, MoveEffect DEF InsertOrg, InsertOrgRow, StillSo
<1>12. CASE ReadRequest(t) \/ ReadAnimal(t) \/ CheckMember(t)
  BY <1>2, <1>5, <1>6, <1>7, <1>8, <1>12 DEF ReadRequest, ReadAnimal, AnimalMissing, CheckMember
<1>13. CASE \/ InsertRequest(t) \/ ReadApplicant(t) \/ ReadAdoptable(t) \/ AdoptAnimal(t)
            \/ ClearRequests(t) \/ DenyRequest(t)
  BY <1>2, <1>4, <1>9, <1>13
     DEF InsertRequest, ReadApplicant, ReadAdoptable, AdoptAnimal, ClearRequests, DenyRequest
<1>14. CASE UpdateAnimal(t) \/ RemoveAnimal(t) \/ PublishAnimal(t) \/ StatementFails(t)
  BY <1>2, <1>14 DEF UpdateAnimal, RemoveAnimal, PublishAnimal, StatementFails
<1>15. CASE CheckUnaffiliated(t) \/ InsertOrg(t) \/ LinkFounder(t)
  BY <1>2, <1>10, <1>11, <1>15 DEF CheckUnaffiliated, InsertOrg, LinkFounder
<1>16. CASE ReadFounder(t) \/ ReadOrg(t) \/ DeleteOrg(t) \/ ReadAccount(t) \/ DeleteUser(t)
  BY <1>2, <1>4, <1>16 DEF ReadFounder, ReadOrg, DeleteOrg, ReadAccount, DeleteUser
<1> QED BY <1>3, <1>12, <1>13, <1>14, <1>15, <1>16 DEF AdoptionStep, AccountStep

\* With one call at a time, what a call has read is so when it writes.
LEMMA SerialInvariant ==
  ASSUME InFlight = 1
  PROVE  Spec => []KInv
<1>1. Init => KInv
  <2> SUFFICES ASSUME Init
               PROVE  KInv
    OBVIOUS
  <2>1. JInv
    BY InitStepSound
  <2>2. \A t \in Tasks : pc[t] = "idle" /\ reply[t] = 0
    BY DEF Init, CallsInit
  <2> QED BY <2>1, <2>2 DEF KInv, OneAtATime, AnsweredIsDone, StillSo, Running
<1>2. KInv /\ [Next]_vars => KInv'
  <2> SUFFICES ASSUME KInv, [Next]_vars
               PROVE  KInv'
    OBVIOUS
  <2>1. JInv'
    BY NextStepSound DEF KInv
  <2>2. ASSUME NEW t \in Tasks, AdoptionStep(t) \/ AccountStep(t) \/ StatementFails(t)
        PROVE  KInv'
    <3>1. /\ OneAtATime' /\ AnsweredIsDone'
          /\ \A s \in Tasks \ {t} : ~Running(s)'
      BY <2>2, OneAtATimeKept
    <3>2. \A s \in Tasks \ {t} : StillSo(s)'
      BY <3>1 DEF StillSo, Running
    <3>3. StillSo(t)'
      BY <2>2, StillSoKept
    <3> QED BY <2>1, <3>1, <3>2, <3>3 DEF KInv
  <2>3. CASE UNCHANGED vars
    <3>1. pc' = pc /\ call' = call /\ reply' = reply /\ UNCHANGED tables /\ orgOf' = orgOf
          /\ requests' = requests /\ animals' = animals /\ log' = log
      BY <2>3 DEF vars, callVars, tables
    <3> QED BY <2>1, <3>1 DEF KInv, OneAtATime, AnsweredIsDone, Running, StillSo, Row, Subject,
                             Decides, Request
  <2> QED BY <2>2, <2>3 DEF Next, AllAnswered
<1> QED BY <1>1, <1>2, PTL DEF Spec

-----------------------------------------------------------------------------
(* What one call at a time may rely on.                                    *)

\* A request is a new one's only where a request was inserted.
LEMMA LogGrowsByInsert ==
  ASSUME KInv, NEW t \in Tasks, AdoptionStep(t) \/ AccountStep(t) \/ StatementFails(t),
         log' # log
  PROVE  /\ pc[t] = "insert" /\ call[t].op = "adopt"
         /\ InsertRequestRow([animal |-> call[t].on, user |-> call[t].by])
<1>1. CallOK(t)
  BY DEF KInv, JInv, IInv, CallsInv
<1>2. CASE AdoptionStep(t)
  <2>1. InsertRequest(t)
    BY <1>2 DEF AdoptionStep, ReceiveAdoptionCall, Begin, ReadRequest, ReadAnimal, CheckMember,
         ReadApplicant, ReadAdoptable, AdoptAnimal, ClearRequests, DenyRequest, UpdateAnimal,
         RemoveAnimal, PublishAnimal, WriteAnimalRow, DeleteRequestRows, DeleteAnimalRow, tables
  <2> QED BY <1>1, <2>1 DEF InsertRequest, CallOK, tables
<1>3. CASE AccountStep(t)
  BY <1>3 DEF AccountStep, ReceiveAccountCall, Begin, CheckUnaffiliated, InsertOrg, LinkFounder,
       ReadFounder, ReadOrg, DeleteOrg, ReadAccount, DeleteUser, InsertOrgRow, LinkOrg,
       DeleteOrgRow, DeleteUserRow, tables
<1>4. CASE StatementFails(t)
  BY <1>4 DEF StatementFails, tables
<1> QED BY <1>2, <1>3, <1>4

\* AdoptRequestService::Create: the test of the status is as good as one in
\* the INSERT while calls do not overlap.
THEOREM SerialRequestsForAvailable ==
  ASSUME InFlight = 1
  PROVE  Spec => RequestForAvailable
<1>1. ASSUME KInv, [Next]_vars
      PROVE  [Len(log') > Len(log) => animals[log'[Len(log')].animal].status = "available"]_vars
  <2> SUFFICES ASSUME vars' # vars, Len(log') > Len(log)
               PROVE  animals[log'[Len(log')].animal].status = "available"
    OBVIOUS
  <2>1. PICK t \in Tasks : AdoptionStep(t) \/ AccountStep(t) \/ StatementFails(t)
    BY <1>1 DEF Next, AllAnswered
  <2>2. log \in Seq(RequestRow) /\ StillSo(t)
    BY <1>1 DEF KInv, JInv, IInv, TypeOK, TablesOK
  <2>3. log' # log
    BY <2>2
  <2> DEFINE row == [animal |-> call[t].on, user |-> call[t].by]
  <2>4. pc[t] = "insert" /\ call[t].op = "adopt" /\ InsertRequestRow(row)
    BY <1>1, <2>1, <2>3, LogGrowsByInsert
  <2>5. log'[Len(log')] = row
    <3>1. log' = Append(log, row)
      BY <2>4 DEF InsertRequestRow
    <3> HIDE DEF row
    <3> QED BY <2>2, <3>1
  <2>6. Row(t) = animals[row.animal]
    BY <2>4 DEF Row, Subject, Decides
  <2> QED BY <2>2, <2>4, <2>5, <2>6 DEF StillSo
<1>2. KInv /\ [Next]_vars =>
        [Len(log') > Len(log) => animals[log'[Len(log')].animal].status = "available"]_vars
  BY <1>1
<1>3. Spec => []KInv
  BY SerialInvariant
<1> QED BY <1>2, <1>3, PTL DEF Spec, RequestForAvailable

\* Only the write of an acceptance gives an animal an adopter.
LEMMA AdoptersByAcceptance ==
  ASSUME KInv, NEW t \in Tasks, AdoptionStep(t) \/ AccountStep(t) \/ StatementFails(t),
         NEW a \in Animals, animals[a] # Null, animals'[a] # Null,
         animals'[a].owner \notin {Null, animals[a].owner}
  PROVE  /\ pc[t] = "adopt" /\ call[t].op = "accept" /\ a = Subject(t)
         /\ animals'[a].owner = Request(t).user
         /\ Request(t) = [animal |-> a, user |-> Request(t).user]
<1>1. /\ TablesOK /\ CallOK(t) /\ IInv /\ FreshIds /\ a \notin unused
      /\ animals \in [Animals -> AnimalRow \cup {Null}] /\ animals'[a] # animals[a]
  BY DEF KInv, JInv, IInv, CallsInv, TypeOK, TablesOK, FreshIds
<1>2. ~UNCHANGED tables
  BY <1>1 DEF tables
<1>3. CASE AdoptAnimal(t)
  <2>1. pc[t] = "adopt" /\ call[t].op = "accept" /\ Subject(t) \in Animals /\ Row(t) \in AnimalRow
        /\ Request(t) = [animal |-> Subject(t), user |-> Request(t).user]
        /\ WriteAnimalRow(Subject(t),
             [Row(t) EXCEPT !.status = "adopted", !.owner = Request(t).user])
    BY <1>1, <1>2, <1>3, SubjectType DEF AdoptAnimal, CallOK
  <2>2. a = Subject(t)
    BY <1>1, <2>1 DEF WriteAnimalRow
  <2>3. animals'[a].owner = Request(t).user
    BY <1>1, <2>1, <2>2 DEF WriteAnimalRow, AnimalRow
  <2> QED BY <2>1, <2>2, <2>3
<1>4. ASSUME UpdateAnimal(t)
      PROVE  FALSE
  <2>1. /\ Subject(t) \in Animals /\ Row(t) \in AnimalRow
        /\ WriteAnimalRow(Subject(t), Changed(Row(t), call[t].set))
    BY <1>1, <1>2, <1>4, SubjectType DEF UpdateAnimal
  <2>2. a = Subject(t) /\ animals'[a] = Changed(Row(t), call[t].set)
    BY <1>1, <2>1 DEF WriteAnimalRow
  <2>3. Changed(Row(t), call[t].set).owner \in {Null, Row(t).owner}
    BY <2>1 DEF Changed, AnimalRow
  <2> QED BY <2>2, <2>3 DEF Row
<1>5. ASSUME PublishAnimal(t)
      PROVE  FALSE
  BY <1>1, <1>2, <1>5 DEF PublishAnimal, WriteAnimalRow
<1>6. ASSUME RemoveAnimal(t) \/ DeleteOrg(t)
      PROVE  FALSE
  BY <1>1, <1>6 DEF RemoveAnimal, DeleteOrg, DeleteAnimalRow, DeleteOrgRow
<1>7. ASSUME DeleteUser(t)
      PROVE  FALSE
  <2>1. animals'[a] \in {Null, Disown(animals[a], call[t].on)}
    BY <1>7 DEF DeleteUser, DeleteUserRow
  <2>2. animals[a] \in AnimalRow
    BY <1>1
  <2> QED BY <2>1, <2>2 DEF Disown, AnimalRow
<1>8. AdoptionStep(t) \/ DeleteOrg(t) \/ DeleteUser(t)
  BY <1>1, <1>2 DEF AccountStep, ReceiveAccountCall, Begin, CheckUnaffiliated, InsertOrg,
       LinkFounder, ReadFounder, ReadOrg, ReadAccount, InsertOrgRow, LinkOrg, StatementFails
<1>9. AdoptAnimal(t) \/ UpdateAnimal(t) \/ PublishAnimal(t) \/ RemoveAnimal(t)
  BY <1>1, <1>2, <1>6, <1>7, <1>8
     DEF AdoptionStep, ReceiveAdoptionCall, Begin, ReadRequest, ReadAnimal, CheckMember,
         InsertRequest, InsertRequestRow, ReadApplicant, ReadAdoptable, ClearRequests,
         DenyRequest, DeleteRequestRows
<1> QED BY <1>3, <1>4, <1>5, <1>6, <1>9

\* AdoptRequestService::Accept: the request that was read is there when the
\* adopter is written, while calls do not overlap.
THEOREM SerialAdoptionsAnswerRequests ==
  ASSUME InFlight = 1
  PROVE  Spec => AdoptionAnswersRequest
<1>1. ASSUME KInv, [Next]_vars, vars' # vars, NEW a \in Animals, animals[a] # Null,
             animals'[a] # Null, animals'[a].owner \notin {Null, animals[a].owner}
      PROVE  \E r \in requests : log[r] = [animal |-> a, user |-> animals'[a].owner]
  <2>1. PICK t \in Tasks : AdoptionStep(t) \/ AccountStep(t) \/ StatementFails(t)
    BY <1>1 DEF Next, AllAnswered
  <2>2. /\ pc[t] = "adopt" /\ call[t].op = "accept"
        /\ Request(t) = [animal |-> a, user |-> animals'[a].owner]
    BY <1>1, <2>1, AdoptersByAcceptance
  <2>3. call[t].on \in requests
    BY <1>1, <2>2 DEF KInv, StillSo
  <2> QED BY <2>2, <2>3 DEF Request
<1>2. KInv /\ [Next]_vars =>
        [\A a \in Animals :
           animals[a] # Null /\ animals'[a] # Null
           /\ animals'[a].owner \notin {Null, animals[a].owner}
             => \E r \in requests : log[r] = [animal |-> a, user |-> animals'[a].owner]]_vars
  BY <1>1
<1>3. Spec => []KInv
  BY SerialInvariant
<1> QED BY <1>2, <1>3, PTL DEF Spec, AdoptionAnswersRequest

\* AnimalService::Adopt: nobody loses an adopted animal to somebody else while
\* calls do not overlap, although the UPDATE does not test the status.
THEOREM SerialAdoptersKept ==
  ASSUME InFlight = 1
  PROVE  Spec => AdopterKept
<1>1. ASSUME KInv, [Next]_vars, vars' # vars, NEW a \in Animals, animals[a] # Null,
             animals'[a] # Null, animals[a].owner # Null
      PROVE  animals'[a].owner \in {animals[a].owner, Null}
  <2> SUFFICES ASSUME animals'[a].owner \notin {Null, animals[a].owner}
               PROVE  FALSE
    OBVIOUS
  <2>1. PICK t \in Tasks : AdoptionStep(t) \/ AccountStep(t) \/ StatementFails(t)
    BY <1>1 DEF Next, AllAnswered
  <2>2. pc[t] = "adopt" /\ a = Subject(t)
    BY <1>1, <2>1, AdoptersByAcceptance
  <2>3. animals[a].status = "available"
    BY <1>1, <2>2 DEF KInv, StillSo, Row
  <2>4. animals[a].status = "adopted"
    BY <1>1 DEF KInv, JInv, IInv, TablesInv, OwnerIsAdopted
  <2> QED BY <2>3, <2>4
<1>2. KInv /\ [Next]_vars =>
        [\A a \in Animals :
           animals[a] # Null /\ animals'[a] # Null /\ animals[a].owner # Null
             => animals'[a].owner \in {animals[a].owner, Null}]_vars
  BY <1>1
<1>3. Spec => []KInv
  BY SerialInvariant
<1> QED BY <1>2, <1>3, PTL DEF Spec, AdopterKept

\* OrganizationService::Register: whoever founds a shelter has none, while
\* calls do not overlap.
THEOREM SerialOneShelterPerUser ==
  ASSUME InFlight = 1
  PROVE  Spec => OneShelterPerUser
<1>1. ASSUME KInv, [Next]_vars, vars' # vars, NEW u \in Users, orgOf[u] # Null
      PROVE  orgOf'[u] \in {orgOf[u], Null}
  <2>1. PICK t \in Tasks : AdoptionStep(t) \/ AccountStep(t) \/ StatementFails(t)
    BY <1>1 DEF Next, AllAnswered
  <2>2. MembersKept(t) /\ StillSo(t)
    BY <1>1, <2>1, StepEffect DEF Effect, KInv
  <2> QED BY <1>1, <2>2 DEF MembersKept, StillSo
<1>2. KInv /\ [Next]_vars => [\A u \in Users : orgOf[u] # Null => orgOf'[u] \in {orgOf[u], Null}]_vars
  BY <1>1
<1>3. Spec => []KInv
  BY SerialInvariant
<1> QED BY <1>2, <1>3, PTL DEF Spec, OneShelterPerUser

-----------------------------------------------------------------------------
(* Shelters nobody belongs to.                                             *)

Failed == {t \in Tasks : reply[t] = 500}

OrphansCounted ==
  IsFiniteSet(Failed) /\ IsFiniteSet(Orphans) /\ Cardinality(Orphans) <= Cardinality(Failed)

\* Failures are not forgotten.
LEMMA FailuresStay ==
  ASSUME InFlight = 1, KInv, NEW t \in Tasks,
         AdoptionStep(t) \/ AccountStep(t) \/ StatementFails(t)
  PROVE  /\ Failed' = Failed \/ Failed' = Failed \cup {t}
         /\ t \in Failed => Failed' = Failed /\ ~Running(t)
<1>1. OthersStay(t) /\ TypeOK /\ AnsweredIsDone
  BY StepEffect DEF KInv, JInv, IInv, Effect
<1>2. t \in Failed => ~Running(t)
  BY <1>1 DEF Failed, AnsweredIsDone, Running
<1>3. t \in Failed => reply' = reply
  BY <1>1, <1>2, GoesOnOrAnswers DEF ReceiveAdoptionCall, ReceiveAccountCall, Begin
<1> QED BY <1>1, <1>2, <1>3 DEF OthersStay, Failed

\* A statement that leaves memberships and shelters alone orphans none, unless
\* it ends a registration before its link.
LEMMA OrphansStay ==
  ASSUME NEW t \in Tasks, OthersStay(t), users' = users, orgOf' = orgOf, orgs' = orgs,
         pc[t] # "link"
  PROVE  Orphans' \subseteq Orphans
BY DEF Orphans, OthersStay

\* Only a registration that fails at its second write leaves a shelter.
LEMMA OrphansGrow ==
  ASSUME InFlight = 1, KInv, NEW t \in Tasks,
         AdoptionStep(t) \/ AccountStep(t) \/ StatementFails(t)
  PROVE  \/ Orphans' \subseteq Orphans
         \/ /\ Running(t) /\ reply'[t] = 500
            /\ Orphans' \subseteq Orphans \cup {seen[t]}
<1>1. /\ OthersStay(t) /\ TypeOK /\ TablesOK /\ StillSo(t) /\ CallOK(t)
  BY StepEffect DEF KInv, JInv, IInv, Effect, CallsInv, TypeOK
<1>2. CASE LinkFounder(t)
  <2>1. CASE LinkOrg(call[t].by, seen[t]) /\ call[t].by \in users
    <3>1. /\ users' = users /\ orgs' = orgs /\ call[t].by \in Users
          /\ orgOf' = [orgOf EXCEPT ![call[t].by] = seen[t]]
      BY <1>1, <2>1 DEF LinkOrg, TablesOK
    <3>2. orgOf[call[t].by] = Null /\ Null \notin Orgs /\ orgs \subseteq Orgs
      BY <1>1, <1>2, SchemaAssumption DEF LinkFounder, StillSo, TablesOK
    <3>3. orgOf'[call[t].by] = seen[t]
          /\ \A u \in users \ {call[t].by} : orgOf'[u] = orgOf[u]
      BY <1>1, <3>1 DEF TablesOK
    <3>4. Orphans' \subseteq Orphans
      BY <1>1, <2>1, <3>1, <3>2, <3>3 DEF Orphans, OthersStay
    <3> QED BY <3>4
  <2>2. CASE Reply(t, 500) /\ UNCHANGED tables
    <3>1. Running(t) /\ reply'[t] = 500
      BY <1>1, <1>2, <2>2, ReplyEffect DEF LinkFounder, Running
    <3>2. Orphans' \subseteq Orphans \cup {seen[t]}
      BY <1>1, <2>2 DEF Orphans, OthersStay, tables
    <3> QED BY <3>1, <3>2
  <2> QED BY <1>2, <2>1, <2>2 DEF LinkFounder
<1>3. CASE StatementFails(t)
  <2>1. Running(t) /\ reply'[t] = 500
    BY <1>1, <1>3, ReplyEffect DEF StatementFails
  <2>2. Orphans' \subseteq Orphans \cup {seen[t]}
    BY <1>1, <1>3 DEF StatementFails, Orphans, OthersStay, tables
  <2> QED BY <2>1, <2>2
<1>4. CASE InsertOrg(t)
  <2>1. CASE \E o : InsertOrgRow(o) /\ Carry(t, "link", o)
    <3>1. PICK o : InsertOrgRow(o) /\ Carry(t, "link", o)
      BY <2>1
    <3>2. pc'[t] = "link" /\ seen'[t] = o
      BY <1>1, <3>1, MoveEffect
    <3>3. users' = users /\ orgOf' = orgOf /\ orgs' = orgs \cup {o}
      BY <3>1 DEF InsertOrgRow
    <3>4. pc[t] # "link"
      BY <1>4 DEF InsertOrg
    <3> QED BY <1>1, <3>2, <3>3, <3>4 DEF Orphans, OthersStay
  <2>2. CASE UNCHANGED tables
    BY <1>1, <1>4, <2>2, OrphansStay DEF InsertOrg, tables
  <2> QED BY <1>4, <2>1, <2>2 DEF InsertOrg
<1>5. CASE DeleteOrg(t)
  <2>1. /\ orgs' = orgs \ {call[t].on} /\ users' = users /\ pc[t] # "link"
        /\ \A u \in Users : orgOf'[u] = IF orgOf[u] = call[t].on THEN Null ELSE orgOf[u]
    BY <1>5 DEF DeleteOrg, DeleteOrgRow
  <2> QED BY <1>1, <2>1 DEF Orphans, OthersStay, TablesOK
<1>6. CASE DeleteUser(t)
  <2> DEFINE v == call[t].on
  <2>1. /\ orgs' = orgs \ {orgOf[v]} /\ users' = users \ {v} /\ pc[t] # "link"
        /\ \A u \in Users :
             orgOf'[u] = IF u = v \/ orgOf[u] = orgOf[v] THEN Null ELSE orgOf[u]
    BY <1>6 DEF DeleteUser, DeleteUserRow
  <2> QED BY <1>1, <2>1 DEF Orphans, OthersStay, TablesOK
<1>7. CASE AdoptionStep(t)
  <2>1. CASE \/ ReceiveAdoptionCall(t) \/ ReadRequest(t) \/ ReadAnimal(t) \/ CheckMember(t)
             \/ ReadApplicant(t) \/ ReadAdoptable(t)
    <3>1. users' = users /\ orgOf' = orgOf /\ orgs' = orgs /\ pc[t] # "link"
      BY <2>1 DEF ReceiveAdoptionCall, Begin, ReadRequest, ReadAnimal, CheckMember,
           ReadApplicant, ReadAdoptable, tables
    <3> QED BY <1>1, <3>1, OrphansStay
  <2>2. CASE \/ InsertRequest(t) \/ AdoptAnimal(t) \/ ClearRequests(t) \/ DenyRequest(t)
             \/ UpdateAnimal(t) \/ RemoveAnimal(t) \/ PublishAnimal(t)
    <3>1. \/ UNCHANGED tables
          \/ \E row : InsertRequestRow(row)
          \/ \E a, row : WriteAnimalRow(a, row)
          \/ \E gone : DeleteRequestRows(gone)
          \/ \E a : DeleteAnimalRow(a)
      BY <2>2 DEF InsertRequest, AdoptAnimal, ClearRequests, DenyRequest, UpdateAnimal,
           RemoveAnimal, PublishAnimal
    <3>2. users' = users /\ orgOf' = orgOf /\ orgs' = orgs
      BY <3>1 DEF InsertRequestRow, WriteAnimalRow, DeleteRequestRows, DeleteAnimalRow, tables
    <3>3. pc[t] # "link"
      BY <2>2 DEF InsertRequest, AdoptAnimal, ClearRequests, DenyRequest, UpdateAnimal,
           RemoveAnimal, PublishAnimal
    <3> QED BY <1>1, <3>2, <3>3, OrphansStay
  <2> QED BY <1>7, <2>1, <2>2 DEF AdoptionStep
<1>8. CASE \/ ReceiveAccountCall(t) \/ CheckUnaffiliated(t) \/ ReadFounder(t) \/ ReadOrg(t)
           \/ ReadAccount(t)
  <2>1. users' = users /\ orgOf' = orgOf /\ orgs' = orgs /\ pc[t] # "link"
    BY <1>8 DEF ReceiveAccountCall, Begin, CheckUnaffiliated, ReadFounder, ReadOrg, ReadAccount,
         tables
  <2> QED BY <1>1, <2>1, OrphansStay
<1> QED BY <1>2, <1>3, <1>4, <1>5, <1>6, <1>7, <1>8 DEF AccountStep

\* Each orphan has a failed call to show for it.
LEMMA OrphansCountedKept ==
  ASSUME InFlight = 1, KInv, OrphansCounted, NEW t \in Tasks,
         AdoptionStep(t) \/ AccountStep(t) \/ StatementFails(t)
  PROVE  OrphansCounted'
<1>1. /\ IsFiniteSet(Failed) /\ IsFiniteSet(Orphans)
      /\ Cardinality(Orphans) <= Cardinality(Failed)
      /\ Cardinality(Orphans) \in Nat /\ Cardinality(Failed) \in Nat
  BY FS_CardinalityType DEF OrphansCounted
<1>2. IsFiniteSet(Failed') /\ Cardinality(Failed') \in Nat
      /\ Cardinality(Failed') >= Cardinality(Failed)
  <2>1. CASE Failed' = Failed
    BY <1>1, <2>1
  <2>2. CASE Failed' = Failed \cup {t}
    <3>1. PICK more : more = Failed \cup {t}
      OBVIOUS
    <3>2. /\ IsFiniteSet(more) /\ Cardinality(more) \in Nat
          /\ Cardinality(more) \in {Cardinality(Failed), Cardinality(Failed) + 1}
      BY <1>1, <3>1, FS_AddElement, FS_CardinalityType
    <3> QED BY <1>1, <2>2, <3>1, <3>2
  <2> QED BY <2>1, <2>2, FailuresStay
<1>3. CASE Orphans' \subseteq Orphans
  <2>1. IsFiniteSet(Orphans') /\ Cardinality(Orphans') <= Cardinality(Orphans)
        /\ Cardinality(Orphans') \in Nat
    BY <1>1, <1>3, FS_Subset, FS_CardinalityType
  <2> QED BY <1>1, <1>2, <2>1 DEF OrphansCounted
<1>4. CASE Running(t) /\ reply'[t] = 500 /\ Orphans' \subseteq Orphans \cup {seen[t]}
  <2>1. t \notin Failed /\ t \in Failed'
    BY <1>4, FailuresStay DEF Failed
  <2>2. Failed' = Failed \cup {t}
    BY <2>1, FailuresStay
  <2>3. Cardinality(Failed') = Cardinality(Failed) + 1
    BY <1>1, <2>1, <2>2, FS_AddElement
  <2>4. PICK more : more = Orphans \cup {seen[t]}
    OBVIOUS
  <2>5. IsFiniteSet(more) /\ Cardinality(more) \in Nat
        /\ Cardinality(more) <= Cardinality(Orphans) + 1
    BY <1>1, <2>4, FS_AddElement, FS_CardinalityType
  <2>6. IsFiniteSet(Orphans') /\ Cardinality(Orphans') <= Cardinality(more)
        /\ Cardinality(Orphans') \in Nat
    BY <1>4, <2>4, <2>5, FS_Subset, FS_CardinalityType
  <2> QED BY <1>1, <1>2, <2>3, <2>5, <2>6 DEF OrphansCounted
<1> QED BY <1>3, <1>4, OrphansGrow

\* OrganizationService::Register: while calls do not overlap, a shelter without
\* members is the trace of a call that failed between its two writes.
THEOREM SerialOrphansAreFailures ==
  ASSUME InFlight = 1
  PROVE  Spec => []NoOrphanShelter
<1>1. Init => OrphansCounted
  <2> SUFFICES ASSUME Init
               PROVE  OrphansCounted
    OBVIOUS
  <2>1. Failed = {}
    BY DEF Init, CallsInit, Failed
  <2>2. Orphans = {}
    BY DEF Init, TablesInit, Orphans
  <2> QED BY <2>1, <2>2, FS_EmptySet DEF OrphansCounted
<1>2. KInv /\ OrphansCounted /\ [Next]_vars => OrphansCounted'
  <2> SUFFICES ASSUME KInv, OrphansCounted, [Next]_vars
               PROVE  OrphansCounted'
    OBVIOUS
  <2>1. CASE UNCHANGED vars
    <3>1. Failed' = Failed /\ Orphans' = Orphans
      BY <2>1 DEF vars, callVars, tables, Failed, Orphans
    <3> QED BY <3>1 DEF OrphansCounted
  <2> QED BY <2>1, OrphansCountedKept DEF Next, AllAnswered
<1>3. OrphansCounted => NoOrphanShelter
  BY DEF OrphansCounted, NoOrphanShelter, Failed
<1>4. Spec => []KInv
  BY SerialInvariant
<1> QED BY <1>1, <1>2, <1>3, <1>4, PTL DEF Spec
=============================================================================
