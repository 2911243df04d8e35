-------------------------- MODULE CommunityProofs --------------------------
(***************************************************************************)
(* What holds of reviews and accounts for any number of users, animals and *)
(* concurrent calls.  A step is sound if the tables stay good, the call    *)
(* that moves knows what its next statement needs, and the rows evolve in  *)
(* a way that keeps what the other calls know.                             *)
(***************************************************************************)
EXTENDS Community, TLAPS

CommunityOps == {"review", "edit_review", "drop_review", "register", "edit_profile"}

CommunityLabels ==
  {"refuse", "review_animal", "review_org", "review_exists", "insert_review", "name_review",
   "find_review", "write_review", "delete_review", "find_email", "insert_user",
   "find_user", "reread_user", "update_user"}

EmailsOK ==
  \A u \in users :
    LET email == accounts[u].email IN
    /\ ValidEmail(email) /\ LowerText[email] = email
    /\ \A v \in users : accounts[v].email = email => u = v

RowsOK ==
  /\ users \subseteq Users /\ unused \cap users = {}
  /\ reviews \in Seq(ReviewRow \cup {Null})
  /\ accounts \in [Users -> Profile \cup {Null}]
  /\ \A u \in Users : accounts[u] # Null <=> u \in users
  /\ ReviewsStand /\ EmailsOK

\* What a body holds when it has passed the handler's rules.
BodyOK(body) ==
  /\ DOMAIN body \subseteq ProfileFields /\ \A f \in DOMAIN body : body[f] \in Texts
  /\ "email" \in DOMAIN body => ValidEmail(body.email) /\ LowerText[body.email] = body.email

\* The review in the path is the caller's, or gone, and its id not reused.
Authored(t) ==
  /\ call[t].on \in DOMAIN reviews
  /\ reviews[call[t].on] # Null => reviews[call[t].on].user = call[t].by

\* Which endpoint a call serves at each label and what its input is by then.
CallOK(t) ==
  Running(t) =>
    /\ pc[t] \in CommunityLabels <=> call[t].op \in CommunityOps
    /\ pc[t] = "read_request" => call[t].op \in {"accept", "deny"}
    /\ pc[t] = "read_animal" =>
         call[t].op \in {"adopt", "remove", "update", "accept", "deny"}
    /\ pc[t] = "read_member" =>
         call[t].op \in {"remove", "update", "accept", "deny", "publish"}
    /\ pc[t] \in {"review_animal", "review_org", "review_exists", "insert_review"} =>
         /\ call[t].op = "review" /\ call[t].by \in Users
         /\ call[t].on \in Animals /\ call[t].text \in Texts
    /\ pc[t] = "name_review" => call[t].op \in {"review", "edit_review"}
    /\ pc[t] = "find_review" =>
         /\ call[t].op \in {"edit_review", "drop_review"}
         /\ call[t].op = "edit_review" => call[t].text \in Texts \cup {Null}
    /\ pc[t] = "write_review" =>
         call[t].op = "edit_review" /\ call[t].text \in Texts /\ Authored(t)
    /\ pc[t] = "delete_review" => call[t].op = "drop_review" /\ Authored(t)
    /\ pc[t] \in {"find_email", "insert_user"} =>
         call[t].op = "register" /\ call[t].body \in Profile /\ BodyOK(call[t].body)
    /\ pc[t] \in {"find_user", "reread_user", "update_user"} =>
         /\ call[t].op = "edit_profile" /\ call[t].by \in Users
         /\ call[t].by = call[t].on /\ BodyOK(call[t].body)

\* What a call that nothing ran beside has read is still so.
Fresh(t) ==
  /\ pc[t] \in {"review_org", "review_exists", "insert_review"} =>
       animals[call[t].on] # Null
  /\ pc[t] = "insert_review" => ~Reviewed(call[t].by, call[t].on)
  /\ pc[t] \in {"write_review", "name_review"} /\ call[t].op = "edit_review" =>
       animals[seen[t]] # Null

CallsOK ==
  DOMAIN pc = Tasks /\ DOMAIN call = Tasks /\ DOMAIN seen = Tasks /\ DOMAIN reply = Tasks

AloneOK(t) ==
  t \in alone /\ Running(t) => Fresh(t) /\ \A s \in Tasks \ {t} : ~Running(s)

CInv == RowsOK /\ CallsOK /\ (\A t \in Tasks : CallOK(t)) /\ (\A t \in Tasks : AloneOK(t))

-----------------------------------------------------------------------------
(* What one step does to the calls and to the rows.                        *)

\* The calls but t stay where they are.
Moves(t) ==
  /\ CallsOK'
  /\ \A s \in Tasks \ {t} :
       pc'[s] = pc[s] /\ call'[s] = call[s] /\ seen'[s] = seen[s] /\ reply'[s] = reply[s]

\* A review keeps its author and its animal, and ids are not reused.
Evolves ==
  /\ DOMAIN reviews \subseteq DOMAIN reviews'
  /\ \A i \in DOMAIN reviews :
       reviews'[i] = Null \/ (reviews[i] # Null /\ reviews'[i].user = reviews[i].user)

Wakes(t) == Running(t) \/ (pc[t] = "idle" /\ Running(t)' /\ reply' = reply)

Sound(t) ==
  RowsOK' /\ Moves(t) /\ Evolves /\ CallOK(t)' /\ (Fresh(t) => Fresh(t)') /\ Wakes(t)

\* A call begins at the label it is given and knows its input.
LEMMA BeginMoves ==
  ASSUME CallsOK, NEW t \in Tasks, NEW c, NEW label, NEW carried, Begin(t, c, label, carried)
  PROVE  /\ Moves(t) /\ UNCHANGED tables /\ reply' = reply /\ pc[t] = "idle"
         /\ pc'[t] = label /\ call'[t] = c /\ seen'[t] = carried
BY DEF CallsOK, Begin, Moves

\* A call that goes on keeps its input and what it carries.
LEMMA GotoMoves ==
  ASSUME CallsOK, NEW t \in Tasks, NEW label, Goto(t, label)
  PROVE  /\ Moves(t) /\ reply' = reply
         /\ pc'[t] = label /\ call'[t] = call[t] /\ seen'[t] = seen[t]
BY DEF CallsOK, Goto, Moves

\* A call that takes something along keeps its input.
LEMMA CarryMoves ==
  ASSUME CallsOK, NEW t \in Tasks, NEW label, NEW value, Carry(t, label, value)
  PROVE  /\ Moves(t) /\ reply' = reply
         /\ pc'[t] = label /\ call'[t] = call[t] /\ seen'[t] = value
BY DEF CallsOK, Carry, Moves

\* A call that is answered is done, and nothing is asked of it any more.
LEMMA ReplyMoves ==
  ASSUME CallsOK, NEW t \in Tasks, NEW status, Reply(t, status)
  PROVE  /\ Moves(t) /\ pc'[t] = "done" /\ reply'[t] = status
         /\ CallOK(t)' /\ Fresh(t)'
<1>1. Moves(t) /\ pc'[t] = "done" /\ reply'[t] = status
  BY DEF CallsOK, Reply, Moves
<1>2. CallOK(t)' /\ Fresh(t)'
  BY <1>1 DEF CallOK, Fresh, Running
<1> QED BY <1>1, <1>2

\* A step that leaves the rows alone keeps them good.
LEMMA SameRows ==
  ASSUME RowsOK, users' = users, animals' = animals, unused' = unused,
         reviews' = reviews, accounts' = accounts
  PROVE  RowsOK' /\ Evolves
<1>1. RowsOK'
  BY DEF RowsOK, ReviewsStand, EmailsOK
<1>2. Evolves
  BY DEF Evolves
<1> QED BY <1>1, <1>2

\* The statements of adoption and account calls only take users and ids away;
\* the cascades take along what would dangle and change nothing else.
LEMMA CascadeSound ==
  ASSUME RowsOK, users' \subseteq users, unused' \subseteq unused, Cascade
  PROVE  RowsOK' /\ Evolves
<1>1. /\ reviews \in Seq(ReviewRow \cup {Null})
      /\ accounts \in [Users -> Profile \cup {Null}]
      /\ users \subseteq Users
      /\ \A u \in Users : accounts[u] # Null <=> u \in users
  BY DEF RowsOK
<1>2. /\ DOMAIN reviews' = DOMAIN reviews
      /\ \A i \in DOMAIN reviews :
           \/ reviews'[i] = Null
           \/ /\ reviews'[i] = reviews[i] /\ reviews[i] # Null
              /\ reviews[i].user \in users' /\ animals'[reviews[i].animal] # Null
  BY DEF Cascade, ReviewsWithout
<1>3. reviews' \in Seq(ReviewRow \cup {Null})
  <2>1. /\ DOMAIN reviews = 1..Len(reviews) /\ Len(reviews) \in Nat
        /\ \A i \in 1..Len(reviews) : reviews[i] \in ReviewRow \cup {Null}
    BY <1>1
  <2>2. reviews' \in [1..Len(reviews) -> ReviewRow \cup {Null}]
    BY <1>2, <2>1 DEF Cascade, ReviewsWithout
  <2> QED BY <2>1, <2>2
<1>4. /\ accounts' \in [Users -> Profile \cup {Null}]
      /\ \A u \in Users : accounts'[u] # Null <=> u \in users'
      /\ \A u \in users' : accounts'[u] = accounts[u]
  BY <1>1 DEF Cascade, AccountsOf
<1>5. ReviewsStand'
  BY <1>2 DEF RowsOK, ReviewsStand
<1>6. EmailsOK'
  BY <1>1, <1>4 DEF RowsOK, EmailsOK
<1>7. users' \subseteq Users /\ unused' \cap users' = {}
  BY DEF RowsOK
<1>8. RowsOK'
  BY <1>3, <1>4, <1>5, <1>6, <1>7 DEF RowsOK
<1>9. Evolves
  BY <1>2 DEF Evolves
<1> QED BY <1>8, <1>9

-----------------------------------------------------------------------------
(* The steps of adoption and account calls.                                *)

\* What such a step does, whatever it writes: ids only go, no review or
\* profile call moves, and no call becomes one.
Foreign(t) ==
  /\ users' \subseteq users /\ unused' \subseteq unused
  /\ Moves(t) /\ Wakes(t)
  /\ pc[t] \notin CommunityLabels
  /\ CallOK(t)' /\ Fresh(t)'

\* The writing statements of the schema only take users and ids away.
LEMMA StatementsTakeAway ==
  ASSUME \/ UNCHANGED tables
         \/ \E row : InsertRequestRow(row)
         \/ \E gone : DeleteRequestRows(gone)
         \/ \E a, row : WriteAnimalRow(a, row)
         \/ \E a : DeleteAnimalRow(a) \/ InsertOrgRow(a) \/ DeleteOrgRow(a) \/ DeleteUserRow(a)
         \/ \E u, o : LinkOrg(u, o)
  PROVE  users' \subseteq users /\ unused' \subseteq unused
BY DEF tables, InsertRequestRow, DeleteRequestRows, WriteAnimalRow, DeleteAnimalRow,
       InsertOrgRow, DeleteOrgRow, DeleteUserRow, LinkOrg

\* A call of such an endpoint that goes on to a label that asks nothing of it.
LEMMA GoesOn ==
  ASSUME NEW t \in Tasks, Moves(t), Running(t), CallOK(t), pc[t] \notin CommunityLabels,
         call'[t] = call[t],
         pc'[t] \notin CommunityLabels \cup {"idle", "done", "read_request"},
         pc'[t] = "read_animal" => pc[t] = "read_request",
         pc'[t] = "read_member" => pc[t] = "read_animal" /\ call[t].op # "adopt"
  PROVE  CallOK(t)' /\ Fresh(t)'
<1>1. Running(t)'
  BY DEF Running, CommunityLabels
<1>2. call[t].op \notin CommunityOps
  BY DEF CallOK
<1>3. pc'[t] = "read_animal" => call[t].op \in {"accept", "deny"}
  BY DEF CallOK
<1>4. pc'[t] = "read_member" => call[t].op \in {"remove", "update", "accept", "deny"}
  BY DEF CallOK
<1>5. CallOK(t)'
  BY <1>2, <1>3, <1>4 DEF CallOK, CommunityLabels
<1>6. Fresh(t)'
  BY DEF Fresh, CommunityLabels
<1> QED BY <1>5, <1>6

\* A call of such an endpoint begins at one of its labels.
LEMMA ForeignBegins ==
  ASSUME CallsOK, NEW t \in Tasks, ReceiveAdoptionCall(t) \/ ReceiveAccountCall(t)
  PROVE  Foreign(t)
<1>1. PICK c, label, carried :
        /\ Begin(t, c, label, carried)
        /\ c.op \notin CommunityOps /\ label \notin CommunityLabels \cup {"idle", "done"}
        /\ label = "read_request" => c.op \in {"accept", "deny"}
        /\ label = "read_animal" => c.op \in {"adopt", "remove", "update"}
        /\ label = "read_member" => c.op = "publish"
  <2>1. CASE ReceiveAdoptionCall(t)
    <3>1. PICK c \in AdoptionCalls :
            Begin(t, c, FirstStatement[c.op], IF c.op = "publish" THEN c.on ELSE Null)
      BY <2>1 DEF ReceiveAdoptionCall
    <3>2. c.op \in {"adopt", "remove", "accept", "deny", "update", "publish"}
      BY DEF AdoptionCalls
    <3> QED BY <3>1, <3>2 DEF FirstStatement, CommunityOps, CommunityLabels
  <2>2. CASE ReceiveAccountCall(t)
    <3>1. PICK c \in AccountCalls : Begin(t, c, FirstRead[c.op], Null)
      BY <2>2 DEF ReceiveAccountCall
    <3>2. c.op \in {"open_org", "close_org", "close_account"}
      BY DEF AccountCalls
    <3> QED BY <3>1, <3>2 DEF FirstRead, CommunityOps, CommunityLabels
  <2> QED BY <2>1, <2>2
<1>2. /\ Moves(t) /\ UNCHANGED tables /\ reply' = reply /\ pc[t] = "idle"
      /\ pc'[t] = label /\ call'[t] = c
  BY <1>1, BeginMoves
<1>3. CallOK(t)' /\ Fresh(t)'
  BY <1>1, <1>2 DEF CallOK, Fresh, CommunityLabels
<1>4. Wakes(t) /\ pc[t] \notin CommunityLabels
  BY <1>1, <1>2 DEF Wakes, Running, CommunityLabels
<1> QED BY <1>2, <1>3, <1>4 DEF Foreign, tables

\* An adoption call that moves stays one.
LEMMA AdoptionForeign ==
  ASSUME CallsOK, NEW t \in Tasks, CallOK(t), AdoptionStep(t)
  PROVE  Foreign(t)
<1> USE GotoMoves, CarryMoves, ReplyMoves, StatementsTakeAway, GoesOn
<1> USE DEF Foreign, Wakes, Running, CommunityLabels
<1>1. CASE ReceiveAdoptionCall(t)
  BY <1>1, ForeignBegins
<1>2. CASE ReadRequest(t)
  BY <1>2 DEF ReadRequest
<1>3. CASE ReadAnimal(t)
  BY <1>3 DEF ReadAnimal, AnimalMissing
<1>4. CASE CheckMember(t)
  <2>1. call[t].op \in DOMAIN AfterCheck
    BY <1>4 DEF CheckMember, CallOK, AfterCheck
  <2> QED BY <1>4, <2>1 DEF CheckMember, AfterCheck
<1>5. CASE InsertRequest(t)
  BY <1>5 DEF InsertRequest
<1>6. CASE ReadApplicant(t)
  BY <1>6 DEF ReadApplicant
<1>7. CASE ReadAdoptable(t)
  BY <1>7 DEF ReadAdoptable
<1>8. CASE AdoptAnimal(t)
  BY <1>8 DEF AdoptAnimal
<1>9. CASE ClearRequests(t)
  BY <1>9 DEF ClearRequests
<1>10. CASE DenyRequest(t)
  BY <1>10 DEF DenyRequest
<1>11. CASE UpdateAnimal(t)
  BY <1>11 DEF UpdateAnimal
<1>12. CASE RemoveAnimal(t)
  BY <1>12 DEF RemoveAnimal
<1>13. CASE PublishAnimal(t)
  BY <1>13 DEF PublishAnimal
<1> QED
  BY <1>1, <1>2, <1>3, <1>4, <1>5, <1>6, <1>7, <1>8, <1>9, <1>10, <1>11, <1>12, <1>13
     DEF AdoptionStep

\* So does an account call.
LEMMA AccountForeign ==
  ASSUME CallsOK, NEW t \in Tasks, CallOK(t), AccountStep(t)
  PROVE  Foreign(t)
<1> USE GotoMoves, CarryMoves, ReplyMoves, StatementsTakeAway, GoesOn
<1> USE DEF Foreign, Wakes, Running, CommunityLabels
<1>1. CASE ReceiveAccountCall(t)
  BY <1>1, ForeignBegins
<1>2. CASE CheckUnaffiliated(t)
  BY <1>2 DEF CheckUnaffiliated
<1>3. CASE InsertOrg(t)
  BY <1>3 DEF InsertOrg
<1>4. CASE LinkFounder(t)
  BY <1>4 DEF LinkFounder
<1>5. CASE ReadFounder(t)
  BY <1>5 DEF ReadFounder
<1>6. CASE ReadOrg(t)
  BY <1>6 DEF ReadOrg
<1>7. CASE DeleteOrg(t)
  BY <1>7 DEF DeleteOrg
<1>8. CASE ReadAccount(t)
  BY <1>8 DEF ReadAccount
<1>9. CASE DeleteUser(t)
  BY <1>9 DEF DeleteUser
<1> QED
  BY <1>1, <1>2, <1>3, <1>4, <1>5, <1>6, <1>7, <1>8, <1>9 DEF AccountStep

\* A step of such a call is sound with what its cascades do.
LEMMA ForeignSound ==
  ASSUME CInv, NEW t \in Tasks, AdoptionStep(t) \/ AccountStep(t), Cascade
  PROVE  Sound(t) /\ pc[t] \notin CommunityLabels
<1>1. Foreign(t)
  BY AdoptionForeign, AccountForeign DEF CInv
<1>2. RowsOK' /\ Evolves
  BY <1>1, CascadeSound DEF Foreign, CInv
<1> QED BY <1>1, <1>2 DEF Foreign, Sound

-----------------------------------------------------------------------------
(* The steps of review calls.                                              *)

\* A review call that answers is sound as far as the calls go.
LEMMA ReplySound ==
  ASSUME CallsOK, NEW t \in Tasks, Running(t), NEW status, Reply(t, status),
         RowsOK', Evolves
  PROVE  Sound(t)
BY ReplyMoves DEF Sound, Wakes

\* A review call begins with its input, which the handler has validated.
LEMMA ReceiveReviewSound ==
  ASSUME CInv, NEW t \in Tasks, ReceiveReviewCall(t), UNCHANGED accounts
  PROVE  Sound(t) /\ reply' = reply
<1>1. PICK c \in ReviewCalls :
        Begin(t, c, IF ~ValidBody(c) THEN "refuse"
                    ELSE IF c.op = "review" THEN "review_animal" ELSE "find_review", Null)
  BY DEF ReceiveReviewCall
<1> DEFINE label == IF ~ValidBody(c) THEN "refuse"
                    ELSE IF c.op = "review" THEN "review_animal" ELSE "find_review"
<1>2. /\ c.op \in {"review", "edit_review", "drop_review"}
      /\ c.op = "review" => c.by \in Users /\ c.on \in Animals /\ c.text \in ReviewTexts
      /\ c.op = "edit_review" => c.text \in ReviewTexts \cup {Null}
  BY DEF ReviewCalls
<1>3. /\ Moves(t) /\ UNCHANGED tables /\ reply' = reply /\ pc[t] = "idle"
      /\ pc'[t] = label /\ call'[t] = c
  BY <1>1, BeginMoves DEF CInv
<1>4. RowsOK' /\ Evolves
  BY <1>3, SameRows DEF ReceiveReviewCall, tables, CInv
<1>5. CallOK(t)'
  BY <1>2, <1>3, ReviewsAssumption DEF CallOK, CommunityLabels, CommunityOps
<1>6. Fresh(t)' /\ Wakes(t)
  BY <1>3 DEF Fresh, Wakes, Running
<1> QED BY <1>3, <1>4, <1>5, <1>6 DEF Sound

\* A step of a review call that writes nothing keeps the rows.
LEMMA ReadsSound ==
  ASSUME CInv, UNCHANGED <<tables, reviews, accounts>>
  PROVE  RowsOK' /\ Evolves
BY SameRows DEF CInv, tables

\* The three reads before the INSERT, and what each of them establishes.
LEMMA ReviewReadsSound ==
  ASSUME CInv, NEW t \in Tasks, UNCHANGED accounts,
         ReadReviewedAnimal(t) \/ ReadReviewedOrg(t) \/ CheckUnreviewed(t)
  PROVE  Sound(t)
<1>1. /\ Running(t) /\ UNCHANGED <<tables, reviews, accounts>> /\ CallsOK /\ CallOK(t)
      /\ animals' = animals
  BY DEF ReadReviewedAnimal, ReadReviewedOrg, CheckUnreviewed, Running, tables, CInv
<1>2. RowsOK' /\ Evolves
  BY <1>1, ReadsSound
<1>3. CASE \E status : Reply(t, status)
  BY <1>1, <1>2, <1>3, ReplySound
<1>4. CASE ReadReviewedAnimal(t) /\ Carry(t, "review_org", animals[call[t].on].org)
  <2>1. Moves(t) /\ pc'[t] = "review_org" /\ call'[t] = call[t]
    BY <1>1, <1>4, CarryMoves
  <2>2. animals[call[t].on] # Null \/ \E status : Reply(t, status)
    BY <1>4 DEF ReadReviewedAnimal
  <2>3. CASE animals[call[t].on] # Null
    <3>1. CallOK(t)'
      BY <1>1, <1>4, <2>1 DEF CallOK, ReadReviewedAnimal, CommunityLabels, CommunityOps, Running
    <3>2. Fresh(t)' /\ Wakes(t)
      BY <1>1, <2>1, <2>3 DEF Fresh, Wakes
    <3> QED BY <1>2, <2>1, <3>1, <3>2 DEF Sound
  <2> QED BY <1>3, <2>2, <2>3
<1>5. CASE ReadReviewedOrg(t) /\ Goto(t, "review_exists")
  <2>1. Moves(t) /\ pc'[t] = "review_exists" /\ call'[t] = call[t]
    BY <1>1, <1>5, GotoMoves
  <2>2. CallOK(t)'
    BY <1>1, <1>5, <2>1 DEF CallOK, ReadReviewedOrg, CommunityLabels, CommunityOps, Running
  <2>3. (Fresh(t) => Fresh(t)') /\ Wakes(t)
    BY <1>1, <1>5, <2>1 DEF Fresh, Wakes, ReadReviewedOrg
  <2> QED BY <1>2, <2>1, <2>2, <2>3 DEF Sound
<1>6. CASE CheckUnreviewed(t) /\ Goto(t, "insert_review")
  <2>1. Moves(t) /\ pc'[t] = "insert_review" /\ call'[t] = call[t]
    BY <1>1, <1>6, GotoMoves
  <2>2. CallOK(t)'
    BY <1>1, <1>6, <2>1 DEF CallOK, CheckUnreviewed, CommunityLabels, CommunityOps, Running
  <2>3. ~Reviewed(call[t].by, call[t].on) \/ \E status : Reply(t, status)
    BY <1>6 DEF CheckUnreviewed
  <2>4. CASE ~Reviewed(call[t].by, call[t].on)
    <3>1. (Fresh(t) => Fresh(t)') /\ Wakes(t)
      BY <1>1, <1>6, <2>1, <2>4 DEF Fresh, Wakes, CheckUnreviewed, Reviewed
    <3> QED BY <1>2, <2>1, <2>2, <3>1 DEF Sound
  <2> QED BY <1>3, <2>3, <2>4
<1> QED
  BY <1>3, <1>4, <1>5, <1>6 DEF ReadReviewedAnimal, ReadReviewedOrg, CheckUnreviewed

\* A review the constraints accept keeps the reviews unique and attached.
LEMMA InsertReviewSound ==
  ASSUME CInv, NEW t \in Tasks, InsertReview(t), UNCHANGED accounts
  PROVE  Sound(t)
<1>1. Running(t) /\ CallsOK /\ CallOK(t) /\ UNCHANGED tables
  BY DEF InsertReview, Running, CInv
<1>2. CASE Reply(t, 500) /\ UNCHANGED reviews
  BY <1>1, <1>2, ReadsSound, ReplySound
<1> DEFINE row == [animal |-> call[t].on, user |-> call[t].by, text |-> call[t].text]
<1>3. CASE /\ animals[call[t].on] # Null /\ call[t].by \in users
           /\ ~Reviewed(call[t].by, call[t].on)
           /\ reviews' = Append(reviews, row) /\ Goto(t, "name_review")
  <2>1. Moves(t) /\ pc'[t] = "name_review" /\ call'[t] = call[t]
    BY <1>1, <1>3, GotoMoves
  <2>2. /\ call[t].op = "review" /\ row \in ReviewRow
    BY <1>1 DEF CallOK, InsertReview, ReviewRow
  <2>3. reviews \in Seq(ReviewRow \cup {Null})
    BY DEF CInv, RowsOK
  <2>4. /\ reviews' \in Seq(ReviewRow \cup {Null})
        /\ DOMAIN reviews' = DOMAIN reviews \cup {Len(reviews) + 1}
        /\ \A i \in DOMAIN reviews : reviews'[i] = reviews[i]
        /\ reviews'[Len(reviews) + 1] = row
    BY <1>3, <2>2, <2>3
  <2>5. ReviewsStand'
    BY <1>1, <1>3, <2>4 DEF CInv, RowsOK, ReviewsStand, Reviewed, tables
  <2>6. RowsOK'
    BY <1>1, <2>4, <2>5 DEF CInv, RowsOK, EmailsOK, tables
  <2>7. Evolves
    BY <2>4 DEF Evolves
  <2>8. CallOK(t)' /\ Fresh(t)' /\ Wakes(t)
    BY <1>1, <2>1, <2>2 DEF CallOK, Fresh, Wakes, CommunityLabels, CommunityOps
  <2> QED BY <2>1, <2>6, <2>7, <2>8 DEF Sound
<1> QED BY <1>2, <1>3 DEF InsertReview

\* The last statement of a review call and the refusal of its body answer.
LEMMA LastReviewSound ==
  ASSUME CInv, NEW t \in Tasks, RefuseReview(t) \/ NameReview(t), UNCHANGED accounts
  PROVE  Sound(t)
<1>1. /\ Running(t) /\ UNCHANGED <<tables, reviews, accounts>> /\ CallsOK
      /\ \E status : Reply(t, status)
  BY DEF RefuseReview, NameReview, Running, CInv
<1> QED BY <1>1, ReadsSound, ReplySound

\* Who passes the test is the author, and the animal of the review is there.
LEMMA FindReviewSound ==
  ASSUME CInv, NEW t \in Tasks, FindReview(t), UNCHANGED accounts
  PROVE  Sound(t)
<1>1. /\ Running(t) /\ UNCHANGED <<tables, reviews, accounts>> /\ CallsOK /\ CallOK(t)
      /\ animals' = animals
  BY DEF FindReview, Running, tables, CInv
<1>2. RowsOK' /\ Evolves
  BY <1>1, ReadsSound
<1>3. CASE \E status : Reply(t, status)
  BY <1>1, <1>2, <1>3, ReplySound
<1>4. CASE \A status : ~Reply(t, status)
  <2> DEFINE row == reviews[call[t].on]
  <2>1. ReviewIsThere(call[t].on) /\ row.user = call[t].by
    BY <1>4 DEF FindReview
  <2>2. /\ Authored(t) /\ animals[row.animal] # Null
    BY <2>1 DEF Authored, ReviewIsThere, CInv, RowsOK, ReviewsStand
  <2>3. /\ call[t].op \in {"edit_review", "drop_review"}
        /\ call[t].op = "edit_review" => call[t].text \in Texts \cup {Null}
    BY <1>1 DEF CallOK, FindReview
  <2>4. CASE call[t].op = "drop_review"
    <3>1. Moves(t) /\ pc'[t] = "delete_review" /\ call'[t] = call[t]
      BY <1>1, <1>4, <2>1, <2>4, GotoMoves DEF FindReview
    <3>2. CallOK(t)' /\ Fresh(t)' /\ Wakes(t)
      BY <1>1, <2>2, <2>4, <3>1
         DEF CallOK, Authored, Fresh, Wakes, CommunityLabels, CommunityOps
    <3> QED BY <1>2, <3>1, <3>2 DEF Sound
  <2>5. CASE call[t].op = "edit_review"
    <3>1. /\ Moves(t) /\ call'[t] = call[t] /\ seen'[t] = row.animal
          /\ \/ pc'[t] = "name_review"
             \/ pc'[t] = "write_review" /\ call[t].text # Null
      BY <1>1, <1>4, <2>1, <2>5, CarryMoves DEF FindReview
    <3>2. CallOK(t)'
      BY <1>1, <2>2, <2>3, <2>5, <3>1
         DEF CallOK, Authored, CommunityLabels, CommunityOps
    <3>3. Fresh(t)' /\ Wakes(t)
      BY <1>1, <2>2, <3>1 DEF Fresh, Wakes
    <3> QED BY <1>2, <3>1, <3>2, <3>3 DEF Sound
  <2> QED BY <2>3, <2>4, <2>5
<1> QED BY <1>3, <1>4

\* A new text leaves the author and the animal of the review.
LEMMA WriteReviewSound ==
  ASSUME CInv, NEW t \in Tasks, WriteReview(t), UNCHANGED accounts
  PROVE  Sound(t)
<1>1. Running(t) /\ CallsOK /\ CallOK(t) /\ UNCHANGED tables /\ pc[t] = "write_review"
  BY DEF WriteReview, Running, CInv
<1>2. CASE Reply(t, 404) /\ UNCHANGED reviews
  BY <1>1, <1>2, ReadsSound, ReplySound
<1> DEFINE i == call[t].on
<1>3. CASE /\ ReviewIsThere(i) /\ Goto(t, "name_review")
           /\ reviews' = [reviews EXCEPT ![i].text = call[t].text]
  <2>1. Moves(t) /\ pc'[t] = "name_review" /\ call'[t] = call[t] /\ seen'[t] = seen[t]
    BY <1>1, <1>3, GotoMoves
  <2>2. call[t].op = "edit_review" /\ call[t].text \in Texts
    BY <1>1 DEF CallOK
  <2>3. /\ reviews \in Seq(ReviewRow \cup {Null})
        /\ i \in DOMAIN reviews /\ reviews[i] # Null
    BY <1>3 DEF CInv, RowsOK, ReviewIsThere
  <2>4. reviews[i] \in ReviewRow
    BY <2>3
  <2> DEFINE row == [reviews[i] EXCEPT !.text = call[t].text]
  <2>5. /\ row \in ReviewRow /\ row.user = reviews[i].user /\ row.animal = reviews[i].animal
    BY <2>2, <2>4 DEF ReviewRow
  <2>6. /\ reviews' \in Seq(ReviewRow \cup {Null})
        /\ DOMAIN reviews' = DOMAIN reviews /\ reviews'[i] = row
        /\ \A j \in DOMAIN reviews \ {i} : reviews'[j] = reviews[j]
    BY <1>3, <2>3, <2>5
  <2> HIDE DEF row
  <2>7. ReviewsStand'
    BY <1>1, <2>3, <2>5, <2>6 DEF CInv, RowsOK, ReviewsStand, tables
  <2>8. RowsOK'
    BY <1>1, <2>6, <2>7 DEF CInv, RowsOK, EmailsOK, tables
  <2>9. Evolves
    BY <2>3, <2>5, <2>6 DEF Evolves
  <2>10. CallOK(t)' /\ (Fresh(t) => Fresh(t)') /\ Wakes(t)
    BY <1>1, <2>1, <2>2 DEF CallOK, Fresh, Wakes, CommunityLabels, CommunityOps, tables
  <2> QED BY <2>1, <2>8, <2>9, <2>10 DEF Sound
<1> QED BY <1>2, <1>3 DEF WriteReview

\* A review that is deleted leaves the others.
LEMMA DeleteReviewSound ==
  ASSUME CInv, NEW t \in Tasks, DeleteReview(t), UNCHANGED accounts
  PROVE  Sound(t)
<1>1. Running(t) /\ CallsOK /\ UNCHANGED tables
  BY DEF DeleteReview, Running, CInv
<1>2. CASE Reply(t, 404) /\ UNCHANGED reviews
  BY <1>1, <1>2, ReadsSound, ReplySound
<1> DEFINE i == call[t].on
<1>3. CASE ReviewIsThere(i) /\ reviews' = [reviews EXCEPT ![i] = Null] /\ Reply(t, 204)
  <2>1. reviews \in Seq(ReviewRow \cup {Null})
    BY DEF CInv, RowsOK
  <2>2. /\ reviews' \in Seq(ReviewRow \cup {Null})
        /\ DOMAIN reviews' = DOMAIN reviews
        /\ \A j \in DOMAIN reviews : reviews'[j] = Null \/ reviews'[j] = reviews[j]
    <3>1. reviews' = [reviews EXCEPT ![i] = Null] /\ i \in DOMAIN reviews
      BY <1>3 DEF ReviewIsThere
    <3> HIDE DEF i
    <3> QED BY <2>1, <3>1
  <2>3. ReviewsStand'
    BY <1>1, <2>2 DEF CInv, RowsOK, ReviewsStand, tables
  <2>4. RowsOK'
    BY <1>1, <2>2, <2>3 DEF CInv, RowsOK, EmailsOK, tables
  <2>5. Evolves
    BY <2>2 DEF Evolves
  <2> QED BY <1>1, <1>3, <2>4, <2>5, ReplySound
<1> QED BY <1>2, <1>3 DEF DeleteReview

\* Every step of a review call is sound.
LEMMA ReviewSound ==
  ASSUME CInv, NEW t \in Tasks, ReviewStep(t), UNCHANGED accounts
  PROVE  Sound(t)
BY ReceiveReviewSound, ReviewReadsSound, InsertReviewSound, LastReviewSound,
   FindReviewSound, WriteReviewSound, DeleteReviewSound DEF ReviewStep

-----------------------------------------------------------------------------
(* The steps of profile calls.                                             *)

\* Normalising a body leaves its fields and makes its e-mail lower case.
LEMMA NormalisedFields ==
  ASSUME NEW fields \in SUBSET ProfileFields, NEW body \in [fields -> Texts]
  PROVE  /\ Normalised(body) \in [fields -> Texts]
         /\ "email" \in fields => LowerText[Normalised(body).email] = Normalised(body).email
<1>1. CASE "email" \in fields
  <2>1. body.email \in Texts
    BY <1>1
  <2>2. /\ LowerText[body.email] \in Texts
        /\ LowerText[LowerText[body.email]] = LowerText[body.email]
    BY <2>1, ValidatorAssumption
  <2>3. Normalised(body) = [body EXCEPT !.email = LowerText[body.email]]
    BY <1>1 DEF Normalised
  <2> QED BY <1>1, <2>2, <2>3
<1>2. CASE "email" \notin fields
  BY <1>2 DEF Normalised
<1> QED BY <1>1, <1>2

\* A registration begins with a whole body that the Validator accepts.
LEMMA ReceiveRegisterSound ==
  ASSUME CInv, NEW t \in Tasks, ReceiveRegister(t), UNCHANGED reviews
  PROVE  Sound(t)
<1>1. PICK c \in ProfileCalls :
        /\ c.op = "register"
        /\ Begin(t, [c EXCEPT !.body = Normalised(c.body)],
                 IF ValidRegistration(Normalised(c.body)) THEN "find_email" ELSE "refuse", Null)
  BY DEF ReceiveRegister
<1> DEFINE body == Normalised(c.body)
           d == [c EXCEPT !.body = body]
<1>2. c \in [op : {"register"}, body : RegisterBodies]
  BY <1>1 DEF ProfileCalls
<1>3. c.body \in [ProfileFields -> Texts]
  BY <1>2, ProfilesAssumption DEF Profile
<1>4. /\ body \in [ProfileFields -> Texts]
      /\ LowerText[body.email] = body.email
  BY <1>3, NormalisedFields DEF ProfileFields
<1>5. d.op = "register" /\ d.body = body
  BY <1>1, <1>2
<1>6. /\ Moves(t) /\ UNCHANGED tables /\ reply' = reply /\ pc[t] = "idle" /\ call'[t] = d
      /\ \/ pc'[t] = "find_email" /\ ValidRegistration(body)
         \/ pc'[t] = "refuse"
  BY <1>1, BeginMoves DEF CInv
<1>7. RowsOK' /\ Evolves
  BY <1>6, SameRows DEF ReceiveRegister, tables, CInv
<1>8. CallOK(t)'
  <2>1. ValidRegistration(body) => BodyOK(body) /\ body \in Profile
    BY <1>4 DEF ValidRegistration, BodyOK, Profile
  <2> HIDE DEF body, d
  <2> QED BY <1>5, <1>6, <2>1 DEF CallOK, CommunityLabels, CommunityOps
<1>9. Fresh(t)' /\ Wakes(t)
  BY <1>6 DEF Fresh, Wakes, Running
<1> QED BY <1>6, <1>7, <1>8, <1>9 DEF Sound

\* An edit begins with a body the Validator accepts, of the caller's profile.
LEMMA ReceiveEditSound ==
  ASSUME CInv, NEW t \in Tasks, ReceiveEdit(t), UNCHANGED reviews
  PROVE  Sound(t)
<1>1. PICK c \in ProfileCalls :
        /\ c.op = "edit_profile"
        /\ Begin(t, [c EXCEPT !.body = Normalised(c.body)],
                 IF Editable(c) /\ ValidUpdate(Normalised(c.body)) THEN "find_user"
                 ELSE "refuse", Null)
  BY DEF ReceiveEdit
<1> DEFINE body == Normalised(c.body)
           d == [c EXCEPT !.body = body]
<1>2. c \in [op : {"edit_profile"}, by : Users, on : Users, body : ProfileBodies]
  BY <1>1 DEF ProfileCalls
<1>3. PICK fields \in SUBSET ProfileFields : c.body \in [fields -> Texts]
  BY <1>2, ProfilesAssumption
<1>4. /\ body \in [fields -> Texts]
      /\ "email" \in fields => LowerText[body.email] = body.email
  BY <1>3, NormalisedFields
<1>5. d.op = "edit_profile" /\ d.body = body /\ d.by = c.by /\ d.on = c.on /\ c.by \in Users
  BY <1>1, <1>2
<1>6. /\ Moves(t) /\ UNCHANGED tables /\ reply' = reply /\ pc[t] = "idle" /\ call'[t] = d
      /\ \/ pc'[t] = "find_user" /\ c.by = c.on /\ ValidUpdate(body)
         \/ pc'[t] = "refuse"
  BY <1>1, BeginMoves DEF CInv, Editable
<1>7. RowsOK' /\ Evolves
  BY <1>6, SameRows DEF ReceiveEdit, tables, CInv
<1>8. CallOK(t)'
  <2>1. ValidUpdate(body) => BodyOK(body)
    BY <1>4 DEF ValidUpdate, BodyOK
  <2> HIDE DEF body, d
  <2> QED BY <1>5, <1>6, <2>1 DEF CallOK, CommunityLabels, CommunityOps
<1>9. Fresh(t)' /\ Wakes(t)
  BY <1>6 DEF Fresh, Wakes, Running
<1> QED BY <1>6, <1>7, <1>8, <1>9 DEF Sound

\* The reads of profile calls write nothing.
LEMMA ProfileReadsSound ==
  ASSUME CInv, NEW t \in Tasks, UNCHANGED reviews,
         RefuseProfile(t) \/ FindEmail(t) \/ FindUser(t) \/ RereadUser(t)
  PROVE  Sound(t)
<1>1. Running(t) /\ UNCHANGED <<tables, reviews, accounts>> /\ CallsOK /\ CallOK(t)
  BY DEF RefuseProfile, FindEmail, FindUser, RereadUser, Running, CInv
<1>2. RowsOK' /\ Evolves
  BY <1>1, ReadsSound
<1>3. CASE \E status : Reply(t, status)
  BY <1>1, <1>2, <1>3, ReplySound
<1>4. CASE FindEmail(t) /\ Goto(t, "insert_user")
  <2>1. Moves(t) /\ pc'[t] = "insert_user" /\ call'[t] = call[t]
    BY <1>1, <1>4, GotoMoves
  <2>2. CallOK(t)'
    BY <1>1, <1>4, <2>1 DEF CallOK, FindEmail, CommunityLabels, CommunityOps
  <2>3. Fresh(t)' /\ Wakes(t)
    BY <1>1, <2>1 DEF Fresh, Wakes
  <2> QED BY <1>2, <2>1, <2>2, <2>3 DEF Sound
<1>5. CASE FindUser(t) /\ (Goto(t, "reread_user") \/ Goto(t, "update_user"))
  <2>1. Moves(t) /\ pc'[t] \in {"reread_user", "update_user"} /\ call'[t] = call[t]
    BY <1>1, <1>5, GotoMoves
  <2>2. CallOK(t)'
    BY <1>1, <1>5, <2>1 DEF CallOK, FindUser, CommunityLabels, CommunityOps
  <2>3. Fresh(t)' /\ Wakes(t)
    BY <1>1, <2>1 DEF Fresh, Wakes
  <2> QED BY <1>2, <2>1, <2>2, <2>3 DEF Sound
<1> QED BY <1>3, <1>4, <1>5 DEF RefuseProfile, FindEmail, FindUser, RereadUser

\* A new account takes an id that was never used and an e-mail nobody has.
LEMMA InsertUserSound ==
  ASSUME CInv, NEW t \in Tasks, InsertUser(t), UNCHANGED reviews
  PROVE  Sound(t)
<1>1. Running(t) /\ CallsOK /\ CallOK(t) /\ pc[t] = "insert_user" /\ reviews' = reviews
  BY DEF InsertUser, Running, CInv
<1>2. CASE Reply(t, 409) /\ UNCHANGED <<tables, accounts>>
  BY <1>1, <1>2, ReadsSound, ReplySound
<1> DEFINE body == call[t].body
<1>3. CASE /\ \A u \in Users : ~HasEmail(u, body.email)
           /\ Reply(t, 201) /\ animals' = animals
           /\ \E u \in unused \cap Users :
                /\ users' = users \cup {u} /\ unused' = unused \ {u}
                /\ accounts' = [accounts EXCEPT ![u] = body]
  <2>1. PICK u \in unused \cap Users :
          /\ users' = users \cup {u} /\ unused' = unused \ {u}
          /\ accounts' = [accounts EXCEPT ![u] = body]
    BY <1>3
  <2>2. body \in Profile /\ ValidEmail(body.email) /\ LowerText[body.email] = body.email
    BY <1>1 DEF CallOK, BodyOK, Profile, ProfileFields
  <2>3. body # Null
    BY <2>2, CommunityAssumption
  <2> HIDE DEF body
  <2>4. /\ users \subseteq Users /\ unused \cap users = {}
        /\ accounts \in [Users -> Profile \cup {Null}]
        /\ \A v \in Users : accounts[v] # Null <=> v \in users
        /\ EmailsOK /\ ReviewsStand
    BY DEF CInv, RowsOK
  <2>5. /\ accounts' \in [Users -> Profile \cup {Null}] /\ accounts'[u] = body
        /\ \A v \in Users \ {u} : accounts'[v] = accounts[v]
    BY <2>1, <2>2, <2>4
  <2>6. EmailsOK'
    <3>1. \A v \in users : accounts[v].email # body.email /\ v # u
      BY <1>3, <2>1, <2>4 DEF HasEmail
    <3> QED BY <2>1, <2>2, <2>4, <2>5, <3>1 DEF EmailsOK
  <2>7. ReviewsStand'
    BY <1>1, <1>3, <2>1, <2>4 DEF ReviewsStand
  <2>8. RowsOK'
    BY <1>1, <2>1, <2>3, <2>4, <2>5, <2>6, <2>7 DEF CInv, RowsOK
  <2>9. Evolves
    BY <1>1 DEF Evolves
  <2> QED BY <1>1, <1>3, <2>8, <2>9, ReplySound
<1> QED BY <1>2, <1>3 DEF InsertUser, HasEmail

\* An edit leaves an account whole and takes no e-mail of another one.
LEMMA UpdateUserSound ==
  ASSUME CInv, NEW t \in Tasks, UpdateUser(t), UNCHANGED reviews
  PROVE  Sound(t)
<1>1. /\ Running(t) /\ CallsOK /\ CallOK(t) /\ pc[t] = "update_user"
      /\ reviews' = reviews /\ UNCHANGED tables
  BY DEF UpdateUser, Running, CInv
<1>2. CASE UNCHANGED accounts /\ \E status : Reply(t, status)
  BY <1>1, <1>2, ReadsSound, ReplySound
<1> DEFINE u == call[t].on
           body == call[t].body
           row == [f \in ProfileFields |-> IF f \in DOMAIN body THEN body[f] ELSE accounts[u][f]]
<1>3. CASE /\ u \in users
           /\ "email" \in DOMAIN body => \A v \in Users \ {u} : ~HasEmail(v, body.email)
           /\ accounts' = [accounts EXCEPT ![u] =
                [f \in ProfileFields |-> IF f \in DOMAIN body THEN body[f] ELSE @[f]]]
           /\ Reply(t, 200)
  <2>1. BodyOK(body)
    BY <1>1 DEF CallOK
  <2>2. /\ users \subseteq Users
        /\ accounts \in [Users -> Profile \cup {Null}]
        /\ \A v \in Users : accounts[v] # Null <=> v \in users
        /\ EmailsOK
    BY DEF CInv, RowsOK
  <2>3. u \in Users /\ accounts[u] \in Profile
    BY <1>3, <2>2
  <2>4. row \in Profile
    BY <2>1, <2>3 DEF BodyOK, Profile
  <2>5. /\ accounts' \in [Users -> Profile \cup {Null}] /\ accounts'[u] = row
        /\ \A v \in Users \ {u} : accounts'[v] = accounts[v]
    BY <1>3, <2>2, <2>3, <2>4
  <2>6. row.email = IF "email" \in DOMAIN body THEN body.email ELSE accounts[u].email
    BY DEF ProfileFields
  <2> HIDE DEF row, body, u
  <2>7. row # Null
    BY <2>4, CommunityAssumption
  <2>8. /\ ValidEmail(row.email) /\ LowerText[row.email] = row.email
        /\ \A v \in users \ {u} : accounts[v].email # row.email
    BY <1>3, <2>1, <2>2, <2>3, <2>6 DEF EmailsOK, BodyOK, HasEmail
  <2>9. EmailsOK'
    BY <1>1, <1>3, <2>2, <2>5, <2>8 DEF EmailsOK, tables
  <2>10. RowsOK'
    <3>1. /\ users' = users /\ unused' = unused
          /\ \A v \in Users : accounts'[v] # Null <=> v \in users
      BY <1>1, <1>3, <2>2, <2>5, <2>7 DEF tables
    <3>2. ReviewsStand'
      BY <1>1 DEF CInv, RowsOK, ReviewsStand, tables
    <3> QED BY <1>1, <2>5, <2>9, <3>1, <3>2 DEF CInv, RowsOK
  <2>11. Evolves
    BY <1>1 DEF Evolves
  <2> QED BY <1>1, <1>3, <2>10, <2>11, ReplySound
<1> QED BY <1>2, <1>3 DEF UpdateUser

\* Every step of a profile call is sound.
LEMMA ProfileSound ==
  ASSUME CInv, NEW t \in Tasks, ProfileStep(t), UNCHANGED reviews
  PROVE  Sound(t)
BY ReceiveRegisterSound, ReceiveEditSound, ProfileReadsSound, InsertUserSound,
   UpdateUserSound DEF ProfileStep

-----------------------------------------------------------------------------
(* The invariant.                                                          *)

\* A sound step of one call keeps what the others know of their rows.
LEMMA OthersKeep ==
  ASSUME CInv, NEW t \in Tasks, Sound(t), NEW s \in Tasks \ {t}
  PROVE  CallOK(s)'
<1>1. /\ pc'[s] = pc[s] /\ call'[s] = call[s] /\ CallOK(s)
      /\ DOMAIN reviews \subseteq DOMAIN reviews'
      /\ \A i \in DOMAIN reviews :
           reviews'[i] = Null \/ (reviews[i] # Null /\ reviews'[i].user = reviews[i].user)
  BY DEF Sound, Moves, Evolves, CInv
<1>2. Authored(s) => Authored(s)'
  BY <1>1 DEF Authored
<1> QED BY <1>1, <1>2 DEF CallOK, Running

\* A call that stays alone is the only one that moved.
LEMMA AloneKeeps ==
  ASSUME CInv, NEW t \in Tasks, Sound(t), alone' = alone \ (Accompanied' \cup Answered'),
         NEW s \in Tasks
  PROVE  AloneOK(s)'
<1> SUFFICES ASSUME s \in alone', Running(s)'
             PROVE  Fresh(s)' /\ \A r \in Tasks \ {s} : ~Running(r)'
  BY DEF AloneOK
<1>1. s \in alone /\ \A r \in Tasks \ {s} : ~Running(r)'
  BY DEF Accompanied
<1>2. CASE s = t
  <2>1. Running(s) => Fresh(s)
    BY <1>1 DEF CInv, AloneOK
  <2>2. ~Running(s) => Fresh(s)
    BY <1>2 DEF Fresh, Running
  <2> QED BY <1>1, <1>2, <2>1, <2>2 DEF Sound
<1>3. CASE s # t
  <2>1. Running(s)
    BY <1>3 DEF Sound, Moves, Running
  <2>2. ~Running(t)
    BY <1>1, <1>3, <2>1 DEF CInv, AloneOK
  <2>3. Running(t)'
    BY <2>2 DEF Sound, Wakes
  <2> QED BY <1>1, <1>3, <2>3
<1> QED BY <1>2, <1>3

\* Every step of a call is sound.
LEMMA StepSound ==
  ASSUME CInv, NEW t \in Tasks, Step(t)
  PROVE  Sound(t)
BY ReviewSound, ProfileSound, ForeignSound DEF Step

\* The invariant holds of the tables at the start.
LEMMA InitSound ==
  ASSUME Init
  PROVE  CInv
<1> USE DEF Init
<1>1. CallsOK /\ \A t \in Tasks : ~Running(t)
  BY DEF CallsInit, CallsOK, Running
<1>2. \A t \in Tasks : CallOK(t) /\ AloneOK(t)
  BY <1>1 DEF CallOK, AloneOK
<1>3. users \subseteq Users /\ unused \cap users = {}
  BY CommunityAssumption DEF Registered
<1>4. /\ accounts \in [Users -> Profile \cup {Null}]
      /\ \A u \in Users : accounts[u] # Null <=> u \in users
  BY CommunityAssumption DEF Registered
<1>5. EmailsOK
  BY CommunityAssumption DEF EmailsOK, Registered
<1>6. /\ reviews \in Seq(ReviewRow \cup {Null})
      /\ \A i \in DOMAIN reviews : reviews[i].user \in Users
  <2>1. InitReviews \in Seq(ReviewRow)
    BY CommunityAssumption
  <2>2. /\ DOMAIN InitReviews = 1..Len(InitReviews) /\ Len(InitReviews) \in Nat
        /\ \A i \in 1..Len(InitReviews) : InitReviews[i] \in ReviewRow
    BY <2>1
  <2>3. InitReviews \in Seq(ReviewRow \cup {Null})
    BY <2>1, <2>2
  <2> QED BY <2>2, <2>3 DEF ReviewRow
<1>7. ReviewsStand
  BY <1>6, CommunityAssumption DEF ReviewsStand, Registered
<1> QED BY <1>1, <1>2, <1>3, <1>4, <1>5, <1>6, <1>7 DEF CInv, RowsOK

\* Every step keeps the invariant.
LEMMA NextSound ==
  ASSUME CInv, [Next]_communityVars
  PROVE  CInv'
<1>1. ASSUME NEW t \in Tasks, Step(t), alone' = alone \ (Accompanied' \cup Answered')
      PROVE  CInv'
  <2>1. Sound(t)
    BY <1>1, StepSound
  <2>2. \A s \in Tasks : CallOK(s)'
    BY <2>1, OthersKeep DEF Sound
  <2>3. \A s \in Tasks : AloneOK(s)'
    BY <1>1, <2>1, AloneKeeps
  <2> QED BY <2>1, <2>2, <2>3 DEF CInv, Sound, Moves
<1>2. ASSUME UNCHANGED <<vars, reviews, accounts>>, alone' \subseteq alone
      PROVE  CInv'
  <2>1. /\ UNCHANGED <<tables, reviews, accounts>>
        /\ pc' = pc /\ call' = call /\ seen' = seen /\ reply' = reply
        /\ animals' = animals
    BY <1>2 DEF vars, callVars, tables
  <2>2. RowsOK' /\ Evolves
    BY <2>1, ReadsSound
  <2>3. CallsOK' /\ \A t \in Tasks : CallOK(t)'
    BY <2>1 DEF CInv, CallsOK, CallOK, Running, Authored
  <2>4. \A t \in Tasks : AloneOK(t)'
    BY <1>2, <2>1 DEF CInv, AloneOK, Running, Fresh, Reviewed
  <2> QED BY <2>2, <2>3, <2>4 DEF CInv
<1>3. CASE Next
  BY <1>1, <1>2, <1>3 DEF Next, AllAnswered
<1>4. CASE UNCHANGED communityVars
  BY <1>2, <1>4 DEF communityVars
<1> QED BY <1>3, <1>4

\* Tables and calls keep the invariant, however calls interleave.
THEOREM CommunityInvariant == Spec => []CInv
<1>1. Init => CInv
  BY InitSound
<1>2. CInv /\ [Next]_communityVars => CInv'
  BY NextSound
<1> QED BY <1>1, <1>2, PTL DEF Spec

\* ReviewService: one review of a user for an animal, none of a row that is
\* gone, although the tests come statements before the INSERT.
THEOREM ReviewsUniqueAndAttached == Spec => []ReviewsStand
<1>1. CInv => ReviewsStand
  BY DEF CInv, RowsOK
<1> QED BY <1>1, CommunityInvariant, PTL

\* UserService: whatever registrations and edits run at once, an account opens
\* to its own e-mail in any spelling and its password, and no other one does.
THEOREM EmailsOpenOneAccount == Spec => []OwnersLogIn
<1>1. CInv => OwnersLogIn
  <2> SUFFICES ASSUME CInv, NEW u \in users, NEW email \in Texts,
                      LowerText[email] = LowerText[accounts[u].email]
               PROVE  Opens(email, accounts[u].password) =
                        IF ValidPassword(accounts[u].password) THEN {u} ELSE {}
    BY DEF OwnersLogIn
  <2>1. /\ u \in Users /\ users \subseteq Users /\ accounts[u] # Null
        /\ \A v \in Users : accounts[v] # Null => v \in users
        /\ ValidEmail(accounts[u].email) /\ LowerText[email] = accounts[u].email
    BY DEF CInv, RowsOK, EmailsOK
  <2>2. \A v \in Users : HasEmail(v, accounts[u].email) <=> v = u
    BY <2>1 DEF HasEmail, CInv, RowsOK, EmailsOK
  <2> QED BY <2>1, <2>2 DEF Opens
<1> QED BY <1>1, CommunityInvariant, PTL

-----------------------------------------------------------------------------
(* What a step may never do.                                               *)

\* Only a call of reviews or profiles that runs is answered by a step of one.
LEMMA OwnAnswer ==
  ASSUME CInv, Next, NEW t \in Tasks, reply'[t] # reply[t], call[t].op \in CommunityOps
  PROVE  /\ Running(t) /\ CallOK(t)
         /\ \/ ReviewStep(t) /\ UNCHANGED accounts
            \/ ProfileStep(t) /\ UNCHANGED reviews
<1>1. PICK s \in Tasks : Step(s)
  BY DEF Next, AllAnswered, vars, callVars
<1>2. Sound(s)
  BY <1>1, StepSound
<1>3. s = t /\ Running(t) /\ CallOK(t)
  BY <1>2 DEF Sound, Moves, Wakes, CInv
<1>4. pc[t] \in CommunityLabels
  BY <1>3 DEF CallOK
<1> QED BY <1>1, <1>3, <1>4, ForeignSound DEF Step

\* A call that has not begun is not answered.
LEMMA BeginsUnanswered ==
  ASSUME CallsOK, NEW t \in Tasks,
         ReceiveReviewCall(t) \/ ReceiveRegister(t) \/ ReceiveEdit(t)
  PROVE  reply' = reply
BY DEF ReceiveReviewCall, ReceiveRegister, ReceiveEdit, Begin

\* Nor is one that goes on.
LEMMA GoesOnUnanswered ==
  ASSUME CallsOK, NEW t \in Tasks, NEW label, NEW value, Goto(t, label) \/ Carry(t, label, value)
  PROVE  reply' = reply
BY DEF Goto, Carry

\* ReviewService and UserService: a refusal leaves the tables as they were,
\* also the one that comes after the INSERT of a review.
THEOREM RefusedLeavesNothing == Spec => RefusalsLeaveNothing
<1>1. ASSUME CInv, Next, NEW t \in Tasks, reply[t] = 0,
             reply'[t] \in {400, 401, 403, 404, 409}, call[t].op \in CommunityOps
      PROVE  /\ UNCHANGED <<tables, reviews, accounts>>
             /\ pc[t] = "name_review" => ~Reviewed(call[t].by, call[t].on)
  <2> USE GoesOnUnanswered, ReplyMoves
  <2>1. CallsOK /\ Running(t) /\ CallOK(t) /\ reply'[t] # reply[t]
    BY <1>1, OwnAnswer DEF CInv
  <2>2. CASE ReviewStep(t) /\ UNCHANGED accounts
    <3>1. ~ReceiveReviewCall(t)
      BY <2>1, BeginsUnanswered
    <3>2. CASE NameReview(t)
      <4>1. UNCHANGED <<tables, reviews, accounts>>
        BY <2>2, <3>2 DEF NameReview
      <4>2. call[t].op = "review" /\ animals[call[t].on] = Null
        BY <1>1, <2>1, <3>2 DEF NameReview, CallOK
      <4>3. ~Reviewed(call[t].by, call[t].on)
        BY <1>1, <4>2 DEF Reviewed, CInv, RowsOK, ReviewsStand
      <4> QED BY <4>1, <4>3
    <3>3. CASE RefuseReview(t) \/ ReadReviewedAnimal(t) \/ ReadReviewedOrg(t) \/ CheckUnreviewed(t)
      BY <2>2, <3>3 DEF RefuseReview, ReadReviewedAnimal, ReadReviewedOrg, CheckUnreviewed
    <3>4. CASE InsertReview(t) \/ FindReview(t)
      BY <1>1, <2>1, <2>2, <3>4 DEF InsertReview, FindReview
    <3>5. CASE WriteReview(t) \/ DeleteReview(t)
      BY <1>1, <2>1, <2>2, <3>5 DEF WriteReview, DeleteReview
    <3> QED BY <2>2, <3>1, <3>2, <3>3, <3>4, <3>5 DEF ReviewStep
  <2>3. CASE ProfileStep(t) /\ UNCHANGED reviews
    <3>1. ~ReceiveRegister(t) /\ ~ReceiveEdit(t)
      BY <2>1, BeginsUnanswered
    <3>2. pc[t] # "name_review"
      BY <2>3, <3>1 DEF ProfileStep, RefuseProfile, FindEmail, InsertUser, FindUser,
                        RereadUser, UpdateUser
    <3>3. CASE RefuseProfile(t) \/ FindEmail(t) \/ FindUser(t) \/ RereadUser(t)
      BY <2>3, <3>2, <3>3 DEF RefuseProfile, FindEmail, FindUser, RereadUser
    <3>4. CASE InsertUser(t)
      BY <1>1, <2>1, <2>3, <3>2, <3>4 DEF InsertUser
    <3>5. CASE UpdateUser(t)
      BY <1>1, <2>1, <2>3, <3>2, <3>5 DEF UpdateUser
    <3> QED BY <2>3, <3>1, <3>3, <3>4, <3>5 DEF ProfileStep
  <2> QED BY <1>1, <2>1, <2>2, <2>3, OwnAnswer
<1>2. CInv /\ [Next]_communityVars =>
        [\A t \in Tasks : reply[t] = 0 /\ reply'[t] \in {400, 401, 403, 404, 409}
                          /\ call[t].op \in {"review", "edit_review", "drop_review",
                                             "register", "edit_profile"} =>
           /\ UNCHANGED <<tables, reviews, accounts>>
           /\ pc[t] = "name_review" => ~Reviewed(call[t].by, call[t].on)]_communityVars
  BY <1>1 DEF CommunityOps
<1> QED BY <1>2, CommunityInvariant, PTL DEF Spec, RefusalsLeaveNothing

\* The uncaught exceptions of both services are answers to a race, or to the
\* caller's account being gone.
THEOREM FailsOnlyInRaces == Spec => FailsOnlyBesideOthers
<1>1. ASSUME CInv, Next, NEW t \in Tasks, reply[t] = 0, reply'[t] = 500, t \in alone,
             call[t].op \in CommunityOps
      PROVE  call[t].op # "register" /\ call[t].by \notin users
  <2> USE GoesOnUnanswered, ReplyMoves
  <2>1. CallsOK /\ Running(t) /\ CallOK(t) /\ reply'[t] # reply[t] /\ Fresh(t)
    BY <1>1, OwnAnswer DEF CInv, AloneOK
  <2>2. CASE ReviewStep(t) /\ UNCHANGED accounts
    <3>1. ~ReceiveReviewCall(t)
      BY <2>1, BeginsUnanswered
    <3>2. ~RefuseReview(t) /\ ~ReadReviewedAnimal(t) /\ ~ReadReviewedOrg(t) /\ ~CheckUnreviewed(t)
      BY <1>1, <2>1 DEF RefuseReview, ReadReviewedAnimal, ReadReviewedOrg, CheckUnreviewed
    <3>3. ~NameReview(t)
      <4> SUFFICES ASSUME NameReview(t) PROVE FALSE
        OBVIOUS
      <4>1. call[t].op \in {"review", "edit_review"}
        BY <2>1 DEF NameReview, CallOK
      <4> QED BY <1>1, <2>1, <4>1 DEF NameReview, Fresh
    <3>4. ~FindReview(t) /\ ~WriteReview(t) /\ ~DeleteReview(t)
      BY <1>1, <2>1 DEF FindReview, WriteReview, DeleteReview
    <3>5. CASE InsertReview(t)
      BY <1>1, <2>1, <3>5 DEF InsertReview, Fresh, CallOK
    <3> QED BY <2>2, <3>1, <3>2, <3>3, <3>4, <3>5 DEF ReviewStep
  <2>3. CASE ProfileStep(t) /\ UNCHANGED reviews
    <3>1. ~ReceiveRegister(t) /\ ~ReceiveEdit(t)
      BY <2>1, BeginsUnanswered
    <3>2. ~RefuseProfile(t) /\ ~FindEmail(t) /\ ~InsertUser(t) /\ ~FindUser(t)
      BY <1>1, <2>1 DEF RefuseProfile, FindEmail, InsertUser, FindUser
    <3>3. CASE RereadUser(t) \/ UpdateUser(t)
      <4>1. call[t].op = "edit_profile" /\ call[t].by = call[t].on
        BY <2>1, <3>3 DEF RereadUser, UpdateUser, CallOK
      <4>2. call[t].on \notin users
        BY <1>1, <2>1, <3>3 DEF RereadUser, UpdateUser
      <4> QED BY <4>1, <4>2
    <3> QED BY <2>3, <3>1, <3>2, <3>3 DEF ProfileStep
  <2> QED BY <1>1, <2>1, <2>2, <2>3, OwnAnswer
<1>2. CInv /\ [Next]_communityVars =>
        [\A t \in Tasks : reply[t] = 0 /\ reply'[t] = 500 /\ t \in alone
                          /\ call[t].op \in {"review", "edit_review", "drop_review",
                                             "register", "edit_profile"} =>
           call[t].op # "register" /\ call[t].by \notin users]_communityVars
  BY <1>1 DEF CommunityOps
<1> QED BY <1>2, CommunityInvariant, PTL DEF Spec, FailsOnlyBesideOthers

\* ReviewService tests the author in one statement and writes in another: only
\* the author's call, the author's leave or the animal's changes a review.
THEOREM ReviewsAreTheirAuthors == Spec => OnlyAuthorsEdit
<1>1. ASSUME CInv, Next, NEW i \in DOMAIN reviews, reviews[i] # Null, reviews'[i] # reviews[i]
      PROVE  \/ /\ reviews'[i] = Null
                /\ reviews[i].user \notin users' \/ animals'[reviews[i].animal] = Null
             \/ \E t \in Tasks :
                  /\ pc[t] \in {"write_review", "delete_review"} /\ pc'[t] # pc[t]
                  /\ call[t].on = i /\ call[t].by = reviews[i].user
  <2>1. PICK t \in Tasks : Step(t)
    BY <1>1 DEF Next, AllAnswered
  <2>2. CallsOK /\ CallOK(t) /\ reviews \in Seq(ReviewRow \cup {Null})
    BY <1>1 DEF CInv, RowsOK
  <2>3. CASE Cascade
    BY <1>1, <2>3 DEF Cascade, ReviewsWithout
  <2>4. CASE ReviewStep(t)
    <3>1. ~InsertReview(t)
      BY <1>1, <2>2 DEF InsertReview
    <3>2. WriteReview(t) \/ DeleteReview(t)
      BY <1>1, <2>4, <3>1 DEF ReviewStep, ReceiveReviewCall, RefuseReview, ReadReviewedAnimal,
             ReadReviewedOrg, CheckUnreviewed, NameReview, FindReview
    <3>3. call[t].on = i
      BY <1>1, <3>2 DEF WriteReview, DeleteReview
    <3>4. call[t].by = reviews[i].user
      BY <1>1, <2>2, <3>2, <3>3 DEF CallOK, Running, Authored, WriteReview, DeleteReview
    <3>5. pc'[t] # pc[t] /\ pc[t] \in {"write_review", "delete_review"}
      BY <2>2, <3>2, GotoMoves, ReplyMoves DEF WriteReview, DeleteReview
    <3> QED BY <3>3, <3>4, <3>5
  <2> QED BY <1>1, <2>1, <2>3, <2>4 DEF Step
<1>2. CInv /\ [Next]_communityVars =>
        [\A i \in DOMAIN reviews : reviews[i] # Null /\ reviews'[i] # reviews[i] =>
           \/ reviews'[i] = Null
              /\ (reviews[i].user \notin users' \/ animals'[reviews[i].animal] = Null)
           \/ \E t \in Tasks :
                /\ pc[t] \in {"write_review", "delete_review"} /\ pc'[t] # pc[t]
                /\ call[t].on = i /\ call[t].by = reviews[i].user]_communityVars
  BY <1>1
<1> QED BY <1>2, CommunityInvariant, PTL DEF Spec, OnlyAuthorsEdit

\* UserService::UpdateUser: an account is changed by its owner only, and in the
\* fields of the body only, whatever registers, edits or leaves beside it.
THEOREM AccountsAreTheirOwners == Spec => OwnersEdit
<1>1. ASSUME CInv, Next, NEW u \in users \cap users', accounts'[u] # accounts[u]
      PROVE  \E t \in Tasks :
               /\ pc[t] = "update_user" /\ pc'[t] = "done" /\ call[t].by = u
               /\ \A f \in ProfileFields :
                    accounts'[u][f] = IF f \in DOMAIN call[t].body THEN call[t].body[f]
                                      ELSE accounts[u][f]
  <2>1. PICK t \in Tasks : Step(t)
    BY <1>1 DEF Next, AllAnswered
  <2>2. /\ CallsOK /\ CallOK(t) /\ u \in Users /\ u \notin unused
        /\ accounts \in [Users -> Profile \cup {Null}]
    BY <1>1 DEF CInv, RowsOK
  <2>3. ~Cascade
    BY <1>1, <2>2 DEF Cascade, AccountsOf
  <2>4. ProfileStep(t)
    BY <1>1, <2>1, <2>3 DEF Step
  <2>5. ~InsertUser(t)
    BY <1>1, <2>2 DEF InsertUser
  <2>6. UpdateUser(t)
    BY <1>1, <2>4, <2>5 DEF ProfileStep, ReceiveRegister, ReceiveEdit, RefuseProfile,
           FindEmail, FindUser, RereadUser
  <2>7. call[t].by = call[t].on
    BY <2>2, <2>6 DEF UpdateUser, CallOK, Running
  <2>8. call[t].on = u
    BY <1>1, <2>2, <2>6 DEF UpdateUser
  <2>9. pc[t] = "update_user" /\ pc'[t] = "done"
    BY <2>2, <2>6, ReplyMoves DEF UpdateUser
  <2>10. accounts'[u] =
           [f \in ProfileFields |-> IF f \in DOMAIN call[t].body THEN call[t].body[f]
                                    ELSE accounts[u][f]]
    BY <1>1, <2>2, <2>6, <2>8 DEF UpdateUser
  <2> QED BY <2>7, <2>8, <2>9, <2>10
<1>2. CInv /\ [Next]_communityVars =>
        [\A u \in users \cap users' : accounts'[u] # accounts[u] =>
           \E t \in Tasks :
             /\ pc[t] = "update_user" /\ pc'[t] = "done" /\ call[t].by = u
             /\ \A f \in ProfileFields :
                  accounts'[u][f] = IF f \in DOMAIN call[t].body THEN call[t].body[f]
                                    ELSE accounts[u][f]]_communityVars
  BY <1>1
<1> QED BY <1>2, CommunityInvariant, PTL DEF Spec, OwnersEdit

-----------------------------------------------------------------------------
(* The tables that adoption and account calls write, and what those calls  *)
(* carry: what a review call alone relies on besides.                      *)

TablesTyped ==
  /\ orgs \subseteq Orgs /\ orgOf \in [Users -> Orgs \cup {Null}]
  /\ animals \in [Animals -> AnimalRow \cup {Null}]
  /\ log \in Seq(RequestRow) /\ requests \subseteq DOMAIN log

AnimalsAttached ==
  \A a \in Animals : animals[a] # Null =>
    animals[a].org \in orgs /\ animals[a].owner \in users \cup {Null}

\* What an adoption or account call is and carries at its labels.
ForeignOK(t) ==
  Running(t) /\ pc[t] \notin CommunityLabels =>
    /\ call[t] \in AdoptionCalls \cup AccountCalls
    /\ pc[t] = "publish" => call[t].op = "publish"
    /\ pc[t] = "insert" => call[t].op = "adopt"
    /\ pc[t] # "read_request" /\ Decides(t) => call[t].on \in DOMAIN log

SeenOK == seen \in [Tasks -> Orgs \cup Animals \cup {Null}]

AnsweredIsDone == \A t \in Tasks : reply[t] # 0 => pc[t] = "done"

\* The shelter a review call is about to look up is that of its animal.
AtOrg(t) ==
  t \in alone /\ pc[t] = "review_org" => seen[t] = animals[call[t].on].org

DInv ==
  /\ CInv /\ TablesTyped /\ AnimalsAttached /\ (\A t \in Tasks : ForeignOK(t))
  /\ SeenOK /\ AnsweredIsDone /\ (\A t \in Tasks : AtOrg(t)) /\ alone \subseteq Tasks

TablesGood == TablesTyped /\ AnimalsAttached

\* Every request names an animal and a user.
LEMMA LoggedRows ==
  ASSUME TablesTyped, NEW r \in DOMAIN log
  PROVE  log[r] \in RequestRow /\ log[r].animal \in Animals /\ log[r].user \in Users
<1>1. log \in Seq(RequestRow)
  BY DEF TablesTyped
<1>2. r \in 1..Len(log) /\ log[r] \in RequestRow
  BY <1>1
<1> QED BY <1>2 DEF RequestRow

\* A step that writes none of these tables, or registers a user, keeps them.
LEMMA GoodUnwritten ==
  ASSUME TablesGood, users \subseteq users',
         UNCHANGED <<orgs, orgOf, animals, log, requests>>
  PROVE  TablesGood'
BY DEF TablesGood, TablesTyped, AnimalsAttached

\* Requests come and go.
LEMMA GoodRequests ==
  ASSUME TablesGood,
         \/ \E row \in RequestRow : InsertRequestRow(row)
         \/ \E gone : DeleteRequestRows(gone)
  PROVE  TablesGood' /\ DOMAIN log \subseteq DOMAIN log'
<1>1. CASE \E row \in RequestRow : InsertRequestRow(row)
  <2>1. PICK row \in RequestRow : InsertRequestRow(row)
    BY <1>1
  <2>2. log \in Seq(RequestRow) /\ requests \subseteq DOMAIN log
        /\ log' = Append(log, row) /\ requests' = requests \cup {Len(log) + 1}
    BY <2>1 DEF TablesGood, TablesTyped, InsertRequestRow
  <2>3. /\ log' \in Seq(RequestRow) /\ requests' \subseteq DOMAIN log'
        /\ DOMAIN log \subseteq DOMAIN log'
    BY <2>2
  <2> QED BY <2>1, <2>3 DEF TablesGood, TablesTyped, AnimalsAttached, InsertRequestRow
<1>2. CASE \E gone : DeleteRequestRows(gone)
  BY <1>2 DEF TablesGood, TablesTyped, AnimalsAttached, DeleteRequestRows
<1> QED BY <1>1, <1>2

\* A row that is written belongs to a shelter and to an account that exist.
LEMMA GoodAnimal ==
  ASSUME TablesGood, NEW a, NEW row, WriteAnimalRow(a, row),
         a \in Animals => /\ row \in AnimalRow
                          /\ row.org \in orgs /\ row.owner \in users \cup {Null}
  PROVE  TablesGood'
<1>1. /\ animals \in [Animals -> AnimalRow \cup {Null}]
      /\ animals' = [animals EXCEPT ![a] = row]
      /\ UNCHANGED <<users, orgs, orgOf, log, requests>>
  BY DEF TablesGood, TablesTyped, WriteAnimalRow
<1>2. /\ animals' \in [Animals -> AnimalRow \cup {Null}]
      /\ \A b \in Animals : animals'[b] = IF b = a THEN row ELSE animals[b]
  BY <1>1
<1> QED BY <1>1, <1>2 DEF TablesGood, TablesTyped, AnimalsAttached

\* An animal that is deleted takes its requests along.
LEMMA GoodAnimalGone ==
  ASSUME TablesGood, NEW a, DeleteAnimalRow(a)
  PROVE  TablesGood'
BY DEF TablesGood, TablesTyped, AnimalsAttached, DeleteAnimalRow

\* Shelters are founded, linked and closed.
LEMMA GoodShelters ==
  ASSUME TablesGood,
         \/ \E o \in Orgs : InsertOrgRow(o)
         \/ \E u : \E o \in orgs : LinkOrg(u, o)
         \/ \E o : DeleteOrgRow(o)
  PROVE  TablesGood'
<1> USE DEF TablesGood, TablesTyped, AnimalsAttached
<1>1. CASE \E o \in Orgs : InsertOrgRow(o)
  BY <1>1 DEF InsertOrgRow
<1>2. CASE \E u : \E o \in orgs : LinkOrg(u, o)
  BY <1>2 DEF LinkOrg
<1>3. CASE \E o : DeleteOrgRow(o)
  BY <1>3 DEF DeleteOrgRow, AnimalsOf
<1> QED BY <1>1, <1>2, <1>3

\* A closed account takes its shelter along and lets its animals go.
LEMMA GoodUserGone ==
  ASSUME TablesGood, NEW u, DeleteUserRow(u)
  PROVE  TablesGood'
<1> DEFINE o == orgOf[u]
           gone == IF o = Null THEN {} ELSE AnimalsOf(o)
<1>1. /\ animals \in [Animals -> AnimalRow \cup {Null}] /\ orgs \subseteq Orgs
      /\ orgOf \in [Users -> Orgs \cup {Null}] /\ log' = log
      /\ orgs' = orgs \ {o} /\ users' = users \ {u}
      /\ orgOf' = [v \in Users |-> IF v = u \/ orgOf[v] = o THEN Null ELSE orgOf[v]]
      /\ animals' = [a \in Animals |-> IF a \in gone THEN Null ELSE Disown(animals[a], u)]
      /\ requests' \subseteq requests
  BY DEF TablesGood, TablesTyped, DeleteUserRow
<1>2. \A a \in Animals : animals'[a] # Null =>
        /\ a \notin gone /\ animals[a] # Null /\ animals'[a] \in AnimalRow
        /\ animals'[a].org = animals[a].org
        /\ animals'[a].owner = IF animals[a].owner = u THEN Null ELSE animals[a].owner
  BY <1>1 DEF Disown, AnimalRow
<1>3. \A a \in Animals : animals[a] # Null /\ a \notin gone => animals[a].org \in orgs \ {o}
  BY <1>1, SchemaAssumption DEF TablesGood, AnimalsAttached, AnimalsOf
<1> HIDE DEF gone
<1>4. animals' \in [Animals -> AnimalRow \cup {Null}]
  BY <1>1, <1>2
<1>5. AnimalsAttached'
  BY <1>1, <1>2, <1>3 DEF TablesGood, AnimalsAttached
<1>6. TablesTyped'
  BY <1>1, <1>4 DEF TablesGood, TablesTyped
<1> QED BY <1>5, <1>6 DEF TablesGood

-----------------------------------------------------------------------------
(* What a step does to these tables and to what the calls carry.           *)

Carried == Orgs \cup Animals \cup {Null}

\* A step of t keeps the tables, what t is and carries, and the ids that the
\* other calls have found.
Grows(t) ==
  /\ TablesGood' /\ DOMAIN log \subseteq DOMAIN log'
  /\ ForeignOK(t)' /\ SeenOK' /\ (reply'[t] = reply[t] \/ pc'[t] = "done")

\* What a call carries from one statement to the next has its type, and a
\* status is given to a call that is done.
LEMMA CallsCarry ==
  ASSUME CallsOK, SeenOK, NEW t \in Tasks
  PROVE  /\ \A c, label, value : Begin(t, c, label, value) /\ value \in Carried =>
              SeenOK' /\ reply'[t] = reply[t]
         /\ \A label : Goto(t, label) => SeenOK' /\ reply'[t] = reply[t]
         /\ \A label, value : Carry(t, label, value) /\ value \in Carried =>
              SeenOK' /\ reply'[t] = reply[t]
         /\ \A status : Reply(t, status) =>
              SeenOK' /\ ForeignOK(t)' /\ (reply'[t] = reply[t] \/ pc'[t] = "done")
<1>1. \A status : Reply(t, status) => pc'[t] = "done" /\ ~Running(t)'
  BY DEF CallsOK, Reply, Running
<1>2. \A status : Reply(t, status) => SeenOK'
  BY DEF Reply, SeenOK
<1> QED BY <1>1, <1>2 DEF Begin, Goto, Carry, SeenOK, Carried, ForeignOK

\* A call that goes on keeps its input, and what holds of it if the next label
\* asks for nothing more.
LEMMA ForeignKeeps ==
  ASSUME CallsOK, NEW t \in Tasks, ForeignOK(t), Running(t), pc[t] \notin CommunityLabels,
         DOMAIN log \subseteq DOMAIN log', NEW label,
         Goto(t, label) \/ \E value : Carry(t, label, value),
         label = "publish" => call[t].op = "publish",
         label = "insert" => call[t].op = "adopt",
         pc[t] = "read_request" => call[t].on \in DOMAIN log'
  PROVE  ForeignOK(t)'
<1>1. pc'[t] = label /\ call'[t] = call[t]
  BY GotoMoves, CarryMoves
<1> QED BY <1>1 DEF ForeignOK, Decides

\* A call that goes on without writing keeps the tables.
LEMMA TablesKept ==
  ASSUME TablesGood, UNCHANGED tables
  PROVE  TablesGood' /\ DOMAIN log \subseteq DOMAIN log'
BY GoodUnwritten DEF tables

\* The animal of a call of the adoption endpoints, and what its row says.
LEMMA SubjectKnown ==
  ASSUME TablesGood, NEW t \in Tasks, ForeignOK(t), Running(t), pc[t] \notin CommunityLabels,
         call[t].op \in {"adopt", "remove", "update", "accept", "deny"},
         pc[t] # "read_request", Row(t) # Null
  PROVE  /\ Decides(t) => Request(t) \in RequestRow
         /\ Subject(t) \in Animals /\ Row(t) \in AnimalRow
         /\ Row(t).org \in orgs /\ Row(t).owner \in users \cup {Null}
<1>1. /\ call[t] \in AdoptionCalls \cup AccountCalls
      /\ Decides(t) => call[t].on \in DOMAIN log
  BY DEF ForeignOK
<1>2. call[t] \in AdoptionCalls
  BY <1>1 DEF AccountCalls
<1>3. CASE Decides(t)
  BY <1>1, <1>3, LoggedRows DEF TablesGood, TablesTyped, AnimalsAttached, Subject, Request, Row
<1>4. CASE ~Decides(t)
  <2>1. call[t].on \in Animals
    BY <1>2, <1>4 DEF AdoptionCalls, Decides
  <2> QED BY <1>4, <2>1 DEF TablesGood, TablesTyped, AnimalsAttached, Subject, Row
<1> QED BY <1>3, <1>4

\* A call of these endpoints begins with its input.
LEMMA ForeignBeginGrows ==
  ASSUME CallsOK, SeenOK, TablesGood, NEW t \in Tasks,
         ReceiveAdoptionCall(t) \/ ReceiveAccountCall(t)
  PROVE  Grows(t)
<1>1. PICK c \in AdoptionCalls \cup AccountCalls : \E label, value :
        /\ Begin(t, c, label, value) /\ value \in Carried
        /\ label \notin {"publish", "insert"}
        /\ label = "read_request" \/ c.op \notin {"accept", "deny"}
  <2>1. CASE ReceiveAdoptionCall(t)
    <3>1. PICK c \in AdoptionCalls :
            Begin(t, c, FirstStatement[c.op], IF c.op = "publish" THEN c.on ELSE Null)
      BY <2>1 DEF ReceiveAdoptionCall
    <3>2. /\ c.op \in {"adopt", "remove", "accept", "deny", "update", "publish"}
          /\ c.op = "publish" => c.on \in Orgs
      BY DEF AdoptionCalls
    <3> QED BY <3>1, <3>2 DEF FirstStatement, Carried
  <2>2. CASE ReceiveAccountCall(t)
    <3>1. PICK c \in AccountCalls : Begin(t, c, FirstRead[c.op], Null)
      BY <2>2 DEF ReceiveAccountCall
    <3>2. c.op \in {"open_org", "close_org", "close_account"}
      BY DEF AccountCalls
    <3> QED BY <3>1, <3>2 DEF FirstRead, Carried
  <2> QED BY <2>1, <2>2
<1>2. PICK label, value :
        /\ Begin(t, c, label, value) /\ value \in Carried
        /\ label \notin {"publish", "insert"}
        /\ label = "read_request" \/ c.op \notin {"accept", "deny"}
  BY <1>1
<1>3. pc'[t] = label /\ call'[t] = c /\ UNCHANGED tables
  BY <1>2, BeginMoves
<1>4. ForeignOK(t)'
  BY <1>2, <1>3 DEF ForeignOK, Decides
<1> QED BY <1>2, <1>3, <1>4, CallsCarry, TablesKept DEF Grows

\* The steps of the adoption endpoints that write nothing.
LEMMA AdoptionReadGrows ==
  ASSUME CallsOK, SeenOK, TablesGood, NEW t \in Tasks, CallOK(t), ForeignOK(t),
         \/ ReadRequest(t) \/ ReadAnimal(t) \/ CheckMember(t)
         \/ ReadApplicant(t) \/ ReadAdoptable(t)
  PROVE  Grows(t)
<1>1. /\ Running(t) /\ pc[t] \notin CommunityLabels /\ UNCHANGED tables
  BY DEF ReadRequest, ReadAnimal, CheckMember, ReadApplicant, ReadAdoptable, Running,
         CommunityLabels
<1>2. TablesGood' /\ DOMAIN log' = DOMAIN log /\ requests \subseteq DOMAIN log
  BY <1>1, TablesKept DEF tables, TablesGood, TablesTyped
<1>3. CASE \E status : Reply(t, status)
  BY <1>2, <1>3, CallsCarry DEF Grows
<1>4. CASE \E label :
             /\ Goto(t, label) /\ label # "publish"
             /\ label = "insert" => call[t].op = "adopt"
             /\ pc[t] = "read_request" => call[t].on \in requests
  BY <1>1, <1>2, <1>4, CallsCarry, ForeignKeeps DEF Grows
<1>5. CASE CheckMember(t) /\ Goto(t, AfterCheck[call[t].op])
  <2>1. call[t].op \in {"remove", "update", "accept", "deny", "publish"}
    BY <1>1, <1>5 DEF CallOK, CheckMember
  <2>2. /\ AfterCheck[call[t].op] = "publish" => call[t].op = "publish"
        /\ AfterCheck[call[t].op] # "insert" /\ pc[t] # "read_request"
    BY <1>5, <2>1 DEF AfterCheck, CheckMember
  <2> QED BY <1>1, <1>2, <1>5, <2>2, CallsCarry, ForeignKeeps DEF Grows
<1>6. CASE ReadAnimal(t) /\ Row(t) # Null /\ Carry(t, "read_member", Row(t).org)
  <2>1. pc[t] = "read_animal" /\ call[t].op \in {"adopt", "remove", "update", "accept", "deny"}
    BY <1>1, <1>6 DEF CallOK, ReadAnimal
  <2>2. Row(t).org \in Carried
    BY <1>1, <1>6, <2>1, SubjectKnown DEF Carried, AnimalRow
  <2> QED BY <1>1, <1>2, <1>6, <2>1, <2>2, CallsCarry, ForeignKeeps DEF Grows
<1> QED
  BY <1>3, <1>4, <1>5, <1>6
     DEF ReadRequest, ReadAnimal, CheckMember, ReadApplicant, ReadAdoptable, AnimalMissing

\* Requests are inserted for the caller of the call and the animal in its path.
LEMMA RequestGrows ==
  ASSUME CallsOK, SeenOK, TablesGood, NEW t \in Tasks, ForeignOK(t),
         InsertRequest(t) \/ ClearRequests(t) \/ DenyRequest(t)
  PROVE  Grows(t)
<1>1. /\ Running(t) /\ pc[t] \notin CommunityLabels /\ pc[t] # "read_request"
  BY DEF InsertRequest, ClearRequests, DenyRequest, Running, CommunityLabels
<1>2. CASE InsertRequest(t)
  <2>1. CASE UNCHANGED tables /\ \E status : Reply(t, status)
    BY <2>1, TablesKept, CallsCarry DEF Grows
  <2> DEFINE row == [animal |-> call[t].on, user |-> call[t].by]
  <2>2. CASE InsertRequestRow(row) /\ Goto(t, "read_applicant")
    <3>1. call[t] \in AdoptionCalls \cup AccountCalls /\ call[t].op = "adopt"
      BY <1>1, <1>2 DEF ForeignOK, InsertRequest
    <3>2. call[t].on \in Animals /\ call[t].by \in Users
      BY <3>1 DEF AdoptionCalls, AccountCalls
    <3>3. row \in RequestRow
      BY <3>2 DEF RequestRow
    <3>4. TablesGood' /\ DOMAIN log \subseteq DOMAIN log'
      BY <2>2, <3>3, GoodRequests
    <3> QED BY <1>1, <2>2, <3>4, CallsCarry, ForeignKeeps DEF Grows
  <2> QED BY <1>2, <2>1, <2>2 DEF InsertRequest
<1>3. CASE ClearRequests(t) \/ DenyRequest(t)
  <2>1. TablesGood' /\ DOMAIN log \subseteq DOMAIN log'
    BY <1>3, GoodRequests DEF ClearRequests, DenyRequest
  <2> QED BY <1>3, <2>1, CallsCarry DEF Grows, ClearRequests, DenyRequest
<1> QED BY <1>2, <1>3

\* Animals are published, edited, adopted and removed.
LEMMA AnimalGrows ==
  ASSUME CallsOK, SeenOK, TablesGood, NEW t \in Tasks, ForeignOK(t), users \subseteq Users,
         AdoptAnimal(t) \/ UpdateAnimal(t) \/ RemoveAnimal(t) \/ PublishAnimal(t)
  PROVE  Grows(t)
<1>1. /\ Running(t) /\ pc[t] \notin CommunityLabels \cup {"read_request"}
  BY DEF AdoptAnimal, UpdateAnimal, RemoveAnimal, PublishAnimal, Running, CommunityLabels
<1>2. ASSUME NEW row, Row(t) # Null, WriteAnimalRow(Subject(t), row),
              Row(t) \in AnimalRow => /\ row \in AnimalRow /\ row.org = Row(t).org
                                      /\ row.owner \in users \cup {Null, Row(t).owner}
       PROVE  TablesGood' /\ log' = log
  <2>1. Subject(t) \in Animals => /\ Row(t) \in AnimalRow
                                  /\ Row(t).org \in orgs /\ Row(t).owner \in users \cup {Null}
    BY <1>2 DEF TablesGood, TablesTyped, AnimalsAttached, Row
  <2> QED BY <1>2, <2>1, GoodAnimal DEF WriteAnimalRow
<1>3. CASE AdoptAnimal(t) /\ ~UNCHANGED tables
  <2> DEFINE row == [Row(t) EXCEPT !.status = "adopted", !.owner = Request(t).user]
  <2>1. Row(t) # Null /\ Request(t).user \in users /\ WriteAnimalRow(Subject(t), row)
        /\ Goto(t, "clear")
    BY <1>3 DEF AdoptAnimal
  <2>2. Row(t) \in AnimalRow =>
          row \in AnimalRow /\ row.org = Row(t).org /\ row.owner = Request(t).user
    <3>1. Request(t).user \in Users
      BY <2>1
    <3> QED BY <3>1 DEF AnimalRow, Status
  <2>3. TablesGood' /\ log' = log
    BY <1>2, <2>1, <2>2
  <2> QED BY <1>1, <2>1, <2>3, CallsCarry, ForeignKeeps DEF Grows
<1>4. CASE UpdateAnimal(t) /\ ~UNCHANGED tables
  <2> DEFINE row == Changed(Row(t), call[t].set)
  <2>1. Row(t) # Null /\ WriteAnimalRow(Subject(t), row) /\ \E status : Reply(t, status)
    BY <1>4 DEF UpdateAnimal
  <2>2. Row(t) \in AnimalRow =>
          row \in AnimalRow /\ row.org = Row(t).org /\ row.owner \in {Null, Row(t).owner}
    BY DEF AnimalRow, Changed
  <2>3. TablesGood' /\ log' = log
    BY <1>2, <2>1, <2>2
  <2> QED BY <2>1, <2>3, CallsCarry DEF Grows
<1>5. CASE RemoveAnimal(t)
  <2>1. DeleteAnimalRow(Subject(t)) /\ \E status : Reply(t, status)
    BY <1>5 DEF RemoveAnimal
  <2>2. TablesGood' /\ log' = log
    BY <2>1, GoodAnimalGone DEF DeleteAnimalRow
  <2> QED BY <2>1, <2>2, CallsCarry DEF Grows
<1>6. CASE PublishAnimal(t) /\ ~UNCHANGED tables
  <2> DEFINE row == [org |-> call[t].on, status |-> call[t].set, owner |-> Null]
  <2>1. /\ call[t].on \in orgs /\ \E status : Reply(t, status)
        /\ \E a \in unused \cap Animals : WriteAnimalRow(a, row)
    BY <1>6 DEF PublishAnimal
  <2>2. call[t] \in AdoptionCalls \cup AccountCalls /\ call[t].op = "publish"
    BY <1>1, <1>6 DEF ForeignOK, PublishAnimal
  <2>3. call[t].on \in Orgs /\ call[t].set \in Status
    BY <2>2 DEF AdoptionCalls, AccountCalls
  <2>4. row \in AnimalRow /\ row.org \in orgs /\ row.owner = Null
    BY <2>1, <2>3 DEF AnimalRow
  <2>5. TablesGood' /\ log' = log
    BY <2>1, <2>4, GoodAnimal DEF WriteAnimalRow
  <2> QED BY <2>1, <2>5, CallsCarry DEF Grows
<1>7. CASE ~RemoveAnimal(t) /\ UNCHANGED tables
  <2>1. (\E status : Reply(t, status)) \/ Goto(t, "clear")
    BY <1>7 DEF AdoptAnimal, UpdateAnimal, PublishAnimal
  <2> QED BY <1>1, <1>7, <2>1, TablesKept, CallsCarry, ForeignKeeps DEF Grows
<1> QED BY <1>3, <1>4, <1>5, <1>6, <1>7

\* Shelters are founded, linked and closed, and accounts are closed.
LEMMA AccountGrows ==
  ASSUME CallsOK, SeenOK, TablesGood, NEW t \in Tasks, ForeignOK(t), AccountStep(t)
  PROVE  Grows(t)
<1>1. CASE ReceiveAccountCall(t)
  BY <1>1, ForeignBeginGrows
<1>2. CASE CheckUnaffiliated(t) \/ ReadFounder(t) \/ ReadOrg(t) \/ ReadAccount(t)
  <2>1. /\ Running(t) /\ pc[t] \notin CommunityLabels \cup {"read_request"} /\ UNCHANGED tables
        /\ \/ \E status : Reply(t, status)
           \/ \E label \in {"insert_org", "read_org", "delete_org", "delete_user"} :
                Goto(t, label)
    BY <1>2 DEF CheckUnaffiliated, ReadFounder, ReadOrg, ReadAccount, Running, CommunityLabels
  <2>2. TablesGood' /\ DOMAIN log \subseteq DOMAIN log'
    BY <2>1, TablesKept
  <2> QED BY <2>1, <2>2, CallsCarry, ForeignKeeps DEF Grows
<1>3. CASE InsertOrg(t)
  <2>1. CASE UNCHANGED tables /\ \E status : Reply(t, status)
    BY <2>1, TablesKept, CallsCarry DEF Grows
  <2>2. ASSUME NEW o \in unused \cap Orgs, InsertOrgRow(o), Carry(t, "link", o)
        PROVE  Grows(t)
    <3>1. Running(t) /\ pc[t] \notin CommunityLabels \cup {"read_request"}
      BY <1>3 DEF InsertOrg, Running, CommunityLabels
    <3>2. TablesGood' /\ DOMAIN log \subseteq DOMAIN log'
      BY <2>2, GoodShelters DEF InsertOrgRow
    <3> QED BY <2>2, <3>1, <3>2, CallsCarry, ForeignKeeps DEF Grows, Carried
  <2> QED BY <1>3, <2>1, <2>2 DEF InsertOrg
<1>4. CASE LinkFounder(t) \/ DeleteOrg(t)
  <2>1. \E status : Reply(t, status)
    BY <1>4 DEF LinkFounder, DeleteOrg
  <2>2. TablesGood' /\ DOMAIN log \subseteq DOMAIN log'
    BY <1>4, TablesKept, GoodShelters DEF LinkFounder, LinkOrg, DeleteOrg, DeleteOrgRow
  <2> QED BY <2>1, <2>2, CallsCarry DEF Grows
<1>5. CASE DeleteUser(t)
  BY <1>5, GoodUserGone, CallsCarry DEF DeleteUser, DeleteUserRow, Grows
<1> QED BY <1>1, <1>2, <1>3, <1>4, <1>5 DEF AccountStep

\* Every step of an adoption call keeps the tables.
LEMMA AdoptionGrows ==
  ASSUME CallsOK, SeenOK, TablesGood, NEW t \in Tasks, CallOK(t), ForeignOK(t),
         users \subseteq Users, AdoptionStep(t)
  PROVE  Grows(t)
BY ForeignBeginGrows, AdoptionReadGrows, RequestGrows, AnimalGrows DEF AdoptionStep

\* Review and profile calls write these tables only to register a user, and
\* carry what a row of an animal or of a review names.
LEMMA OwnGrows ==
  ASSUME CInv, SeenOK, TablesGood, NEW t \in Tasks,
         ReviewStep(t) \/ ProfileStep(t)
  PROVE  Grows(t) /\ (pc'[t] = "review_org" => ReadReviewedAnimal(t))
<1>1. CallsOK
  BY DEF CInv
<1>2. ASSUME UNCHANGED tables, SeenOK', reply'[t] = reply[t],
             pc'[t] \in CommunityLabels \ {"review_org"}
      PROVE  Grows(t) /\ (pc'[t] = "review_org" => ReadReviewedAnimal(t))
  BY <1>2, TablesKept DEF Grows, ForeignOK
<1>3. ASSUME TablesGood', log' = log, \E status : Reply(t, status)
      PROVE  Grows(t) /\ (pc'[t] = "review_org" => ReadReviewedAnimal(t))
  BY <1>1, <1>3, CallsCarry, ReplyMoves DEF Grows
<1>4. ASSUME UNCHANGED tables, \E status : Reply(t, status)
      PROVE  Grows(t) /\ (pc'[t] = "review_org" => ReadReviewedAnimal(t))
  BY <1>3, <1>4, TablesKept DEF tables
<1>5. ASSUME UNCHANGED tables, NEW label \in CommunityLabels \ {"review_org"}, Goto(t, label)
      PROVE  Grows(t) /\ (pc'[t] = "review_org" => ReadReviewedAnimal(t))
  BY <1>1, <1>2, <1>5, CallsCarry, GotoMoves
<1>6. ASSUME \E c : \E label \in CommunityLabels \ {"review_org"} : Begin(t, c, label, Null)
      PROVE  Grows(t) /\ (pc'[t] = "review_org" => ReadReviewedAnimal(t))
  BY <1>1, <1>2, <1>6, CallsCarry, BeginMoves DEF Carried
<1>7. CASE ReceiveReviewCall(t) \/ ReceiveRegister(t) \/ ReceiveEdit(t)
  <2>1. \E c : \E label \in CommunityLabels \ {"review_org"} : Begin(t, c, label, Null)
    BY <1>7 DEF ReceiveReviewCall, ReceiveRegister, ReceiveEdit, CommunityLabels
  <2> QED BY <1>6, <2>1
<1>8. CASE ReadReviewedAnimal(t) /\ Carry(t, "review_org", animals[call[t].on].org)
  <2>1. (CallOK(t) /\ animals[call[t].on] # Null) \/ \E status : Reply(t, status)
    BY <1>8 DEF ReadReviewedAnimal, CInv
  <2>2. CASE CallOK(t) /\ animals[call[t].on] # Null
    <3>1. call[t].on \in Animals
      BY <1>8, <2>2 DEF CallOK, Running, ReadReviewedAnimal
    <3>2. animals[call[t].on].org \in Carried
      BY <2>2, <3>1 DEF TablesGood, TablesTyped, AnimalRow, Carried
    <3>3. SeenOK' /\ reply'[t] = reply[t] /\ pc'[t] = "review_org" /\ UNCHANGED tables
      BY <1>1, <1>8, <3>2, CallsCarry, CarryMoves DEF ReadReviewedAnimal
    <3> QED BY <1>8, <3>3, TablesKept DEF Grows, ForeignOK, CommunityLabels
  <2> QED BY <1>4, <1>8, <2>1, <2>2 DEF ReadReviewedAnimal
<1>9. CASE FindReview(t)
  <2>1. \A i \in DOMAIN reviews : reviews[i] # Null => reviews[i].animal \in Carried
    <3>1. reviews \in Seq(ReviewRow \cup {Null})
      BY DEF CInv, RowsOK
    <3>2. \A i \in DOMAIN reviews : reviews[i] \in ReviewRow \cup {Null}
      BY <3>1
    <3> QED BY <3>2 DEF ReviewRow, Carried
  <2>2. \/ \E status : Reply(t, status)
        \/ Goto(t, "delete_review")
        \/ \E label \in {"name_review", "write_review"} : \E value \in Carried :
             Carry(t, label, value)
    BY <1>9, <2>1 DEF FindReview, ReviewIsThere
  <2>3. UNCHANGED tables
    BY <1>9 DEF FindReview
  <2>4. CASE \E label \in {"name_review", "write_review"} : \E value \in Carried :
               Carry(t, label, value)
    BY <1>1, <1>2, <2>3, <2>4, CallsCarry, CarryMoves DEF CommunityLabels
  <2> QED BY <1>4, <1>5, <2>2, <2>3, <2>4 DEF CommunityLabels
<1>10. CASE InsertUser(t)
  <2>1. \E status : Reply(t, status)
    BY <1>10 DEF InsertUser
  <2>2. UNCHANGED tables
        \/ (users \subseteq users' /\ UNCHANGED <<orgs, orgOf, animals, log, requests>>)
    BY <1>10 DEF InsertUser
  <2>3. TablesGood' /\ log' = log
    BY <2>2, GoodUnwritten, TablesKept DEF tables
  <2> QED BY <1>3, <2>1, <2>3
<1>11. ASSUME UNCHANGED tables,
              \/ \E status : Reply(t, status)
              \/ \E label \in CommunityLabels \ {"review_org"} : Goto(t, label)
       PROVE  Grows(t) /\ (pc'[t] = "review_org" => ReadReviewedAnimal(t))
  BY <1>4, <1>5, <1>11
<1>12. CASE \/ RefuseReview(t) \/ ReadReviewedOrg(t) \/ CheckUnreviewed(t) \/ InsertReview(t)
            \/ NameReview(t) \/ WriteReview(t) \/ DeleteReview(t)
  BY <1>11, <1>12
     DEF RefuseReview, ReadReviewedOrg, CheckUnreviewed, InsertReview, NameReview,
         WriteReview, DeleteReview, CommunityLabels
<1>13. CASE RefuseProfile(t) \/ FindEmail(t) \/ FindUser(t) \/ RereadUser(t) \/ UpdateUser(t)
  BY <1>11, <1>13
     DEF RefuseProfile, FindEmail, FindUser, RereadUser, UpdateUser, CommunityLabels
<1>14. CASE ReadReviewedAnimal(t)
  BY <1>4, <1>8, <1>14 DEF ReadReviewedAnimal
<1> QED
  BY <1>7, <1>9, <1>10, <1>12, <1>13, <1>14 DEF ReviewStep, ProfileStep

\* No other call comes to the shelter of a review.
LEMMA ForeignElsewhere ==
  ASSUME CallsOK, NEW t \in Tasks, CallOK(t), AdoptionStep(t) \/ AccountStep(t)
  PROVE  pc'[t] # "review_org"
<1> USE GotoMoves, CarryMoves, ReplyMoves, BeginMoves
<1>1. CASE ReceiveAdoptionCall(t)
  <2>1. \A c \in AdoptionCalls : FirstStatement[c.op] # "review_org"
    BY DEF AdoptionCalls, FirstStatement
  <2> QED BY <1>1, <2>1 DEF ReceiveAdoptionCall
<1>2. CASE ReceiveAccountCall(t)
  <2>1. \A c \in AccountCalls : FirstRead[c.op] # "review_org"
    BY DEF AccountCalls, FirstRead
  <2> QED BY <1>2, <2>1 DEF ReceiveAccountCall
<1>3. CASE CheckMember(t)
  <2>1. call[t].op \in {"remove", "update", "accept", "deny", "publish"}
    BY <1>3 DEF CheckMember, CallOK, Running
  <2>2. AfterCheck[call[t].op] # "review_org"
    BY <2>1 DEF AfterCheck
  <2> QED BY <1>3, <2>2 DEF CheckMember
<1>4. CASE ReadRequest(t) \/ ReadAnimal(t) \/ InsertRequest(t) \/ ReadApplicant(t) \/ ReadAdoptable(t)
  BY <1>4 DEF ReadRequest, ReadAnimal, AnimalMissing, InsertRequest, ReadApplicant, ReadAdoptable
<1>5. CASE AdoptAnimal(t) \/ ClearRequests(t) \/ DenyRequest(t) \/ UpdateAnimal(t)
           \/ RemoveAnimal(t) \/ PublishAnimal(t)
  BY <1>5 DEF AdoptAnimal, ClearRequests, DenyRequest, UpdateAnimal, RemoveAnimal, PublishAnimal
<1>6. CASE CheckUnaffiliated(t) \/ InsertOrg(t) \/ LinkFounder(t) \/ ReadFounder(t)
           \/ ReadOrg(t) \/ DeleteOrg(t) \/ ReadAccount(t) \/ DeleteUser(t)
  BY <1>6 DEF CheckUnaffiliated, InsertOrg, LinkFounder, ReadFounder, ReadOrg, DeleteOrg,
              ReadAccount, DeleteUser
<1> QED BY <1>1, <1>2, <1>3, <1>4, <1>5, <1>6 DEF AdoptionStep, AccountStep

\* Every step of a call keeps the tables, and the shelter a review looks up.
LEMMA StepGrows ==
  ASSUME DInv, NEW t \in Tasks, Step(t)
  PROVE  Grows(t) /\ (pc'[t] = "review_org" => ReadReviewedAnimal(t))
BY OwnGrows, AdoptionGrows, AccountGrows, ForeignElsewhere
   DEF DInv, CInv, RowsOK, TablesGood, Step

\* The shelter that a review call alone looks up is still that of its animal.
LEMMA ShelterStays ==
  ASSUME DInv, NEW t \in Tasks, Step(t), alone' = alone \ (Accompanied' \cup Answered'),
         NEW s \in Tasks
  PROVE  AtOrg(s)'
<1> SUFFICES ASSUME s \in alone', pc'[s] = "review_org"
             PROVE  seen'[s] = animals'[call'[s].on].org
  BY DEF AtOrg
<1>1. CInv /\ CallsOK /\ Sound(t) /\ Running(s)'
  BY StepSound DEF DInv, CInv, Running
<1>2. s \in alone /\ \A r \in Tasks \ {s} : ~Running(r)'
  BY <1>1 DEF Accompanied
<1>3. s = t
  <2> SUFFICES ASSUME s # t PROVE FALSE
    OBVIOUS
  <2>1. Running(s)
    BY <1>1 DEF Sound, Moves, Running
  <2>2. ~Running(t)
    BY <1>1, <1>2, <2>1 DEF CInv, AloneOK
  <2> QED BY <1>1, <1>2, <2>2 DEF Sound, Wakes
<1>4. ReadReviewedAnimal(t)
  BY <1>3, StepGrows
<1>5. pc'[t] # "done" /\ UNCHANGED tables
  BY <1>3, <1>4 DEF ReadReviewedAnimal
<1>6. Carry(t, "review_org", animals[call[t].on].org)
  BY <1>1, <1>4, <1>5, ReplyMoves DEF ReadReviewedAnimal
<1> QED BY <1>1, <1>3, <1>5, <1>6, CarryMoves DEF tables

\* The tables and the calls at the start are good: a shelter's founder has an
\* account, and its animals are not adopted.
LEMMA InitGrown ==
  ASSUME Init
  PROVE  DInv
<1> USE DEF Init
<1>1. CInv
  BY InitSound
<1>2. \A t \in Tasks : pc[t] = "idle" /\ seen[t] = Null /\ reply[t] = 0
  BY DEF CallsInit
<1>3. SeenOK
  BY DEF CallsInit, SeenOK
<1>4. AnsweredIsDone /\ \A t \in Tasks : ForeignOK(t) /\ AtOrg(t)
  BY <1>2 DEF AnsweredIsDone, ForeignOK, AtOrg, Running
<1>5. TablesTyped
  <2>1. orgs \subseteq Orgs
    BY SchemaAssumption DEF Registered
  <2>2. log \in Seq(RequestRow) /\ requests \subseteq DOMAIN log
    BY SchemaAssumption
  <2> QED BY <2>1, <2>2, SchemaAssumption DEF TablesTyped
<1>6. AnimalsAttached
  <2> SUFFICES ASSUME NEW a \in Animals, InitAnimals[a] # Null
               PROVE  InitAnimals[a].org \in orgs /\ InitAnimals[a].owner = Null
    BY DEF AnimalsAttached
  <2>1. InitAnimals[a].owner = Null /\ InitAnimals[a] \in AnimalRow
    BY SchemaAssumption
  <2>2. PICK u \in Users : InitOrgOf[u] = InitAnimals[a].org
    BY SchemaAssumption
  <2>3. InitOrgOf[u] # Null
    BY <2>1, <2>2, SchemaAssumption DEF AnimalRow
  <2>4. u \in Registered
    BY <2>3, CommunityAssumption DEF Registered
  <2> QED BY <2>1, <2>2, <2>3, <2>4
<1> QED BY <1>1, <1>3, <1>4, <1>5, <1>6 DEF DInv

\* Every step keeps the tables good, and the calls what they carry.
LEMMA NextGrows ==
  ASSUME DInv, [Next]_communityVars
  PROVE  DInv'
<1>1. CInv'
  BY NextSound DEF DInv
<1>2. ASSUME NEW t \in Tasks, Step(t), alone' = alone \ (Accompanied' \cup Answered')
      PROVE  DInv'
  <2>1. Sound(t) /\ Grows(t)
    BY <1>2, StepSound, StepGrows DEF DInv
  <2>2. \A s \in Tasks : ForeignOK(s)'
    <3>1. ASSUME NEW s \in Tasks \ {t} PROVE ForeignOK(s)'
      <4>1. pc'[s] = pc[s] /\ call'[s] = call[s] /\ ForeignOK(s)
        BY <2>1, <3>1 DEF Sound, Moves, DInv
      <4> QED BY <2>1, <4>1 DEF ForeignOK, Running, Decides, Grows
    <3> QED BY <2>1, <3>1 DEF Grows
  <2>3. AnsweredIsDone'
    <3>1. reply[t] = 0
      BY <2>1 DEF Sound, Wakes, Running, DInv, AnsweredIsDone
    <3> QED BY <2>1, <3>1 DEF Sound, Moves, Grows, DInv, AnsweredIsDone
  <2>4. \A s \in Tasks : AtOrg(s)'
    BY <1>2, ShelterStays
  <2> QED BY <1>1, <1>2, <2>1, <2>2, <2>3, <2>4 DEF DInv, Grows, TablesGood
<1>3. ASSUME UNCHANGED <<vars, reviews, accounts>>, alone' \subseteq alone
      PROVE  DInv'
  <2>1. UNCHANGED tables /\ pc' = pc /\ call' = call /\ seen' = seen /\ reply' = reply
    BY <1>3 DEF vars, callVars
  <2>2. TablesGood' /\ animals' = animals /\ log' = log
    BY <2>1, TablesKept DEF DInv, TablesGood, tables
  <2>3. /\ SeenOK' /\ AnsweredIsDone' /\ alone' \subseteq Tasks
        /\ \A t \in Tasks : ForeignOK(t)' /\ AtOrg(t)'
    BY <1>3, <2>1, <2>2 DEF DInv, SeenOK, AnsweredIsDone, ForeignOK, AtOrg, Running, Decides
  <2> QED BY <1>1, <2>2, <2>3 DEF DInv, TablesGood
<1>4. CASE Next
  BY <1>2, <1>3, <1>4 DEF Next, AllAnswered
<1>5. CASE UNCHANGED communityVars
  BY <1>3, <1>5 DEF communityVars
<1> QED BY <1>4, <1>5

\* The invariant that the types and the pending reviews rest on.
LEMMA GrownInvariant == Spec => []DInv
<1>1. Init => DInv
  BY InitGrown
<1>2. DInv /\ [Next]_communityVars => DInv'
  BY NextGrows
<1> QED BY <1>1, <1>2, PTL DEF Spec

\* The tables of users, animals, requests, reviews and profiles and the calls
\* on them keep their types in any interleaving.
THEOREM CommunityTypeCorrect == Spec => []TypeOK
<1>1. DInv => TypeOK
  BY DEF DInv, CInv, RowsOK, TablesTyped, SeenOK, TypeOK
<1> QED BY <1>1, GrownInvariant, PTL

\* ReviewService asks for nothing that GetAdoptedAnimalsWithoutReviewsByUserId
\* has not looked at: what a user is shown as waiting for a review takes one.
THEOREM PendingReviewsTaken == Spec => PendingAreAccepted
<1>1. ASSUME DInv, Next, NEW t \in Tasks, Running(t), t \in alone, call[t].op = "review",
             call[t].on \in PendingReviews(call[t].by)
      PROVE  reply'[t] \in {0, 201} \/ pc[t] = "refuse"
  <2>1. /\ CInv /\ CallsOK /\ CallOK(t) /\ Fresh(t) /\ reply[t] = 0
        /\ pc[t] \in CommunityLabels
    BY <1>1 DEF DInv, CInv, CallOK, AloneOK, AnsweredIsDone, Running, CommunityOps
  <2>2. /\ animals[call[t].on] # Null /\ animals[call[t].on].owner = call[t].by
        /\ call[t].on \in Animals /\ ~Reviewed(call[t].by, call[t].on)
    BY <1>1 DEF PendingReviews
  <2>3. CASE reply'[t] = reply[t]
    BY <2>1, <2>3
  <2>4. CASE reply'[t] # reply[t] /\ pc[t] # "refuse"
    <3>1. \/ ReviewStep(t) /\ UNCHANGED accounts
          \/ ProfileStep(t) /\ UNCHANGED reviews
      BY <1>1, <2>1, <2>4, OwnAnswer DEF CommunityOps
    <3>2. pc[t] \in {"review_animal", "review_org", "review_exists", "insert_review",
                     "name_review"}
      BY <1>1, <2>1, <2>4 DEF CallOK, CommunityLabels
    <3>3. ~ProfileStep(t)
      BY <2>4, <3>2, <2>1, BeginsUnanswered
         DEF ProfileStep, RefuseProfile, FindEmail, InsertUser, FindUser, RereadUser, UpdateUser
    <3>4. ~ReceiveReviewCall(t) /\ ~RefuseReview(t)
      BY <2>1, <2>4, BeginsUnanswered DEF RefuseReview
    <3>5. ~FindReview(t) /\ ~WriteReview(t) /\ ~DeleteReview(t)
      BY <3>2 DEF FindReview, WriteReview, DeleteReview
    <3>6. ~ReadReviewedAnimal(t) /\ ~CheckUnreviewed(t)
      BY <2>1, <2>2, <2>4, GoesOnUnanswered DEF ReadReviewedAnimal, CheckUnreviewed
    <3>7. ~ReadReviewedOrg(t)
      <4>1. pc[t] = "review_org" => seen[t] \in orgs
        BY <1>1, <2>2 DEF DInv, AtOrg, AnimalsAttached
      <4> QED BY <2>1, <2>4, <4>1, GoesOnUnanswered DEF ReadReviewedOrg
    <3>8. ~InsertReview(t)
      <4>1. pc[t] = "insert_review" => call[t].by \in users
        BY <1>1, <2>1, <2>2, SchemaAssumption DEF CallOK, DInv, AnimalsAttached
      <4> QED BY <2>1, <2>2, <2>4, <4>1, GoesOnUnanswered DEF InsertReview
    <3>9. NameReview(t)
      BY <3>1, <3>3, <3>4, <3>5, <3>6, <3>7, <3>8 DEF ReviewStep
    <3> QED BY <1>1, <2>1, <2>2, <3>9, ReplyMoves DEF NameReview
  <2> QED BY <2>3, <2>4
<1>2. DInv /\ [Next]_communityVars =>
        [\A t \in Tasks : Running(t) /\ t \in alone
                          /\ call[t].op = "review" /\ call[t].on \in PendingReviews(call[t].by) =>
           reply'[t] \in {0, 201} \/ pc[t] = "refuse"]_communityVars
  BY <1>1
<1> QED BY <1>2, GrownInvariant, PTL DEF Spec, PendingAreAccepted
=============================================================================
