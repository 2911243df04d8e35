---------------------------- MODULE PhotosProofs ----------------------------
(***************************************************************************)
(* What holds of photos for any number of rows, photos and concurrent      *)
(* calls, whatever fails: a call that reads a row and its caller's         *)
(* membership first and writes later neither deletes an object some row    *)
(* never lost nor writes into a foreign shelter.                           *)
(***************************************************************************)
EXTENDS Photos, TLAPS

\* The row a call may write is its caller's, or is gone and cannot come back.
Authorized(t) ==
  LET r == job[t].on IN
  /\ r \in Rows \ unused
  /\ r \notin live \/ memberOf[job[t].by] = Home(r)

\* What a call read of its row is still shown, or was dropped since.
OldOK(t) == job[t].old \subseteq shown[job[t].on] \cup dropped

OfRow(t) == job[t].op \in {"edit", "remove"}

CallOK(t) ==
  /\ At(t, "read_user") => job[t].op = "close_account" \/ (OfRow(t) /\ job[t].on \in Orgs)
  /\ At(t, "read_row") =>
       /\ OfRow(t) /\ job[t].on \in Rows
       /\ job[t].on \in Orgs => Authorized(t)
  /\ At(t, "read_member") =>
       \/ OfRow(t) /\ job[t].on \in Items \ unused /\ OldOK(t)
       \/ job[t].op = "create_animal" /\ job[t].on \in Orgs
       \/ job[t].op = "create_post"
  /\ job[t].step \in {"read_org", "insert"} => job[t].on \in Orgs /\ Authorized(t)
  /\ job[t].step \in {"update", "delete"} => Authorized(t) /\ OldOK(t)
  /\ At(t, "unlink") => job[t].old \subseteq dropped
  /\ Running(t) /\ job[t].op = "edit" /\ job[t].on \in Orgs =>
       \A p, q \in job[t].list : p = q
  /\ At(t, "update") => job[t].op = "edit"

PInv == TypeOK /\ \A t \in Tasks : CallOK(t)

-----------------------------------------------------------------------------
(* What a step of one call does to the tables, seen from another call.     *)

Evolves ==
  /\ unused' \subseteq unused /\ dropped \subseteq dropped'
  /\ live' \subseteq live \cup unused
  /\ \A r \in Rows : shown[r] \subseteq shown'[r] \cup dropped'
  /\ \A u \in Users :
       \/ memberOf'[u] = memberOf[u]
       \/ \A r \in Rows : Home(r) = memberOf[u] => r \notin live'

\* A call that runs has the fields of a running call.
LEMMA RunningJob ==
  ASSUME TypeOK, NEW t \in Tasks, Running(t)
  PROVE  /\ job[t] \in RunningJobs
         /\ job[t].by \in Users /\ job[t].on \in Rows \cup {Null}
         /\ job[t].list \subseteq PhotoNames /\ job[t].old \subseteq PhotoNames
         /\ job[t].step \in RunningSteps
         /\ job[t].op \in {"create_animal", "create_post", "edit", "remove", "close_account"}
<1>1. job[t] \in Jobs
  BY DEF TypeOK
<1>2. job[t] \notin [step : {"idle", "done"}]
  BY DEF Running
<1>3. job[t] \in RunningJobs
  BY <1>1, <1>2 DEF Jobs
<1> QED BY <1>3 DEF RunningJobs

\* A row that is not unused, and is its caller's or gone, remains so.
LEMMA AuthorizedStays ==
  ASSUME PInv, Evolves, NEW t \in Tasks, Running(t), Authorized(t), job'[t] = job[t]
  PROVE  Authorized(t)'
<1>1. job[t].by \in Users
  BY RunningJob DEF PInv
<1> QED BY <1>1 DEF Authorized, Evolves, PInv, TypeOK, TablesOK, Home

\* Another call's step leaves a call's facts alone.
LEMMA OthersKeep ==
  ASSUME PInv, Evolves, NEW s \in Tasks, job'[s] = job[s]
  PROVE  CallOK(s)'
<1>1. CASE ~Running(s)
  BY <1>1 DEF Running, CallOK, At
<1>2. CASE Running(s)
  <2>1. CallOK(s) /\ Running(s)'
    BY <1>2 DEF PInv, Running
  <2>2. Authorized(s) => Authorized(s)'
    BY <1>2, AuthorizedStays
  <2>3. job[s].on \in Rows /\ OldOK(s) => OldOK(s)'
    BY DEF Evolves, OldOK
  <2>4. Authorized(s) => job[s].on \in Rows
    BY DEF Authorized
  <2>5. job[s].old \subseteq dropped => job[s].old \subseteq dropped'
    BY DEF Evolves
  <2>6. job[s].on \in Items \ unused => job[s].on \in Items \ unused' /\ job[s].on \in Rows
    BY DEF Evolves, Rows
  <2> QED
    BY <2>1, <2>2, <2>3, <2>4, <2>5, <2>6 DEF CallOK, At, OfRow, Running
<1> QED BY <1>1, <1>2

\* A step that moves one call and lets the tables evolve keeps the invariant.
LEMMA OneCallMoves ==
  ASSUME PInv, Evolves, TablesOK', NEW t \in Tasks, NEW j \in Jobs, Go(t, j), CallOK(t)'
  PROVE  PInv'
<1>1. job \in [Tasks -> Jobs]
  BY DEF PInv, TypeOK
<1>2. job' \in [Tasks -> Jobs]
  BY <1>1 DEF Go
<1>3. \A s \in Tasks \ {t} : job'[s] = job[s]
  BY <1>1 DEF Go
<1>4. \A s \in Tasks : CallOK(s)'
  BY <1>3, OthersKeep
<1> QED BY <1>2, <1>4 DEF PInv, TypeOK

\* A call that ends owes nothing.
LEMMA DoneKeeps ==
  ASSUME PInv, Evolves, TablesOK', NEW t \in Tasks, Done(t)
  PROVE  PInv'
<1>1. [step |-> "done"] \in Jobs
  BY DEF Jobs
<1>2. job'[t] = [step |-> "done"]
  BY DEF Done, Go, PInv, TypeOK
<1>3. CallOK(t)'
  BY <1>2 DEF CallOK, At, Running
<1> QED BY <1>1, <1>3, OneCallMoves DEF Done

\* Reading changes no table.
LEMMA NoChange ==
  ASSUME PInv, UNCHANGED <<rows, store, leaked>>
  PROVE  Evolves /\ TablesOK'
BY DEF PInv, TypeOK, TablesOK, rows, store, Evolves

-----------------------------------------------------------------------------
(* The steps that change no table.                                         *)

\* A new step of a call that keeps its other fields is a job.
LEMMA ThenJob ==
  ASSUME TypeOK, NEW t \in Tasks, Running(t), NEW step \in RunningSteps, Then(t, step)
  PROVE  /\ [job[t] EXCEPT !.step = step] \in Jobs
         /\ job'[t] = [job[t] EXCEPT !.step = step]
         /\ job'[t].step = step /\ job'[t].by = job[t].by /\ job'[t].on = job[t].on
         /\ job'[t].op = job[t].op /\ job'[t].list = job[t].list
         /\ job'[t].old = job[t].old
<1>1. job[t] \in RunningJobs
  BY RunningJob
<1>2. [job[t] EXCEPT !.step = step] \in RunningJobs
  BY <1>1 DEF RunningJobs
<1>3. job'[t] = [job[t] EXCEPT !.step = step]
  BY DEF Then, Go, TypeOK
<1> QED BY <1>1, <1>2, <1>3 DEF Jobs, RunningJobs

\* A call that has begun has read nothing yet, and its endpoint fits its row.
LEMMA ReceiveSound ==
  ASSUME PInv, NEW t \in Tasks, Receive(t)
  PROVE  PInv'
<1> PICK u \in Users :
      \/ \E o \in Orgs : Begin(t, Request("create_animal", u, o, {}, "read_member"))
      \/ Begin(t, Request("create_post", u, Null, {}, "read_member"))
      \/ \E r \in Rows :
           \/ \E list \in Lists(r) : Begin(t, Request("edit", u, r, list, FirstRead(r)))
           \/ Begin(t, Request("remove", u, r, {}, FirstRead(r)))
      \/ Begin(t, Request("close_account", u, Null, {}, "read_user"))
  BY DEF Receive
<1>1. UNCHANGED <<rows, store, leaked>>
  BY DEF Begin
<1>2. Evolves /\ TablesOK'
  BY <1>1, NoChange
<1>3. ASSUME NEW j \in RunningJobs, Begin(t, j), j.old = {},
             \/ j.step = "read_member" /\ j.op = "create_animal" /\ j.on \in Orgs
             \/ j.step = "read_member" /\ j.op = "create_post"
             \/ j.step = "read_user" /\ j.op = "close_account"
             \/ j.step = "read_user" /\ j.op \in {"edit", "remove"} /\ j.on \in Orgs
             \/ j.step = "read_row" /\ j.op \in {"edit", "remove"} /\ j.on \in Items,
             j.op = "edit" /\ j.on \in Orgs => \A p, q \in j.list : p = q
      PROVE  PInv'
  <2>1. j \in Jobs /\ Go(t, j)
    BY <1>3 DEF Jobs, Begin
  <2>2. job'[t] = j
    BY <2>1 DEF Go, PInv, TypeOK
  <2>3. CallOK(t)'
    BY <1>3, <2>2, PhotosAssumption DEF CallOK, At, OfRow, Rows
  <2> QED BY <1>2, <2>1, <2>3, OneCallMoves
<1>4. ASSUME NEW o \in Orgs, Begin(t, Request("create_animal", u, o, {}, "read_member"))
      PROVE  PInv'
  <2> DEFINE j == Request("create_animal", u, o, {}, "read_member")
  <2>1. /\ j \in RunningJobs /\ j.old = {} /\ j.op = "create_animal" /\ j.on = o
        /\ j.step = "read_member"
    BY DEF Request, RunningJobs, RunningSteps, Rows
  <2>2. Begin(t, j)
    BY <1>4
  <2> HIDE DEF j
  <2> QED BY <1>3, <2>1, <2>2
<1>5. ASSUME Begin(t, Request("create_post", u, Null, {}, "read_member"))
      PROVE  PInv'
  <2> DEFINE j == Request("create_post", u, Null, {}, "read_member")
  <2>1. j \in RunningJobs /\ j.old = {} /\ j.op = "create_post" /\ j.step = "read_member"
    BY DEF Request, RunningJobs, RunningSteps
  <2>2. Begin(t, j)
    BY <1>5
  <2> HIDE DEF j
  <2> QED BY <1>3, <2>1, <2>2
<1>6. ASSUME NEW r \in Rows, NEW list \in Lists(r),
             Begin(t, Request("edit", u, r, list, FirstRead(r)))
      PROVE  PInv'
  <2> DEFINE j == Request("edit", u, r, list, FirstRead(r))
  <2>1. list \subseteq PhotoNames /\ (r \in Orgs => \A p, q \in list : p = q)
    BY DEF Lists, PInv, TypeOK, TablesOK
  <2>2. /\ j \in RunningJobs /\ j.old = {} /\ j.op = "edit" /\ j.on = r /\ j.list = list
        /\ j.step = FirstRead(r)
    BY <2>1 DEF Request, RunningJobs, RunningSteps, FirstRead
  <2>3. Begin(t, j)
    BY <1>6
  <2>4. \/ r \in Orgs /\ FirstRead(r) = "read_user"
        \/ r \in Items /\ FirstRead(r) = "read_row"
    BY DEF FirstRead, Rows
  <2> HIDE DEF j
  <2> QED BY <1>3, <2>1, <2>2, <2>3, <2>4
<1>7. ASSUME NEW r \in Rows, Begin(t, Request("remove", u, r, {}, FirstRead(r)))
      PROVE  PInv'
  <2> DEFINE j == Request("remove", u, r, {}, FirstRead(r))
  <2>1. /\ j \in RunningJobs /\ j.old = {} /\ j.op = "remove" /\ j.on = r
        /\ j.step = FirstRead(r)
    BY DEF Request, RunningJobs, RunningSteps, FirstRead
  <2>2. Begin(t, j)
    BY <1>7
  <2>3. \/ r \in Orgs /\ FirstRead(r) = "read_user"
        \/ r \in Items /\ FirstRead(r) = "read_row"
    BY DEF FirstRead, Rows
  <2> HIDE DEF j
  <2> QED BY <1>3, <2>1, <2>2, <2>3
<1>8. ASSUME Begin(t, Request("close_account", u, Null, {}, "read_user"))
      PROVE  PInv'
  <2> DEFINE j == Request("close_account", u, Null, {}, "read_user")
  <2>1. j \in RunningJobs /\ j.old = {} /\ j.op = "close_account" /\ j.step = "read_user"
    BY DEF Request, RunningJobs, RunningSteps
  <2>2. Begin(t, j)
    BY <1>8
  <2> HIDE DEF j
  <2> QED BY <1>3, <2>1, <2>2
<1> QED BY <1>4, <1>5, <1>6, <1>7, <1>8

\* The caller of an endpoint of a shelter is a member of it when it passes.
LEMMA ReadUserSound ==
  ASSUME PInv, NEW t \in Tasks, ReadUser(t)
  PROVE  PInv'
<1>1. Running(t) /\ TypeOK /\ CallOK(t)
  BY DEF PInv, ReadUser, At, Running
<1>2. Evolves /\ TablesOK'
  BY NoChange DEF ReadUser
<1>3. CASE Done(t)
  BY <1>2, <1>3, DoneKeeps
<1>4. CASE job[t].op = "close_account" /\ Then(t, "delete_user")
  <2>1. "delete_user" \in RunningSteps
    BY DEF RunningSteps
  <2>2. CallOK(t)'
    BY <1>1, <1>4, <2>1, ThenJob DEF CallOK, At, OfRow
  <2> QED BY <1>1, <1>2, <1>4, <2>1, <2>2, ThenJob, OneCallMoves DEF Then
<1>5. CASE /\ job[t].op # "close_account" /\ memberOf[job[t].by] = job[t].on
           /\ Then(t, "read_row")
  <2>1. "read_row" \in RunningSteps
    BY DEF RunningSteps
  <2>2. job[t].on \in Orgs /\ OfRow(t)
    BY <1>1, <1>5 DEF CallOK, ReadUser
  <2>3. Authorized(t)
    BY <1>1, <1>5, <2>2, PhotosAssumption DEF Authorized, Home, Rows, TypeOK, TablesOK
  <2>4. CallOK(t)'
    BY <1>1, <1>2, <1>5, <2>1, <2>2, <2>3, ThenJob, NoChange DEF CallOK, At, OfRow, Authorized, Rows,
       Home, ReadUser, rows
  <2> QED BY <1>1, <1>2, <1>5, <2>1, <2>4, ThenJob, OneCallMoves DEF Then
<1> QED BY <1>3, <1>4, <1>5 DEF ReadUser

\* What GetById returned is what the row shows now.
LEMMA ReadRowSound ==
  ASSUME PInv, NEW t \in Tasks, ReadRow(t)
  PROVE  PInv'
<1>1. Running(t) /\ TypeOK /\ CallOK(t) /\ At(t, "read_row")
  BY DEF PInv, ReadRow, At, Running
<1>2. UNCHANGED <<rows, store, leaked>> /\ Evolves /\ TablesOK'
  BY NoChange DEF ReadRow
<1>3. CASE job[t].on \notin live
  BY <1>2, <1>3, DoneKeeps DEF ReadRow
<1>4. CASE job[t].on \in live
  <2> DEFINE r == job[t].on
             next == IF r \in Orgs THEN AfterChecks(t) ELSE "read_member"
             j == [job[t] EXCEPT !.old = shown[r], !.step = next]
  <2>1. job[t] \in RunningJobs /\ r \in Rows /\ OfRow(t)
    BY <1>1, RunningJob DEF CallOK
  <2>2. shown[r] \subseteq PhotoNames /\ r \notin unused
    BY <1>1, <1>4, <2>1 DEF TypeOK, TablesOK
  <2>3. next \in {"update", "delete", "read_member"} /\ next \in RunningSteps
    BY DEF AfterChecks, RunningSteps
  <2>4. /\ j \in Jobs /\ j.step = next /\ j.old = shown[r]
        /\ j.on = r /\ j.op = job[t].op /\ j.by = job[t].by /\ j.list = job[t].list
    BY <2>1, <2>2, <2>3 DEF RunningJobs, Jobs
  <2>5. Go(t, j)
    BY <1>4, <1>1 DEF ReadRow
  <2>6. job'[t] = j
    BY <1>1, <2>5 DEF Go, TypeOK
  <2>7. /\ next = "read_member" => r \in Items
        /\ next # "read_member" => r \in Orgs
        /\ next = "update" => job[t].op = "edit"
    BY <2>1 DEF AfterChecks, Rows
  <2>8. r \in Orgs => Authorized(t)
    BY <1>1 DEF CallOK
  <2>9. job[t].op = "edit" /\ r \in Orgs => \A p, q \in job[t].list : p = q
    BY <1>1 DEF CallOK
  <2>10. /\ memberOf' = memberOf /\ live' = live /\ unused' = unused
         /\ shown' = shown /\ dropped' = dropped
    BY <1>2 DEF rows
  <2> HIDE DEF j, next
  <2>11. CallOK(t)'
    BY <2>1, <2>2, <2>3, <2>4, <2>6, <2>7, <2>8, <2>9, <2>10
    DEF CallOK, At, OfRow, OldOK, Authorized
  <2> QED BY <1>2, <2>4, <2>5, <2>11, OneCallMoves
<1> QED BY <1>3, <1>4

\* Whoever passes the check is a member of the row's shelter at this moment.
LEMMA CheckMemberSound ==
  ASSUME PInv, NEW t \in Tasks, CheckMember(t)
  PROVE  PInv'
<1>1. Running(t) /\ TypeOK /\ CallOK(t) /\ At(t, "read_member")
  BY DEF PInv, CheckMember, At, Running
<1>2. UNCHANGED <<rows, store, leaked>> /\ Evolves /\ TablesOK'
  BY NoChange DEF CheckMember
<1> DEFINE mine == memberOf[job[t].by]
<1>3. /\ job[t] \in RunningJobs /\ mine \in Orgs \cup {Null}
      /\ {"insert", "update", "delete", "read_org"} \subseteq RunningSteps
  BY <1>1, RunningJob DEF TypeOK, TablesOK, RunningSteps
<1>4. /\ memberOf' = memberOf /\ live' = live /\ unused' = unused
      /\ shown' = shown /\ dropped' = dropped
  BY <1>2 DEF rows
<1>5. \A o \in Orgs : o \in Rows \ unused /\ Home(o) = o
  BY <1>1, PhotosAssumption DEF TypeOK, TablesOK, Rows, Home
<1>6. CASE Done(t)
  BY <1>2, <1>6, DoneKeeps
<1>7. CASE mine # Null /\ job[t].op = "create_post"
           /\ Go(t, [job[t] EXCEPT !.on = mine, !.step = "read_org"])
  <2> DEFINE j == [job[t] EXCEPT !.on = mine, !.step = "read_org"]
  <2>1. /\ j \in Jobs /\ j.step = "read_org" /\ j.on = mine
        /\ j.op = "create_post" /\ j.by = job[t].by
    BY <1>3, <1>7 DEF RunningJobs, Jobs, Rows
  <2>2. job'[t] = j
    BY <1>1, <1>7 DEF Go, TypeOK
  <2> HIDE DEF j
  <2>3. CallOK(t)'
    BY <1>3, <1>4, <1>5, <1>7, <2>1, <2>2 DEF CallOK, At, Authorized
  <2>4. Go(t, j)
    BY <1>7 DEF j
  <2> QED BY <1>2, <2>1, <2>3, <2>4, OneCallMoves
<1>8. CASE job[t].op = "create_animal" /\ mine = job[t].on /\ Then(t, "insert")
  <2>1. job[t].on \in Orgs
    BY <1>1, <1>8 DEF CallOK, OfRow
  <2>2. CallOK(t)'
    BY <1>1, <1>3, <1>4, <1>5, <1>8, <2>1, ThenJob DEF CallOK, At, Authorized
  <2> QED BY <1>1, <1>2, <1>3, <1>8, <2>2, ThenJob, OneCallMoves DEF Then
<1>9. CASE OfRow(t) /\ mine = Home(job[t].on) /\ Then(t, AfterChecks(t))
  <2>1. job[t].on \in Items \ unused /\ OldOK(t)
    BY <1>1, <1>9 DEF CallOK, OfRow
  <2>2. /\ AfterChecks(t) \in {"update", "delete"} /\ AfterChecks(t) \in RunningSteps
        /\ AfterChecks(t) = "update" => job[t].op = "edit"
    BY DEF AfterChecks, RunningSteps
  <2>3. job[t].on \notin Orgs /\ job[t].on \in Rows \ unused
    BY <2>1, PhotosAssumption DEF Rows
  <2>4. CallOK(t)'
    BY <1>1, <1>4, <1>9, <2>1, <2>2, <2>3, ThenJob DEF CallOK, At, OldOK, Authorized
  <2> QED BY <1>1, <1>2, <1>9, <2>2, <2>4, ThenJob, OneCallMoves DEF Then
<1> QED BY <1>6, <1>7, <1>8, <1>9 DEF CheckMember, OfRow

\* Looking the shelter of a new post up changes nothing.
LEMMA ReadOrgSound ==
  ASSUME PInv, NEW t \in Tasks, ReadOrg(t)
  PROVE  PInv'
<1>1. Running(t) /\ TypeOK /\ CallOK(t) /\ At(t, "read_org")
  BY DEF PInv, ReadOrg, At, Running
<1>2. UNCHANGED <<rows, store, leaked>> /\ Evolves /\ TablesOK'
  BY NoChange DEF ReadOrg
<1>3. CASE Done(t)
  BY <1>2, <1>3, DoneKeeps
<1>4. CASE Then(t, "insert")
  <2>1. "insert" \in RunningSteps
    BY DEF RunningSteps
  <2>2. memberOf' = memberOf /\ live' = live /\ unused' = unused
    BY <1>2 DEF rows
  <2>3. CallOK(t)'
    BY <1>1, <1>4, <2>1, <2>2, ThenJob DEF CallOK, At, Authorized
  <2> QED BY <1>1, <1>2, <1>4, <2>1, <2>3, ThenJob, OneCallMoves DEF Then
<1> QED BY <1>3, <1>4 DEF ReadOrg

-----------------------------------------------------------------------------
(* The writes.                                                             *)

\* A call that goes on to the bucket deletes photos that were dropped.
LEMMA UnlinkingKeeps ==
  ASSUME PInv, Evolves, TablesOK', NEW t \in Tasks, Running(t), NEW todo,
         todo \subseteq dropped', Unlinking(t, todo)
  PROVE  PInv'
<1>1. CASE Done(t)
  BY <1>1, DoneKeeps
<1>2. CASE Go(t, [job[t] EXCEPT !.old = todo, !.step = "unlink"])
  <2> DEFINE j == [job[t] EXCEPT !.old = todo, !.step = "unlink"]
  <2>1. TypeOK /\ CallOK(t) /\ job[t] \in RunningJobs
    BY RunningJob DEF PInv
  <2>2. todo \subseteq PhotoNames
    BY DEF TablesOK
  <2>3. /\ j \in Jobs /\ j.step = "unlink" /\ j.old = todo
        /\ j.on = job[t].on /\ j.op = job[t].op /\ j.list = job[t].list
    BY <2>1, <2>2 DEF RunningJobs, RunningSteps, Jobs
  <2>4. job'[t] = j
    BY <1>2, <2>1 DEF Go, TypeOK
  <2>5. Go(t, j)
    BY <1>2
  <2> HIDE DEF j
  <2>6. CallOK(t)'
    BY <2>1, <2>3, <2>4 DEF CallOK, At, Running
  <2> QED BY <2>3, <2>5, <2>6, OneCallMoves
<1> QED BY <1>1, <1>2 DEF Unlinking

\* Rows that are removed drop their photos, and nobody stays a member of a
\* shelter that is gone.
LEMMA RemoveRowsEvolves ==
  ASSUME PInv, NEW gone, gone = {} \/ (\E r \in Rows : gone = Gone(r)),
         RemoveRows(gone), users' \subseteq users, unused' = unused,
         stored' \subseteq stored, known' = known, leaked' \subseteq PhotoNames
  PROVE  Evolves /\ TablesOK'
<1> USE DEF PInv, TypeOK, TablesOK
<1>1. gone \subseteq Rows
  BY PhotosAssumption DEF Gone, Rows
<1>2. \A o \in Orgs \cap gone : \A r \in Rows : Home(r) = o => r \in gone
  BY PhotosAssumption DEF Gone, Home, Rows
<1>3. \A r \in Rows : shown[r] \subseteq PhotoNames
  OBVIOUS
<1>4. PhotosOn(gone) \subseteq PhotoNames
  BY <1>1, <1>3 DEF PhotosOn
<1>5. \A r \in gone : shown[r] \subseteq PhotosOn(gone)
  BY DEF PhotosOn
<1>6. \A u \in Users : memberOf[u] \in Orgs \cup {Null} /\ memberOf'[u] \in Orgs \cup {Null}
  BY DEF RemoveRows
<1>7. \A r \in Rows : shown'[r] = (IF r \in gone THEN {} ELSE shown[r])
  BY DEF RemoveRows
<1>8. \A u \in Users : memberOf'[u] = memberOf[u] \/ memberOf[u] \in Orgs \cap gone
  BY <1>1, <1>6, PhotosAssumption DEF RemoveRows
<1>9. Evolves
  <2>1. \A r \in Rows : shown[r] \subseteq shown'[r] \cup dropped'
    BY <1>5, <1>7 DEF RemoveRows
  <2>2. \A u \in Users : \/ memberOf'[u] = memberOf[u]
                         \/ \A r \in Rows : Home(r) = memberOf[u] => r \notin live'
    BY <1>2, <1>8 DEF RemoveRows
  <2> QED BY <2>1, <2>2 DEF Evolves, RemoveRows
<1>10. TablesOK'
  <2>1. memberOf' \in [Users -> Orgs \cup {Null}]
    BY <1>6 DEF RemoveRows
  <2>2. shown' \in [Rows -> SUBSET PhotoNames]
    BY <1>3 DEF RemoveRows
  <2>3. \A r \in Rows \ live' : shown'[r] = {}
    BY <1>7 DEF RemoveRows
  <2>4. \A o \in Orgs : \A p, q \in shown'[o] : p = q
    BY <1>7 DEF Rows
  <2>5. dropped' \subseteq PhotoNames /\ live' \subseteq Rows /\ live' \cap unused' = {}
    BY <1>4 DEF RemoveRows
  <2> QED BY <2>1, <2>2, <2>3, <2>4, <2>5
<1> QED BY <1>9, <1>10

\* A new row takes an unused id of a live shelter.
LEMMA InsertItemSound ==
  ASSUME PInv, NEW t \in Tasks, InsertItem(t)
  PROVE  PInv'
<1>1. CASE UNCHANGED rows
  BY <1>1, NoChange, DoneKeeps DEF InsertItem
<1>2. CASE ~UNCHANGED rows
  <2> USE DEF PInv, TypeOK, TablesOK
  <2>1. PICK i \in unused :
          /\ \E list \in Lists(i) : shown' = [shown EXCEPT ![i] = list]
          /\ live' = live \cup {i} /\ unused' = unused \ {i}
          /\ UNCHANGED <<users, memberOf, dropped, store, leaked>>
    BY <1>2 DEF InsertItem
  <2>2. PICK list \in Lists(i) : shown' = [shown EXCEPT ![i] = list]
    BY <2>1
  <2>3. list \subseteq PhotoNames
    BY DEF Lists
  <2>4. i \in Items /\ i \in Rows /\ i \notin live /\ i \notin Orgs /\ shown[i] = {}
    BY PhotosAssumption DEF Rows
  <2>5. \A r \in Rows : shown'[r] = (IF r = i THEN list ELSE shown[r])
    BY <2>2
  <2>6. Evolves
    BY <2>1, <2>4, <2>5 DEF Evolves
  <2>7. shown' \in [Rows -> SUBSET PhotoNames]
    BY <2>2, <2>3, <2>4
  <2>8. \A o \in Orgs : \A p, q \in shown'[o] : p = q
    BY <2>4, <2>5 DEF Rows
  <2>9. \A r \in Rows \ live' : shown'[r] = {}
    BY <2>1, <2>5
  <2>10. TablesOK'
    BY <2>1, <2>4, <2>7, <2>8, <2>9 DEF store
  <2> QED BY <2>6, <2>10, DoneKeeps DEF InsertItem
<1> QED BY <1>1, <1>2

\* An UPDATE drops what the row shows and the new list does not, and all the
\* call still deletes was dropped by it or before.
LEMMA UpdateRowSound ==
  ASSUME PInv, NEW t \in Tasks, UpdateRow(t)
  PROVE  PInv'
<1>1. TypeOK /\ CallOK(t) /\ Running(t) /\ At(t, "update")
  BY DEF PInv, UpdateRow, At, Running
<1>2. CASE Done(t) /\ UNCHANGED rows
  BY <1>2, NoChange, DoneKeeps DEF UpdateRow
<1>3. CASE ~(Done(t) /\ UNCHANGED rows)
  <2> DEFINE r == job[t].on
             list == job[t].list
  <2>1. /\ r \in live
        /\ shown' = [shown EXCEPT ![r] = list]
        /\ dropped' = dropped \cup (shown[r] \ list)
        /\ Unlinking(t, job[t].old \ list)
        /\ UNCHANGED <<users, memberOf, live, unused, store, leaked>>
    BY <1>3 DEF UpdateRow, NewPhotos, Removed
  <2>2. list \subseteq PhotoNames /\ r \in Rows
    BY <1>1, <2>1, RunningJob DEF TypeOK, TablesOK
  <2>3. job[t].old \subseteq shown[r] \cup dropped
    BY <1>1 DEF CallOK, At, OldOK
  <2>4. r \in Orgs => \A p, q \in list : p = q
    BY <1>1 DEF CallOK, At
  <2> HIDE DEF r, list
  <2>5. \A s \in Rows : shown'[s] = (IF s = r THEN list ELSE shown[s])
    BY <1>1, <2>1, <2>2 DEF TypeOK, TablesOK
  <2>6. Evolves
    BY <2>1, <2>5 DEF Evolves
  <2>7. TablesOK'
    <3> USE DEF TypeOK, TablesOK
    <3>1. shown' \in [Rows -> SUBSET PhotoNames] /\ dropped' \subseteq PhotoNames
      BY <1>1, <2>1, <2>2
    <3>2. \A s \in Rows \ live' : shown'[s] = {}
      BY <1>1, <2>1, <2>5
    <3>3. \A o \in Orgs : \A p, q \in shown'[o] : p = q
      BY <1>1, <2>4, <2>5 DEF Rows
    <3> QED BY <1>1, <2>1, <3>1, <3>2, <3>3 DEF store
  <2>8. job[t].old \ list \subseteq dropped'
    BY <2>1, <2>3
  <2> QED BY <1>1, <2>1, <2>6, <2>7, <2>8, UnlinkingKeeps
<1> QED BY <1>2, <1>3

\* A DELETE drops what the row shows, and so all the call still deletes.
LEMMA DeleteRowSound ==
  ASSUME PInv, NEW t \in Tasks, DeleteRow(t)
  PROVE  PInv'
<1>1. TypeOK /\ CallOK(t) /\ Running(t) /\ At(t, "delete")
  BY DEF PInv, DeleteRow, At, Running
<1>2. CASE Done(t) /\ UNCHANGED <<rows, leaked>>
  BY <1>2, NoChange, DoneKeeps DEF DeleteRow
<1>3. CASE ~(Done(t) /\ UNCHANGED <<rows, leaked>>)
  <2> DEFINE r == job[t].on
  <2>1. /\ r \in live /\ RemoveRows(Gone(r))
        /\ leaked' = leaked \cup PhotosOn(Gone(r) \ {r})
        /\ Unlinking(t, job[t].old)
        /\ UNCHANGED <<users, unused, store>>
    BY <1>3 DEF DeleteRow
  <2>2. r \in Rows /\ r \in Gone(r) /\ Gone(r) \subseteq Rows
    BY <1>1, <2>1 DEF TypeOK, TablesOK, Gone, Rows
  <2>3. job[t].old \subseteq shown[r] \cup dropped
    BY <1>1 DEF CallOK, At, OldOK
  <2>4. leaked' \subseteq PhotoNames
    BY <1>1, <2>1, <2>2 DEF TypeOK, TablesOK, PhotosOn
  <2>5. Evolves /\ TablesOK'
    BY <2>1, <2>2, <2>4, RemoveRowsEvolves DEF store
  <2>6. job[t].old \subseteq dropped'
    BY <2>1, <2>2, <2>3 DEF RemoveRows, PhotosOn
  <2> QED BY <1>1, <2>1, <2>5, <2>6, UnlinkingKeeps
<1> QED BY <1>2, <1>3

\* The trigger removes a shelter as its endpoint does.
LEMMA DeleteUserSound ==
  ASSUME PInv, NEW t \in Tasks, DeleteUser(t)
  PROVE  PInv'
<1>1. TypeOK /\ Running(t)
  BY DEF PInv, DeleteUser, At, Running
<1> DEFINE o == memberOf[job[t].by]
           gone == IF o = Null THEN {} ELSE Gone(o)
<1>2. o \in Orgs \cup {Null}
  BY <1>1, RunningJob DEF TypeOK, TablesOK
<1>3. gone = {} \/ (\E r \in Rows : gone = Gone(r))
  BY <1>2 DEF Rows
<1>4. gone \subseteq Rows
  BY <1>2 DEF Gone, Rows
<1>5. /\ RemoveRows(gone) /\ users' \subseteq users /\ Done(t)
      /\ leaked' = leaked \cup PhotosOn(gone) /\ UNCHANGED <<unused, store>>
  BY DEF DeleteUser
<1> HIDE DEF gone
<1>6. leaked' \subseteq PhotoNames
  BY <1>1, <1>4, <1>5 DEF TypeOK, TablesOK, PhotosOn
<1>7. Evolves /\ TablesOK'
  BY <1>3, <1>5, <1>6, RemoveRowsEvolves DEF store
<1> QED BY <1>5, <1>7, DoneKeeps

\* Deleting objects changes no row.
LEMMA UnlinkSound ==
  ASSUME PInv, NEW t \in Tasks, Unlink(t)
  PROVE  PInv'
<1>1. TypeOK /\ CallOK(t) /\ Running(t) /\ At(t, "unlink")
  BY DEF PInv, Unlink, At, Running
<1>2. PICK p \in job[t].old :
        /\ Unlinking(t, job[t].old \ {p})
        /\ \/ stored' = stored \ {p} /\ UNCHANGED leaked
           \/ leaked' = leaked \cup {p} /\ UNCHANGED stored
        /\ UNCHANGED <<rows, known>>
  BY DEF Unlink
<1>3. job[t].old \subseteq PhotoNames /\ job[t].old \subseteq dropped
  BY <1>1, RunningJob DEF CallOK
<1>4. Evolves
  BY <1>2 DEF rows, Evolves
<1>5. TablesOK'
  BY <1>1, <1>2, <1>3 DEF rows, TypeOK, TablesOK
<1>6. job[t].old \ {p} \subseteq dropped'
  BY <1>2, <1>3 DEF rows
<1> QED BY <1>1, <1>2, <1>4, <1>5, <1>6, UnlinkingKeeps

\* A call that fails leaves the photos it had still to delete.
LEMMA CallFailsSound ==
  ASSUME PInv, NEW t \in Tasks, CallFails(t)
  PROVE  PInv'
<1>1. TypeOK /\ Running(t)
  BY DEF PInv, CallFails
<1>2. job[t].old \subseteq PhotoNames
  BY <1>1, RunningJob
<1>3. Evolves
  BY DEF CallFails, rows, Evolves
<1>4. TablesOK'
  BY <1>1, <1>2 DEF CallFails, rows, store, TypeOK, TablesOK
<1> QED BY <1>3, <1>4, DoneKeeps DEF CallFails

\* An upload adds an object and no row.
LEMMA UploadSound ==
  ASSUME PInv, NEW t \in Tasks, Upload(t)
  PROVE  PInv'
<1>1. Evolves
  BY DEF Upload, rows, Evolves
<1>2. TablesOK'
  BY DEF PInv, Upload, rows, TypeOK, TablesOK
<1> QED BY <1>1, <1>2, DoneKeeps DEF Upload

-----------------------------------------------------------------------------
(* The theorems.                                                           *)

\* At the start every row shows the photos it was given.
LEMMA InitSound ==
  ASSUME Init
  PROVE  PInv
<1>1. memberOf \in [Users -> Orgs \cup {Null}]
  <2>1. \A u \in Users : (\E o \in Orgs : Founder[o] = u) =>
          (CHOOSE o \in Orgs : Founder[o] = u) \in Orgs
    OBVIOUS
  <2> QED BY <2>1 DEF Init
<1>2. stored \subseteq PhotoNames /\ known = stored
  BY PhotosAssumption DEF Init
<1>3. TablesOK
  BY <1>1, <1>2, PhotosAssumption DEF Init, TablesOK, Rows
<1>4. \A t \in Tasks : job[t] = [step |-> "idle"]
  BY DEF Init, Idle
<1>5. TypeOK
  BY <1>3 DEF TypeOK, Init, Idle, Jobs
<1>6. \A t \in Tasks : CallOK(t)
  BY <1>4 DEF CallOK, At, Running
<1> QED BY <1>5, <1>6 DEF PInv

\* Every step of every call keeps the invariant.
LEMMA NextSound ==
  ASSUME PInv, [Next]_vars
  PROVE  PInv'
<1>1. CASE UNCHANGED vars
  BY <1>1 DEF vars, rows, store, PInv, TypeOK, TablesOK, CallOK, At, Running, OfRow, OldOK,
     Authorized
<1>2. CASE \E t \in Tasks : CallStep(t)
  BY <1>2, ReceiveSound, UploadSound, ReadUserSound, ReadRowSound, CheckMemberSound,
     ReadOrgSound, InsertItemSound, UpdateRowSound, DeleteRowSound, DeleteUserSound,
     UnlinkSound, CallFailsSound DEF CallStep
<1> QED BY <1>1, <1>2 DEF Next, AllAnswered

\* The invariant the others rest on: what a call has read of its row is still
\* shown or was dropped, and whom it let pass still owns the row or the row is
\* gone.
THEOREM PhotosInvariant == Spec => []PInv
<1>1. Init => PInv
  BY InitSound
<1>2. PInv /\ [Next]_vars => PInv'
  BY NextSound
<1> QED BY <1>1, <1>2, PTL DEF Spec

\* Tables, bucket and calls keep their types; a row that is gone shows nothing
\* and a shelter never has two avatars.
THEOREM TypeCorrect == Spec => []TypeOK
<1>1. PInv => TypeOK
  BY DEF PInv
<1> QED BY <1>1, PhotosInvariant, PTL

\* An object leaves the bucket only when a statement has taken it off its row.
THEOREM DeletesOnlyDropped == Spec => DeletedAfterDropped
<1>1. PInv /\ [Next]_vars => [stored \ stored' \subseteq dropped]_vars
  <2> SUFFICES ASSUME PInv, Next
               PROVE  stored \ stored' \subseteq dropped
    BY DEF vars, rows, store
  <2>1. ASSUME NEW t \in Tasks, Unlink(t)
        PROVE  stored \ stored' \subseteq dropped
    <3>1. job[t].old \subseteq dropped
      BY <2>1 DEF PInv, CallOK, Unlink
    <3> QED BY <2>1, <3>1 DEF Unlink
  <2>2. ASSUME NEW t \in Tasks, CallStep(t), ~Unlink(t)
        PROVE  stored \subseteq stored'
    BY <2>2 DEF CallStep, Receive, Begin, Upload, ReadUser, ReadRow, CheckMember, ReadOrg,
       InsertItem, UpdateRow, DeleteRow, DeleteUser, CallFails, store
  <2>3. CASE AllAnswered
    BY <2>3 DEF AllAnswered, vars, store
  <2> QED BY <2>1, <2>2, <2>3 DEF Next
<1> QED BY <1>1, PhotosInvariant, PTL DEF Spec, DeletedAfterDropped

\* What an edit, a creation or a deletion does to rows it does to rows of the
\* caller's own shelter, whatever ran since the caller was checked.
THEOREM WritesOwnShelter == Spec => MembersOnly
<1> DEFINE OwnRows ==
      \A t \in Tasks :
        job[t].step \in {"insert", "update", "delete"} /\ job'[t] # job[t] =>
          \A r \in Rows : shown'[r] # shown[r] => memberOf[job[t].by] = Home(r)
<1>1. PInv /\ [Next]_vars => [OwnRows]_vars
  <2> SUFFICES ASSUME PInv, Next, NEW t \in Tasks,
                      job[t].step \in {"insert", "update", "delete"}, job'[t] # job[t],
                      NEW r \in Rows, shown'[r] # shown[r]
               PROVE  memberOf[job[t].by] = Home(r)
    OBVIOUS
  <2>1. PICK s \in Tasks : CallStep(s)
    BY DEF Next, AllAnswered, vars
  <2>2. t = s
    <3>1. \E j : Go(s, j)
      BY <2>1 DEF CallStep, Receive, Begin, Upload, ReadUser, ReadRow, CheckMember, ReadOrg,
         InsertItem, UpdateRow, DeleteRow, DeleteUser, Unlink, CallFails, Unlinking, Done, Then
    <3> QED BY <3>1 DEF Go, PInv, TypeOK
  <2>3. TypeOK /\ CallOK(t) /\ Authorized(t)
    BY DEF PInv, CallOK
  <2>4. CASE InsertItem(t)
    <3>1. PICK i \in unused : ShelterOf[i] = job[t].on
                              /\ \E list \in Lists(i) : shown' = [shown EXCEPT ![i] = list]
      BY <2>4 DEF InsertItem, rows
    <3>2. r = i /\ job[t].on \in live /\ job[t].on \in Orgs /\ i \in Items
      BY <2>3, <2>4, <3>1 DEF TypeOK, TablesOK, InsertItem, rows, CallOK, At
    <3> QED BY <2>3, <3>1, <3>2, PhotosAssumption DEF Authorized, Home
  <2>5. CASE UpdateRow(t)
    <3>1. r = job[t].on /\ job[t].on \in live
      BY <2>3, <2>5 DEF UpdateRow, rows, TypeOK, TablesOK
    <3> QED BY <2>3, <3>1 DEF Authorized
  <2>6. CASE DeleteRow(t)
    <3>1. job[t].on \in live /\ r \in Gone(job[t].on)
      BY <2>6 DEF DeleteRow, RemoveRows, rows
    <3>2. Home(r) = Home(job[t].on)
      BY <3>1, PhotosAssumption DEF Gone, Home
    <3> QED BY <2>3, <3>1, <3>2 DEF Authorized
  <2>7. CASE CallFails(t)
    BY <2>7 DEF CallFails, rows
  <2> QED
    BY <2>1, <2>2, <2>4, <2>5, <2>6, <2>7 DEF CallStep, Receive, Begin, Upload, ReadUser,
       ReadRow, CheckMember, ReadOrg, DeleteUser, Unlink, At
<1> QED BY <1>1, PhotosInvariant, PTL DEF Spec, MembersOnly
=============================================================================
