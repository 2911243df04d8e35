-------------------------- MODULE PhotoRaceProofs --------------------------
(***************************************************************************)
(* Rows that no two calls edit or delete at once owe the bucket nothing    *)
(* and show nothing it lost, for any number of rows, photos and concurrent *)
(* calls, whatever fails.  The invariant says of such rows what a call     *)
(* read of them and what it will write; each step is reduced to what it    *)
(* does to rows, bucket and its own call.                                  *)
(***************************************************************************)
EXTENDS PhotoRaces, PhotosProofs

\* A row shows photos uploaded for it, and what was never dropped is stored.
PhotosOK ==
  /\ \A r \in Rows : \A p \in shown[r] : PhotoOf[p] = r /\ p \in known
  /\ dropped \subseteq known /\ known \ dropped \subseteq stored

Edits(t) == Running(t) /\ job[t].op = "edit"

\* The photos in the body of an edit were uploaded for its row and have not
\* been dropped since, unless the row is gone or contested.
ListOK(t) ==
  Edits(t) =>
    /\ job[t].on \in Rows
    /\ \A p \in job[t].list : PhotoOf[p] = job[t].on /\ p \in known
    /\ job[t].on \in live \cup unused /\ job[t].on \notin raced =>
         job[t].list \cap dropped = {}

HasRead(j) ==
  j.step \in {"update", "delete"} \/ (j.step = "read_member" /\ j.op \in {"edit", "remove"})

\* What a call has read of its row is all the row shows.
OldFull(t) ==
  HasRead(job[t]) =>
    /\ OfRow(t)
    /\ job[t].on \in live /\ job[t].on \notin raced => shown[job[t].on] \subseteq job[t].old

\* Somebody will delete a dropped photo.
Owed(p) ==
  \/ p \in leaked \/ PhotoOf[p] \in raced
  \/ \E t \in Tasks : job[t].step = "unlink" /\ p \in job[t].old

RInv ==
  /\ PInv /\ PhotosOK /\ Contested \subseteq raced
  /\ \A r \in Rows \ raced : shown[r] \cap dropped = {}
  /\ \A t \in Tasks : ListOK(t) /\ OldFull(t)
  /\ \A p \in dropped \cap stored : Owed(p)

-----------------------------------------------------------------------------
(* What a step of one call does.                                           *)

OthersStay(t) == \A s \in Tasks \ {t} : job'[s] = job[s]

BucketEffect ==
  /\ known \subseteq known' /\ known' \ known \subseteq stored'
  /\ (stored' \ stored) \cap known = {} /\ stored \ stored' \subseteq dropped
  /\ leaked \subseteq leaked'

\* A row keeps its photos, is gone, is new, or is the one the call edits.
RowEffect(t, r) ==
  \/ shown'[r] = shown[r]
  \/ shown'[r] = {} /\ r \notin live' \cup unused'
  \/ r \in unused /\ \E list \in Lists(r) : shown'[r] = list
  \/ Edits(t) /\ r = job[t].on /\ r \in live /\ shown'[r] = job[t].list

\* A photo is dropped by the row that showed it, because the row is gone or is
\* the one the call edits, and somebody knows.
DropEffect(t, p) ==
  \E r \in Rows :
    /\ p \in shown[r] /\ p \notin shown'[r]
    /\ \/ r \notin live' \cup unused'
       \/ Edits(t) /\ r = job[t].on /\ p \notin job[t].list
    /\ \/ p \in leaked' \/ r \in raced
       \/ job'[t].step = "unlink" /\ p \in job'[t].old

RowsEffect(t) ==
  /\ unused' \subseteq unused /\ live' \subseteq live \cup unused
  /\ dropped \subseteq dropped'
  /\ \A r \in Rows : RowEffect(t, r)
  /\ \A p \in dropped' \ dropped : DropEffect(t, p)

\* The list of an edit is chosen when it begins.
OwnList(t) ==
  Edits(t)' =>
    \/ /\ ~Running(t) /\ UNCHANGED <<rows, known>>
       /\ job'[t].on \in Rows /\ job'[t].list \in Lists(job'[t].on)
    \/ Edits(t) /\ job'[t].on = job[t].on /\ job'[t].list = job[t].list

\* A row is read once, and nothing is written in that step.
OwnOld(t) ==
  HasRead(job'[t]) =>
    /\ OfRow(t)' /\ UNCHANGED rows
    /\ \/ job'[t].old = shown[job'[t].on]
       \/ HasRead(job[t]) /\ job'[t].on = job[t].on /\ job'[t].old = job[t].old

\* A photo a call is to delete is deleted, given up or still to delete.
OwnDebt(t) ==
  job[t].step = "unlink" =>
    \A p \in job[t].old :
      p \notin stored' \/ p \in leaked' \/ (job'[t].step = "unlink" /\ p \in job'[t].old)

OwnEffect(t) == OthersStay(t) /\ OwnList(t) /\ OwnOld(t) /\ OwnDebt(t)
Effect(t) == BucketEffect /\ RowsEffect(t) /\ OwnEffect(t)

\* A call that ends.
LEMMA DoneOwn ==
  ASSUME PInv, NEW t \in Tasks, Done(t)
  PROVE  OthersStay(t) /\ OwnList(t) /\ OwnOld(t) /\ (job[t].step # "unlink" => OwnDebt(t))
<1>1. job'[t] = [step |-> "done"] /\ OthersStay(t)
  BY DEF PInv, TypeOK, Done, Go, OthersStay
<1> QED BY <1>1 DEF OwnList, Edits, Running, OwnOld, HasRead, OwnDebt

\* A call that goes on as it is.
LEMMA ThenOwn ==
  ASSUME PInv, NEW t \in Tasks, Running(t), NEW step \in RunningSteps \ {"read_member"},
         Then(t, step), UNCHANGED rows, job[t].step # "unlink",
         step \in {"update", "delete"} => HasRead(job[t]) /\ OfRow(t)
  PROVE  OwnEffect(t)
<1>1. /\ job'[t].step = step /\ job'[t].on = job[t].on /\ job'[t].op = job[t].op
      /\ job'[t].list = job[t].list /\ job'[t].old = job[t].old
  BY ThenJob DEF PInv
<1>2. OthersStay(t)
  BY DEF Then, Go, PInv, TypeOK, OthersStay
<1> QED BY <1>1, <1>2 DEF OwnEffect, OwnList, Edits, OwnOld, OfRow, HasRead, OwnDebt

\* A call that goes on to the bucket, with all it has to delete.
LEMMA UnlinkingOwn ==
  ASSUME PInv, NEW t \in Tasks, Running(t), NEW todo, Unlinking(t, todo)
  PROVE  /\ OthersStay(t) /\ OwnList(t) /\ OwnOld(t) /\ (job[t].step # "unlink" => OwnDebt(t))
         /\ \A p \in todo : job'[t].step = "unlink" /\ p \in job'[t].old
<1>1. CASE todo = {}
  BY <1>1, DoneOwn DEF Unlinking
<1>2. CASE todo # {}
  <2>1. job[t] \in RunningJobs /\ job \in [Tasks -> Jobs]
    BY RunningJob DEF PInv, TypeOK
  <2>2. Go(t, [job[t] EXCEPT !.old = todo, !.step = "unlink"])
    BY <1>2 DEF Unlinking
  <2>3. job'[t] = [job[t] EXCEPT !.old = todo, !.step = "unlink"] /\ OthersStay(t)
    BY <2>1, <2>2 DEF Go, OthersStay
  <2>4. /\ job'[t].step = "unlink" /\ job'[t].old = todo /\ job'[t].on = job[t].on
        /\ job'[t].op = job[t].op /\ job'[t].list = job[t].list
    BY <2>1, <2>3 DEF RunningJobs
  <2> QED BY <2>3, <2>4 DEF OwnList, Edits, OwnOld, HasRead, OwnDebt
<1> QED BY <1>1, <1>2

\* Steps that write neither rows nor bucket.
LEMMA QuietEffect ==
  ASSUME UNCHANGED <<rows, store, leaked>>, NEW t
  PROVE  BucketEffect /\ RowsEffect(t)
BY DEF rows, store, BucketEffect, RowsEffect, RowEffect

-----------------------------------------------------------------------------
(* One lemma per group of steps.                                           *)

\* A call begins with a list of photos that are still on their row or new.
LEMMA ReceiveEffect ==
  ASSUME PInv, NEW t \in Tasks, Receive(t)
  PROVE  Effect(t)
<1>1. PICK j, l :
        /\ Begin(t, j) /\ j.list = l
        /\ j.step \in {"read_member", "read_user", "read_row"}
        /\ \/ j.op \in {"create_animal", "create_post", "close_account"}
           \/ j.op = "remove" /\ j.step # "read_member"
           \/ j.op = "edit" /\ j.step # "read_member" /\ j.on \in Rows /\ l \in Lists(j.on)
  <2>1. CASE \E u \in Users, o \in Orgs :
               Begin(t, Request("create_animal", u, o, {}, "read_member"))
    BY <2>1 DEF Request
  <2>2. CASE \E u \in Users : Begin(t, Request("create_post", u, Null, {}, "read_member"))
    BY <2>2 DEF Request
  <2>3. CASE \E u \in Users : Begin(t, Request("close_account", u, Null, {}, "read_user"))
    BY <2>3 DEF Request
  <2>4. CASE \E u \in Users, r \in Rows :
               Begin(t, Request("remove", u, r, {}, FirstRead(r)))
    BY <2>4 DEF Request, FirstRead
  <2>5. CASE \E u \in Users, r \in Rows : \E list \in Lists(r) :
               Begin(t, Request("edit", u, r, list, FirstRead(r)))
    <3>1. PICK u, r, list :
            /\ u \in Users /\ r \in Rows /\ list \in Lists(r)
            /\ Begin(t, Request("edit", u, r, list, FirstRead(r)))
      BY <2>5
    <3> QED BY <3>1 DEF Request, FirstRead
  <2> QED BY <2>1, <2>2, <2>3, <2>4, <2>5 DEF Receive
<1>2. UNCHANGED <<rows, store, leaked>> /\ job[t].step = "idle"
  BY <1>1 DEF Begin, At
<1>3. job'[t] = j /\ OthersStay(t)
  BY <1>1 DEF Begin, Go, PInv, TypeOK, OthersStay
<1>4. OwnEffect(t)
  BY <1>1, <1>2, <1>3
     DEF OwnEffect, OwnList, Edits, Running, OwnOld, HasRead, OwnDebt, store
<1> QED BY <1>2, <1>4, QuietEffect DEF Effect

\* The row is read, with all it shows.
LEMMA ReadRowEffect ==
  ASSUME PInv, NEW t \in Tasks, ReadRow(t)
  PROVE  Effect(t)
<1>1. /\ UNCHANGED <<rows, store, leaked>> /\ Running(t) /\ job[t].step = "read_row"
      /\ job[t] \in RunningJobs /\ job \in [Tasks -> Jobs]
  BY RunningJob DEF ReadRow, At, Running, PInv, TypeOK
<1>2. CASE Done(t)
  BY <1>1, <1>2, DoneOwn, QuietEffect DEF Effect, OwnEffect
<1>3. CASE ~Done(t)
  <2>1. PICK r, step :
          r = job[t].on /\ Go(t, [job[t] EXCEPT !.old = shown[r], !.step = step])
    BY <1>3 DEF ReadRow
  <2>2. job'[t] = [job[t] EXCEPT !.old = shown[r], !.step = step] /\ OthersStay(t)
    BY <1>1, <2>1 DEF Go, OthersStay
  <2>3. /\ job'[t].old = shown[r] /\ job'[t].on = job[t].on
        /\ job'[t].op = job[t].op /\ job'[t].list = job[t].list
    BY <1>1, <2>2 DEF RunningJobs
  <2>4. OfRow(t)
    BY <1>1 DEF PInv, CallOK, At
  <2>5. OwnEffect(t)
    BY <1>1, <2>1, <2>2, <2>3, <2>4
       DEF OwnEffect, OwnList, Edits, Running, OwnOld, OfRow, OwnDebt
  <2> QED BY <1>1, <2>5, QuietEffect DEF Effect
<1> QED BY <1>2, <1>3

\* The other reads.
LEMMA ReadsEffect ==
  ASSUME PInv, NEW t \in Tasks, ReadUser(t) \/ CheckMember(t) \/ ReadOrg(t)
  PROVE  Effect(t)
<1>1. /\ UNCHANGED <<rows, store, leaked>> /\ UNCHANGED rows /\ Running(t)
      /\ job[t].step \in {"read_user", "read_member", "read_org"} /\ CallOK(t)
      /\ job[t] \in RunningJobs /\ job \in [Tasks -> Jobs]
  BY RunningJob DEF ReadUser, CheckMember, ReadOrg, At, Running, PInv, TypeOK
<1>2. CASE Done(t)
  BY <1>1, <1>2, DoneOwn, QuietEffect DEF Effect, OwnEffect
<1>3. CASE \E step \in RunningSteps \ {"read_member", "update", "delete"} : Then(t, step)
  BY <1>1, <1>3, ThenOwn, QuietEffect DEF Effect
<1>4. CASE CheckMember(t) /\ job[t].op \in {"edit", "remove"} /\ Then(t, AfterChecks(t))
  <2>1. HasRead(job[t]) /\ OfRow(t) /\ AfterChecks(t) \in RunningSteps \ {"read_member"}
    BY <1>4 DEF CheckMember, At, HasRead, OfRow, AfterChecks, RunningSteps
  <2>2. PICK step \in RunningSteps \ {"read_member"} : Then(t, step)
    BY <1>4, <2>1
  <2> QED BY <1>1, <2>1, <2>2, ThenOwn, QuietEffect DEF Effect
<1>5. CASE \E o : /\ job[t].op = "create_post"
                  /\ Go(t, [job[t] EXCEPT !.on = o, !.step = "read_org"])
  <2>1. PICK o : Go(t, [job[t] EXCEPT !.on = o, !.step = "read_org"])
    BY <1>5
  <2>2. job'[t] = [job[t] EXCEPT !.on = o, !.step = "read_org"] /\ OthersStay(t)
    BY <1>1, <2>1 DEF Go, OthersStay
  <2>3. job'[t].step = "read_org" /\ job'[t].op = "create_post"
    BY <1>1, <1>5, <2>2 DEF RunningJobs
  <2>4. OwnEffect(t)
    BY <1>1, <2>2, <2>3 DEF OwnEffect, OwnList, Edits, OwnOld, HasRead, OwnDebt
  <2> QED BY <1>1, <2>4, QuietEffect DEF Effect
<1>6. CASE ReadUser(t) \/ ReadOrg(t)
  BY <1>2, <1>3, <1>6 DEF ReadUser, ReadOrg, RunningSteps
<1>7. CASE CheckMember(t)
  <2>1. \/ Done(t) \/ Then(t, "insert")
        \/ job[t].op \in {"edit", "remove"} /\ Then(t, AfterChecks(t))
        \/ \E o : /\ job[t].op = "create_post"
                  /\ Go(t, [job[t] EXCEPT !.on = o, !.step = "read_org"])
    BY <1>7 DEF CheckMember
  <2> QED BY <1>2, <1>3, <1>4, <1>5, <1>7, <2>1 DEF RunningSteps
<1> QED BY <1>6, <1>7

\* A photo is put under a name nobody knows.
LEMMA UploadEffect ==
  ASSUME PInv, NEW t \in Tasks, Upload(t)
  PROVE  Effect(t)
<1>1. OwnEffect(t)
  BY DoneOwn DEF Upload, At, OwnEffect
<1>2. BucketEffect
  BY DEF Upload, BucketEffect
<1>3. RowsEffect(t)
  BY DEF Upload, rows, RowsEffect, RowEffect
<1> QED BY <1>1, <1>2, <1>3 DEF Effect

\* A new row shows what its body lists.
LEMMA InsertItemEffect ==
  ASSUME PInv, NEW t \in Tasks, InsertItem(t)
  PROVE  Effect(t)
<1>1. OwnEffect(t) /\ BucketEffect
  BY DoneOwn DEF InsertItem, At, OwnEffect, BucketEffect, store
<1>2. CASE UNCHANGED rows
  BY <1>1, <1>2, QuietEffect DEF InsertItem, Effect
<1>3. CASE ~UNCHANGED rows
  <2>1. PICK i \in unused :
          /\ \E list \in Lists(i) : shown' = [shown EXCEPT ![i] = list]
          /\ live' = live \cup {i} /\ unused' = unused \ {i} /\ dropped' = dropped
    BY <1>3 DEF InsertItem
  <2>2. PICK list \in Lists(i) : shown' = [shown EXCEPT ![i] = list]
    BY <2>1
  <2>3. \A r \in Rows : shown'[r] = IF r = i THEN list ELSE shown[r]
    BY <2>2 DEF PInv, TypeOK, TablesOK
  <2>4. \A r \in Rows : RowEffect(t, r)
    BY <2>1, <2>2, <2>3 DEF RowEffect
  <2>5. RowsEffect(t)
    BY <2>1, <2>4 DEF RowsEffect
  <2> QED BY <1>1, <2>5 DEF Effect
<1> QED BY <1>2, <1>3

\* An UPDATE drops what the row shows and the new list does not, which is what
\* the call read and will delete unless the row is contested.
LEMMA UpdateRowEffect ==
  ASSUME RInv, NEW t \in Tasks, UpdateRow(t)
  PROVE  Effect(t)
<1>1. /\ PInv /\ CallOK(t) /\ OldFull(t) /\ Running(t) /\ job[t].step = "update"
      /\ UNCHANGED <<store, leaked>>
  BY DEF RInv, PInv, UpdateRow, At, Running
<1>2. BucketEffect
  BY <1>1 DEF BucketEffect, store
<1>3. CASE Done(t) /\ UNCHANGED rows
  BY <1>1, <1>3, DoneOwn, QuietEffect DEF Effect, OwnEffect
<1>4. CASE ~(Done(t) /\ UNCHANGED rows)
  <2> DEFINE r == job[t].on
             list == job[t].list
  <2>1. /\ r \in live /\ shown' = [shown EXCEPT ![r] = list]
        /\ dropped' = dropped \cup (shown[r] \ list)
        /\ Unlinking(t, job[t].old \ list)
        /\ UNCHANGED <<live, unused>>
    BY <1>4 DEF UpdateRow, NewPhotos, Removed
  <2>2. Edits(t) /\ r \in Rows
    BY <1>1, <2>1 DEF CallOK, At, Edits, PInv, TypeOK, TablesOK
  <2>3. r \in raced \/ shown[r] \subseteq job[t].old
    BY <1>1, <2>1 DEF OldFull, HasRead
  <2>4. /\ OwnEffect(t)
        /\ \A p \in job[t].old \ list : job'[t].step = "unlink" /\ p \in job'[t].old
    BY <1>1, <2>1, UnlinkingOwn DEF OwnEffect
  <2> HIDE DEF r, list
  <2>5. \A s \in Rows : shown'[s] = IF s = r THEN list ELSE shown[s]
    BY <1>1, <2>1, <2>2 DEF PInv, TypeOK, TablesOK
  <2>6. \A s \in Rows : RowEffect(t, s)
    BY <2>1, <2>2, <2>5 DEF RowEffect, r, list
  <2>7. \A p \in dropped' \ dropped : DropEffect(t, p)
    BY <2>1, <2>2, <2>3, <2>4, <2>5 DEF DropEffect, r, list
  <2>8. RowsEffect(t)
    BY <2>1, <2>6, <2>7 DEF RowsEffect
  <2> QED BY <1>2, <2>4, <2>8 DEF Effect
<1> QED BY <1>3, <1>4

\* Rows that go drop their photos; each is somebody's to delete or given up.
\* Rows that are not live have none to drop.
LEMMA LiveOnly ==
  ASSUME PInv, NEW t \in Tasks, NEW gone \in SUBSET Rows, RemoveRows(gone),
         unused' = unused,
         \A r \in gone : \A p \in shown[r] :
           \/ p \in leaked' \/ r \in raced
           \/ job'[t].step = "unlink" /\ p \in job'[t].old
  PROVE  RowsEffect(t)
<1>1. \A r \in Rows : shown'[r] = (IF r \in gone THEN {} ELSE shown[r])
  BY DEF RemoveRows
<1>2. live' = live \ gone /\ dropped' = dropped \cup PhotosOn(gone)
  BY DEF RemoveRows
<1>3. \A p \in PhotosOn(gone) : \E r \in gone : p \in shown[r]
  BY DEF PhotosOn
<1>4. \A r \in Rows : shown[r] # {} => r \in live /\ r \notin unused
  BY DEF PInv, TypeOK, TablesOK
<1>5. \A r \in Rows : RowEffect(t, r)
  BY <1>1, <1>2, <1>4 DEF RowEffect
<1>6. \A p \in dropped' \ dropped : DropEffect(t, p)
  BY <1>1, <1>2, <1>3, <1>4 DEF DropEffect
<1> QED BY <1>2, <1>5, <1>6 DEF RowsEffect

\* A DELETE: the row's own photos are the call's to delete, those of the
\* cascade are given up.
LEMMA DeleteRowEffect ==
  ASSUME RInv, NEW t \in Tasks, DeleteRow(t)
  PROVE  Effect(t)
<1>1. /\ PInv /\ OldFull(t) /\ Running(t) /\ job[t].step = "delete" /\ UNCHANGED store
      /\ leaked \subseteq leaked'
  BY DEF RInv, PInv, DeleteRow, At, Running
<1>2. BucketEffect
  BY <1>1 DEF BucketEffect, store
<1>3. CASE Done(t) /\ UNCHANGED <<rows, leaked>>
  BY <1>1, <1>3, DoneOwn, QuietEffect DEF Effect, OwnEffect
<1>4. CASE ~(Done(t) /\ UNCHANGED <<rows, leaked>>)
  <2> DEFINE r == job[t].on
  <2>1. /\ r \in live /\ RemoveRows(Gone(r))
        /\ leaked' = leaked \cup PhotosOn(Gone(r) \ {r})
        /\ Unlinking(t, job[t].old) /\ unused' = unused
    BY <1>4 DEF DeleteRow
  <2>2. r \in Rows /\ Gone(r) \in SUBSET Rows
    BY <1>1, <2>1 DEF PInv, TypeOK, TablesOK, Gone, Rows
  <2>3. r \in raced \/ shown[r] \subseteq job[t].old
    BY <1>1, <2>1 DEF OldFull, HasRead
  <2>4. /\ OwnEffect(t)
        /\ \A p \in job[t].old : job'[t].step = "unlink" /\ p \in job'[t].old
    BY <1>1, <2>1, UnlinkingOwn DEF OwnEffect
  <2>5. \A s \in Gone(r) \ {r} : shown[s] \subseteq leaked'
    BY <2>1 DEF PhotosOn
  <2> HIDE DEF r
  <2>6. RowsEffect(t)
    BY <1>1, <2>1, <2>2, <2>3, <2>4, <2>5, LiveOnly
  <2> QED BY <1>2, <2>4, <2>6 DEF Effect
<1> QED BY <1>3, <1>4

\* The trigger: every photo of the shelter is given up.
LEMMA DeleteUserEffect ==
  ASSUME PInv, NEW t \in Tasks, DeleteUser(t)
  PROVE  Effect(t)
<1> DEFINE o == memberOf[job[t].by]
           gone == IF o = Null THEN {} ELSE Gone(o)
<1>1. Running(t) /\ job[t].step = "delete_user" /\ o \in Orgs \cup {Null}
  <2>1. Running(t) /\ job[t].step = "delete_user"
    BY DEF DeleteUser, At, Running
  <2> QED BY <2>1, RunningJob DEF PInv, TypeOK, TablesOK
<1>2. gone \in SUBSET Rows
  BY <1>1 DEF Gone, Rows
<1>3. /\ RemoveRows(gone) /\ Done(t) /\ leaked' = leaked \cup PhotosOn(gone)
      /\ unused' = unused /\ UNCHANGED store
  BY DEF DeleteUser
<1> HIDE DEF gone
<1>4. \A r \in gone : shown[r] \subseteq leaked'
  BY <1>3 DEF PhotosOn
<1>5. RowsEffect(t)
  BY <1>2, <1>3, <1>4, LiveOnly
<1>6. OwnEffect(t) /\ BucketEffect
  BY <1>1, <1>3, DoneOwn DEF OwnEffect, BucketEffect, store
<1> QED BY <1>5, <1>6 DEF Effect

\* One photo after the other: deleted or given up.
LEMMA UnlinkEffect ==
  ASSUME PInv, NEW t \in Tasks, Unlink(t)
  PROVE  Effect(t)
<1>1. CallOK(t) /\ Running(t) /\ job[t].step = "unlink"
  BY DEF PInv, Unlink, At, Running
<1>2. PICK p \in job[t].old :
        /\ Unlinking(t, job[t].old \ {p})
        /\ \/ stored' = stored \ {p} /\ UNCHANGED leaked
           \/ leaked' = leaked \cup {p} /\ UNCHANGED stored
        /\ UNCHANGED <<rows, known>>
  BY DEF Unlink
<1>3. BucketEffect
  BY <1>1, <1>2 DEF BucketEffect, CallOK, At
<1>4. RowsEffect(t)
  BY <1>2 DEF rows, RowsEffect, RowEffect
<1>5. OthersStay(t) /\ OwnList(t) /\ OwnOld(t)
  BY <1>1, <1>2, UnlinkingOwn
<1>6. OwnDebt(t)
  <2>1. \A q \in job[t].old \ {p} : job'[t].step = "unlink" /\ q \in job'[t].old
    BY <1>1, <1>2, UnlinkingOwn
  <2> QED BY <1>2, <2>1 DEF OwnDebt
<1> QED BY <1>3, <1>4, <1>5, <1>6 DEF Effect, OwnEffect

\* A call that fails gives up what it had to delete.
LEMMA CallFailsEffect ==
  ASSUME PInv, NEW t \in Tasks, CallFails(t)
  PROVE  Effect(t)
<1>1. OthersStay(t) /\ OwnList(t) /\ OwnOld(t)
  BY DoneOwn DEF CallFails
<1>2. OwnDebt(t)
  BY DEF CallFails, At, OwnDebt
<1>3. BucketEffect /\ RowsEffect(t)
  BY DEF CallFails, rows, store, BucketEffect, RowsEffect, RowEffect
<1> QED BY <1>1, <1>2, <1>3 DEF Effect, OwnEffect

-----------------------------------------------------------------------------
(* The invariant.                                                          *)

\* Two running calls about one row make it contested.
LEMMA TwoContest ==
  ASSUME RInv, NEW s \in Tasks, NEW t \in Tasks \ {s}, NEW r \in Rows,
         Changes(s, r), Changes(t, r)
  PROVE  r \in raced
BY DEF RInv, Contested

\* Rows and bucket.
LEMMA PhotosOKKept ==
  ASSUME RInv, NEW t \in Tasks, Effect(t)
  PROVE  PhotosOK'
<1>1. PhotosOK /\ BucketEffect /\ RowsEffect(t) /\ ListOK(t)
  BY DEF RInv, Effect
<1>2. \A r \in Rows : \A p \in shown'[r] : PhotoOf[p] = r /\ p \in known'
  <2> SUFFICES ASSUME NEW r \in Rows, NEW p \in shown'[r]
               PROVE  PhotoOf[p] = r /\ p \in known
    BY <1>1 DEF BucketEffect
  <2>1. RowEffect(t, r)
    BY <1>1 DEF RowsEffect
  <2>2. \A list \in Lists(r) : p \in list => PhotoOf[p] = r /\ p \in known
    BY DEF Lists
  <2> QED BY <1>1, <2>1, <2>2 DEF RowEffect, PhotosOK, ListOK
<1>3. dropped' \subseteq known'
  BY <1>1 DEF PhotosOK, BucketEffect, RowsEffect, DropEffect
<1>4. known' \ dropped' \subseteq stored'
  BY <1>1 DEF PhotosOK, BucketEffect, RowsEffect
<1> QED BY <1>2, <1>3, <1>4 DEF PhotosOK

\* An uncontested row shows nothing that was dropped.
LEMMA ShownKept ==
  ASSUME RInv, NEW t \in Tasks, Effect(t), NEW r \in Rows \ raced
  PROVE  shown'[r] \cap dropped' = {}
<1> SUFFICES ASSUME NEW p \in shown'[r], p \in dropped'
             PROVE  FALSE
  OBVIOUS
<1>1. PhotosOK /\ RowsEffect(t) /\ RowEffect(t, r) /\ ListOK(t) /\ shown[r] \cap dropped = {}
  BY DEF RInv, Effect, RowsEffect
<1>2. CASE p \notin dropped
  <2>1. PICK q \in Rows : p \in shown[q] /\ p \notin shown'[q]
    BY <1>1, <1>2 DEF RowsEffect, DropEffect
  <2>2. PhotoOf[p] = q /\ PhotoOf[p] = r
    BY <1>1, <2>1, PhotosOKKept DEF PhotosOK
  <2> QED BY <2>1, <2>2
<1>3. CASE p \in dropped
  <2>1. \A list \in Lists(r) : p \notin list
    BY <1>3 DEF Lists
  <2> QED BY <1>1, <1>3, <2>1 DEF RowEffect, ListOK
<1> QED BY <1>2, <1>3

\* The list of an edit stays fresh.
LEMMA ListKept ==
  ASSUME RInv, NEW t \in Tasks, Effect(t), raced \subseteq raced', NEW s \in Tasks
  PROVE  ListOK(s)'
<1> SUFFICES ASSUME Edits(s)'
             PROVE  /\ job'[s].on \in Rows
                    /\ \A p \in job'[s].list : PhotoOf[p] = job'[s].on /\ p \in known'
                    /\ job'[s].on \in live' \cup unused' /\ job'[s].on \notin raced' =>
                         job'[s].list \cap dropped' = {}
  BY DEF ListOK
<1>1. PhotosOK /\ BucketEffect /\ RowsEffect(t) /\ OwnEffect(t) /\ ListOK(s)
  BY DEF RInv, Effect
<1>2. CASE s = t /\ ~Edits(t)
  <2>1. /\ UNCHANGED <<rows, known>> /\ job'[s].on \in Rows
        /\ job'[s].list \in Lists(job'[s].on)
    BY <1>1, <1>2 DEF OwnEffect, OwnList
  <2> QED BY <2>1 DEF Lists, rows
<1>3. CASE Edits(s) /\ job'[s].on = job[s].on /\ job'[s].list = job[s].list
  <2> DEFINE r == job[s].on
  <2>1. r \in Rows /\ \A p \in job[s].list : PhotoOf[p] = r /\ p \in known
    BY <1>1, <1>3 DEF ListOK
  <2>2. ASSUME r \in live' \cup unused', r \notin raced', NEW p \in job[s].list, p \in dropped'
        PROVE  FALSE
    <3>1. p \notin dropped
      BY <1>1, <1>3, <2>2 DEF RowsEffect, ListOK
    <3>2. PICK q \in Rows :
            /\ p \in shown[q]
            /\ q \notin live' \cup unused' \/ (Edits(t) /\ q = job[t].on /\ p \notin job[t].list)
      BY <1>1, <2>2, <3>1 DEF RowsEffect, DropEffect
    <3>3. q = r
      BY <1>1, <2>1, <2>2, <3>2 DEF PhotosOK
    <3>4. Edits(t) /\ r = job[t].on /\ s # t
      BY <2>2, <3>2, <3>3
    <3>5. Changes(s, r) /\ Changes(t, r)
      BY <1>3, <3>4 DEF Edits, Changes
    <3> QED BY <2>1, <2>2, <3>4, <3>5, TwoContest
  <2> QED BY <1>1, <1>3, <2>1, <2>2 DEF BucketEffect
<1>4. CASE s # t
  <2>1. job'[s] = job[s]
    BY <1>1, <1>4 DEF OwnEffect, OthersStay
  <2>2. Edits(s)
    BY <2>1 DEF Edits, Running
  <2> QED BY <1>3, <2>1, <2>2
<1>5. CASE s = t /\ Edits(t)
  <2>1. job'[s].on = job[s].on /\ job'[s].list = job[s].list
    BY <1>1, <1>5 DEF OwnEffect, OwnList, Edits
  <2> QED BY <1>3, <1>5, <2>1
<1> QED BY <1>2, <1>4, <1>5

\* A call that has read its row is a running edit or deletion of it.
LEMMA ReadersChange ==
  ASSUME PInv, NEW t \in Tasks, HasRead(job[t]), job[t].on \in Rows
  PROVE  job[t].on \notin unused /\ Running(t) /\ (OfRow(t) => Changes(t, job[t].on))
<1>1. Running(t) /\ CallOK(t)
  BY DEF HasRead, Running, PInv
<1>2. job[t].on \notin unused
  <2>1. CASE job[t].step \in {"update", "delete"}
    BY <1>1, <2>1 DEF CallOK, Authorized
  <2>2. CASE job[t].step = "read_member" /\ job[t].op \in {"edit", "remove"}
    BY <1>1, <2>2 DEF CallOK, At
  <2> QED BY <2>1, <2>2 DEF HasRead
<1> QED BY <1>1, <1>2 DEF OfRow, Changes

\* A call has read all its row shows: no other call edits it.
LEMMA OldKept ==
  ASSUME RInv, NEW t \in Tasks, Effect(t), raced \subseteq raced', NEW s \in Tasks
  PROVE  OldFull(s)'
<1> SUFFICES ASSUME HasRead(job'[s])
             PROVE  /\ OfRow(s)'
                    /\ job'[s].on \in live' /\ job'[s].on \notin raced' =>
                         shown'[job'[s].on] \subseteq job'[s].old
  BY DEF OldFull
<1>1. PInv /\ RowsEffect(t) /\ OwnEffect(t) /\ OldFull(s)
  BY DEF RInv, Effect
<1>2. CASE s = t
  BY <1>1, <1>2 DEF OwnEffect, OwnOld, OldFull, rows
<1>3. CASE s # t
  <2>1. job'[s] = job[s] /\ HasRead(job[s]) /\ OfRow(s)
    BY <1>1, <1>3 DEF OwnEffect, OthersStay, OldFull
  <2>2. ASSUME NEW r, r = job[s].on, r \in live', r \notin raced'
        PROVE  shown'[r] \subseteq job[s].old
    <3>1. r \in Rows
      BY <1>1, <2>2 DEF RowsEffect, PInv, TypeOK, TablesOK, Rows
    <3>2. r \notin unused /\ Changes(s, r) /\ r \in live
      BY <1>1, <2>1, <2>2, <3>1, ReadersChange DEF RowsEffect
    <3>3. shown[r] \subseteq job[s].old
      BY <1>1, <2>1, <2>2, <3>2 DEF OldFull
    <3>4. ~(Edits(t) /\ r = job[t].on)
      <4>1. Edits(t) /\ r = job[t].on => Changes(t, r)
        BY DEF Edits, Changes
      <4> QED BY <1>3, <2>2, <3>1, <3>2, <4>1, TwoContest
    <3> QED BY <1>1, <2>2, <3>1, <3>2, <3>3, <3>4 DEF RowsEffect, RowEffect
  <2> QED BY <2>1, <2>2 DEF OfRow
<1> QED BY <1>2, <1>3

\* A dropped photo stays somebody's to delete until it is deleted.
LEMMA OwedKept ==
  ASSUME RInv, NEW t \in Tasks, Effect(t), raced \subseteq raced',
         NEW p \in dropped' \cap stored'
  PROVE  Owed(p)'
<1>1. PhotosOK /\ BucketEffect /\ RowsEffect(t) /\ OwnEffect(t)
  BY DEF RInv, Effect
<1>2. CASE p \in dropped
  <2>1. p \in stored /\ Owed(p)
    BY <1>1, <1>2 DEF PhotosOK, BucketEffect, RInv
  <2>2. CASE p \in leaked \/ PhotoOf[p] \in raced
    BY <1>1, <2>2 DEF Owed, BucketEffect
  <2>3. ASSUME NEW s \in Tasks, job[s].step = "unlink", p \in job[s].old
        PROVE  Owed(p)'
    <3>1. CASE s = t
      BY <1>1, <2>3, <3>1 DEF OwnEffect, OwnDebt, Owed
    <3>2. CASE s # t
      BY <1>1, <2>3, <3>2 DEF OwnEffect, OthersStay, Owed
    <3> QED BY <3>1, <3>2
  <2> QED BY <2>1, <2>2, <2>3 DEF Owed
<1>3. CASE p \notin dropped
  <2>1. PICK r \in Rows :
          /\ p \in shown[r]
          /\ p \in leaked' \/ r \in raced \/ (job'[t].step = "unlink" /\ p \in job'[t].old)
    BY <1>1, <1>3 DEF RowsEffect, DropEffect
  <2>2. PhotoOf[p] = r
    BY <1>1, <2>1 DEF PhotosOK
  <2> QED BY <2>1, <2>2 DEF Owed
<1> QED BY <1>2, <1>3

\* At the start no call runs, and nothing was dropped.
LEMMA InitRace ==
  ASSUME RaceInit
  PROVE  RInv
<1>1. PInv /\ raced = {} /\ dropped = {}
  BY InitSound DEF RaceInit, Init
<1>2. PhotosOK
  <2>1. shown = InitShown /\ stored = UNION {shown[r] : r \in Rows} /\ known = stored
    BY DEF RaceInit, Init
  <2>2. \A r \in Rows : \A p \in shown[r] : p \in known
    BY <2>1
  <2> QED BY <1>1, <2>1, <2>2, PhotosAssumption DEF PhotosOK
<1>3. \A t \in Tasks : job[t].step = "idle"
  BY DEF RaceInit, Init, Idle
<1>4. Contested \subseteq raced
  BY <1>3 DEF Contested, Changes, Running
<1>5. \A t \in Tasks : ListOK(t) /\ OldFull(t)
  BY <1>3 DEF ListOK, Edits, Running, OldFull, HasRead
<1> QED BY <1>1, <1>2, <1>4, <1>5 DEF RInv

\* Every step has one of the effects above.
LEMMA StepEffect ==
  ASSUME RInv, NEW t \in Tasks, CallStep(t)
  PROVE  Effect(t)
<1>1. PInv
  BY DEF RInv
<1> QED
  BY <1>1, ReceiveEffect, ReadRowEffect, ReadsEffect, UploadEffect, InsertItemEffect,
     UpdateRowEffect, DeleteRowEffect, DeleteUserEffect, UnlinkEffect, CallFailsEffect
     DEF CallStep

\* Every step keeps the invariant.
LEMMA NextRace ==
  ASSUME RInv, [RaceNext]_raceVars
  PROVE  RInv'
<1>1. CASE UNCHANGED raceVars
  <2>1. UNCHANGED <<users, memberOf, live, shown, unused, dropped, stored, known, leaked, job,
                    raced>>
    BY <1>1 DEF raceVars, vars, rows, store
  <2>2. PInv'
    BY <1>1, NextSound DEF RInv, raceVars
  <2> QED BY <2>1, <2>2 DEF RInv, PhotosOK, Contested, Changes, ListOK, Edits, Running, OldFull,
             HasRead, OfRow, Owed
<1>2. CASE RaceNext /\ UNCHANGED vars
  <2>1. UNCHANGED <<users, memberOf, live, shown, unused, dropped, stored, known, leaked, job>>
    BY <1>2 DEF vars, rows, store
  <2>2. PInv'
    BY <1>2, NextSound DEF RInv
  <2>3. Contested' = Contested
    BY <2>1 DEF Contested, Changes, Running
  <2>4. raced' = raced
    BY <1>2, <2>3 DEF RaceNext, RInv
  <2> QED BY <2>1, <2>2, <2>3, <2>4 DEF RInv, PhotosOK, ListOK, Edits, Running, OldFull,
             HasRead, OfRow, Owed
<1>3. ASSUME RaceNext, NEW t \in Tasks, CallStep(t)
      PROVE  RInv'
  <2>1. Effect(t) /\ raced' = raced \cup Contested'
    BY <1>3, StepEffect DEF RaceNext
  <2>2. PInv'
    BY <1>3, NextSound DEF RInv, RaceNext
  <2>3. PhotosOK' /\ (Contested \subseteq raced)' /\ raced \subseteq raced'
    BY <2>1, PhotosOKKept
  <2>4. \A r \in Rows \ raced' : shown'[r] \cap dropped' = {}
    BY <2>1, <2>3, ShownKept
  <2>5. \A s \in Tasks : ListOK(s)' /\ OldFull(s)'
    BY <2>1, <2>3, ListKept, OldKept
  <2>6. \A p \in dropped' \cap stored' : Owed(p)'
    BY <2>1, <2>3, OwedKept
  <2> QED BY <2>2, <2>3, <2>4, <2>5, <2>6 DEF RInv
<1> QED BY <1>1, <1>2, <1>3 DEF RaceNext, Next, AllAnswered

\* The invariant the two theorems rest on.
THEOREM RaceInvariant == RaceSpec => []RInv
<1>1. RaceInit => RInv
  BY InitRace
<1>2. RInv /\ [RaceNext]_raceVars => RInv'
  BY NextRace
<1> QED BY <1>1, <1>2, PTL DEF RaceSpec

\* A row shows no photo the bucket has lost, unless two calls edited or
\* deleted the row at once.
THEOREM UncontestedShownStored == RaceSpec => []ShownAreStored
<1>1. RInv => ShownAreStored
  BY DEF RInv, PhotosOK, ShownAreStored
<1> QED BY <1>1, RaceInvariant, PTL

\* A photo off its row is deleted unless its deletion failed, the call did,
\* the row went in a cascade or two calls were about it at once.
THEOREM UncontestedDroppedDeleted == RaceSpec => []DroppedAreDeleted
<1>1. RInv => DroppedAreDeleted
  <2> SUFFICES ASSUME RInv, NEW p \in Leftovers
               PROVE  PhotoOf[p] \in raced
    BY DEF DroppedAreDeleted
  <2>1. p \in dropped \cap stored /\ p \notin leaked
    BY DEF Leftovers
  <2>2. \A t \in Tasks : job[t].step = "unlink" => p \notin job[t].old
    BY DEF Leftovers, At
  <2> QED BY <2>1, <2>2 DEF RInv, Owed
<1> QED BY <1>1, RaceInvariant, PTL
=============================================================================
