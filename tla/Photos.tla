------------------------------- MODULE Photos -------------------------------
(***************************************************************************)
(* Photos: objects in an S3 bucket and the rows that show them by name.    *)
(* UploadPhotoHandler puts an object; animals, posts and organizations     *)
(* list names of objects; the services delete the objects of a row from    *)
(* the bucket after the statement that took them off the row.  The two     *)
(* stores share no transaction.  Replies are left out: no property here is *)
(* about them.                                                             *)
(***************************************************************************)
EXTENDS Naturals, FiniteSets

CONSTANTS
  Users, Orgs, Animals, Posts, Null,
  PhotoNames,     \* the UUIDs an upload generates
  PhotoOf,        \* bound: the row a client uploads each photo for
  ShelterOf,      \* the organization an animal or post id is handed out to
  Founder,        \* the member of each shelter
  InitLive,       \* the rows at the start, and the photos they show
  InitShown,
  Tasks, InFlight,  \* bounds: calls of a behaviour, calls at once
  Operations,     \* the endpoints that are called
  Failures        \* what may fail: "statement", "s3"

Items == Animals \cup Posts
Rows == Items \cup Orgs

ASSUME PhotosAssumption ==
  /\ Null \notin Rows
  /\ Items \cap Orgs = {}
  /\ PhotoOf \in [PhotoNames -> Rows]
  /\ ShelterOf \in [Items -> Orgs] /\ Founder \in [Orgs -> Users]
  /\ InitLive \subseteq Rows /\ Orgs \subseteq InitLive
  /\ InitShown \in [Rows -> SUBSET PhotoNames]
  /\ \A o \in Orgs : \A p, q \in InitShown[o] : p = q
  /\ \A r \in Rows \ InitLive : InitShown[r] = {}
  /\ \A r \in Rows : \A p \in InitShown[r] : PhotoOf[p] = r
  /\ InFlight \in Nat

VARIABLES
  users,      \* ids of the rows of users
  memberOf,   \* users.organization_id
  live,       \* ids of the rows of animals, posts and organizations
  shown,      \* the photos a row shows
  unused,     \* animal and post ids not handed out yet
  stored,     \* the objects in the bucket
  known,      \* the names uploads have returned
  dropped,    \* the photos a row has shown and lost
  leaked,     \* dropped photos whose deletion failed or is in no handler
  job         \* the calls

store == <<stored, known>>
rows == <<users, memberOf, live, shown, unused, dropped>>
vars == <<rows, store, leaked, job>>

\* The shelter a row belongs to.
Home(r) == IF r \in Orgs THEN r ELSE ShelterOf[r]

Idle == [step |-> "idle"]

Init ==
  /\ users = Users
  /\ memberOf = [u \in Users |-> IF \E o \in Orgs : Founder[o] = u
                                 THEN CHOOSE o \in Orgs : Founder[o] = u ELSE Null]
  /\ live = InitLive /\ shown = InitShown
  /\ unused = Items \ live
  /\ stored = UNION {shown[r] : r \in Rows}
  /\ known = stored
  /\ dropped = {} /\ leaked = {}
  /\ job = [t \in Tasks |-> Idle]

At(t, step) == job[t].step = step
Running(t) == job[t].step \notin {"idle", "done"}
Go(t, j) == job' = [job EXCEPT ![t] = j]
Done(t) == Go(t, [step |-> "done"])
Then(t, step) == Go(t, [job[t] EXCEPT !.step = step])

-----------------------------------------------------------------------------
(* The bodies clients send.  A client lists photos it uploaded for the row *)
(* and does not bring back one that was taken off it.  An edit without     *)
(* photos changes nothing here.                                            *)

Lists(r) ==
  {s \in SUBSET known : /\ \A p \in s : PhotoOf[p] = r /\ p \notin dropped
                        /\ r \in Orgs => \E p \in s : s = {p}}

Begin(t, j) ==
  /\ At(t, "idle")
  /\ j.op \in Operations
  /\ Cardinality({s \in Tasks : Running(s)}) < InFlight
  /\ Go(t, j)
  /\ UNCHANGED <<rows, store, leaked>>

Request(op, u, r, list, step) ==
  [step |-> step, op |-> op, by |-> u, on |-> r, list |-> list, old |-> {}]

\* The endpoints of a shelter read the caller first, those of an animal or a
\* post its row.
FirstRead(r) == IF r \in Orgs THEN "read_user" ELSE "read_row"

Receive(t) ==
  \E u \in Users :
    \/ \E o \in Orgs : Begin(t, Request("create_animal", u, o, {}, "read_member"))
    \/ Begin(t, Request("create_post", u, Null, {}, "read_member"))
    \/ \E r \in Rows :
         \/ \E list \in Lists(r) : Begin(t, Request("edit", u, r, list, FirstRead(r)))
         \/ Begin(t, Request("remove", u, r, {}, FirstRead(r)))
    \/ Begin(t, Request("close_account", u, Null, {}, "read_user"))

\* POST /upload/photo: PutObject under a new UUID; a failure after the object
\* was stored leaves a name nobody knows.
Upload(t) ==
  /\ At(t, "idle") /\ "upload" \in Operations
  /\ \E p \in PhotoNames \ (stored \cup known) :
       /\ stored' = stored \cup {p}
       /\ \/ known' = known \cup {p}
          \/ "s3" \in Failures /\ UNCHANGED known
  /\ Done(t)
  /\ UNCHANGED <<rows, leaked>>

-----------------------------------------------------------------------------
(* What a call reads before it writes.                                     *)

ReadUser(t) ==
  /\ At(t, "read_user")
  /\ \/ job[t].by \notin users /\ Done(t)
     \/ /\ job[t].by \in users
        /\ IF job[t].op = "close_account" THEN Then(t, "delete_user")
           ELSE IF memberOf[job[t].by] = job[t].on THEN Then(t, "read_row")
           ELSE Done(t)
  /\ UNCHANGED <<rows, store, leaked>>

AfterChecks(t) == IF job[t].op = "edit" THEN "update" ELSE "delete"

\* GetById: what the row shows is kept until after the write.
ReadRow(t) ==
  /\ At(t, "read_row")
  /\ LET r == job[t].on IN
     IF r \notin live THEN Done(t)
     ELSE Go(t, [job[t] EXCEPT !.old = shown[r],
                               !.step = IF r \in Orgs THEN AfterChecks(t) ELSE "read_member"])
  /\ UNCHANGED <<rows, store, leaked>>

\* Mutant of CheckMember: any user with a shelter passes.
CheckAnyMember(t) ==
  /\ At(t, "read_member")
  /\ IF memberOf[job[t].by] = Null THEN Done(t)
     ELSE IF job[t].op \in {"edit", "remove"} THEN Then(t, AfterChecks(t)) ELSE Done(t)
  /\ UNCHANGED <<rows, store, leaked>>

\* GetOrganizationId against the shelter in the body or of the row; a post
\* goes to the author's own shelter.
CheckMember(t) ==
  /\ At(t, "read_member")
  /\ LET j == job[t]
         mine == memberOf[j.by]
     IN  \/ mine = Null /\ Done(t)
         \/ /\ mine # Null /\ j.op = "create_post"
            /\ Go(t, [j EXCEPT !.on = mine, !.step = "read_org"])
         \/ /\ mine # Null /\ j.op = "create_animal"
            /\ IF mine = j.on THEN Then(t, "insert") ELSE Done(t)
         \/ /\ mine # Null /\ j.op \in {"edit", "remove"}
            /\ IF mine = Home(j.on) THEN Then(t, AfterChecks(t)) ELSE Done(t)
  /\ UNCHANGED <<rows, store, leaked>>

\* PostService::Create looks the shelter up.
ReadOrg(t) ==
  /\ At(t, "read_org")
  /\ IF job[t].on \in live THEN Then(t, "insert") ELSE Done(t)
  /\ UNCHANGED <<rows, store, leaked>>

-----------------------------------------------------------------------------
(* The writes, and what they leave to delete from the bucket.              *)

PhotosOn(some) == UNION {shown[r] : r \in some}

\* Mutant of Removed: every photo the row had.
AllOld(old, list) == old

\* The photos of the row as it was read that the new list does not have.
Removed(old, list) == old \ list

Unlinking(t, todo) ==
  IF todo = {} THEN Done(t) ELSE Go(t, [job[t] EXCEPT !.old = todo, !.step = "unlink"])

\* The row goes to the shelter unless that is gone or the breed in the body
\* is unknown; the photos in the body are only looked at here.
InsertItem(t) ==
  /\ At(t, "insert")
  /\ \/ UNCHANGED rows
     \/ /\ job[t].on \in live
        /\ \E i \in unused \cap (IF job[t].op = "create_post" THEN Posts ELSE Animals) :
             /\ ShelterOf[i] = job[t].on
             /\ \E list \in Lists(i) : shown' = [shown EXCEPT ![i] = list]
             /\ live' = live \cup {i} /\ unused' = unused \ {i}
        /\ UNCHANGED <<users, memberOf, dropped>>
  /\ Done(t)
  /\ UNCHANGED <<store, leaked>>

\* Mutant of NewPhotos: the new photos are added to those of the row.
MergedPhotos(row, list) == row \cup list

NewPhotos(row, list) == list

\* Mutant of UpdateRow: an exception of the UPDATE is caught along with those
\* of the bucket.
UpdateRowOrNot(t) ==
  /\ At(t, "update")
  /\ Unlinking(t, Removed(job[t].old, job[t].list))
  /\ UNCHANGED <<rows, store, leaked>>

\* The UPDATE names the row and nothing else.  It changes nothing when the
\* row is gone or the breed or city in the body is unknown.
UpdateRow(t) ==
  /\ At(t, "update")
  /\ LET j == job[t] IN
     \/ Done(t) /\ UNCHANGED rows
     \/ /\ j.on \in live
        /\ shown' = [shown EXCEPT ![j.on] = NewPhotos(@, j.list)]
        /\ dropped' = dropped \cup (shown[j.on] \ j.list)
        /\ Unlinking(t, Removed(j.old, j.list))
        /\ UNCHANGED <<users, memberOf, live, unused>>
  /\ UNCHANGED <<store, leaked>>

\* Deleting a shelter cascades to its animals and posts.
Gone(r) == IF r \in Orgs THEN {r} \cup {i \in Items : ShelterOf[i] = r} ELSE {r}

RemoveRows(gone) ==
  /\ live' = live \ gone
  /\ shown' = [r \in Rows |-> IF r \in gone THEN {} ELSE shown[r]]
  /\ dropped' = dropped \cup PhotosOn(gone)
  /\ memberOf' = [u \in Users |-> IF memberOf[u] \in gone THEN Null ELSE memberOf[u]]

\* Mutant of DeleteRow: the objects stay behind.
DeleteRowOnly(t) ==
  /\ At(t, "delete")
  /\ LET r == job[t].on IN
     /\ RemoveRows(Gone(r))
     /\ leaked' = leaked \cup PhotosOn(Gone(r) \ {r})
  /\ Done(t)
  /\ UNCHANGED <<users, unused, store>>

\* Only the photos of the row itself are deleted, not those of the cascade.
DeleteRow(t) ==
  /\ At(t, "delete")
  /\ LET r == job[t].on IN
     \/ r \notin live /\ Done(t) /\ UNCHANGED <<rows, leaked>>
     \/ /\ r \in live
        /\ RemoveRows(Gone(r))
        /\ leaked' = leaked \cup PhotosOn(Gone(r) \ {r})
        /\ Unlinking(t, job[t].old)
        /\ UNCHANGED <<users, unused>>
  /\ UNCHANGED store

\* The trigger deletes the shelter; UserService does not know the bucket.
DeleteUser(t) ==
  /\ At(t, "delete_user")
  /\ LET u == job[t].by
         gone == IF memberOf[u] = Null THEN {} ELSE Gone(memberOf[u])
     IN  /\ users' = users \ {u}
         /\ RemoveRows(gone)
         /\ leaked' = leaked \cup PhotosOn(gone)
  /\ Done(t)
  /\ UNCHANGED <<unused, store>>

\* DeleteFile of one photo after the other; an exception is logged and the
\* loop goes on.
Unlink(t) ==
  /\ At(t, "unlink")
  /\ \E p \in job[t].old :
       /\ Unlinking(t, job[t].old \ {p})
       /\ \/ stored' = stored \ {p} /\ UNCHANGED leaked
          \/ "s3" \in Failures /\ leaked' = leaked \cup {p} /\ UNCHANGED stored
  /\ UNCHANGED <<rows, known>>

\* A statement throws or the backend crashes.
CallFails(t) ==
  /\ "statement" \in Failures /\ Running(t)
  /\ leaked' = leaked \cup (IF At(t, "unlink") THEN job[t].old ELSE {})
  /\ Done(t)
  /\ UNCHANGED <<rows, store>>

\* The behaviour ends when every call has been answered.
AllAnswered == (\A t \in Tasks : At(t, "done")) /\ UNCHANGED vars

CallStep(t) ==
  \/ Receive(t) \/ Upload(t) \/ ReadUser(t) \/ ReadRow(t) \/ CheckMember(t) \/ ReadOrg(t)
  \/ InsertItem(t) \/ UpdateRow(t) \/ DeleteRow(t) \/ DeleteUser(t) \/ Unlink(t)
  \/ CallFails(t)

Next == (\E t \in Tasks : CallStep(t)) \/ AllAnswered

Spec == Init /\ [][Next]_vars

-----------------------------------------------------------------------------

RunningSteps ==
  {"read_user", "read_row", "read_member", "read_org", "insert", "update", "delete",
   "delete_user", "unlink"}
RunningJobs ==
  [step : RunningSteps, by : Users, on : Rows \cup {Null},
   op : {"create_animal", "create_post", "edit", "remove", "close_account"},
   list : SUBSET PhotoNames, old : SUBSET PhotoNames]
Jobs == [step : {"idle", "done"}] \cup RunningJobs

TablesOK ==
  /\ users \subseteq Users
  /\ memberOf \in [Users -> Orgs \cup {Null}]
  /\ live \subseteq Rows /\ unused \subseteq Items /\ live \cap unused = {}
  /\ shown \in [Rows -> SUBSET PhotoNames]
  /\ \A r \in Rows \ live : shown[r] = {}
  /\ \A o \in Orgs : \A p, q \in shown[o] : p = q
  /\ stored \subseteq PhotoNames /\ known \subseteq PhotoNames
  /\ dropped \subseteq PhotoNames /\ leaked \subseteq PhotoNames

\* Tables, bucket and calls have their types; a row that is gone shows
\* nothing, and a shelter has one avatar.
TypeOK == TablesOK /\ job \in [Tasks -> Jobs]

\* An object leaves the bucket only after a statement has taken it off its
\* row: an edit that fails, is refused or keeps a photo never costs it, even
\* if others edit or delete the row meanwhile.
DeletedAfterDropped == [][stored \ stored' \subseteq dropped]_vars

\* An edit or deletion changes rows of the caller's own shelter, although the
\* membership was read before.
MembersOnly ==
  [][\A t \in Tasks :
       job[t].step \in {"insert", "update", "delete"} /\ job'[t] # job[t] =>
         \A r \in Rows : shown'[r] # shown[r] =>
           memberOf[job[t].by] = Home(r)]_vars
=============================================================================
