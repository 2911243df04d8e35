------------------------------ MODULE Sessions ------------------------------
(***************************************************************************)
(* Log-in sessions: the JWT service, the session service over              *)
(* auth_schema.sessions, the /auth handlers, the AuthChecker in front of   *)
(* every other endpoint, and the session cleaner, whose worker runs on the *)
(* one instance of the backend that holds a lock row with a lease.         *)
(***************************************************************************)
EXTENDS Naturals, Sequences, FiniteSets

CONSTANTS
  Users,              \* accounts
  Tasks,              \* bound: the calls of a behaviour
  Instances,          \* instances of the backend that run a cleaner
  Null,
  AccessTtl,          \* access_ttl and refresh_ttl of static_config.yaml,
  RefreshTtl,         \*   in ticks of the model's clock
  MaxTime,            \* bound: ticks of the clock
  MaxFaults,          \* bound: crashes of instances and losses of the lock
  Operations,         \* the endpoints that are called
  InitLogins          \* who logged in before the run starts

ASSUME SessionsAssumption ==
  /\ AccessTtl \in Nat /\ RefreshTtl \in Nat /\ MaxTime \in Nat /\ MaxFaults \in Nat
  /\ InitLogins \in Seq(Users)
  /\ Null \notin Instances \cup Nat

VARIABLES
  now,        \* the clock of the backend and of PostgreSQL
  closedAt,   \* when an account was deleted, or Null
  issued,     \* the token pairs whose row was inserted; the index is the jti
  sessions,   \* the pairs whose row sessions holds now
  known,      \* the pairs a client was given
  job,        \* what each call does next, and what it carries there
  cleaner,    \* "down", "waiting" for the lock or "working"
  holder,     \* who holds the lock row
  faults

rows == <<closedAt, issued, sessions>>
worker == <<cleaner, holder, faults>>
vars == <<now, rows, known, job, worker>>

Open(u) == closedAt[u] = Null
Times == 0..MaxTime
Pair == [user : Users, at : Times, from : Nat]

\* A client can present either token of a pair it was given.
Tokens == [pair : known, kind : {"access", "refresh"}]

Init ==
  /\ now = 0
  /\ closedAt = [u \in Users |-> Null]
  /\ issued = [i \in DOMAIN InitLogins |-> [user |-> InitLogins[i], at |-> 0, from |-> 0]]
  /\ sessions = DOMAIN issued
  /\ known = DOMAIN issued
  /\ job = [t \in Tasks |-> [step |-> "idle"]]
  /\ cleaner = [i \in Instances |-> "waiting"]
  /\ holder = Null
  /\ faults = 0

-----------------------------------------------------------------------------
(* JwtService.                                                             *)

Expiry(k) ==
  issued[k.pair].at + (IF k.kind = "refresh" THEN RefreshTtl ELSE AccessTtl)

\* ValidateToken: a token is expired only after its exp.
Unexpired(k) == Expiry(k) >= now

\* Mutant of ValidAccess: any token the service signed.
ValidAnyKind(k) == Unexpired(k)

\* validate_access_token and validate_refresh_token
ValidAccess(k) == k.kind = "access" /\ Unexpired(k)
ValidRefresh(k) == k.kind = "refresh" /\ Unexpired(k)

(* auth_schema.sessions: a row is found by the hash of the refresh token,  *)
(* so the hash of an access token finds none.                              *)

RowExpiry(i) == issued[i].at + RefreshTtl

\* Mutant of LiveRow: the token's signature and expiry are enough.
AnyRow(k) == TRUE

LiveRow(k) == k.pair \in sessions /\ RowExpiry(k.pair) > now

-----------------------------------------------------------------------------
(* The handlers.                                                           *)

Go(t, j) == job' = [job EXCEPT ![t] = j]
Done(t, status) == Go(t, [step |-> "done", status |-> status])
At(t, step) == job[t].step = step
OnlyCalls == UNCHANGED <<now, rows, known, worker>>

ReceiveLogin(t) ==
  /\ "login" \in Operations /\ At(t, "idle")
  /\ \E u \in Users : Go(t, [step |-> "authenticate", user |-> u])
  /\ OnlyCalls

ReceiveRefresh(t) ==
  /\ "refresh" \in Operations /\ At(t, "idle")
  /\ \E k \in Tokens : Go(t, [step |-> "validate", token |-> k])
  /\ OnlyCalls

\* The AuthChecker accepts a caller on the access token alone.  /auth/logout
\* then revokes whichever refresh token is in the body, /auth/me and
\* DELETE /user/{id} read the caller's account.
ReceiveAuthorized(t) ==
  /\ At(t, "idle")
  /\ \E a \in Tokens :
       LET u == issued[a.pair].user IN
       \/ ~ValidAccess(a) /\ Done(t, 401)
       \/ /\ ValidAccess(a) /\ "logout" \in Operations
          /\ \E k \in Tokens :
               Go(t, [step |-> "revoke", token |-> k, user |-> u, rotate |-> FALSE])
       \/ /\ ValidAccess(a)
          /\ \E op \in Operations \cap {"me", "close_account"} :
               Go(t, [step |-> "read_user", op |-> op, user |-> u])
  /\ OnlyCalls

\* AuthenticateUser: no such account, a wrong password, or neither; the
\* tokens are made before their row is inserted.
Authenticate(t) ==
  /\ At(t, "authenticate")
  /\ \/ Done(t, 401)
     \/ /\ Open(job[t].user)
        /\ Go(t, [step |-> "insert", user |-> job[t].user, at |-> now, from |-> 0])
  /\ OnlyCalls

\* validate_session
Validate(t) ==
  /\ At(t, "validate")
  /\ LET k == job[t].token IN
     IF ValidRefresh(k) /\ LiveRow(k)
     THEN Go(t, [step |-> "revoke", token |-> k, user |-> issued[k.pair].user, rotate |-> TRUE])
     ELSE Done(t, 401)
  /\ OnlyCalls

AfterRevoke(t) ==
  IF job[t].rotate
  THEN Go(t, [step |-> "insert", user |-> job[t].user, at |-> now, from |-> job[t].token.pair])
  ELSE Done(t, 200)

\* Mutant of Revoke: the DELETE goes by user_id.
RevokeAllOfUser(t) ==
  /\ At(t, "revoke")
  /\ sessions' = {i \in sessions : issued[i].user # job[t].user}
  /\ AfterRevoke(t)
  /\ UNCHANGED <<now, closedAt, issued, known, worker>>

\* revoke_session: how many rows the DELETE took is not looked at.
Revoke(t) ==
  /\ At(t, "revoke")
  /\ sessions' = sessions \ (IF job[t].token.kind = "refresh" THEN {job[t].token.pair} ELSE {})
  /\ AfterRevoke(t)
  /\ UNCHANGED <<now, closedAt, issued, known, worker>>

\* Mutant of NewPair: the time to live is added once more.
NewPairFromExpiry(j) == [user |-> j.user, at |-> j.at + RefreshTtl, from |-> j.from]

NewPair(j) == [user |-> j.user, at |-> j.at, from |-> j.from]

\* Mutant of InsertSession: the table has no fk_sessions_user.
InsertAnySession(t) ==
  /\ At(t, "insert")
  /\ issued' = Append(issued, NewPair(job[t]))
  /\ sessions' = sessions \cup {Len(issued) + 1}
  /\ Go(t, [step |-> "respond", pair |-> Len(issued) + 1])
  /\ UNCHANGED <<now, closedAt, known, worker>>

\* create_session: fk_sessions_user refuses the row of a deleted account.
InsertSession(t) ==
  /\ At(t, "insert")
  /\ \/ ~Open(job[t].user) /\ Done(t, 500) /\ UNCHANGED <<issued, sessions>>
     \/ /\ Open(job[t].user)
        /\ issued' = Append(issued, NewPair(job[t]))
        /\ sessions' = sessions \cup {Len(issued) + 1}
        /\ Go(t, [step |-> "respond", pair |-> Len(issued) + 1])
  /\ UNCHANGED <<now, closedAt, known, worker>>

Respond(t) ==
  /\ At(t, "respond")
  /\ known' = known \cup {job[t].pair}
  /\ Done(t, 200)
  /\ UNCHANGED <<now, rows, worker>>

ReadUser(t) ==
  /\ At(t, "read_user")
  /\ \/ ~Open(job[t].user) /\ Done(t, 404)
     \/ Open(job[t].user) /\ job[t].op = "me" /\ Done(t, 200)
     \/ Open(job[t].user) /\ job[t].op # "me"
          /\ Go(t, [step |-> "delete_user", user |-> job[t].user])
  /\ OnlyCalls

\* The account's sessions go with it.
DeleteUser(t) ==
  /\ At(t, "delete_user")
  /\ LET u == job[t].user IN
     \/ ~Open(u) /\ Done(t, 404) /\ UNCHANGED rows
     \/ /\ Open(u)
        /\ closedAt' = [closedAt EXCEPT ![u] = now]
        /\ sessions' = {i \in sessions : issued[i].user # u}
        /\ Done(t, 204)
        /\ UNCHANGED issued
  /\ UNCHANGED <<now, known, worker>>

\* A statement throws or the instance crashes; what was written stays.
CallFails(t) ==
  /\ ~At(t, "idle") /\ ~At(t, "done")
  /\ Done(t, 500)
  /\ OnlyCalls

-----------------------------------------------------------------------------
(* The session cleaner; the lock is userver's PostgreSQL DistLock.         *)

CleanerOnly == UNCHANGED <<now, closedAt, issued, known, job>>

\* Mutant of LeaseExpires: the lock row has no lease.
LeaseNever == FALSE /\ UNCHANGED vars

\* Nobody prolongs the lock for a worker that is gone: lock-ttl later the row
\* is free.
LeaseExpires ==
  /\ holder # Null /\ cleaner[holder] # "working"
  /\ holder' = Null
  /\ UNCHANGED <<sessions, cleaner, faults>> /\ CleanerOnly

\* The calls that prolong the lock time out.
LoseLock ==
  /\ holder # Null /\ cleaner[holder] = "working" /\ faults < MaxFaults
  /\ holder' = Null
  /\ faults' = faults + 1
  /\ UNCHANGED <<sessions, cleaner>> /\ CleanerOnly

Acquire(i) ==
  /\ cleaner[i] = "waiting" /\ holder = Null
  /\ holder' = i
  /\ cleaner' = [cleaner EXCEPT ![i] = "working"]
  /\ UNCHANGED <<sessions, faults>> /\ CleanerOnly

Expired(i) == RowExpiry(i) < now

\* An iteration of DoWork; a worker that has lost its lock may still run one.
Sweep(i) ==
  /\ cleaner[i] = "working"
  /\ \E s \in sessions : Expired(s)
  /\ sessions' = {s \in sessions : ~Expired(s)}
  /\ UNCHANGED worker /\ CleanerOnly

\* IsCancelAdvised after the lock is lost.
WorkerStops(i) ==
  /\ cleaner[i] = "working" /\ holder # i
  /\ cleaner' = [cleaner EXCEPT ![i] = "waiting"]
  /\ UNCHANGED <<sessions, holder, faults>> /\ CleanerOnly

Crash(i) ==
  /\ cleaner[i] # "down" /\ faults < MaxFaults
  /\ cleaner' = [cleaner EXCEPT ![i] = "down"]
  /\ faults' = faults + 1
  /\ UNCHANGED <<sessions, holder>> /\ CleanerOnly

Restart(i) ==
  /\ cleaner[i] = "down"
  /\ cleaner' = [cleaner EXCEPT ![i] = "waiting"]
  /\ UNCHANGED <<sessions, holder, faults>> /\ CleanerOnly

Tick ==
  /\ now < MaxTime
  /\ now' = now + 1
  /\ UNCHANGED <<rows, known, job, worker>>

\* The behaviour ends when every call has been answered.
AllAnswered == (\A t \in Tasks : At(t, "done")) /\ UNCHANGED vars

CallStep(t) ==
  \/ ReceiveLogin(t) \/ ReceiveRefresh(t) \/ ReceiveAuthorized(t)
  \/ Authenticate(t) \/ Validate(t) \/ Revoke(t) \/ InsertSession(t) \/ Respond(t)
  \/ ReadUser(t) \/ DeleteUser(t) \/ CallFails(t)

CleanerStep(i) ==
  Acquire(i) \/ Sweep(i) \/ WorkerStops(i) \/ Crash(i) \/ Restart(i)

Next ==
  \/ \E t \in Tasks : CallStep(t)
  \/ \E i \in Instances : CleanerStep(i)
  \/ LeaseExpires \/ LoseLock
  \/ Tick
  \/ AllAnswered

Spec == Init /\ [][Next]_vars

\* The loop of a worker goes on, a stopped one gives way, a waiting instance
\* keeps asking for the lock (DistLock), a lease ends by the clock of the
\* database, and Docker restarts the backend (restart: unless-stopped).
Fairness ==
  /\ \A i \in Instances :
       WF_vars(Sweep(i)) /\ WF_vars(WorkerStops(i)) /\ WF_vars(Acquire(i)) /\ WF_vars(Restart(i))
  /\ WF_vars(LeaseExpires)

FairSpec == Spec /\ Fairness

-----------------------------------------------------------------------------

\* The clock, the table, the calls and the lock have their types.
TypeOK ==
  /\ now \in Times
  /\ closedAt \in [Users -> Times \cup {Null}]
  /\ issued \in Seq(Pair)
  /\ sessions \subseteq DOMAIN issued /\ known \subseteq DOMAIN issued
  /\ \A t \in Tasks :
       job[t].step \in {"idle", "done", "authenticate", "validate", "revoke",
                        "insert", "respond", "read_user", "delete_user"}
  /\ cleaner \in [Instances -> {"down", "waiting", "working"}]
  /\ holder \in Instances \cup {Null}
  /\ faults \in 0..MaxFaults

\* A session belongs to an account that exists, although a log-in or a refresh
\* reads the account statements before it writes the row.
SessionsHaveAccounts == \A i \in sessions : Open(issued[i].user)

\* A refresh token is used up when its row is gone and no call that validated
\* it before is still on its way to a new session.
UsedUp(i) ==
  /\ i \notin sessions
  /\ \A t \in Tasks :
       /\ At(t, "revoke") /\ job[t].rotate => job[t].token.pair # i
       /\ At(t, "insert") => job[t].from # i

\* Then it buys nothing any more: neither a rotation, a logout, a sweep nor a
\* deleted account is undone by a call that starts afterwards.
UsedUpForGood == [][\A i \in DOMAIN issued : UsedUp(i) => UsedUp(i)']_vars

\* A deleted account is let in by the AuthChecker, which never looks at the
\* tables, for one access_ttl at most: nothing renews its tokens.
LockedOutInTime ==
  [][\A t \in Tasks :
       At(t, "idle") /\ job'[t].step \in {"revoke", "read_user"} /\ ~Open(job'[t].user)
         => now <= closedAt[job'[t].user] + AccessTtl]_vars

\* A session ends because its own token was presented, its account was
\* deleted or its time was over; sweeps and other devices leave it alone.
SessionsEndForAReason ==
  [][\A i \in sessions \ sessions' :
       \/ RowExpiry(i) < now
       \/ closedAt'[issued[i].user] # Null
       \/ \E t \in Tasks : At(t, "revoke") /\ job'[t] # job[t]
                           /\ job[t].token = [pair |-> i, kind |-> "refresh"]]_vars

\* Every expired row is deleted some day, whoever crashes with the lock.
ExpiredAreSwept ==
  \A i \in 1..(Len(InitLogins) + Cardinality(Tasks)) :
    (i \in sessions /\ RowExpiry(i) < now) ~> i \notin sessions

\* A refresh token buys one new session.
SingleUse ==
  \A i, j \in DOMAIN issued : issued[i].from = issued[j].from /\ issued[i].from # 0 => i = j
=============================================================================
