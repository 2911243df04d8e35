--------------------------- MODULE SessionsProofs ---------------------------
(***************************************************************************)
(* What holds of sessions for any number of accounts, calls and instances, *)
(* any times to live and any run of the clock, whatever crashes.  The      *)
(* tables remember when a pair was made and when its account was closed;   *)
(* the invariant relates the two and types what a call carries.            *)
(***************************************************************************)
EXTENDS Sessions, TLAPS

Steps ==
  {"idle", "done", "authenticate", "validate", "revoke",
   "insert", "respond", "read_user", "delete_user"}

IssuedTokens == [pair : DOMAIN issued, kind : {"access", "refresh"}]

\* What a call carries at each step.
JobOK(j) ==
  /\ j.step \in Steps
  /\ j.step \in {"authenticate", "revoke", "insert", "read_user", "delete_user"} =>
       j.user \in Users
  /\ j.step \in {"validate", "revoke"} => j.token \in IssuedTokens
  /\ j.step = "insert" => j.at \in Times /\ j.at <= now /\ j.from \in Nat
  /\ j.step = "respond" => j.pair \in DOMAIN issued

JobsInv ==
  /\ job = [t \in Tasks |-> job[t]]
  /\ \A t \in Tasks : JobOK(job[t])

\* No pair was made in the future or after its account was closed.
RowsInv ==
  /\ now \in Times
  /\ closedAt \in [Users -> Times \cup {Null}]
  /\ \A u \in Users : ~Open(u) => closedAt[u] <= now
  /\ issued \in Seq(Pair)
  /\ sessions \subseteq DOMAIN issued /\ known \subseteq DOMAIN issued
  /\ \A i \in DOMAIN issued :
       /\ issued[i].at <= now
       /\ ~Open(issued[i].user) => issued[i].at <= closedAt[issued[i].user]
  /\ SessionsHaveAccounts

WorkerInv ==
  /\ cleaner \in [Instances -> {"down", "waiting", "working"}]
  /\ holder \in Instances \cup {Null}
  /\ faults \in 0..MaxFaults

SInv == RowsInv /\ JobsInv /\ WorkerInv

-----------------------------------------------------------------------------

\* Every pair has an owner and a time.
LEMMA PairFields ==
  ASSUME RowsInv, NEW i \in DOMAIN issued
  PROVE  issued[i] \in Pair /\ issued[i].user \in Users /\ issued[i].at \in Times
<1>1. issued[i] \in Pair
  BY DEF RowsInv
<1> QED BY <1>1 DEF Pair

\* Pairs are only added, and the clock does not go back.
Evolves ==
  /\ DOMAIN issued \subseteq DOMAIN issued'
  /\ \A i \in DOMAIN issued : issued'[i] = issued[i]
  /\ now' \in Times /\ now <= now'

\* What a call carries stays good while others move.
LEMMA JobStaysOK ==
  ASSUME RowsInv, Evolves, NEW j, JobOK(j)
  PROVE  JobOK(j)'
<1>1. now \in Nat /\ \A m \in Times : m \in Nat
  BY SessionsAssumption DEF RowsInv, Times
<1>2. IssuedTokens \subseteq IssuedTokens'
  BY DEF IssuedTokens, Evolves
<1>3. j.step = "insert" => j.at <= now'
  BY <1>1 DEF Evolves, JobOK
<1> QED BY <1>2, <1>3 DEF JobOK, Evolves

\* A step of one call that carries what its next step needs.
LEMMA OneCallMoves ==
  ASSUME SInv, Evolves, NEW t \in Tasks, NEW j, Go(t, j), JobOK(j)'
  PROVE  JobsInv' /\ job'[t] = j /\ \A s \in Tasks \ {t} : job'[s] = job[s]
<1>1. job = [s \in Tasks |-> job[s]] /\ \A s \in Tasks : JobOK(job[s])
  BY DEF SInv, JobsInv
<1>2. /\ job' = [s \in Tasks |-> job'[s]] /\ job'[t] = j
      /\ \A s \in Tasks \ {t} : job'[s] = job[s]
  BY <1>1 DEF Go
<1>3. \A s \in Tasks \ {t} : \E k : k = job[s] /\ JobOK(k)'
  BY <1>1, JobStaysOK DEF SInv
<1>4. \A s \in Tasks : \E k : k = job'[s] /\ JobOK(k)'
  BY <1>2, <1>3
<1> QED BY <1>2, <1>4 DEF JobsInv, JobOK

\* A call that is answered carries nothing.
LEMMA DoneMoves ==
  ASSUME SInv, Evolves, NEW t \in Tasks, NEW n, Done(t, n)
  PROVE  JobsInv' /\ job'[t].step = "done"
<1> DEFINE j == [step |-> "done", status |-> n]
<1>1. Go(t, j) /\ j.step = "done"
  BY DEF Done
<1>2. JobOK(j)'
  BY DEF JobOK, Steps
<1> HIDE DEF j
<1> QED BY <1>1, <1>2, OneCallMoves

\* Steps that write no table.
LEMMA QuietTables ==
  ASSUME SInv, OnlyCalls
  PROVE  Evolves /\ RowsInv' /\ WorkerInv'
<1>1. Evolves
  BY SessionsAssumption DEF SInv, RowsInv, OnlyCalls, rows, Evolves, Times
<1>2. RowsInv'
  BY DEF SInv, RowsInv, OnlyCalls, rows, SessionsHaveAccounts, Open
<1> QED BY <1>1, <1>2 DEF SInv, WorkerInv, OnlyCalls, worker

-----------------------------------------------------------------------------
(* The handlers.                                                           *)

\* The tokens clients present are of pairs that were issued.
LEMMA TokensIssued ==
  ASSUME RowsInv, NEW k \in Tokens
  PROVE  k \in IssuedTokens /\ k.pair \in DOMAIN issued
BY DEF RowsInv, Tokens, IssuedTokens

\* A call that begins, or only reads.
LEMMA ReadsSound ==
  ASSUME SInv, NEW t \in Tasks,
         \/ ReceiveLogin(t) \/ ReceiveRefresh(t) \/ ReceiveAuthorized(t)
         \/ Authenticate(t) \/ Validate(t) \/ ReadUser(t) \/ CallFails(t)
  PROVE  SInv'
<1>1. OnlyCalls /\ RowsInv /\ JobOK(job[t])
  BY DEF ReceiveLogin, ReceiveRefresh, ReceiveAuthorized, Authenticate, Validate,
         ReadUser, CallFails, SInv, JobsInv
<1>2. Evolves /\ RowsInv' /\ WorkerInv'
  BY <1>1, QuietTables
<1>3. /\ now \in Nat /\ Times \subseteq Nat /\ now \in Times
      /\ now' = now /\ issued' = issued
  BY <1>1, SessionsAssumption DEF RowsInv, Times, OnlyCalls, rows
<1>4. CASE \E n : Done(t, n)
  BY <1>2, <1>4, DoneMoves DEF SInv
<1>5. CASE \E j : Go(t, j) /\ JobOK(j)'
  BY <1>2, <1>5, OneCallMoves DEF SInv
<1>6. CASE ReceiveLogin(t)
  <2>1. PICK u, j : u \in Users /\ Go(t, j) /\ j = [step |-> "authenticate", user |-> u]
    BY <1>6 DEF ReceiveLogin
  <2> QED BY <1>5, <2>1 DEF JobOK, Steps
<1>7. CASE ReceiveRefresh(t)
  <2>1. PICK k \in Tokens : Go(t, [step |-> "validate", token |-> k])
    BY <1>7 DEF ReceiveRefresh
  <2>2. k \in IssuedTokens'
    BY <1>1, <1>3, TokensIssued DEF IssuedTokens
  <2>3. JobOK([step |-> "validate", token |-> k])'
    BY <2>2 DEF JobOK, Steps
  <2> QED BY <1>5, <2>1, <2>3
<1>8. CASE ReceiveAuthorized(t)
  <2>1. PICK a, u, j :
          /\ a \in Tokens /\ u = issued[a.pair].user
          /\ (\E n : Done(t, n)) \/ Go(t, j)
          /\ \/ \E n : Done(t, n)
             \/ \E k \in Tokens :
                  j = [step |-> "revoke", token |-> k, user |-> u, rotate |-> FALSE]
             \/ \E op : j = [step |-> "read_user", op |-> op, user |-> u]
    BY <1>8 DEF ReceiveAuthorized
  <2>2. u \in Users
    BY <1>1, <2>1, TokensIssued, PairFields
  <2>3. \A k \in Tokens : k \in IssuedTokens'
    BY <1>1, <1>3, TokensIssued DEF IssuedTokens
  <2>4. (\E n : Done(t, n)) \/ JobOK(j)'
    BY <2>1, <2>2, <2>3 DEF JobOK, Steps
  <2> QED BY <1>4, <1>5, <2>1, <2>4
<1>9. CASE Authenticate(t)
  <2>1. PICK u, m, j :
          /\ u = job[t].user /\ m = now
          /\ j = [step |-> "insert", user |-> u, at |-> m, from |-> 0]
          /\ (\E n : Done(t, n)) \/ Go(t, j)
    BY <1>9 DEF Authenticate
  <2>2. u \in Users
    BY <1>1, <1>9, <2>1 DEF Authenticate, At, JobOK
  <2>3. JobOK(j)'
    BY <1>3, <2>1, <2>2 DEF JobOK, Steps
  <2> QED BY <1>4, <1>5, <2>1, <2>3
<1>10. CASE Validate(t)
  <2>1. PICK k, u, j :
          /\ k = job[t].token /\ u = issued[k.pair].user
          /\ j = [step |-> "revoke", token |-> k, user |-> u, rotate |-> TRUE]
          /\ (\E n : Done(t, n)) \/ Go(t, j)
    BY <1>10 DEF Validate
  <2>2. k \in IssuedTokens /\ k.pair \in DOMAIN issued
    BY <1>1, <1>10, <2>1 DEF Validate, At, JobOK, IssuedTokens
  <2>3. u \in Users /\ k \in IssuedTokens'
    BY <1>1, <1>3, <2>1, <2>2, PairFields DEF IssuedTokens
  <2>4. JobOK(j)'
    BY <2>1, <2>3 DEF JobOK, Steps
  <2> QED BY <1>4, <1>5, <2>1, <2>4
<1>11. CASE ReadUser(t)
  <2>1. PICK u, j :
          /\ u = job[t].user /\ j = [step |-> "delete_user", user |-> u]
          /\ (\E n : Done(t, n)) \/ Go(t, j)
    BY <1>11 DEF ReadUser
  <2>2. u \in Users
    BY <1>1, <1>11, <2>1 DEF ReadUser, At, JobOK
  <2>3. JobOK(j)'
    BY <2>1, <2>2 DEF JobOK, Steps
  <2> QED BY <1>4, <1>5, <2>1, <2>3
<1>12. CASE CallFails(t)
  BY <1>4, <1>12 DEF CallFails
<1> QED BY <1>6, <1>7, <1>8, <1>9, <1>10, <1>11, <1>12

\* Where a call goes after the DELETE of its token's row.
LEMMA AfterRevokeSound ==
  ASSUME SInv, Evolves, NEW t \in Tasks, At(t, "revoke"), AfterRevoke(t), now' = now
  PROVE  JobsInv'
<1>1. JobOK(job[t]) /\ now \in Times /\ Times \subseteq Nat /\ issued \in Seq(Pair)
  BY SessionsAssumption DEF SInv, JobsInv, RowsInv, Times
<1>2. CASE Done(t, 200)
  BY <1>2, DoneMoves
<1>3. CASE Go(t, [step |-> "insert", user |-> job[t].user, at |-> now,
                  from |-> job[t].token.pair])
  <2>1. PICK u, m, i, j :
          /\ u = job[t].user /\ m = now /\ i = job[t].token.pair
          /\ j = [step |-> "insert", user |-> u, at |-> m, from |-> i] /\ Go(t, j)
    BY <1>3
  <2>2. u \in Users /\ i \in DOMAIN issued
    BY <1>1, <2>1 DEF At, JobOK, IssuedTokens
  <2>3. i \in Nat
    BY <1>1, <2>2
  <2>4. JobOK(j)'
    BY <1>1, <2>1, <2>2, <2>3 DEF JobOK, Steps
  <2> QED BY <2>1, <2>4, OneCallMoves
<1> QED BY <1>2, <1>3 DEF AfterRevoke

\* Sessions that are deleted: nothing else needs their rows.
LEMMA FewerSessions ==
  ASSUME SInv, sessions' \subseteq sessions,
         UNCHANGED <<now, closedAt, issued, known>>
  PROVE  Evolves /\ RowsInv'
<1>1. Evolves
  BY SessionsAssumption DEF SInv, RowsInv, Evolves, Times
<1>2. RowsInv'
  BY DEF SInv, RowsInv, SessionsHaveAccounts, Open
<1> QED BY <1>1, <1>2

\* Deleting the row of a token breaks nothing.
LEMMA RevokeSound ==
  ASSUME SInv, NEW t \in Tasks, Revoke(t)
  PROVE  SInv'
<1>1. Evolves /\ RowsInv'
  BY FewerSessions DEF Revoke
<1>2. JobsInv'
  BY <1>1, AfterRevokeSound DEF Revoke
<1> QED BY <1>1, <1>2 DEF SInv, WorkerInv, Revoke, worker

\* The row of a new pair, for an account that is open.
LEMMA InsertSessionSound ==
  ASSUME SInv, NEW t \in Tasks, InsertSession(t)
  PROVE  SInv'
<1> DEFINE new == Len(issued) + 1
           row == NewPair(job[t])
<1>1. /\ JobOK(job[t]) /\ RowsInv /\ issued \in Seq(Pair) /\ At(t, "insert")
      /\ UNCHANGED <<now, closedAt, known, worker>>
  BY DEF SInv, JobsInv, RowsInv, InsertSession
<1>2. WorkerInv'
  BY <1>1 DEF SInv, WorkerInv, worker
<1>3. CASE Done(t, 500) /\ UNCHANGED <<issued, sessions>>
  <2>1. OnlyCalls
    BY <1>1, <1>3 DEF OnlyCalls, rows
  <2> QED BY <1>3, <2>1, QuietTables, DoneMoves DEF SInv
<1>4. CASE /\ Open(job[t].user)
           /\ issued' = Append(issued, row)
           /\ sessions' = sessions \cup {new}
           /\ Go(t, [step |-> "respond", pair |-> new])
  <2>1. /\ row \in Pair /\ row.user = job[t].user /\ row.at <= now /\ Open(row.user)
    BY <1>1, <1>4 DEF At, JobOK, NewPair, Pair
  <2> HIDE DEF row
  <2>2. /\ issued' \in Seq(Pair) /\ DOMAIN issued' = DOMAIN issued \cup {new}
        /\ \A i \in DOMAIN issued : issued'[i] = issued[i]
        /\ issued'[new] = row /\ new \notin DOMAIN issued
    BY <1>1, <1>4, <2>1
  <2> HIDE DEF new
  <2>3. Evolves
    BY <1>1, <2>2, SessionsAssumption DEF RowsInv, Evolves, Times
  <2>4. \A i \in DOMAIN issued' :
          /\ issued'[i].at <= now
          /\ ~Open(issued'[i].user) => issued'[i].at <= closedAt[issued'[i].user]
    BY <1>1, <2>1, <2>2 DEF RowsInv
  <2>5. \A i \in sessions' : Open(issued'[i].user)
    BY <1>1, <1>4, <2>1, <2>2 DEF RowsInv, SessionsHaveAccounts
  <2>6. RowsInv'
    BY <1>1, <1>4, <2>2, <2>4, <2>5 DEF RowsInv, SessionsHaveAccounts, Open
  <2>7. PICK i, j : i = new /\ j = [step |-> "respond", pair |-> i] /\ Go(t, j)
    BY <1>4
  <2>8. JobOK(j)'
    BY <2>2, <2>7 DEF JobOK, Steps
  <2> QED BY <1>2, <2>3, <2>6, <2>7, <2>8, OneCallMoves DEF SInv
<1> QED BY <1>3, <1>4 DEF InsertSession

\* The client learns the pair.
LEMMA RespondSound ==
  ASSUME SInv, NEW t \in Tasks, Respond(t)
  PROVE  SInv'
<1>1. job[t].pair \in DOMAIN issued
  BY DEF SInv, JobsInv, JobOK, Respond, At
<1>2. Evolves
  BY SessionsAssumption DEF SInv, RowsInv, Respond, rows, Evolves, Times
<1>3. RowsInv'
  BY <1>1 DEF SInv, RowsInv, Respond, rows, SessionsHaveAccounts, Open
<1>4. JobsInv'
  BY <1>2, DoneMoves DEF Respond
<1> QED BY <1>3, <1>4 DEF SInv, WorkerInv, Respond, worker

\* An account that closes takes its sessions along.
LEMMA DeleteUserSound ==
  ASSUME SInv, NEW t \in Tasks, DeleteUser(t)
  PROVE  SInv'
<1> DEFINE u == job[t].user
<1>1. /\ RowsInv /\ u \in Users /\ UNCHANGED <<now, known, worker, issued>>
      /\ \E n : Done(t, n)
  BY DEF SInv, JobsInv, JobOK, DeleteUser, At, rows
<1>2. Evolves
  BY <1>1, SessionsAssumption DEF RowsInv, Evolves, Times
<1>3. JobsInv'
  BY <1>1, <1>2, DoneMoves
<1>4. WorkerInv'
  BY <1>1 DEF SInv, WorkerInv, worker
<1>5. CASE UNCHANGED rows
  BY <1>1, <1>3, <1>4, <1>5 DEF SInv, RowsInv, rows, SessionsHaveAccounts, Open
<1>6. CASE /\ Open(u) /\ closedAt' = [closedAt EXCEPT ![u] = now]
           /\ sessions' = {i \in sessions : issued[i].user # u}
  <2>1. /\ now \in Times /\ Times \subseteq Nat /\ Null \notin Times
        /\ closedAt \in [Users -> Times \cup {Null}]
    BY <1>1, SessionsAssumption DEF RowsInv, Times
  <2>2. /\ closedAt' \in [Users -> Times \cup {Null}] /\ closedAt'[u] = now
        /\ \A v \in Users \ {u} : closedAt'[v] = closedAt[v]
    BY <1>1, <1>6, <2>1
  <2>3. \A i \in DOMAIN issued : issued[i].user \in Users
    BY <1>1, PairFields
  <2> HIDE DEF u
  <2>4. /\ \A v \in Users : closedAt'[v] # Null => closedAt'[v] <= now
        /\ \A i \in DOMAIN issued :
             closedAt'[issued[i].user] # Null => issued[i].at <= closedAt'[issued[i].user]
        /\ \A i \in sessions' : closedAt'[issued[i].user] = Null
    BY <1>1, <1>6, <2>1, <2>2, <2>3 DEF RowsInv, Open, SessionsHaveAccounts
  <2>5. RowsInv'
    BY <1>1, <1>6, <2>2, <2>4 DEF RowsInv, Open, SessionsHaveAccounts
  <2> QED BY <1>3, <1>4, <2>5 DEF SInv
<1> QED BY <1>5, <1>6 DEF DeleteUser

-----------------------------------------------------------------------------
(* The cleaner and the clock.                                              *)

\* What calls carry survives the cleaner and the clock.
LEMMA JobsStay ==
  ASSUME SInv, Evolves, job' = job
  PROVE  JobsInv'
<1>1. \A t \in Tasks : \E j : j = job[t] /\ JobOK(j)'
  BY JobStaysOK DEF SInv, JobsInv
<1>2. job' = [t \in Tasks |-> job'[t]]
  BY DEF SInv, JobsInv
<1> QED BY <1>1, <1>2 DEF JobsInv, JobOK

\* Whoever holds the lock, the cleaner only deletes rows.
LEMMA CleanerSound ==
  ASSUME SInv, LeaseExpires \/ LoseLock \/ \E i \in Instances : CleanerStep(i)
  PROVE  SInv'
<1>1. sessions' \subseteq sessions /\ CleanerOnly
  BY DEF LeaseExpires, LoseLock, CleanerStep, Acquire, Sweep, WorkerStops, Crash, Restart
<1>2. Evolves /\ RowsInv' /\ JobsInv'
  BY <1>1, FewerSessions, JobsStay DEF CleanerOnly
<1>3. faults \in Nat /\ MaxFaults \in Nat
  BY SessionsAssumption DEF SInv, WorkerInv
<1>4. WorkerInv'
  <2>1. CASE LeaseExpires \/ LoseLock
    BY <1>3, <2>1 DEF LeaseExpires, LoseLock, SInv, WorkerInv
  <2>2. CASE \E i \in Instances : CleanerStep(i)
    BY <1>3, <2>2
       DEF CleanerStep, Acquire, Sweep, WorkerStops, Crash, Restart, SInv, WorkerInv, worker
  <2> QED BY <2>1, <2>2
<1> QED BY <1>2, <1>4 DEF SInv

\* Time passes.
LEMMA TickSound ==
  ASSUME SInv, Tick
  PROVE  SInv'
<1>1. Evolves /\ now' = now + 1 /\ now \in Nat
  BY SessionsAssumption DEF SInv, RowsInv, Tick, rows, Evolves, Times
<1>2. \A i \in DOMAIN issued : issued[i].at \in Nat
  BY PairFields, SessionsAssumption DEF SInv, Times
<1>3. \A u \in Users : ~Open(u) => closedAt[u] \in Nat
  BY SessionsAssumption DEF SInv, RowsInv, Times, Open
<1>4. RowsInv'
  BY <1>1, <1>2, <1>3 DEF SInv, RowsInv, Tick, rows, SessionsHaveAccounts, Open, Evolves
<1>5. JobsInv'
  BY <1>1, JobsStay DEF Tick
<1> QED BY <1>4, <1>5 DEF SInv, WorkerInv, Tick, worker

-----------------------------------------------------------------------------

\* The sessions at the start.
LEMMA InitSound == Init => SInv
<1> SUFFICES ASSUME Init
             PROVE  SInv
  OBVIOUS
<1>1. 0 \in Times /\ Times \subseteq Nat
  BY SessionsAssumption DEF Times
<1>2. /\ issued \in Seq(Pair) /\ DOMAIN issued = DOMAIN InitLogins
      /\ \A i \in DOMAIN issued : issued[i].at = 0 /\ issued[i].user \in Users
  <2>1. /\ Len(InitLogins) \in Nat /\ DOMAIN InitLogins = 1..Len(InitLogins)
        /\ \A i \in DOMAIN InitLogins : InitLogins[i] \in Users
    BY SessionsAssumption
  <2>2. \A i \in DOMAIN InitLogins :
          [user |-> InitLogins[i], at |-> 0, from |-> 0] \in Pair
    BY <1>1, <2>1 DEF Pair
  <2>3. issued \in [1..Len(InitLogins) -> Pair]
    BY <2>1, <2>2 DEF Init
  <2> QED BY <2>1, <2>3 DEF Init
<1>3. RowsInv
  <2>1. \A u \in Users : Open(u)
    BY DEF Init, Open
  <2>2. closedAt \in [Users -> Times \cup {Null}]
    BY DEF Init
  <2> QED BY <1>1, <1>2, <2>1, <2>2 DEF Init, RowsInv, SessionsHaveAccounts
<1>4. JobsInv
  BY DEF Init, JobsInv, JobOK, Steps
<1>5. WorkerInv
  BY SessionsAssumption DEF Init, WorkerInv
<1> QED BY <1>3, <1>4, <1>5 DEF SInv

\* Every step preserves the invariant.
LEMMA NextSound == SInv /\ [Next]_vars => SInv'
<1> SUFFICES ASSUME SInv, [Next]_vars
             PROVE  SInv'
  OBVIOUS
<1>1. CASE UNCHANGED vars
  <2>1. OnlyCalls /\ job' = job
    BY <1>1 DEF vars, OnlyCalls
  <2> QED BY <2>1, QuietTables, JobsStay DEF SInv
<1>2. ASSUME NEW t \in Tasks, CallStep(t)
      PROVE  SInv'
  BY <1>2, ReadsSound, RevokeSound, InsertSessionSound, RespondSound, DeleteUserSound
     DEF CallStep
<1> QED BY <1>1, <1>2, CleanerSound, TickSound DEF Next, AllAnswered

\* The invariant holds in every reachable state.
THEOREM SessionsInvariant == Spec => []SInv
<1> QED BY InitSound, NextSound, PTL DEF Spec

\* The clock, the table, the calls and the lock keep their types.
THEOREM TypeCorrect == Spec => []TypeOK
<1>1. SInv => TypeOK
  BY DEF SInv, RowsInv, JobsInv, WorkerInv, JobOK, Steps, TypeOK
<1> QED BY <1>1, SessionsInvariant, PTL

\* No log-in or refresh leaves a session of an account that is gone: what
\* create_session inserts, and what a closed account deletes, agree.
THEOREM NoSessionWithoutAccount == Spec => []SessionsHaveAccounts
<1>1. SInv => SessionsHaveAccounts
  BY DEF SInv, RowsInv
<1> QED BY <1>1, SessionsInvariant, PTL

-----------------------------------------------------------------------------
(* What no step does.                                                      *)

\* A step of one call leaves the others where they are.
LEMMA OneCallGoes ==
  ASSUME SInv, NEW t \in Tasks, CallStep(t)
  PROVE  /\ \E j : Go(t, j) /\ job'[t] = j
         /\ \A s \in Tasks \ {t} : job'[s] = job[s]
<1>1. job = [s \in Tasks |-> job[s]]
  BY DEF SInv, JobsInv
<1>2. CASE \/ ReceiveLogin(t) \/ ReceiveRefresh(t) \/ ReceiveAuthorized(t)
           \/ Authenticate(t) \/ Validate(t) \/ CallFails(t)
  <2>1. \E j : Go(t, j)
    BY <1>2
       DEF ReceiveLogin, ReceiveRefresh, ReceiveAuthorized, Authenticate, Validate, CallFails, Done
  <2> QED BY <1>1, <2>1 DEF Go
<1>3. CASE \/ Revoke(t) \/ InsertSession(t) \/ Respond(t) \/ ReadUser(t) \/ DeleteUser(t)
  <2>1. \E j : Go(t, j)
    BY <1>3
       DEF Revoke, AfterRevoke, InsertSession, Respond, ReadUser, DeleteUser, Done
  <2> QED BY <1>1, <2>1 DEF Go
<1> QED BY <1>2, <1>3 DEF CallStep

\* Where the AuthChecker lets a call with access token a, of user u, go.
AuthorizedAs(t, a, u) ==
  \/ \E j : Go(t, j) /\ j.step = "done"
  \/ \E j : /\ Go(t, j) /\ ValidAccess(a) /\ j.user = u
            /\ j.step = "read_user" \/ (j.step = "revoke" /\ ~j.rotate)

\* The three outcomes of the check are these.
LEMMA AuthorizedCalls ==
  ASSUME NEW t \in Tasks, ReceiveAuthorized(t)
  PROVE  \E a \in Tokens : AuthorizedAs(t, a, issued[a.pair].user)
<1>1. PICK a, u, j :
        /\ a \in Tokens /\ u = issued[a.pair].user /\ Go(t, j)
        /\ \/ \E n : j = [step |-> "done", status |-> n]
           \/ /\ ValidAccess(a)
              /\ \/ \E k : j = [step |-> "revoke", token |-> k, user |-> u, rotate |-> FALSE]
                 \/ \E op : j = [step |-> "read_user", op |-> op, user |-> u]
  BY DEF ReceiveAuthorized, Done
<1>2. \/ j.step = "done"
      \/ /\ ValidAccess(a) /\ j.user = u
         /\ j.step = "read_user" \/ (j.step = "revoke" /\ ~j.rotate)
  BY <1>1
<1> QED BY <1>1, <1>2 DEF AuthorizedAs

\* A call that has just begun to act for a user was let in on a valid token of
\* that user.
LEMMA LetInByToken ==
  ASSUME SInv, NEW t \in Tasks, CallStep(t), At(t, "idle"),
         job'[t].step \in {"revoke", "read_user"}
  PROVE  \E a \in Tokens : ValidAccess(a) /\ job'[t].user = issued[a.pair].user
<1>1. job = [s \in Tasks |-> job[s]]
  BY DEF SInv, JobsInv
<1>2. \A j : Go(t, j) => job'[t] = j
  BY <1>1 DEF Go
<1>3. ReceiveAuthorized(t)
  <2>1. ReceiveLogin(t) => job'[t].step = "authenticate"
    BY <1>2 DEF ReceiveLogin
  <2>2. ReceiveRefresh(t) => job'[t].step = "validate"
    BY <1>2 DEF ReceiveRefresh
  <2> QED BY <2>1, <2>2
       DEF CallStep, At, Authenticate, Validate, Revoke, InsertSession, Respond, ReadUser,
           DeleteUser, CallFails
<1>4. PICK a \in Tokens : AuthorizedAs(t, a, issued[a.pair].user)
  BY <1>3, AuthorizedCalls
<1>5. job'[t].step = "done" \/ (ValidAccess(a) /\ job'[t].user = issued[a.pair].user)
  BY <1>2, <1>4 DEF AuthorizedAs
<1> QED BY <1>4, <1>5

\* Nobody is let in longer than access_ttl after the account was closed: the
\* tokens are from before, and a refresh finds no row.
THEOREM ClosedAccountsLockedOut == Spec => LockedOutInTime
<1> DEFINE LockedOut(t) ==
      At(t, "idle") /\ job'[t].step \in {"revoke", "read_user"} /\ ~Open(job'[t].user)
        => now <= closedAt[job'[t].user] + AccessTtl
<1>1. ASSUME SInv, [Next]_vars
      PROVE  [\A t \in Tasks : LockedOut(t)]_vars
  <2> SUFFICES ASSUME NEW t \in Tasks, At(t, "idle"),
                      job'[t].step \in {"revoke", "read_user"}, ~Open(job'[t].user)
               PROVE  now <= closedAt[job'[t].user] + AccessTtl
    OBVIOUS
  <2>1. job'[t] # job[t]
    BY DEF At
  <2>2. PICK s \in Tasks : CallStep(s)
    BY <1>1, <2>1
       DEF Next, CleanerStep, LeaseExpires, LoseLock, Acquire, Sweep, WorkerStops, Crash,
           Restart, CleanerOnly, Tick, AllAnswered, vars
  <2>3. CallStep(t)
    BY <1>1, <2>1, <2>2, OneCallGoes
  <2>4. PICK a \in Tokens : ValidAccess(a) /\ job'[t].user = issued[a.pair].user
    BY <1>1, <2>3, LetInByToken
  <2> DEFINE i == a.pair
             u == issued[i].user
  <2>5. i \in DOMAIN issued /\ u \in Users /\ issued[i].at \in Nat /\ now \in Nat
        /\ closedAt[u] \in Nat
    <3>1. i \in DOMAIN issued /\ u \in Users /\ issued[i].at \in Times
      BY <1>1, TokensIssued, PairFields DEF SInv
    <3>2. now \in Times /\ closedAt[u] \in Times \cup {Null} /\ closedAt[u] # Null
      BY <1>1, <2>4, <3>1 DEF SInv, RowsInv, Open
    <3> QED BY <3>1, <3>2, SessionsAssumption DEF Times
  <2>6. issued[i].at + AccessTtl >= now
    BY <2>4 DEF ValidAccess, Unexpired, Expiry
  <2>7. issued[i].at <= closedAt[u]
    BY <1>1, <2>4, <2>5 DEF SInv, RowsInv
  <2> HIDE DEF i, u
  <2>8. now <= closedAt[u] + AccessTtl
    BY <2>5, <2>6, <2>7, SessionsAssumption
  <2> QED BY <2>4, <2>8 DEF i, u
<1>2. Spec => [][\A t \in Tasks : LockedOut(t)]_vars
  BY <1>1, SessionsInvariant, PTL DEF Spec
<1> QED BY <1>2 DEF LockedOutInTime

\* A call that deletes a session deletes the one it names or those of an
\* account that is closed.
LEMMA CallsEndSessions ==
  ASSUME SInv, NEW t \in Tasks, CallStep(t), NEW i \in sessions \ sessions'
  PROVE  \/ closedAt'[issued[i].user] # Null
         \/ /\ At(t, "revoke") /\ job'[t] # job[t]
            /\ job[t].token = [pair |-> i, kind |-> "refresh"]
<1>1. job = [s \in Tasks |-> job[s]] /\ JobOK(job[t]) /\ RowsInv
  BY DEF SInv, JobsInv
<1>2. Revoke(t) \/ DeleteUser(t)
  BY DEF CallStep, ReceiveLogin, ReceiveRefresh, ReceiveAuthorized, Authenticate, Validate,
         ReadUser, CallFails, InsertSession, Respond, OnlyCalls, rows
<1>3. CASE Revoke(t)
  <2>1. At(t, "revoke") /\ job[t].token.kind = "refresh" /\ i = job[t].token.pair
    BY <1>3 DEF Revoke
  <2>2. job[t].token = [pair |-> i, kind |-> "refresh"]
    BY <1>1, <2>1 DEF At, JobOK, IssuedTokens
  <2>3. job'[t].step \in {"insert", "done"}
    BY <1>1, <1>3 DEF Revoke, AfterRevoke, Go, Done
  <2> QED BY <2>1, <2>2, <2>3 DEF At
<1>4. CASE DeleteUser(t)
  <2>1. /\ issued[i].user = job[t].user /\ closedAt' = [closedAt EXCEPT ![job[t].user] = now]
    BY <1>4 DEF DeleteUser, rows
  <2>2. job[t].user \in Users /\ now # Null
    BY <1>1, <1>4, SessionsAssumption DEF DeleteUser, At, JobOK, RowsInv, Times
  <2> QED BY <1>1, <2>1, <2>2 DEF RowsInv
<1> QED BY <1>2, <1>3, <1>4

\* No session ends but by its own token, by its time or with its account.
THEOREM SessionsEndWithCause == Spec => SessionsEndForAReason
<1> DEFINE Ends(i) ==
      \/ RowExpiry(i) < now
      \/ closedAt'[issued[i].user] # Null
      \/ \E t \in Tasks : At(t, "revoke") /\ job'[t] # job[t]
                          /\ job[t].token = [pair |-> i, kind |-> "refresh"]
<1>1. ASSUME SInv, [Next]_vars
      PROVE  [\A i \in sessions \ sessions' : Ends(i)]_vars
  <2> SUFFICES ASSUME NEW i \in sessions \ sessions'
               PROVE  Ends(i)
    OBVIOUS
  <2>1. CASE \E t \in Tasks : CallStep(t)
    BY <1>1, <2>1, CallsEndSessions
  <2>2. CASE \E w \in Instances : Sweep(w)
    BY <2>2 DEF Sweep, Expired
  <2> QED BY <1>1, <2>1, <2>2
       DEF Next, CleanerStep, LeaseExpires, LoseLock, Acquire, WorkerStops, Crash,
           Restart, Tick, AllAnswered, vars, rows
<1>2. Spec => [][\A i \in sessions \ sessions' : Ends(i)]_vars
  BY <1>1, SessionsInvariant, PTL DEF Spec
<1> QED BY <1>2 DEF SessionsEndForAReason

\* How a call comes to hold a token for a rotation, and to insert for it.
LEMMA RotationsComeFromRows ==
  ASSUME SInv, NEW t \in Tasks, CallStep(t)
  PROVE  /\ job'[t].step = "revoke" /\ job'[t].rotate => job'[t].token.pair \in sessions
         /\ job'[t].step = "insert" =>
              \/ job'[t].from = 0
              \/ At(t, "revoke") /\ job[t].rotate /\ job'[t].from = job[t].token.pair
<1>1. job = [s \in Tasks |-> job[s]]
  BY DEF SInv, JobsInv
<1>2. \A j : Go(t, j) => job'[t] = j
  BY <1>1 DEF Go
<1>3. \A n : Done(t, n) => job'[t].step = "done"
  BY <1>2 DEF Done
<1>4. CASE ReceiveLogin(t) \/ ReceiveRefresh(t) \/ ReceiveAuthorized(t)
  <2>1. ReceiveLogin(t) => job'[t].step = "authenticate"
    BY <1>2 DEF ReceiveLogin
  <2>2. ReceiveRefresh(t) => job'[t].step = "validate"
    BY <1>2 DEF ReceiveRefresh
  <2>3. ASSUME ReceiveAuthorized(t)
        PROVE  job'[t].step \in {"read_user", "done"} \/ (job'[t].step = "revoke" /\ ~job'[t].rotate)
    <3>1. PICK a \in Tokens : AuthorizedAs(t, a, issued[a.pair].user)
      BY <2>3, AuthorizedCalls
    <3> QED BY <1>2, <3>1 DEF AuthorizedAs
  <2> QED BY <1>4, <2>1, <2>2, <2>3
<1>5. CASE Authenticate(t)
  BY <1>2, <1>3, <1>5 DEF Authenticate
<1>6. CASE Validate(t)
  BY <1>2, <1>3, <1>6 DEF Validate, LiveRow
<1>7. CASE Revoke(t)
  BY <1>2, <1>3, <1>7 DEF Revoke, AfterRevoke
<1>8. CASE InsertSession(t) \/ Respond(t) \/ ReadUser(t) \/ DeleteUser(t) \/ CallFails(t)
  BY <1>2, <1>3, <1>8 DEF InsertSession, Respond, ReadUser, DeleteUser, CallFails
<1> QED BY <1>4, <1>5, <1>6, <1>7, <1>8 DEF CallStep

\* Rows of sessions appear only for pairs that were not issued before.
LEMMA NewRowsOnly ==
  ASSUME SInv, [Next]_vars, NEW i \in DOMAIN issued, i \notin sessions
  PROVE  i \notin sessions'
<1>1. i # Len(issued) + 1
  BY DEF SInv, RowsInv
<1>2. ASSUME NEW t \in Tasks, CallStep(t)
      PROVE  i \notin sessions'
  BY <1>1, <1>2
     DEF CallStep, ReceiveLogin, ReceiveRefresh, ReceiveAuthorized, Authenticate, Validate,
         Revoke, InsertSession, Respond, ReadUser, DeleteUser, CallFails, OnlyCalls, rows
<1> QED BY <1>2
     DEF Next, CleanerStep, LeaseExpires, LoseLock, Acquire, Sweep, WorkerStops, Crash,
         Restart, CleanerOnly, Tick, AllAnswered, vars, rows

\* A refresh token whose row is gone, and which no call validated before, buys
\* nothing any more, whatever else is going on.
THEOREM UsedUpStaysUsedUp == Spec => UsedUpForGood
<1>1. ASSUME SInv, [Next]_vars
      PROVE  [\A i \in DOMAIN issued : UsedUp(i) => UsedUp(i)']_vars
  <2> SUFFICES ASSUME NEW i \in DOMAIN issued, UsedUp(i)
               PROVE  UsedUp(i)'
    OBVIOUS
  <2>1. i \notin sessions'
    BY <1>1, NewRowsOnly DEF UsedUp
  <2>2. i \in Nat \ {0}
    BY <1>1 DEF SInv, RowsInv
  <2>3. CASE job' = job
    BY <2>1, <2>3 DEF UsedUp, At
  <2>4. ASSUME NEW t \in Tasks, CallStep(t)
        PROVE  UsedUp(i)'
    <3>1. \A s \in Tasks \ {t} : job'[s] = job[s]
      BY <1>1, <2>4, OneCallGoes
    <3>2. /\ job'[t].step = "revoke" /\ job'[t].rotate => job'[t].token.pair # i
          /\ job'[t].step = "insert" => job'[t].from # i
      BY <1>1, <2>2, <2>4, RotationsComeFromRows DEF UsedUp
    <3> QED BY <2>1, <3>1, <3>2 DEF UsedUp, At
  <2> QED BY <1>1, <2>3, <2>4
       DEF Next, CleanerStep, LeaseExpires, LoseLock, Acquire, Sweep, WorkerStops, Crash,
           Restart, CleanerOnly, Tick, AllAnswered, vars
<1>2. Spec => [][\A i \in DOMAIN issued : UsedUp(i) => UsedUp(i)']_vars
  BY <1>1, SessionsInvariant, PTL DEF Spec
<1> QED BY <1>2 DEF UsedUpForGood
=============================================================================
