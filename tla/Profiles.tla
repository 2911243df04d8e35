------------------------------ MODULE Profiles ------------------------------
(***************************************************************************)
(* Registration, profile updates and the credentials of a log-in:          *)
(* UserService, UserRepository and their handlers.  A password stands for  *)
(* its hash.                                                               *)
(***************************************************************************)
EXTENDS Calls, Validator

CONSTANTS
  RegisterBodies,   \* bound: bodies of POST /user/register
  ProfileBodies     \* bound: bodies of PUT /user/{id}, records of some fields

ProfileFields == {"email", "password", "first_name"}
Profile == [ProfileFields -> Texts]

ASSUME ProfilesAssumption ==
  /\ RegisterBodies \subseteq Profile
  /\ ProfileBodies \subseteq UNION {[fields -> Texts] : fields \in SUBSET ProfileFields}

VARIABLE accounts   \* the columns of each row of users, Null without a row

ProfileCalls ==
  [op : {"register"}, body : RegisterBodies]
    \cup [op : {"edit_profile"}, by : Users, on : Users, body : ProfileBodies]

\* Mutant of Normalised: only registration changes the case.
NormalisedWhole(body) ==
  IF DOMAIN body = ProfileFields THEN [body EXCEPT !.email = LowerText[@]] ELSE body

\* The handlers change an e-mail to lower case before anything else.
Normalised(body) ==
  IF "email" \in DOMAIN body THEN [body EXCEPT !.email = LowerText[@]] ELSE body

ValidRegistration(body) ==
  ValidEmail(body.email) /\ ValidPassword(body.password) /\ ValidName(body.first_name)

\* The length of a new password is not looked at.
ValidUpdate(body) ==
  /\ "email" \in DOMAIN body => ValidEmail(body.email)
  /\ "first_name" \in DOMAIN body => ValidName(body.first_name)

ReceiveRegister(t) ==
  /\ \E c \in ProfileCalls :
       /\ c.op = "register" /\ IdLeft("register", Users)
       /\ LET body == Normalised(c.body) IN
          Begin(t, [c EXCEPT !.body = body],
                IF ValidRegistration(body) THEN "find_email" ELSE "refuse", Null)
  /\ UNCHANGED accounts

\* Mutant of Editable: the handler does not compare the ids.
EditableByAll(c) == TRUE

Editable(c) == c.by = c.on

ReceiveEdit(t) ==
  /\ \E c \in ProfileCalls :
       /\ c.op = "edit_profile"
       /\ LET body == Normalised(c.body) IN
          Begin(t, [c EXCEPT !.body = body],
                IF Editable(c) /\ ValidUpdate(body) THEN "find_user" ELSE "refuse", Null)
  /\ UNCHANGED accounts

\* Somebody else's profile, or a body the Validator refuses.
RefuseProfile(t) ==
  /\ pc[t] = "refuse" /\ call[t].op \in {"register", "edit_profile"}
  /\ Reply(t, IF call[t].op = "edit_profile" /\ ~Editable(call[t]) THEN 401 ELSE 400)
  /\ UNCHANGED <<tables, accounts>>

\* The row get_by_email finds, users_email_key.
HasEmail(u, email) == accounts[u] # Null /\ accounts[u].email = email

-----------------------------------------------------------------------------
(* POST /user/register                                                     *)

FindEmail(t) ==
  /\ pc[t] = "find_email"
  /\ IF \E u \in Users : HasEmail(u, call[t].body.email) THEN Reply(t, 409)
     ELSE Goto(t, "insert_user")
  /\ UNCHANGED <<tables, accounts>>

\* UserRepository::create_user; RegisterUser catches the UniqueViolation.
InsertUser(t) ==
  /\ pc[t] = "insert_user"
  /\ IF \E u \in Users : HasEmail(u, call[t].body.email)
     THEN Reply(t, 409) /\ UNCHANGED <<tables, accounts>>
     ELSE /\ \E u \in unused \cap Users :
               /\ users' = users \cup {u}
               /\ unused' = unused \ {u}
               /\ accounts' = [accounts EXCEPT ![u] = call[t].body]
          /\ Reply(t, 201)
          /\ UNCHANGED <<orgs, orgOf, animals, log, requests>>

-----------------------------------------------------------------------------
(* PUT /user/{id}                                                          *)

\* UpdateUser's get_by_id; update_user sends no UPDATE for an empty body.
FindUser(t) ==
  /\ pc[t] = "find_user"
  /\ IF call[t].on \notin users THEN Reply(t, 400)
     ELSE Goto(t, IF DOMAIN call[t].body = {} THEN "reread_user" ELSE "update_user")
  /\ UNCHANGED <<tables, accounts>>

\* *get_by_id(id): undefined when the row went since FindUser.  The build may
\* answer with what it finds in memory or stop the process.
RereadUser(t) ==
  /\ pc[t] = "reread_user"
  /\ \/ Reply(t, 200)
     \/ call[t].on \notin users /\ Reply(t, 500)
  /\ UNCHANGED <<tables, accounts>>

\* Mutant of UpdateUser: the e-mail has an UPDATE of its own, after the one
\* of the other fields.
UpdateUserTwice(t) ==
  /\ pc[t] = "update_user"
  /\ LET u == call[t].on
         body == call[t].body
         taken == "email" \in DOMAIN body /\ \E v \in Users \ {u} : HasEmail(v, body.email)
     IN  IF u \notin users THEN Reply(t, 500) /\ UNCHANGED accounts
         ELSE /\ accounts' = [accounts EXCEPT ![u] =
                   [f \in ProfileFields |->
                      IF f \in DOMAIN body /\ ~(taken /\ f = "email") THEN body[f] ELSE @[f]]]
              /\ Reply(t, IF taken THEN 409 ELSE 200)
  /\ UNCHANGED tables

\* Mutant of UpdateUser: the row is INSERTed when it is not there.
UpsertUser(t) ==
  /\ pc[t] = "update_user"
  /\ accounts' = [accounts EXCEPT ![call[t].on] =
       [f \in ProfileFields |-> IF f \in DOMAIN call[t].body THEN call[t].body[f] ELSE ""]]
  /\ Reply(t, 200)
  /\ UNCHANGED tables

\* update_user: only the fields of the body are SET.  The UniqueViolation is
\* caught; AsSingleRow throws for a row that is gone.
UpdateUser(t) ==
  /\ pc[t] = "update_user"
  /\ LET u == call[t].on
         body == call[t].body
     IN  IF u \notin users THEN Reply(t, 500) /\ UNCHANGED accounts
         ELSE IF "email" \in DOMAIN body /\ \E v \in Users \ {u} : HasEmail(v, body.email)
         THEN Reply(t, 409) /\ UNCHANGED accounts
         ELSE /\ accounts' = [accounts EXCEPT ![u] =
                   [f \in ProfileFields |-> IF f \in DOMAIN body THEN body[f] ELSE @[f]]]
              /\ Reply(t, 200)
  /\ UNCHANGED tables

ProfileStep(t) ==
  \/ ReceiveRegister(t) \/ ReceiveEdit(t) \/ RefuseProfile(t)
  \/ FindEmail(t) \/ InsertUser(t)
  \/ FindUser(t) \/ RereadUser(t) \/ UpdateUser(t)

-----------------------------------------------------------------------------
(* POST /auth/login                                                        *)

\* The accounts that the e-mail and the password of a log-in open: the
\* handler's rules, then AuthenticateUser.
Opens(email, password) ==
  {u \in Users : /\ ValidEmail(LowerText[email]) /\ ValidPassword(password)
                 /\ HasEmail(u, LowerText[email]) /\ accounts[u].password = password}

AccountsOf(someUsers) ==
  [u \in Users |-> IF u \in someUsers THEN accounts[u] ELSE Null]
=============================================================================
