------------------------------ MODULE Accounts ------------------------------
(***************************************************************************)
(* The endpoints that found and close shelters and close accounts:         *)
(* OrganizationService::Register and Delete, UserService::DeleteUser.      *)
(***************************************************************************)
EXTENDS Calls

AccountCalls ==
  [op : {"open_org"}, by : Users]
    \cup [op : {"close_org"}, by : Users, on : Orgs]
    \cup [op : {"close_account"}, by : Users, on : Users]

FirstRead ==
  [open_org |-> "read_unaffiliated", close_org |-> "read_founder",
   close_account |-> "read_account"]

ReceiveAccountCall(t) ==
  \E c \in AccountCalls :
    /\ c.op = "open_org" => IdLeft("open_org", Orgs)
    /\ Begin(t, c, FirstRead[c.op], Null)

-----------------------------------------------------------------------------
(* POST /orgs                                                              *)

\* Mutant of CheckUnaffiliated: the check is left out.
SkipUnaffiliated(t) ==
  /\ pc[t] = "read_unaffiliated"
  /\ Goto(t, "insert_org")
  /\ UNCHANGED tables

\* UserRepository::check_can_create_shelter
CheckUnaffiliated(t) ==
  /\ pc[t] = "read_unaffiliated"
  /\ IF call[t].by \in users /\ orgOf[call[t].by] = Null
     THEN Goto(t, "insert_org")
     ELSE Reply(t, 403)
  /\ UNCHANGED tables

\* The city in the body may be unknown.
InsertOrg(t) ==
  /\ pc[t] = "insert_org"
  /\ \/ Reply(t, 404) /\ UNCHANGED tables
     \/ \E o \in unused \cap Orgs : InsertOrgRow(o) /\ Carry(t, "link", o)

\* UserRepository::link_organization: AsSingleRow throws when the account is
\* gone, fk_users_organization when the shelter is, and nothing removes the
\* shelter just inserted.
LinkFounder(t) ==
  /\ pc[t] = "link"
  /\ IF call[t].by \in users /\ seen[t] \in orgs
     THEN LinkOrg(call[t].by, seen[t]) /\ Reply(t, 201)
     ELSE Reply(t, 500) /\ UNCHANGED tables

-----------------------------------------------------------------------------
(* DELETE /orgs/{id}                                                       *)

\* UserService::GetUserById, whose exception the handler does not catch, and
\* the test of the user's organization.
ReadFounder(t) ==
  /\ pc[t] = "read_founder"
  /\ \/ call[t].by \notin users /\ Reply(t, 500)
     \/ /\ call[t].by \in users
        /\ IF orgOf[call[t].by] = call[t].on THEN Goto(t, "read_org") ELSE Reply(t, 403)
  /\ UNCHANGED tables

\* OrganizationRepository::GetById
ReadOrg(t) ==
  /\ pc[t] = "read_org"
  /\ IF call[t].on \in orgs THEN Goto(t, "delete_org") ELSE Reply(t, 404)
  /\ UNCHANGED tables

DeleteOrg(t) ==
  /\ pc[t] = "delete_org"
  /\ DeleteOrgRow(call[t].on)
  /\ Reply(t, IF call[t].on \in orgs THEN 204 ELSE 404)

-----------------------------------------------------------------------------
(* DELETE /user/{id}                                                       *)

ReadAccount(t) ==
  /\ pc[t] = "read_account"
  /\ \/ call[t].on # call[t].by /\ Reply(t, 403)
     \/ /\ call[t].on = call[t].by
        /\ IF call[t].on \in users THEN Goto(t, "delete_user") ELSE Reply(t, 404)
  /\ UNCHANGED tables

DeleteUser(t) ==
  /\ pc[t] = "delete_user"
  /\ DeleteUserRow(call[t].on)
  /\ Reply(t, IF call[t].on \in users THEN 204 ELSE 404)

AccountStep(t) ==
  \/ ReceiveAccountCall(t)
  \/ CheckUnaffiliated(t) \/ InsertOrg(t) \/ LinkFounder(t)
  \/ ReadFounder(t) \/ ReadOrg(t) \/ DeleteOrg(t)
  \/ ReadAccount(t) \/ DeleteUser(t)
=============================================================================
