------------------------------- MODULE Calls -------------------------------
(***************************************************************************)
(* HTTP calls in flight.  A call is a userver coroutine that runs its      *)
(* handler to the end; between two SQL statements of one call any          *)
(* statement of another may run.  pc says which statement a call is about  *)
(* to send; the test on a statement's result that follows it belongs to    *)
(* the same step, for nothing another call can observe lies between them.  *)
(***************************************************************************)
EXTENDS Schema, FiniteSets

CONSTANTS
  Tasks,              \* bound: the calls of a behaviour
  InFlight,           \* bound: how many of them run at once
  RequestIds,         \* bound: the request ids a client may put in a path
  Operations,         \* the endpoints that are called
  StatementsMayFail   \* whether a statement may time out or lose its server

ASSUME CallsAssumption ==
  /\ RequestIds \subseteq Nat \ {0}
  /\ InFlight \in Nat
  /\ StatementsMayFail \in BOOLEAN

VARIABLES
  pc,      \* what each call does next
  call,    \* its endpoint, its authenticated user and its input
  seen,    \* the organization id it carries from one statement to a later one
  reply    \* its HTTP status, 0 while it runs

callVars == <<pc, call, seen, reply>>
vars == <<tables, callVars>>

CallsInit ==
  /\ pc = [t \in Tasks |-> "idle"]
  /\ call = [t \in Tasks |-> Null]
  /\ seen = [t \in Tasks |-> Null]
  /\ reply = [t \in Tasks |-> 0]

Running(t) == pc[t] \notin {"idle", "done"}

\* AuthChecker reads the caller from the access token alone, so c.by may be
\* a user whose account is already gone.
Begin(t, c, label, carried) ==
  /\ pc[t] = "idle"
  /\ c.op \in Operations
  /\ Cardinality({s \in Tasks : Running(s)}) < InFlight
  /\ pc' = [pc EXCEPT ![t] = label]
  /\ call' = [call EXCEPT ![t] = c]
  /\ seen' = [seen EXCEPT ![t] = carried]
  /\ UNCHANGED <<tables, reply>>

Goto(t, label) ==
  /\ pc' = [pc EXCEPT ![t] = label]
  /\ UNCHANGED <<call, seen, reply>>

Carry(t, label, value) ==
  /\ pc' = [pc EXCEPT ![t] = label]
  /\ seen' = [seen EXCEPT ![t] = value]
  /\ UNCHANGED <<call, reply>>

\* The coroutine ends: its input and what it carried are forgotten.
Reply(t, status) ==
  /\ pc' = [pc EXCEPT ![t] = "done"]
  /\ call' = [call EXCEPT ![t] = Null]
  /\ seen' = [seen EXCEPT ![t] = Null]
  /\ reply' = [reply EXCEPT ![t] = status]

\* Execute throws: no handler catches its exception and nothing undoes the
\* statements the call has already run.  A crash of the backend fails every
\* running call.  A statement the server applied before the error reached
\* the caller is the statement followed by this step; after a call's last
\* statement only the status it never sent would differ.
StatementFails(t) ==
  /\ StatementsMayFail
  /\ Running(t)
  /\ Reply(t, 500)
  /\ UNCHANGED tables

\* bound: no more calls of this kind run than ids of the pool are left.
IdLeft(op, pool) ==
  Cardinality({t \in Tasks : Running(t) /\ call[t].op = op})
    < Cardinality(unused \cap pool)
=============================================================================
