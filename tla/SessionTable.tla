---------------------------- MODULE SessionTable ----------------------------
(***************************************************************************)
(* What the session manager of internal/session/manager.go promises to the *)
(* rest of the server, with no identifiers, states, timeouts or locks: one *)
(* table that gives each remote address at most one session, and the set   *)
(* of sessions whose connection is still open on the server's side.        *)
(*                                                                         *)
(* The promise is in the shape of the actions.  A session leaves the table *)
(* only together with its connection (Open, Drop), so that no connection   *)
(* of a session that has been in the table is ever left open unlisted.     *)
(***************************************************************************)
EXTENDS TLAPS

CONSTANTS
  Session,    \* the session objects, one per accepted connection
  Addr,       \* the remote addresses (host:port) devices connect from
  NoSession   \* the table's answer for an address without a session

VARIABLES
  table,      \* [Addr -> Session \cup {NoSession}]
  known,      \* the sessions that have been in the table
  open        \* the known sessions whose connection is still open

vars == <<table, known, open>>

Init ==
  /\ table = [a \in Addr |-> NoSession]
  /\ known = {}
  /\ open  = {}

(* A new session takes its address over; the one it finds there is closed. *)
Open(s, a) ==
  /\ s \notin known
  /\ table' = [table EXCEPT ![a] = s]
  /\ known' = known \cup {s}
  /\ open'  = (open \ {table[a]}) \cup {s}

(* The sessions of a set of addresses are dropped and closed.              *)
Drop(A) ==
  /\ table' = [a \in Addr |-> IF a \in A THEN NoSession ELSE table[a]]
  /\ open'  = open \ {table[a] : a \in A}
  /\ UNCHANGED known

(* The owner of a connection closes it; its session stays listed.          *)
HangUp(s) ==
  /\ open' = open \ {s}
  /\ UNCHANGED <<table, known>>

Next ==
  \/ \E s \in Session, a \in Addr : Open(s, a)
  \/ \E A \in SUBSET Addr : Drop(A)
  \/ \E s \in Session : HangUp(s)

Spec == Init /\ [][Next]_vars

-----------------------------------------------------------------------------

TypeOK ==
  /\ table \in [Addr -> Session \cup {NoSession}]
  /\ known \in SUBSET Session
  /\ open  \in SUBSET known

(* No known session keeps an open connection once the table has let go of  *)
(* it: what is open is listed.  This is what callers of the session manager *)
(* rely on: every deletion from its maps comes with the Close of the       *)
(* session deleted (manager.go:254-261, 306-311, 328-333, 358-364).        *)
NothingOpenUnlisted ==
  \A s \in open : \E a \in Addr : table[a] = s

(* The table keeps that promise, for any sets of sessions and addresses.   *)
THEOREM TablePromise == Spec => []NothingOpenUnlisted
<1> DEFINE Inv == TypeOK /\ NothingOpenUnlisted
<1>1. Init => Inv
  BY DEF Init, TypeOK, NothingOpenUnlisted
<1>2. Inv /\ [Next]_vars => Inv'
  <2> SUFFICES ASSUME Inv, [Next]_vars PROVE Inv'
    OBVIOUS
  <2> USE DEF TypeOK, NothingOpenUnlisted
  <2>1. ASSUME NEW s \in Session, NEW a \in Addr, Open(s, a)
        PROVE  Inv'
    BY <2>1 DEF Open
  <2>2. ASSUME NEW A \in SUBSET Addr, Drop(A)
        PROVE  Inv'
    <3>1. TypeOK'
      BY <2>2 DEF Drop
    <3>2. ASSUME NEW s \in open'
          PROVE  \E a \in Addr : table'[a] = s
      <4>1. PICK a \in Addr : table[a] = s
        BY <2>2, <3>2 DEF Drop
      <4>2. a \notin A
        BY <2>2, <3>2, <4>1 DEF Drop
      <4> QED
        BY <2>2, <4>1, <4>2 DEF Drop
    <3> QED
      BY <3>1, <3>2
  <2>3. ASSUME NEW s \in Session, HangUp(s)
        PROVE  Inv'
    BY <2>3 DEF HangUp
  <2>4. CASE UNCHANGED vars
    BY <2>4 DEF vars
  <2> QED
    BY <2>1, <2>2, <2>3, <2>4 DEF Next
<1> QED
  BY <1>1, <1>2, PTL DEF Spec

=============================================================================
