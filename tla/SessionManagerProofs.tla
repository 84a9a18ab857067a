------------------------ MODULE SessionManagerProofs ------------------------
(***************************************************************************)
(* Proofs about SessionManager, for any sets of sessions, addresses and    *)
(* clock readings, unique or not.                                          *)
(***************************************************************************)
EXTENDS SessionManager, TLAPS

(* What either map holds has been through CreateSession.                   *)
IndexedInserted ==
  /\ \A i \in Id : sessions[i] # NoSession => sessions[i] \in inserted
  /\ \A a \in Addr : sessionsByAddr[a] # NoSession => sessionsByAddr[a] \in inserted

(* Nobody closes a session before CreateSession has put it into the maps.  *)
FreshIsOpen ==
  \A s \in Session : state[s] # "unborn" /\ s \notin inserted =>
    /\ connOpen[s]
    /\ state[s] # "disconnected"

(* The second loop of the cleanup starts when the first has seen every key. *)
ScanDone == sweep = "remove" => toScan = {}

(* The inductive invariant.  IndicesAgree alone is not inductive: the step *)
(* of CreateSession needs to know that the new session is not indexed yet. *)
IInv ==
  /\ TypeOK
  /\ IndicesAgree
  /\ NoOrphanConnection
  /\ ListedNotDisconnected
  /\ SweepTargetsListed
  /\ IndexedInserted
  /\ FreshIsOpen
  /\ ScanDone

-----------------------------------------------------------------------------

(* The ID of an allocated session names an address.                        *)
LEMMA BornHasId ==
  ASSUME TypeOK, NEW s \in Session, state[s] # "unborn"
  PROVE  id[s] \in Id /\ RemoteAddr(s) \in Addr
<1>1. id[s] \in Id
  BY DEF TypeOK
<1>2. \A i \in Id : i[1] \in Addr
  BY DEF Id
<1> QED
  BY <1>1, <1>2 DEF RemoteAddr

LEMMA InsertedHasId ==
  ASSUME TypeOK, NEW s \in inserted
  PROVE  s \in Session /\ state[s] # "unborn" /\ id[s] \in Id /\ RemoteAddr(s) \in Addr
<1>1. s \in Session /\ state[s] # "unborn"
  BY DEF TypeOK
<1> QED
  BY <1>1, BornHasId

(* A listed session is listed under its own ID, and its address finds it.  *)
LEMMA ListedUnderOwnId ==
  ASSUME IInv, NEW i \in Id, sessions[i] # NoSession
  PROVE  /\ sessions[i] \in inserted
         /\ id[sessions[i]] = i
         /\ RemoteAddr(sessions[i]) \in Addr
         /\ sessionsByAddr[RemoteAddr(sessions[i])] = sessions[i]
<1>1. sessions[i] \in inserted /\ id[sessions[i]] = i /\ sessionsByAddr[i[1]] = sessions[i]
  BY DEF IInv, IndexedInserted, IndicesAgree
<1>2. RemoteAddr(sessions[i]) \in Addr
  BY <1>1, InsertedHasId DEF IInv
<1> QED
  BY <1>1, <1>2 DEF RemoteAddr

(* The same from the side of the address index.                            *)
LEMMA AddressedUnderOwnAddr ==
  ASSUME IInv, NEW a \in Addr, sessionsByAddr[a] # NoSession
  PROVE  /\ sessionsByAddr[a] \in inserted
         /\ id[sessionsByAddr[a]] \in Id
         /\ RemoteAddr(sessionsByAddr[a]) = a
         /\ sessions[id[sessionsByAddr[a]]] = sessionsByAddr[a]
<1>1. sessionsByAddr[a] \in inserted
  BY DEF IInv, IndexedInserted
<1>2. id[sessionsByAddr[a]] \in Id
  BY <1>1, InsertedHasId DEF IInv
<1> QED
  BY <1>1, <1>2 DEF IInv, IndicesAgree

(* What Session.Close does to the sessions of a set and to the others.     *)
LEMMA CloseSessionsEffect ==
  ASSUME TypeOK, NEW S, \A s \in S \cap Session : state[s] # "unborn",
         CloseSessions(S)
  PROVE  /\ state' \in [Session -> States]
         /\ connOpen' \in [Session -> BOOLEAN]
         /\ \A s \in Session : s \in S => ~connOpen'[s] /\ state'[s] = "disconnected"
         /\ \A s \in Session : s \notin S => connOpen'[s] = connOpen[s] /\ state'[s] = state[s]
         /\ \A s \in Session : state[s] = "unborn" <=> state'[s] = "unborn"
<1>1. state' \in [Session -> States]
  BY DEF CloseSessions, TypeOK, States
<1>2. connOpen' \in [Session -> BOOLEAN]
  BY DEF CloseSessions, TypeOK
<1>3. \A s \in Session : s \in S => ~connOpen'[s] /\ state'[s] = "disconnected"
  BY DEF CloseSessions, TypeOK
<1>4. \A s \in Session : s \notin S => state'[s] = state[s]
  BY DEF CloseSessions, TypeOK
<1>5. \A s \in Session : s \notin S => connOpen'[s] = connOpen[s]
  BY DEF CloseSessions, TypeOK
<1>6. \A s \in Session : state[s] = "unborn" <=> state'[s] = "unborn"
  BY <1>3, <1>4
<1> QED
  BY <1>1, <1>2, <1>3, <1>4, <1>5, <1>6

LEMMA InitIInv == Init => IInv
<1> SUFFICES ASSUME Init PROVE IInv
  OBVIOUS
<1>1. TypeOK
  BY SessionManagerAssumption DEF Init, TypeOK, States
<1>2. IndicesAgree /\ ListedNotDisconnected /\ IndexedInserted
  BY DEF Init, IndicesAgree, ListedNotDisconnected, IndexedInserted, ListedIds
<1>3. NoOrphanConnection /\ SweepTargetsListed /\ FreshIsOpen /\ ScanDone
  BY DEF Init, NoOrphanConnection, SweepTargetsListed, MutexFree, FreshIsOpen, ScanDone
<1> QED
  BY <1>1, <1>2, <1>3 DEF IInv

LEMMA NewSessionIInv ==
  ASSUME IInv, NEW s \in Session, NEW a \in Addr, NEW t \in Stamp,
         NewSession(s, a, t)
  PROVE  IInv'
<1>1. <<a, t>> \in Id
  BY DEF Id
<1>2. TypeOK /\ s \notin inserted
  BY DEF NewSession, TypeOK, IInv
<1>3. \A r \in inserted : r \in Session /\ id'[r] = id[r] /\ state'[r] = state[r] /\ connOpen'[r] = connOpen[r]
  BY <1>2 DEF NewSession, TypeOK
<1>4. TypeOK'
  BY <1>1, <1>2, SessionManagerAssumption DEF NewSession, TypeOK, mapVars, sweepVars, States
<1>5. IndicesAgree'
  <2>1. sessions' = sessions /\ sessionsByAddr' = sessionsByAddr
    BY DEF NewSession, mapVars
  <2>2. \A r \in inserted : RemoteAddr(r)' = RemoteAddr(r)
    BY <1>3 DEF RemoteAddr
  <2>3. IndicesAgree /\ IndexedInserted
    BY DEF IInv
  <2> QED
    BY <1>3, <2>1, <2>2, <2>3 DEF IndicesAgree, IndexedInserted
<1>6. NoOrphanConnection'
  BY <1>3 DEF NewSession, IInv, NoOrphanConnection, Listed, mapVars
<1>7. ListedNotDisconnected' /\ IndexedInserted'
  BY <1>3 DEF NewSession, IInv, ListedNotDisconnected, IndexedInserted, ListedIds, mapVars
<1>8. SweepTargetsListed'
  BY DEF NewSession, IInv, SweepTargetsListed, MutexFree, ListedIds, mapVars, sweepVars
<1>9. FreshIsOpen'
  BY <1>2 DEF NewSession, IInv, TypeOK, FreshIsOpen
<1>10. ScanDone'
  BY DEF NewSession, IInv, ScanDone, sweepVars
<1> QED
  BY <1>4, <1>5, <1>6, <1>7, <1>8, <1>9, <1>10 DEF IInv

LEMMA CreateSessionIInv ==
  ASSUME IInv, NEW s \in Session, CreateSession(s)
  PROVE  IInv'
<1> DEFINE a   == RemoteAddr(s)
           old == sessionsByAddr[a]
<1>1. TypeOK /\ id[s] \in Id /\ a \in Addr /\ s \notin inserted /\ s # NoSession
  BY BornHasId, SessionManagerAssumption DEF CreateSession, IInv
<1>2. \A i \in Id : sessions[i] # NoSession =>
         sessions[i] \in inserted /\ id[sessions[i]] = i /\ sessionsByAddr[RemoteAddr(sessions[i])] = sessions[i]
  BY ListedUnderOwnId
<1>3. \A b \in Addr : sessionsByAddr[b] # NoSession =>
         /\ sessionsByAddr[b] \in inserted
         /\ id[sessionsByAddr[b]] \in Id
         /\ RemoteAddr(sessionsByAddr[b]) = b
         /\ sessions[id[sessionsByAddr[b]]] = sessionsByAddr[b]
  BY AddressedUnderOwnAddr
(* What the step makes of the maps, key by key.                            *)
<1>4. /\ sessions' \in [Id -> Session \cup {NoSession}]
      /\ sessions'[id[s]] = s
      /\ \A i \in Id : i # id[s] /\ sessions[i] = old => sessions'[i] = NoSession
      /\ \A i \in Id : i # id[s] /\ sessions[i] # old => sessions'[i] = sessions[i]
  BY <1>1, <1>2, <1>3 DEF CreateSession, Displaced, TypeOK
<1>5. /\ sessionsByAddr' \in [Addr -> Session \cup {NoSession}]
      /\ sessionsByAddr'[a] = s
      /\ \A b \in Addr : b # a => sessionsByAddr'[b] = sessionsByAddr[b]
  BY <1>1 DEF CreateSession, TypeOK
<1>6. UNCHANGED <<id, idle, tick, sweepVars, cleaner, manager>> /\ inserted' = inserted \cup {s} /\ sweep = "off"
  BY DEF CreateSession, MutexFree
<1>7. /\ state' \in [Session -> States]
      /\ connOpen' \in [Session -> BOOLEAN]
      /\ old \in Session => ~connOpen'[old] /\ state'[old] = "disconnected"
      /\ \A r \in Session : r # old => connOpen'[r] = connOpen[r] /\ state'[r] = state[r]
      /\ \A r \in Session : state[r] = "unborn" <=> state'[r] = "unborn"
  <2>1. CloseSessions({old} \ {NoSession})
    BY DEF CreateSession, Displaced
  <2>2. \A r \in ({old} \ {NoSession}) \cap Session : state[r] # "unborn"
    BY <1>1, <1>3, InsertedHasId
  <2>3. NoSession \notin Session
    BY SessionManagerAssumption
  <2> HIDE DEF old
  <2> QED
    BY <1>1, <2>1, <2>2, <2>3, CloseSessionsEffect
<1>8. TypeOK'
  BY <1>1, <1>4, <1>5, <1>6, <1>7 DEF TypeOK, sweepVars, CreateSession
<1>9. IndicesAgree'
  <2>1. ASSUME NEW i \in Id, sessions'[i] # NoSession
        PROVE  id[sessions'[i]] = i /\ sessionsByAddr'[RemoteAddr(sessions'[i])] = sessions'[i]
    BY <1>1, <1>2, <1>4, <1>5, <2>1, ListedUnderOwnId
  <2>2. ASSUME NEW b \in Addr, sessionsByAddr'[b] # NoSession
        PROVE  sessions'[id[sessionsByAddr'[b]]] = sessionsByAddr'[b] /\ RemoteAddr(sessionsByAddr'[b]) = b
    <3>1. CASE b = a
      BY <1>1, <1>4, <1>5, <3>1
    <3>2. CASE b # a
      <4> DEFINE r == sessionsByAddr[b]
      <4>1. sessionsByAddr'[b] = r /\ r # NoSession
        BY <1>5, <2>2, <3>2
      <4>2. RemoteAddr(r) = b /\ id[r] \in Id /\ sessions[id[r]] = r
        BY <1>3, <4>1
      <4>3. id[r] # id[s] /\ r # old
        BY <1>3, <1>1, <4>1, <4>2, <3>2 DEF RemoteAddr
      <4> QED
        BY <1>4, <4>1, <4>2, <4>3
    <3> QED
      BY <3>1, <3>2
  <2> QED
    BY <1>6, <2>1, <2>2 DEF IndicesAgree, RemoteAddr
<1>10. NoOrphanConnection'
  <2> SUFFICES ASSUME NEW r \in inserted', connOpen'[r]
               PROVE  \E i \in Id : sessions'[i] = r
    BY DEF NoOrphanConnection, Listed
  <2>1. CASE r = s
    BY <1>1, <1>4, <2>1
  <2>2. CASE r # s
    <3>1. r \in inserted /\ r \in Session /\ r # old /\ connOpen[r]
      BY <1>1, <1>6, <1>7, <2>2 DEF TypeOK
    <3>2. PICK i \in Id : sessions[i] = r
      BY <3>1 DEF IInv, NoOrphanConnection, Listed
    <3>3. sessionsByAddr[RemoteAddr(r)] = r /\ id[r] = i /\ r # NoSession
      BY <1>2, <3>1, <3>2, SessionManagerAssumption
    <3>4. i # id[s]
      BY <3>1, <3>3 DEF RemoteAddr
    <3> QED
      BY <1>4, <3>1, <3>2, <3>4
  <2> QED
    BY <2>1, <2>2
<1>11. ListedNotDisconnected'
  <2> SUFFICES ASSUME NEW i \in Id, sessions'[i] # NoSession
               PROVE  state'[sessions'[i]] # "disconnected"
    BY DEF ListedNotDisconnected, ListedIds
  <2>1. CASE i = id[s]
    BY <1>1, <1>3, <1>4, <1>7, <2>1 DEF IInv, FreshIsOpen, CreateSession
  <2>2. CASE i # id[s]
    BY <1>1, <1>2, <1>4, <1>7, <2>2, InsertedHasId DEF IInv, ListedNotDisconnected, ListedIds
  <2> QED
    BY <2>1, <2>2
<1>12. SweepTargetsListed'
  BY <1>6 DEF SweepTargetsListed, MutexFree, sweepVars
<1>13. IndexedInserted'
  BY <1>1, <1>2, <1>3, <1>4, <1>5, <1>6 DEF IndexedInserted
<1>14. FreshIsOpen'
  BY <1>1, <1>3, <1>6, <1>7, SessionManagerAssumption DEF IInv, FreshIsOpen
<1>15. ScanDone'
  BY <1>6 DEF IInv, ScanDone, sweepVars
<1> QED
  BY <1>8, <1>9, <1>10, <1>11, <1>12, <1>13, <1>14, <1>15 DEF IInv

(* RemoveSession and the second loop of the cleanup take one session out.  *)
LEMMA EvictIInv ==
  ASSUME IInv, NEW i \in Id, sessions[i] # NoSession, Evict(i),
         UNCHANGED <<id, idle, inserted, tick, sweep, toScan, cleaner, manager>>,
         expired' \subseteq expired,
         sweep = "off" \/ (sweep = "remove" /\ expired' = expired \ {i})
  PROVE  IInv'
<1> DEFINE r == sessions[i]
           a == RemoteAddr(r)
<1>1. TypeOK /\ r \in inserted /\ r \in Session /\ id[r] = i /\ a \in Addr /\ sessionsByAddr[a] = r
  BY ListedUnderOwnId, InsertedHasId DEF IInv
<1>2. \A j \in Id : sessions[j] # NoSession =>
         sessions[j] \in inserted /\ id[sessions[j]] = j /\ sessionsByAddr[RemoteAddr(sessions[j])] = sessions[j]
  BY ListedUnderOwnId
<1>3. \A b \in Addr : sessionsByAddr[b] # NoSession =>
         /\ sessionsByAddr[b] \in inserted
         /\ id[sessionsByAddr[b]] \in Id
         /\ RemoteAddr(sessionsByAddr[b]) = b
         /\ sessions[id[sessionsByAddr[b]]] = sessionsByAddr[b]
  BY AddressedUnderOwnAddr
<1>4. /\ sessions' \in [Id -> Session \cup {NoSession}]
      /\ sessions'[i] = NoSession
      /\ \A j \in Id : j # i => sessions'[j] = sessions[j]
  BY <1>1 DEF Evict, TypeOK
<1>5. /\ sessionsByAddr' \in [Addr -> Session \cup {NoSession}]
      /\ sessionsByAddr'[a] = NoSession
      /\ \A b \in Addr : b # a => sessionsByAddr'[b] = sessionsByAddr[b]
  BY <1>1 DEF Evict, TypeOK
<1>6. /\ state' \in [Session -> States]
      /\ connOpen' \in [Session -> BOOLEAN]
      /\ ~connOpen'[r]
      /\ \A q \in Session : q # r => connOpen'[q] = connOpen[q] /\ state'[q] = state[q]
      /\ \A q \in Session : state[q] = "unborn" <=> state'[q] = "unborn"
  <2>1. CloseSessions({r}) /\ state[r] # "unborn"
    BY <1>1, InsertedHasId DEF Evict
  <2> HIDE DEF r
  <2> QED
    BY <1>1, <2>1, CloseSessionsEffect
<1>7. TypeOK'
  BY <1>1, <1>4, <1>5, <1>6 DEF TypeOK
<1>8. IndicesAgree'
  <2>1. ASSUME NEW j \in Id, sessions'[j] # NoSession
        PROVE  id[sessions'[j]] = j /\ sessionsByAddr'[RemoteAddr(sessions'[j])] = sessions'[j]
    <3>1. j # i /\ sessions'[j] = sessions[j] /\ sessions[j] # r
      BY <1>1, <1>2, <1>4, <2>1
    <3>2. RemoteAddr(sessions[j]) \in Addr /\ RemoteAddr(sessions[j]) # a
      BY <1>1, <1>2, <2>1, <3>1, ListedUnderOwnId
    <3> QED
      BY <1>2, <1>5, <2>1, <3>1, <3>2
  <2>2. ASSUME NEW b \in Addr, sessionsByAddr'[b] # NoSession
        PROVE  sessions'[id[sessionsByAddr'[b]]] = sessionsByAddr'[b] /\ RemoteAddr(sessionsByAddr'[b]) = b
    <3>1. b # a /\ sessionsByAddr'[b] = sessionsByAddr[b]
      BY <1>5, <2>2
    <3>2. id[sessionsByAddr[b]] # i
      BY <1>3, <2>2, <3>1
    <3> QED
      BY <1>3, <1>4, <2>2, <3>1, <3>2
  <2> QED
    BY <2>1, <2>2 DEF IndicesAgree, RemoteAddr
<1>9. NoOrphanConnection'
  <2> SUFFICES ASSUME NEW q \in inserted, connOpen'[q]
               PROVE  \E j \in Id : sessions'[j] = q
    BY DEF NoOrphanConnection, Listed
  <2>1. q # r /\ connOpen[q]
    BY <1>1, <1>6 DEF TypeOK
  <2>2. PICK j \in Id : sessions[j] = q
    BY <2>1 DEF IInv, NoOrphanConnection, Listed
  <2> QED
    BY <1>4, <2>1, <2>2
<1>10. ListedNotDisconnected'
  <2> SUFFICES ASSUME NEW j \in Id, sessions'[j] # NoSession
               PROVE  state'[sessions'[j]] # "disconnected"
    BY DEF ListedNotDisconnected, ListedIds
  <2>1. j # i /\ sessions'[j] = sessions[j] /\ sessions[j] # r /\ sessions[j] \in Session
    BY <1>1, <1>2, <1>4, InsertedHasId
  <2> QED
    BY <1>6, <2>1 DEF IInv, ListedNotDisconnected, ListedIds
<1>11. SweepTargetsListed'
  <2>1. CASE sweep = "off"
    BY <2>1 DEF SweepTargetsListed, MutexFree
  <2>2. CASE sweep # "off"
    <3>1. toScan' = {} /\ expired' = expired \ {i} /\ expired \subseteq ListedIds
      BY <2>2 DEF IInv, SweepTargetsListed, MutexFree, ScanDone
    <3> QED
      BY <1>4, <3>1 DEF SweepTargetsListed, ListedIds
  <2> QED
    BY <2>1, <2>2
<1>12. IndexedInserted'
  BY <1>1, <1>2, <1>3, <1>4, <1>5 DEF IndexedInserted
<1>13. FreshIsOpen'
  BY <1>1, <1>6 DEF IInv, FreshIsOpen
<1>14. ScanDone'
  BY DEF IInv, ScanDone
<1> QED
  BY <1>7, <1>8, <1>9, <1>10, <1>11, <1>12, <1>13, <1>14 DEF IInv

(* A step that keeps the IDs and the maps keeps what relates them.         *)
LEMMA MapsKept ==
  ASSUME IndicesAgree, IndexedInserted, UNCHANGED <<id, inserted, mapVars>>
  PROVE  IndicesAgree' /\ IndexedInserted'
BY DEF IndicesAgree, IndexedInserted, RemoteAddr, mapVars

(* The operations on one session.                                          *)
LEMMA SessionStepIInv ==
  ASSUME IInv, NEW s \in Session,
         SetState(s, "active") \/ UpdateActivity(s) \/ GrowIdle(s) \/ HangUp(s)
  PROVE  IInv'
<1> DEFINE Steps == SetState(s, "active") \/ UpdateActivity(s) \/ GrowIdle(s) \/ HangUp(s)
<1>1. /\ UNCHANGED <<id, inserted, mapVars, tick, sweepVars, cleaner, manager>>
      /\ state[s] # "unborn"
  BY InsertedHasId DEF IInv, SetState, UpdateActivity, GrowIdle, HangUp
<1>2. /\ state' \in [Session -> States]
      /\ \A r \in Session : state[r] = "unborn" <=> state'[r] = "unborn"
      /\ \A r \in Session : state[r] # "disconnected" => state'[r] # "disconnected"
  BY <1>1 DEF IInv, TypeOK, States, SetState, UpdateActivity, GrowIdle, HangUp
<1>3. connOpen' \in [Session -> BOOLEAN] /\ idle' \in [Session -> BOOLEAN]
  BY DEF IInv, TypeOK, SetState, UpdateActivity, GrowIdle, HangUp
<1>4. /\ \A r \in Session : connOpen'[r] => connOpen[r]
      /\ \A r \in Session : r \notin inserted => connOpen'[r] = connOpen[r]
  BY DEF IInv, TypeOK, SetState, UpdateActivity, GrowIdle, HangUp
<1>5. TypeOK'
  BY <1>1, <1>2, <1>3 DEF IInv, TypeOK, mapVars, sweepVars
<1>6. IndicesAgree' /\ IndexedInserted'
  BY <1>1, MapsKept DEF IInv
<1>7. NoOrphanConnection' /\ FreshIsOpen'
  BY <1>1, <1>2, <1>4 DEF IInv, TypeOK, NoOrphanConnection, Listed, FreshIsOpen, mapVars
<1>8. ListedNotDisconnected'
  BY <1>1, <1>2, ListedUnderOwnId, InsertedHasId DEF IInv, ListedNotDisconnected, ListedIds, mapVars
<1>9. SweepTargetsListed' /\ ScanDone'
  BY <1>1 DEF IInv, SweepTargetsListed, MutexFree, ListedIds, ScanDone, mapVars, sweepVars
<1> QED
  BY <1>5, <1>6, <1>7, <1>8, <1>9 DEF IInv

(* The steps of the cleanup and of the shutdown that touch no session.     *)
LEMMA ControlStepIInv ==
  ASSUME IInv,
         \/ Tick \/ SweepStart \/ SweepScanned \/ SweepEnd \/ CleanerExit \/ CloseBegin
         \/ \E i \in Id : SweepScan(i)
  PROVE  IInv'
<1> USE DEF Tick, SweepStart, SweepScanned, SweepEnd, CleanerExit, CloseBegin, SweepScan
<1>1. UNCHANGED <<id, state, connOpen, idle, inserted, sessions, sessionsByAddr>>
  BY DEF sessionVars, mapVars
<1>2. /\ tick' \in BOOLEAN /\ cleaner' \in BOOLEAN
      /\ manager' \in {"open", "closing", "closed"}
      /\ sweep' \in {"off", "scan", "remove"}
      /\ toScan' \in SUBSET Id /\ expired' \in SUBSET Id
  BY DEF IInv, TypeOK, sweepVars, ListedIds
<1>3. TypeOK'
  BY <1>1, <1>2 DEF IInv, TypeOK
<1>4. IndicesAgree' /\ IndexedInserted'
  BY <1>1, MapsKept DEF IInv, mapVars
<1>5. NoOrphanConnection' /\ FreshIsOpen' /\ ListedNotDisconnected'
  BY <1>1 DEF IInv, NoOrphanConnection, Listed, FreshIsOpen, ListedNotDisconnected, ListedIds
<1>6. SweepTargetsListed' /\ ScanDone'
  BY <1>1 DEF IInv, SweepTargetsListed, MutexFree, ListedIds, ScanDone, sweepVars
<1> QED
  BY <1>3, <1>4, <1>5, <1>6 DEF IInv

LEMMA CloseFinishIInv ==
  ASSUME IInv, CloseFinish
  PROVE  IInv'
<1> DEFINE S == {sessions[i] : i \in ListedIds}
<1>1. \A s \in S : s \in inserted /\ s \in Session /\ state[s] # "unborn"
  BY ListedUnderOwnId, InsertedHasId DEF ListedIds, IInv
<1>2. /\ state' \in [Session -> States]
      /\ connOpen' \in [Session -> BOOLEAN]
      /\ \A s \in Session : s \in S => ~connOpen'[s]
      /\ \A s \in Session : s \notin S => connOpen'[s] = connOpen[s] /\ state'[s] = state[s]
      /\ \A s \in Session : state[s] = "unborn" <=> state'[s] = "unborn"
  <2>1. CloseSessions(S) /\ TypeOK
    BY DEF CloseFinish, IInv
  <2> HIDE DEF S
  <2> QED
    BY <1>1, <2>1, CloseSessionsEffect
<1>3. /\ sessions'       = [i \in Id |-> NoSession]
      /\ sessionsByAddr' = [a \in Addr |-> NoSession]
      /\ UNCHANGED <<id, idle, inserted, tick, sweepVars, cleaner>>
      /\ manager' = "closed"
      /\ sweep' = "off"
  BY DEF CloseFinish, MutexFree, sweepVars
<1>4. TypeOK'
  BY <1>2, <1>3 DEF IInv, TypeOK, sweepVars
<1>5. IndicesAgree' /\ IndexedInserted' /\ ListedNotDisconnected'
  BY <1>3 DEF IndicesAgree, IndexedInserted, ListedNotDisconnected, ListedIds
<1>6. NoOrphanConnection'
  <2> SUFFICES ASSUME NEW s \in inserted, connOpen'[s]
               PROVE  FALSE
    BY <1>3 DEF NoOrphanConnection
  <2>1. s \in Session /\ s # NoSession
    BY SessionManagerAssumption DEF IInv, TypeOK
  <2>2. s \notin S
    BY <1>2, <2>1
  <2>3. connOpen[s]
    BY <1>2, <2>1, <2>2
  <2> QED
    BY <2>1, <2>2, <2>3 DEF IInv, NoOrphanConnection, Listed, ListedIds
<1>7. SweepTargetsListed' /\ ScanDone'
  BY <1>3 DEF SweepTargetsListed, MutexFree, ScanDone
<1>8. FreshIsOpen'
  BY <1>1, <1>2, <1>3 DEF IInv, FreshIsOpen
<1> QED
  BY <1>4, <1>5, <1>6, <1>7, <1>8 DEF IInv

(* An operation that finds its ID gone changes no session and no map.      *)
LEMMA IgnoredIInv ==
  ASSUME IInv, UNCHANGED <<sessionVars, mapVars, tick, sweep, toScan, cleaner, manager>>,
         expired' \subseteq expired
  PROVE  IInv'
<1>1. TypeOK'
  BY DEF IInv, TypeOK, sessionVars, mapVars
<1>2. IndicesAgree' /\ IndexedInserted'
  BY MapsKept DEF IInv, sessionVars
<1>3. NoOrphanConnection' /\ FreshIsOpen' /\ ListedNotDisconnected'
  BY DEF IInv, NoOrphanConnection, Listed, FreshIsOpen, ListedNotDisconnected, ListedIds, sessionVars, mapVars
<1>4. SweepTargetsListed' /\ ScanDone'
  BY DEF IInv, SweepTargetsListed, MutexFree, ListedIds, ScanDone, mapVars
<1> QED
  BY <1>1, <1>2, <1>3, <1>4 DEF IInv

LEMMA RemoveStepIInv ==
  ASSUME IInv, NEW i \in Id, RemoveSession(i) \/ SweepRemove(i)
  PROVE  IInv'
<1>1. /\ expired' \subseteq expired
      /\ sweep = "off" \/ (sweep = "remove" /\ expired' = expired \ {i})
      /\ UNCHANGED <<id, idle, inserted, tick, sweep, toScan, cleaner, manager>>
  BY DEF RemoveSession, SweepRemove, MutexFree, sweepVars
<1>2. CASE sessions[i] # NoSession
  <2>1. Evict(i)
    BY <1>2 DEF RemoveSession, SweepRemove
  <2> QED
    BY <1>1, <1>2, <2>1, EvictIInv
<1>3. CASE sessions[i] = NoSession
  <2>1. UNCHANGED <<mapVars, state, connOpen>>
    BY <1>3 DEF RemoveSession, SweepRemove
  <2> QED
    BY <1>1, <2>1, IgnoredIInv DEF sessionVars
<1> QED
  BY <1>2, <1>3

LEMMA NextIInv == IInv /\ [Next]_vars => IInv'
<1> SUFFICES ASSUME IInv, [Next]_vars PROVE IInv'
  OBVIOUS
<1>1. ASSUME NEW s \in Session, NEW a \in Addr, NEW t \in Reading[s], NewSession(s, a, t)
      PROVE  IInv'
  BY <1>1, NewSessionIInv, SessionManagerAssumption
<1>2. ASSUME NEW s \in Session, CreateSession(s)
      PROVE  IInv'
  BY <1>2, CreateSessionIInv
<1>3. ASSUME NEW s \in Session,
             SetState(s, "active") \/ UpdateActivity(s) \/ GrowIdle(s) \/ HangUp(s)
      PROVE  IInv'
  BY <1>3, SessionStepIInv
<1>4. ASSUME NEW i \in Id, RemoveSession(i) \/ SweepRemove(i)
      PROVE  IInv'
  BY <1>4, RemoveStepIInv
<1>5. ASSUME \/ Tick \/ SweepStart \/ SweepScanned \/ SweepEnd \/ CleanerExit \/ CloseBegin
             \/ \E i \in Id : SweepScan(i)
      PROVE  IInv'
  BY <1>5, ControlStepIInv
<1>6. CASE CloseFinish
  BY <1>6, CloseFinishIInv
<1>7. CASE UNCHANGED vars
  BY <1>7, IgnoredIInv DEF vars, sweepVars
<1> QED
  BY <1>1, <1>2, <1>3, <1>4, <1>5, <1>6, <1>7 DEF Next, Sweep

LEMMA Invariance == Spec => []IInv
BY InitIInv, NextIInv, PTL DEF Spec

-----------------------------------------------------------------------------
(* The safety properties of SessionManager, for all its behaviours.        *)

(* Every variable keeps its type, and a session has an ID exactly from the *)
(* moment NewSession allocates it.                                         *)
THEOREM TypeCorrect == Spec => []TypeOK
BY Invariance, PTL DEF IInv

(* sm.sessions and sm.sessionsByAddr describe the same sessions, whatever  *)
(* the interleaving of CreateSession, RemoveSession, cleanup and Close.    *)
THEOREM IndexConsistency == Spec => []IndicesAgree
BY Invariance, PTL DEF IInv

(* No session loses its place in the maps while its connection is open.    *)
THEOREM NoOrphans == Spec => []NoOrphanConnection
BY Invariance, PTL DEF IInv

(* No session in the maps is Disconnected.                                 *)
THEOREM ListedAreLive == Spec => []ListedNotDisconnected
BY Invariance, PTL DEF IInv

(* The IDs the cleanup has collected stay listed until it removes them.    *)
THEOREM SweepIsStable == Spec => []SweepTargetsListed
BY Invariance, PTL DEF IInv

(* Two open connections that have reached the maps have different remote   *)
(* addresses.                                                              *)
THEOREM AddressExclusive == Spec => []OneOpenPerAddress
<1>1. IInv => OneOpenPerAddress
  <2> SUFFICES ASSUME IInv, NEW r \in inserted, NEW s \in inserted,
                      connOpen[r], connOpen[s], RemoteAddr(r) = RemoteAddr(s)
               PROVE  r = s
    BY DEF OneOpenPerAddress
  <2>1. r # NoSession /\ s # NoSession
    BY SessionManagerAssumption DEF IInv, TypeOK
  <2>2. PICK i \in Id : sessions[i] = r
    BY DEF IInv, NoOrphanConnection, Listed
  <2>3. PICK j \in Id : sessions[j] = s
    BY DEF IInv, NoOrphanConnection, Listed
  <2>4. sessionsByAddr[RemoteAddr(r)] = r /\ sessionsByAddr[RemoteAddr(s)] = s
    BY <2>1, <2>2, <2>3, ListedUnderOwnId
  <2> QED
    BY <2>4
<1> QED
  BY <1>1, Invariance, PTL

(* A session that has left the maps never returns to them.                 *)
THEOREM EvictedForGood == Spec => EvictionIsFinal
<1> DEFINE Stays == \A s \in inserted : ~Listed(s) => ~Listed(s)'
<1>1. IInv /\ [Next]_vars => [Stays]_vars
  <2> SUFFICES ASSUME IInv, Next, NEW s \in inserted, ~Listed(s)
               PROVE  ~Listed(s)'
    BY DEF vars
  <2>1. s # NoSession
    BY SessionManagerAssumption DEF IInv, TypeOK
  <2>2. ASSUME NEW r \in Session, CreateSession(r)
        PROVE  \A i \in Id : sessions'[i] \in {r, NoSession, sessions[i]} /\ r # s
    BY <2>2 DEF CreateSession
  <2>3. ASSUME NEW i \in Id, Evict(i)
        PROVE  \A j \in Id : sessions'[j] \in {NoSession, sessions[j]}
    BY <2>3 DEF Evict, IInv, TypeOK
  <2>4. CASE \E r \in Session : CreateSession(r)
    BY <2>1, <2>2, <2>4 DEF Listed
  <2>5. CASE \E i \in Id : Evict(i)
    BY <2>1, <2>3, <2>5 DEF Listed
  <2>6. CASE CloseFinish
    BY <2>1, <2>6 DEF CloseFinish, Listed
  <2>7. CASE sessions' = sessions
    BY <2>7 DEF Listed
  <2>8. \/ \E r \in Session : CreateSession(r)
        \/ \E i \in Id : Evict(i)
        \/ CloseFinish
        \/ sessions' = sessions
    BY DEF Next, Sweep, NewSession, SetState, UpdateActivity, GrowIdle, HangUp,
           RemoveSession, Tick, SweepStart, SweepScan, SweepScanned, SweepRemove,
           SweepEnd, CleanerExit, CloseBegin, mapVars
  <2> QED
    BY <2>4, <2>5, <2>6, <2>7, <2>8
<1>2. Spec => [][Stays]_vars
  BY <1>1, Invariance, PTL DEF Spec
<1> QED
  BY <1>2 DEF EvictionIsFinal

-----------------------------------------------------------------------------
(* The refinement.                                                         *)

LEMMA InitTable == Init => Table!Init
BY DEF Init, Table!Init

(* Removing one session is dropping its address from the table.            *)
LEMMA EvictIsDrop ==
  ASSUME IInv, NEW i \in Id, sessions[i] # NoSession, Evict(i), inserted' = inserted,
         NEW a \in Addr, a = RemoteAddr(sessions[i])
  PROVE  Table!Drop({a})
<1> DEFINE r == sessions[i]
<1>1. r \in Session /\ r \in inserted /\ a \in Addr /\ sessionsByAddr[a] = r /\ state[r] # "unborn"
  BY ListedUnderOwnId, InsertedHasId DEF IInv
<1>2. sessionsByAddr' = [b \in Addr |-> IF b \in {a} THEN NoSession ELSE sessionsByAddr[b]]
  BY DEF Evict, IInv, TypeOK
<1>3. \A s \in Session : connOpen'[s] <=> s # r /\ connOpen[s]
  BY DEF Evict, CloseSessions
<1>4. {sessionsByAddr[b] : b \in {a}} = {r}
  BY <1>1
<1>5. inserted \subseteq Session
  BY DEF IInv, TypeOK
<1>6. {s \in inserted' : connOpen'[s]} = {s \in inserted : connOpen[s]} \ {r}
  BY <1>3, <1>5
<1> QED
  BY <1>2, <1>4, <1>6 DEF Table!Drop

LEMMA CreateIsOpen ==
  ASSUME IInv, NEW s \in Session, CreateSession(s), NEW a \in Addr, a = RemoteAddr(s)
  PROVE  Table!Open(s, a)
<1> DEFINE old == sessionsByAddr[a]
<1>1. s \notin inserted /\ connOpen[s] /\ inserted' = inserted \cup {s}
  BY DEF CreateSession, IInv, FreshIsOpen
<1>2. old # s
  BY <1>1, AddressedUnderOwnAddr, SessionManagerAssumption DEF CreateSession, IInv
<1>3. \A r \in Session : connOpen'[r] <=> r # old /\ connOpen[r]
  BY SessionManagerAssumption DEF CreateSession, Displaced, CloseSessions
<1>4. inserted \subseteq Session
  BY DEF IInv, TypeOK
<1>5. {r \in inserted' : connOpen'[r]} = ({r \in inserted : connOpen[r]} \ {old}) \cup {s}
  BY <1>1, <1>2, <1>3, <1>4
<1>6. sessionsByAddr' = [sessionsByAddr EXCEPT ![a] = s]
  BY DEF CreateSession
<1> QED
  BY <1>1, <1>5, <1>6 DEF Table!Open

LEMMA CloseIsDropAll ==
  ASSUME IInv, CloseFinish
  PROVE  Table!Drop(Addr)
<1> DEFINE S == {sessions[i] : i \in ListedIds}
           T == {sessionsByAddr[a] : a \in Addr}
<1>1. \A s \in Session : s \in S <=> s \in T
  BY ListedUnderOwnId, AddressedUnderOwnAddr, SessionManagerAssumption DEF ListedIds
<1>2. \A s \in Session : connOpen'[s] <=> s \notin S /\ connOpen[s]
  BY DEF CloseFinish, CloseSessions
<1>3. inserted \subseteq Session /\ inserted' = inserted
  BY DEF IInv, TypeOK, CloseFinish
<1>4. {s \in inserted' : connOpen'[s]} = {s \in inserted : connOpen[s]} \ T
  BY <1>1, <1>2, <1>3
<1>5. sessionsByAddr' = [a \in Addr |-> IF a \in Addr THEN NoSession ELSE sessionsByAddr[a]]
  BY DEF CloseFinish
<1> QED
  BY <1>3, <1>4, <1>5 DEF Table!Drop

LEMMA HangUpIsHangUp ==
  ASSUME IInv, NEW s \in Session, HangUp(s)
  PROVE  Table!HangUp(s)
<1>1. \A r \in Session : connOpen'[r] <=> r # s /\ connOpen[r]
  BY DEF HangUp, IInv, TypeOK
<1>2. inserted \subseteq Session /\ UNCHANGED <<inserted, sessionsByAddr>>
  BY DEF HangUp, IInv, TypeOK, mapVars
<1>3. {r \in inserted' : connOpen'[r]} = {r \in inserted : connOpen[r]} \ {s}
  BY <1>1, <1>2
<1> QED
  BY <1>2, <1>3 DEF Table!HangUp

LEMMA NextTable == IInv /\ [Next]_vars => [Table!Next]_(Table!vars)
<1> SUFFICES ASSUME IInv, [Next]_vars
             PROVE  Table!Next \/ UNCHANGED Table!vars
  OBVIOUS
<1>1. CASE \E s \in Session : CreateSession(s)
  <2>1. PICK s \in Session : CreateSession(s)
    BY <1>1
  <2>2. PICK a \in Addr : a = RemoteAddr(s)
    BY <2>1, BornHasId DEF IInv, CreateSession
  <2>3. Table!Open(s, a)
    BY <2>1, <2>2, CreateIsOpen
  <2> QED
    BY <2>3 DEF Table!Next
<1>2. CASE \E s \in Session : HangUp(s)
  BY <1>2, HangUpIsHangUp DEF Table!Next
<1>3. ASSUME NEW i \in Id, sessions[i] # NoSession, Evict(i), inserted' = inserted
      PROVE  Table!Next
  <2>1. PICK a \in Addr : a = RemoteAddr(sessions[i])
    BY <1>3, ListedUnderOwnId
  <2>2. Table!Drop({a})
    BY <1>3, <2>1, EvictIsDrop
  <2> QED
    BY <2>2 DEF Table!Next
<1>4. CASE CloseFinish
  BY <1>4, CloseIsDropAll DEF Table!Next
<1>5. CASE UNCHANGED <<connOpen, inserted, sessionsByAddr>>
  BY <1>5 DEF Table!vars
<1>6. ASSUME NEW s \in Session, NEW a \in Addr, NEW t \in Reading[s], NewSession(s, a, t)
      PROVE  UNCHANGED Table!vars
  <2>1. s \notin inserted /\ inserted' = inserted /\ sessionsByAddr' = sessionsByAddr
    BY <1>6 DEF NewSession, IInv, TypeOK, mapVars
  <2>2. \A r \in inserted : connOpen'[r] = connOpen[r]
    BY <1>6, <2>1 DEF NewSession, IInv, TypeOK
  <2> QED
    BY <2>1, <2>2 DEF Table!vars
<1>7. \/ \E s \in Session : CreateSession(s) \/ HangUp(s)
      \/ \E s \in Session, a \in Addr : \E t \in Reading[s] : NewSession(s, a, t)
      \/ \E i \in Id : sessions[i] # NoSession /\ Evict(i) /\ inserted' = inserted
      \/ CloseFinish
      \/ UNCHANGED <<connOpen, inserted, sessionsByAddr>>
  BY DEF Next, Sweep, SetState, UpdateActivity, GrowIdle, RemoveSession, Tick,
         SweepStart, SweepScan, SweepScanned, SweepRemove, SweepEnd, CleanerExit,
         CloseBegin, mapVars, sessionVars, vars
<1> QED
  BY <1>1, <1>2, <1>3, <1>4, <1>5, <1>6, <1>7

(* The manager, with its two maps, its lock, its cleanup and its shutdown, *)
(* implements the table of SessionTable: every change to the address index *)
(* happens together with the Close of the session it displaces.            *)
THEOREM Refinement == Spec => ImplementsTable
<1>1. Spec => Table!Spec
  BY InitTable, NextTable, Invariance, PTL DEF Spec, Table!Spec
<1> QED
  BY <1>1 DEF ImplementsTable

=============================================================================
