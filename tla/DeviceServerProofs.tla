------------------------- MODULE DeviceServerProofs -------------------------
(***************************************************************************)
(* Proofs about DeviceServer, for any sets of connections, addresses and   *)
(* clock readings.  What SessionManagerProofs proves of the manager is     *)
(* used here once it is shown that the server drives the manager only      *)
(* through its operations.                                                 *)
(***************************************************************************)
EXTENDS DeviceServer, TLAPS

SMP == INSTANCE SessionManagerProofs

-----------------------------------------------------------------------------
(* The parts of the inductive invariant.                                   *)

ServerTyped ==
  /\ pc        \in [Session -> Phases]
  /\ target    \in [Session -> Session \cup {NoSession}]
  /\ device    \in [Session -> {"up", "gone"}]
  /\ clients   \in [Addr -> Session \cup {NoSession}]
  /\ done      \in BOOLEAN
  /\ listening \in BOOLEAN
  /\ stop      \in StopSteps
  /\ toClose   \in SUBSET Addr

(* A connection has a session ID from the moment it is accepted, and its   *)
(* session is in the maps once its handler is past the setup.              *)
AcceptedHasId == \A c \in Session : pc[c] = "none" <=> id[c] = NoId

SetUpIsInserted == \A c \in Session : pc[c] \notin {"none", "setup"} => c \in inserted

(* What the handler has looked up is a session.                            *)
TargetFound ==
  \A c \in Session : pc[c] \in {"observe", "activate"} => target[c] # NoSession

(* Nobody changes s.clients while Stop goes through it.                    *)
StopSeesClients == stop = "closing" => \A a \in toClose : clients[a] # NoSession

(* The cleanup of a connection starts by closing it.                       *)
CleanedUpIsClosed ==
  \A c \in Session : pc[c] \in {"unregister", "remove", "finished"} => ~connOpen[c]

FinishedIsUnlisted == \A c \in Session : pc[c] = "finished" => ~SM!Listed(c)

DoneWhenStopping == stop # "running" => done

ServerInv ==
  /\ ServerTyped
  /\ AcceptedHasId
  /\ SetUpIsInserted
  /\ TargetFound
  /\ StopSeesClients
  /\ ClientsAreHandled
  /\ CleanedUpIsClosed
  /\ FinishedIsUnlisted
  /\ DoneWhenStopping
  /\ StoppedServesNobody

(* The inductive invariant of the server and its manager together.         *)
IInv == SMP!IInv /\ ServerInv

-----------------------------------------------------------------------------
(* The manager of DeviceServer is the manager of SessionManagerProofs.     *)

LEMMA ManagerAssumed == SMP!SessionManagerAssumption
BY ServerAssumption DEF SMP!SessionManagerAssumption, SM!Id, SMP!Id

LEMMA SameInit == SM!Init => SMP!Init
BY DEF SM!Init, SMP!Init, SM!Id, SMP!Id

LEMMA SameNext == [SM!Next]_(SM!vars) => [SMP!Next]_(SMP!vars)
<1> SUFFICES ASSUME [SM!Next]_(SM!vars) PROVE [SMP!Next]_(SMP!vars)
  OBVIOUS
<1> USE DEF SM!Id, SMP!Id, SM!MutexFree, SMP!MutexFree, SM!RemoteAddr, SMP!RemoteAddr,
            SM!ListedIds, SMP!ListedIds, SM!sessionVars, SMP!sessionVars,
            SM!mapVars, SMP!mapVars, SM!sweepVars, SMP!sweepVars
<1>1. ASSUME NEW S, SM!CloseSessions(S) PROVE SMP!CloseSessions(S)
  BY <1>1 DEF SM!CloseSessions, SMP!CloseSessions
<1>2. ASSUME NEW i, SM!Evict(i) PROVE SMP!Evict(i)
  BY <1>1, <1>2 DEF SM!Evict, SMP!Evict
<1>3. ASSUME NEW s \in Session, NEW a \in Addr, NEW t \in Reading[s], SM!NewSession(s, a, t)
      PROVE  SMP!NewSession(s, a, t)
  BY <1>3 DEF SM!NewSession, SMP!NewSession
<1>4. ASSUME NEW s \in Session, SM!CreateSession(s) PROVE SMP!CreateSession(s)
  BY <1>1, <1>4 DEF SM!CreateSession, SMP!CreateSession, SM!Displaced, SMP!Displaced
<1>5. ASSUME NEW s \in Session,
             SM!SetState(s, "active") \/ SM!UpdateActivity(s) \/ SM!GrowIdle(s) \/ SM!HangUp(s)
      PROVE  SMP!SetState(s, "active") \/ SMP!UpdateActivity(s) \/ SMP!GrowIdle(s) \/ SMP!HangUp(s)
  BY <1>5 DEF SM!SetState, SM!UpdateActivity, SM!GrowIdle, SM!HangUp,
              SMP!SetState, SMP!UpdateActivity, SMP!GrowIdle, SMP!HangUp
<1>6. ASSUME NEW i \in SM!Id, SM!RemoveSession(i) PROVE SMP!RemoveSession(i)
  BY <1>2, <1>6 DEF SM!RemoveSession, SMP!RemoveSession
<1>7. ASSUME NEW i \in SM!Id, SM!SweepRemove(i) PROVE SMP!SweepRemove(i)
  BY <1>2, <1>7 DEF SM!SweepRemove, SMP!SweepRemove
<1>8. ASSUME NEW i \in SM!Id, SM!SweepScan(i) PROVE SMP!SweepScan(i)
  BY <1>8 DEF SM!SweepScan, SMP!SweepScan
<1>9. SM!Sweep => SMP!Sweep
  BY <1>7, <1>8 DEF SM!Sweep, SMP!Sweep, SM!SweepStart, SMP!SweepStart,
                    SM!SweepScanned, SMP!SweepScanned, SM!SweepEnd, SMP!SweepEnd
<1>10. SM!Tick \/ SM!CleanerExit \/ SM!CloseBegin => SMP!Tick \/ SMP!CleanerExit \/ SMP!CloseBegin
  BY DEF SM!Tick, SMP!Tick, SM!CleanerExit, SMP!CleanerExit, SM!CloseBegin, SMP!CloseBegin
<1>11. SM!CloseFinish => SMP!CloseFinish
  BY <1>1 DEF SM!CloseFinish, SMP!CloseFinish
<1>12. CASE UNCHANGED SM!vars
  BY <1>12 DEF SM!vars, SMP!vars
<1>13. CASE SM!Next
  BY <1>3, <1>4, <1>5, <1>6, <1>9, <1>10, <1>11, <1>13 DEF SM!Next, SMP!Next
<1> QED
  BY <1>12, <1>13

(* What SessionManagerProofs knows of the manager.                         *)
LEMMA ManagerFacts ==
  ASSUME SMP!IInv
  PROVE  /\ SM!TypeOK
         /\ SM!IndicesAgree
         /\ SM!NoOrphanConnection
         /\ \A i \in SM!Id : sessions[i] # NoSession => sessions[i] \in inserted
<1>1. SMP!TypeOK /\ SMP!IndicesAgree /\ SMP!NoOrphanConnection /\ SMP!IndexedInserted
  BY DEF SMP!IInv
<1>2. SM!TypeOK
  BY <1>1 DEF SM!TypeOK, SMP!TypeOK, SM!Id, SMP!Id, SM!States, SMP!States
<1>3. SM!IndicesAgree
  BY <1>1 DEF SM!IndicesAgree, SMP!IndicesAgree, SM!Id, SMP!Id, SM!RemoteAddr, SMP!RemoteAddr
<1>4. SM!NoOrphanConnection
  BY <1>1 DEF SM!NoOrphanConnection, SMP!NoOrphanConnection, SM!Id, SMP!Id, SM!Listed, SMP!Listed
<1>5. \A i \in SM!Id : sessions[i] # NoSession => sessions[i] \in inserted
  BY <1>1 DEF SMP!IndexedInserted, SM!Id, SMP!Id
<1> QED
  BY <1>2, <1>3, <1>4, <1>5

(* A connection that has been accepted has an address.                     *)
LEMMA AcceptedHasAddr ==
  ASSUME SM!TypeOK, NEW c \in Session, id[c] # NoId
  PROVE  id[c] \in SM!Id /\ SM!RemoteAddr(c) \in Addr
<1>1. id[c] \in SM!Id
  BY DEF SM!TypeOK
<1>2. \A i \in SM!Id : i[1] \in Addr
  BY DEF SM!Id
<1> QED
  BY <1>1, <1>2 DEF SM!RemoteAddr

-----------------------------------------------------------------------------
(* What the manager's operations do to a session.                          *)

LEMMA CloseSessionsCloses ==
  ASSUME NEW S, SM!CloseSessions(S), SM!TypeOK
  PROVE  /\ \A c \in Session : connOpen'[c] => connOpen[c]
         /\ \A c \in Session : c \in S => ~connOpen'[c]
BY DEF SM!CloseSessions, SM!TypeOK

LEMMA EvictTakesOne ==
  ASSUME SM!TypeOK, NEW i \in SM!Id, SM!Evict(i)
  PROVE  /\ sessions'[i] = NoSession
         /\ \A j \in SM!Id : j # i => sessions'[j] = sessions[j]
         /\ \A c \in Session : connOpen'[c] => connOpen[c]
BY CloseSessionsCloses DEF SM!Evict, SM!TypeOK

(* Only NewSession gives an ID or opens a connection, only CreateSession   *)
(* puts a session into the maps.                                           *)
ManagerFrame ==
  /\ \A c \in Session : id[c] # NoId => id'[c] = id[c]
  /\ \A c \in Session : id[c] # NoId /\ connOpen'[c] => connOpen[c]
  /\ inserted \subseteq inserted'
  /\ \A c \in inserted : ~SM!Listed(c) => ~SM!Listed(c)'

LEMMA ManagerStep ==
  ASSUME SM!TypeOK, [SM!Next]_(SM!vars)
  PROVE  ManagerFrame
<1> USE DEF SM!sessionVars, SM!mapVars, SM!sweepVars
<1>0. \A c \in inserted : c \in Session /\ c # NoSession
  BY ServerAssumption DEF SM!TypeOK
<1>1. ASSUME NEW s \in Session, NEW a \in Addr, NEW t \in Reading[s], SM!NewSession(s, a, t)
      PROVE  ManagerFrame
  BY <1>1 DEF SM!NewSession, SM!TypeOK, ManagerFrame, SM!Listed
<1>2. ASSUME NEW s \in Session, SM!CreateSession(s)
      PROVE  ManagerFrame
  <2>1. UNCHANGED id /\ s \notin inserted /\ inserted' = inserted \cup {s}
    BY <1>2 DEF SM!CreateSession
  <2>2. \A c \in Session : connOpen'[c] => connOpen[c]
    BY <1>2, CloseSessionsCloses DEF SM!CreateSession
  <2>3. \A i \in SM!Id : sessions'[i] \in {s, NoSession, sessions[i]}
    BY <1>2 DEF SM!CreateSession
  <2> QED
    BY <1>0, <2>1, <2>2, <2>3 DEF ManagerFrame, SM!Listed
<1>3. ASSUME NEW s \in Session,
             SM!SetState(s, "active") \/ SM!UpdateActivity(s) \/ SM!GrowIdle(s) \/ SM!HangUp(s)
      PROVE  ManagerFrame
  BY <1>3 DEF SM!SetState, SM!UpdateActivity, SM!GrowIdle, SM!HangUp, SM!TypeOK,
              ManagerFrame, SM!Listed
<1>4. ASSUME NEW i \in SM!Id, SM!RemoveSession(i) \/ SM!SweepRemove(i)
      PROVE  ManagerFrame
  <2>1. UNCHANGED <<id, inserted>>
    BY <1>4 DEF SM!RemoveSession, SM!SweepRemove
  <2>2. CASE SM!Evict(i)
    <3>1. \A j \in SM!Id : sessions'[j] \in {NoSession, sessions[j]}
      BY <2>2, EvictTakesOne
    <3>2. \A c \in Session : connOpen'[c] => connOpen[c]
      BY <2>2, EvictTakesOne
    <3> QED
      BY <1>0, <2>1, <3>1, <3>2 DEF ManagerFrame, SM!Listed
  <2>3. CASE UNCHANGED <<sessions, connOpen>>
    BY <2>1, <2>3 DEF ManagerFrame, SM!Listed
  <2> QED
    BY <1>4, <2>2, <2>3 DEF SM!RemoveSession, SM!SweepRemove
<1>5. CASE \/ SM!Tick \/ SM!SweepStart \/ SM!SweepScanned \/ SM!SweepEnd
           \/ SM!CleanerExit \/ SM!CloseBegin \/ UNCHANGED SM!vars
           \/ \E i \in SM!Id : SM!SweepScan(i)
  <2>1. UNCHANGED <<id, connOpen, inserted, sessions>>
    BY <1>5 DEF SM!Tick, SM!SweepStart, SM!SweepScanned, SM!SweepEnd, SM!CleanerExit,
                SM!CloseBegin, SM!SweepScan, SM!vars
  <2> QED
    BY <2>1 DEF ManagerFrame, SM!Listed
<1>6. CASE SM!CloseFinish
  <2>1. UNCHANGED <<id, inserted>> /\ \A i \in SM!Id : sessions'[i] = NoSession
    BY <1>6 DEF SM!CloseFinish
  <2>2. \A c \in Session : connOpen'[c] => connOpen[c]
    BY <1>6, CloseSessionsCloses DEF SM!CloseFinish
  <2> QED
    BY <1>0, <2>1, <2>2 DEF ManagerFrame, SM!Listed
<1> QED
  BY <1>1, <1>2, <1>3, <1>4, <1>5, <1>6 DEF SM!Next, SM!Sweep

-----------------------------------------------------------------------------
(* The server calls the manager only through its operations.               *)

LEMMA CallsManager ==
  ASSUME ServerInv, [Next]_vars
  PROVE  [SM!Next]_(SM!vars)
<1> USE DEF SM!vars, SM!sessionVars, SM!mapVars, SM!sweepVars, managerVars
<1>1. ASSUME NEW c \in Session, NEW a \in Addr, NEW t \in Reading[c], Accept(c, a, t)
      PROVE  SM!Next
  BY <1>1 DEF Accept, SM!Next
<1>2. ASSUME NEW c \in Session, Disconnect(c) PROVE UNCHANGED SM!vars
  BY <1>2 DEF Disconnect
<1>3. ASSUME NEW c \in Session, Handler(c) PROVE [SM!Next]_(SM!vars)
  <2>1. CASE Setup(c)
    BY <2>1 DEF Setup, SM!Next
  <2>2. CASE Receive(c)
    BY <2>2 DEF Receive, SM!Next
  <2>3. CASE Activate(c)
    <3>1. target[c] \in Session
      BY <2>3 DEF Activate, ServerInv, ServerTyped, TargetFound
    <3> QED
      BY <2>3, <3>1 DEF Activate, SM!Next
  <2>4. CASE CloseConn(c)
    BY <2>4 DEF CloseConn, SM!Next
  <2>5. CASE Remove(c)
    <3>1. id[c] \in SM!Id /\ SM!RemoveSession(id[c])
      BY <2>5 DEF Remove, SM!RemoveSession
    <3> QED
      BY <3>1 DEF SM!Next
  <2>6. CASE \/ Register(c) \/ CheckDone(c) \/ ReadTimeout(c) \/ ReadError(c)
             \/ Lookup(c) \/ Observe(c) \/ Unregister(c)
    BY <2>6 DEF Register, CheckDone, ReadTimeout, ReadError, Lookup, Observe, Unregister
  <2> QED
    BY <1>3, <2>1, <2>2, <2>3, <2>4, <2>5, <2>6 DEF Handler
<1>4. ASSUME Stop PROVE [SM!Next]_(SM!vars)
  <2>1. ASSUME NEW a \in Addr, StopCloseClient(a) PROVE SM!Next
    <3>1. clients[a] \in Session
      BY <2>1 DEF StopCloseClient, ServerInv, ServerTyped, StopSeesClients
    <3> QED
      BY <2>1, <3>1 DEF StopCloseClient, SM!Next
  <2>2. CASE StopDone \/ StopListener \/ StopLockClients \/ StopUnlockClients
    BY <2>2 DEF StopDone, StopListener, StopLockClients, StopUnlockClients
  <2>3. CASE StopManager \/ StopManagerClosed
    BY <2>3 DEF StopManager, StopManagerClosed, SM!Next
  <2> QED
    BY <1>4, <2>1, <2>2, <2>3 DEF Stop
<1>5. Background => SM!Next
  BY DEF Background, SM!Next
<1>6. Terminated \/ UNCHANGED vars => UNCHANGED SM!vars
  BY DEF Terminated, vars
<1> QED
  BY <1>1, <1>2, <1>3, <1>4, <1>5, <1>6 DEF Next

-----------------------------------------------------------------------------
(* What the steps of the server keep.                                      *)

Handled == Serving \cup {"loop", "close", "unregister"}

(* A step that leaves the handlers and s.clients where they are.           *)
LEMMA QuietStep ==
  ASSUME IInv, ManagerFrame, UNCHANGED <<id, pc, target, clients>>,
         device' \in [Session -> {"up", "gone"}], done' \in BOOLEAN,
         listening' \in BOOLEAN, stop' \in StopSteps, toClose' \in SUBSET Addr,
         StopSeesClients', DoneWhenStopping', StoppedServesNobody'
  PROVE  ServerInv'
<1>1. ServerTyped' /\ AcceptedHasId' /\ TargetFound'
  BY DEF IInv, ServerInv, ServerTyped, AcceptedHasId, TargetFound
<1>2. SetUpIsInserted'
  BY DEF IInv, ServerInv, SetUpIsInserted, ManagerFrame
<1>3. ClientsAreHandled'
  BY DEF IInv, ServerInv, ClientsAreHandled, SM!RemoteAddr
<1>4. CleanedUpIsClosed'
  BY DEF IInv, ServerInv, CleanedUpIsClosed, AcceptedHasId, ManagerFrame
<1>5. FinishedIsUnlisted'
  BY DEF IInv, ServerInv, FinishedIsUnlisted, SetUpIsInserted, ManagerFrame
<1> QED
  BY <1>1, <1>2, <1>3, <1>4, <1>5 DEF ServerInv

(* A step of the handler of c.                                             *)
LEMMA HandlerStep ==
  ASSUME IInv, ManagerFrame, NEW c \in Session, NEW p \in Phases \ {"none"},
         pc' = [pc EXCEPT ![c] = p], pc[c] # "none", pc[c] # "finished",
         UNCHANGED <<id, device, done, listening, stop, toClose>>,
         target' \in [Session -> Session \cup {NoSession}],
         \A d \in Session \ {c} : target'[d] = target[d],
         clients' \in [Addr -> Session \cup {NoSession}],
         p # "setup" => c \in inserted',
         p \in {"observe", "activate"} => target'[c] # NoSession,
         p \in {"unregister", "remove", "finished"} => ~connOpen'[c],
         p = "finished" => ~SM!Listed(c)',
         p \in Serving => pc[c] \in Serving \/ ~done,
         StopSeesClients', ClientsAreHandled'
  PROVE  ServerInv'
<1>1. pc'[c] = p /\ \A d \in Session \ {c} : pc'[d] = pc[d]
  BY DEF IInv, ServerInv, ServerTyped
<1>2. ServerTyped'
  BY <1>1 DEF IInv, ServerInv, ServerTyped
<1>3. AcceptedHasId' /\ DoneWhenStopping'
  BY <1>1 DEF IInv, ServerInv, AcceptedHasId, DoneWhenStopping
<1>4. SetUpIsInserted'
  BY <1>1 DEF IInv, ServerInv, SetUpIsInserted, ManagerFrame
<1>5. TargetFound'
  BY <1>1 DEF IInv, ServerInv, TargetFound
<1>6. CleanedUpIsClosed'
  BY <1>1 DEF IInv, ServerInv, CleanedUpIsClosed, AcceptedHasId, ManagerFrame
<1>7. FinishedIsUnlisted'
  BY <1>1 DEF IInv, ServerInv, FinishedIsUnlisted, SetUpIsInserted, ManagerFrame
<1>8. StoppedServesNobody'
  <2> SUFFICES ASSUME stop = "stopped", NEW d \in Session, pc'[d] \in Serving
               PROVE  ~connOpen'[d]
    BY DEF StoppedServesNobody
  <2>1. done
    BY DEF IInv, ServerInv, DoneWhenStopping
  <2>2. pc[d] \in Serving
    BY <1>1, <2>1
  <2>3. ~connOpen[d] /\ id[d] # NoId
    BY <2>2 DEF IInv, ServerInv, StoppedServesNobody, AcceptedHasId, Serving
  <2> QED
    BY <2>3 DEF ManagerFrame
<1> QED
  BY <1>2, <1>3, <1>4, <1>5, <1>6, <1>7, <1>8 DEF ServerInv

(* Such a step keeps s.clients in order if it does not touch it and c is   *)
(* still handled, or was not registered.                                   *)
LEMMA ClientsKept ==
  ASSUME IInv, NEW c \in Session, NEW p \in Phases,
         pc' = [pc EXCEPT ![c] = p], UNCHANGED <<clients, toClose, stop>>,
         \A d \in Session : id[d] # NoId => id'[d] = id[d],
         pc[c] \in Handled => p \in Handled
  PROVE  ClientsAreHandled' /\ StopSeesClients'
<1>1. pc'[c] = p /\ \A d \in Session \ {c} : pc'[d] = pc[d]
  BY DEF IInv, ServerInv, ServerTyped
<1>2. StopSeesClients'
  BY DEF IInv, ServerInv, StopSeesClients
<1>3. ClientsAreHandled'
  <2> SUFFICES ASSUME NEW a \in Addr, clients[a] # NoSession
               PROVE  SM!RemoteAddr(clients[a])' = a /\ pc'[clients[a]] \in Handled
    BY DEF ClientsAreHandled, SM!RemoteAddr, Handled
  <2>1. clients[a] \in Session
    BY DEF IInv, ServerInv, ServerTyped
  <2>2. SM!RemoteAddr(clients[a]) = a /\ pc[clients[a]] \in Handled
    BY DEF IInv, ServerInv, ClientsAreHandled, Handled
  <2>3. id[clients[a]] # NoId
    BY <2>1, <2>2 DEF IInv, ServerInv, AcceptedHasId, Handled, Serving
  <2> QED
    BY <1>1, <2>1, <2>2, <2>3 DEF SM!RemoteAddr
<1> QED
  BY <1>2, <1>3

-----------------------------------------------------------------------------
(* The steps of the server, one after the other.                           *)

(* A session whose ID has left the map is not listed under another.        *)
LEMMA RemovedIsUnlisted ==
  ASSUME IInv, SMP!IInv', ManagerFrame, NEW c \in Session, id[c] # NoId,
         SM!RemoveSession(id[c])
  PROVE  ~SM!Listed(c)'
<1>1. SM!TypeOK /\ SM!IndicesAgree
  BY ManagerFacts DEF IInv
<1>2. SM!IndicesAgree'
  BY DEF SMP!IInv, SMP!IndicesAgree, SM!IndicesAgree, SM!Id, SMP!Id,
         SM!RemoteAddr, SMP!RemoteAddr
<1>3. id[c] \in SM!Id /\ id'[c] = id[c] /\ c # NoSession
  BY <1>1, AcceptedHasAddr, ServerAssumption DEF ManagerFrame
<1>4. sessions'[id[c]] = NoSession
  <2>1. CASE sessions[id[c]] = NoSession
    BY <1>1, <2>1 DEF SM!RemoveSession, SM!mapVars
  <2>2. CASE sessions[id[c]] # NoSession
    BY <1>1, <1>3, <2>2, EvictTakesOne DEF SM!RemoveSession
  <2> QED
    BY <2>1, <2>2
<1>5. ASSUME NEW i \in SM!Id, sessions'[i] = c PROVE FALSE
  BY <1>2, <1>3, <1>4, <1>5 DEF SM!IndicesAgree
<1> QED
  BY <1>5 DEF SM!Listed

LEMMA AcceptKeeps ==
  ASSUME IInv, ManagerFrame, SMP!IInv', NEW c \in Session, NEW a \in Addr,
         NEW t \in Reading[c], Accept(c, a, t)
  PROVE  ServerInv'
<1>1. SM!TypeOK
  BY ManagerFacts DEF IInv
<1>2. /\ pc[c] = "none" /\ c \notin inserted
      /\ pc' = [pc EXCEPT ![c] = "setup"]
      /\ id' = [id EXCEPT ![c] = <<a, t>>]
      /\ UNCHANGED <<target, device, clients, done, stop, toClose, inserted, sessions>>
      /\ listening' \in BOOLEAN
  BY <1>1 DEF Accept, Goto, SM!NewSession, SM!TypeOK, SM!mapVars, IInv, ServerInv,
              AcceptedHasId, ServerTyped
<1>3. <<a, t>> \in SM!Id
  BY ServerAssumption DEF SM!Id
<1>4. /\ pc'[c] = "setup" /\ \A d \in Session \ {c} : pc'[d] = pc[d]
      /\ id'[c] # NoId /\ \A d \in Session \ {c} : id'[d] = id[d]
  BY <1>1, <1>2, <1>3, ServerAssumption DEF IInv, ServerInv, ServerTyped, SM!TypeOK
<1>5. ServerTyped'
  BY <1>2 DEF IInv, ServerInv, ServerTyped, Phases
<1>6. AcceptedHasId' /\ SetUpIsInserted' /\ TargetFound'
  BY <1>2, <1>4 DEF IInv, ServerInv, AcceptedHasId, SetUpIsInserted, TargetFound
<1>7. ClientsAreHandled' /\ StopSeesClients'
  BY <1>2, <1>4, ClientsKept DEF Phases, Handled, Serving, ManagerFrame
<1>8. CleanedUpIsClosed'
  BY <1>2, <1>4 DEF IInv, ServerInv, CleanedUpIsClosed, AcceptedHasId, ManagerFrame
<1>9. FinishedIsUnlisted'
  BY <1>2, <1>4 DEF IInv, ServerInv, FinishedIsUnlisted, SM!Listed
<1>10. StoppedServesNobody'
  <2>1. \A d \in Session : pc'[d] \in Serving => pc[d] \in Serving /\ id[d] # NoId
    BY <1>4 DEF Serving, IInv, ServerInv, AcceptedHasId
  <2> QED
    BY <1>2, <2>1 DEF IInv, ServerInv, StoppedServesNobody, ManagerFrame
<1>11. DoneWhenStopping'
  BY <1>2 DEF IInv, ServerInv, DoneWhenStopping
<1> QED
  BY <1>5, <1>6, <1>7, <1>8, <1>9, <1>10, <1>11 DEF ServerInv

LEMMA HandlerKeeps ==
  ASSUME IInv, ManagerFrame, SMP!IInv', NEW c \in Session, Handler(c)
  PROVE  ServerInv'
<1>1. SM!TypeOK /\ ServerTyped
  BY ManagerFacts DEF IInv, ServerInv
<1>2. pc[c] # "none" /\ pc[c] # "finished"
  BY DEF Handler, Setup, Register, CheckDone, Receive, ReadTimeout, ReadError,
         Lookup, Observe, Activate, CloseConn, Unregister, Remove
<1>3. id[c] # NoId /\ SM!RemoteAddr(c) \in Addr
  BY <1>1, <1>2, AcceptedHasAddr DEF IInv, ServerInv, AcceptedHasId
<1>4. pc[c] # "setup" => c \in inserted /\ c \in inserted'
  BY <1>2 DEF IInv, ServerInv, SetUpIsInserted, ManagerFrame
<1>5. CASE Setup(c)
  <2>1. /\ pc' = [pc EXCEPT ![c] = "register"] /\ pc[c] = "setup" /\ c \in inserted'
        /\ UNCHANGED <<id, target, device, clients, done, listening, stop, toClose>>
    BY <1>5 DEF Setup, Goto, SM!CreateSession
  <2>2. ClientsAreHandled' /\ StopSeesClients'
    BY <2>1, ClientsKept DEF Phases, Handled, Serving
  <2> QED
    BY <1>1, <1>2, <2>1, <2>2, HandlerStep DEF Phases, Serving, ServerTyped
<1>6. CASE Register(c)
  <2>1. /\ pc' = [pc EXCEPT ![c] = "loop"] /\ pc[c] = "register"
        /\ clients' = [clients EXCEPT ![SM!RemoteAddr(c)] = c] /\ stop # "closing"
        /\ UNCHANGED <<id, target, device, done, listening, stop, toClose>>
    BY <1>6 DEF Register, Goto, ClientMutexFree, managerVars
  <2>2. StopSeesClients'
    BY <2>1 DEF StopSeesClients
  <2>3. ClientsAreHandled'
    BY <1>1, <1>3, <2>1 DEF IInv, ServerInv, ServerTyped, ClientsAreHandled, SM!RemoteAddr
  <2>4. clients' \in [Addr -> Session \cup {NoSession}]
    BY <1>1, <2>1 DEF ServerTyped
  <2> QED
    BY <1>1, <1>2, <1>4, <2>1, <2>2, <2>3, <2>4, HandlerStep DEF Phases, Serving, ServerTyped
<1>7. CASE CheckDone(c) \/ Receive(c) \/ ReadTimeout(c) \/ ReadError(c)
  <2>1. PICK p \in {"close", "read", "lookup", "loop"} :
           /\ pc' = [pc EXCEPT ![c] = p]
           /\ p \in Serving => pc[c] \in Serving \/ ~done
    BY <1>7 DEF CheckDone, Receive, ReadTimeout, ReadError, Goto, Serving
  <2>2. /\ pc[c] \in {"loop", "read"}
        /\ UNCHANGED <<id, target, device, clients, done, listening, stop, toClose>>
    BY <1>7 DEF CheckDone, Receive, ReadTimeout, ReadError, managerVars, SM!UpdateActivity
  <2>3. ClientsAreHandled' /\ StopSeesClients'
    BY <2>1, <2>2, ClientsKept DEF Phases, Handled, Serving
  <2> QED
    BY <1>1, <1>2, <1>4, <2>1, <2>2, <2>3, HandlerStep DEF Phases, ServerTyped
<1>8. CASE Lookup(c) \/ Observe(c) \/ Activate(c)
  <2>1. /\ pc[c] \in {"lookup", "observe", "activate"}
        /\ UNCHANGED <<id, device, clients, done, listening, stop, toClose>>
    BY <1>8 DEF Lookup, Observe, Activate, managerVars, SM!SetState
  <2>2. PICK p \in {"loop", "observe", "activate"}, r \in Session \cup {NoSession} :
          /\ pc' = [pc EXCEPT ![c] = p]
          /\ target' = [target EXCEPT ![c] = r]
          /\ p \in {"observe", "activate"} => r # NoSession
    <3>1. CASE Lookup(c)
      <4>1. sessionsByAddr[SM!RemoteAddr(c)] \in Session \cup {NoSession}
        BY <1>1, <1>3 DEF SM!TypeOK
      <4>2. target' = [target EXCEPT ![c] = sessionsByAddr[SM!RemoteAddr(c)]]
        BY <3>1 DEF Lookup
      <4>3. target'[c] = sessionsByAddr[SM!RemoteAddr(c)]
        BY <1>1, <4>2 DEF ServerTyped
      <4> QED
        BY <3>1, <4>1, <4>2, <4>3 DEF Lookup, Goto
    <3>2. CASE Observe(c)
      <4>1. target[c] # NoSession /\ target[c] \in Session /\ target = [target EXCEPT ![c] = target[c]]
        BY <1>1, <3>2 DEF Observe, IInv, ServerInv, TargetFound, ServerTyped
      <4> QED
        BY <3>2, <4>1 DEF Observe, Goto
    <3>3. CASE Activate(c)
      BY <3>3 DEF Activate, Goto
    <3> QED
      BY <1>8, <3>1, <3>2, <3>3
  <2>3. /\ target' \in [Session -> Session \cup {NoSession}] /\ target'[c] = r
        /\ \A d \in Session \ {c} : target'[d] = target[d]
    BY <1>1, <2>2 DEF ServerTyped
  <2>4. ClientsAreHandled' /\ StopSeesClients'
    BY <2>1, <2>2, ClientsKept DEF Phases, Handled, Serving
  <2> QED
    BY <1>1, <1>2, <1>4, <2>1, <2>2, <2>3, <2>4, HandlerStep DEF Phases, Serving, ServerTyped
<1>9. CASE CloseConn(c)
  <2>1. /\ pc' = [pc EXCEPT ![c] = "unregister"] /\ pc[c] = "close"
        /\ UNCHANGED <<id, target, device, clients, done, listening, stop, toClose>>
        /\ ~connOpen'[c]
    BY <1>1, <1>9 DEF CloseConn, Goto, SM!HangUp, SM!TypeOK
  <2>2. ClientsAreHandled' /\ StopSeesClients'
    BY <2>1, ClientsKept DEF Phases, Handled, Serving
  <2> QED
    BY <1>1, <1>2, <1>4, <2>1, <2>2, HandlerStep DEF Phases, Serving, ServerTyped
<1>10. CASE Unregister(c)
  <2>1. /\ pc' = [pc EXCEPT ![c] = "remove"] /\ pc[c] = "unregister"
        /\ clients' = [clients EXCEPT ![SM!RemoteAddr(c)] = NoSession] /\ stop # "closing"
        /\ UNCHANGED <<id, connOpen, target, device, done, listening, stop, toClose>>
    BY <1>10 DEF Unregister, Goto, ClientMutexFree, managerVars
  <2>2. StopSeesClients'
    BY <2>1 DEF StopSeesClients
  <2>3. ClientsAreHandled'
    <3> SUFFICES ASSUME NEW a \in Addr, clients'[a] # NoSession
                 PROVE  SM!RemoteAddr(clients[a]) = a /\ pc'[clients[a]] \in Handled
                        /\ clients'[a] = clients[a]
      BY <2>1 DEF ClientsAreHandled, SM!RemoteAddr, Handled
    <3>1. a # SM!RemoteAddr(c) /\ clients'[a] = clients[a] /\ clients[a] \in Session
      BY <1>1, <2>1 DEF ServerTyped
    <3>2. SM!RemoteAddr(clients[a]) = a /\ pc[clients[a]] \in Handled
      BY <3>1 DEF IInv, ServerInv, ClientsAreHandled, Handled
    <3>3. clients[a] # c
      BY <3>1, <3>2
    <3> QED
      BY <1>1, <2>1, <3>1, <3>2, <3>3 DEF ServerTyped
  <2>4. clients' \in [Addr -> Session \cup {NoSession}]
    BY <1>1, <2>1 DEF ServerTyped
  <2>5. ~connOpen'[c]
    BY <2>1 DEF IInv, ServerInv, CleanedUpIsClosed
  <2> QED
    BY <1>1, <1>2, <1>4, <2>1, <2>2, <2>3, <2>4, <2>5, HandlerStep
       DEF Phases, Serving, ServerTyped
<1>11. CASE Remove(c)
  <2>1. /\ pc' = [pc EXCEPT ![c] = "finished"] /\ pc[c] = "remove"
        /\ UNCHANGED <<id, target, device, clients, done, listening, stop, toClose>>
        /\ SM!RemoveSession(id[c])
    BY <1>11 DEF Remove, Goto, SM!RemoveSession
  <2>2. ~SM!Listed(c)'
    BY <1>3, <2>1, RemovedIsUnlisted
  <2>3. ~connOpen'[c]
    BY <1>3, <2>1 DEF IInv, ServerInv, CleanedUpIsClosed, ManagerFrame
  <2>4. ClientsAreHandled' /\ StopSeesClients'
    BY <2>1, ClientsKept DEF Phases, Handled, Serving
  <2> QED
    BY <1>1, <1>2, <1>4, <2>1, <2>2, <2>3, <2>4, HandlerStep DEF Phases, Serving, ServerTyped
<1> QED
  BY <1>5, <1>6, <1>7, <1>8, <1>9, <1>10, <1>11 DEF Handler

LEMMA StopKeeps ==
  ASSUME IInv, ManagerFrame, SMP!IInv', Stop
  PROVE  ServerInv'
<1>1. SM!TypeOK /\ ServerTyped
  BY ManagerFacts DEF IInv, ServerInv
<1>2. UNCHANGED <<id, pc, target, device, clients>>
  BY DEF Stop, StopDone, StopListener, StopLockClients, StopCloseClient,
         StopUnlockClients, StopManager, StopManagerClosed, managerVars,
         SM!HangUp, SM!CloseBegin, SM!CloseFinish, SM!sessionVars
<1>3. /\ done' \in BOOLEAN /\ listening' \in BOOLEAN /\ stop' \in StopSteps
      /\ toClose' \in SUBSET Addr
  BY <1>1 DEF Stop, StopDone, StopListener, StopLockClients, StopCloseClient,
              StopUnlockClients, StopManager, StopManagerClosed, ServerTyped, StopSteps
<1>4. StopSeesClients' /\ DoneWhenStopping'
  BY <1>2 DEF Stop, StopDone, StopListener, StopLockClients, StopCloseClient,
              StopUnlockClients, StopManager, StopManagerClosed,
              IInv, ServerInv, StopSeesClients, DoneWhenStopping
<1>5. StoppedServesNobody'
  <2>1. CASE StopManagerClosed
    <3> SUFFICES ASSUME NEW c \in Session, pc[c] \in Serving, connOpen'[c]
                 PROVE  FALSE
      BY <1>2 DEF StoppedServesNobody
    <3>1. c \in inserted /\ UNCHANGED inserted /\ \A i \in SM!Id : sessions'[i] = NoSession
      BY <2>1 DEF IInv, ServerInv, SetUpIsInserted, Serving, StopManagerClosed, SM!CloseFinish
    <3>2. SM!NoOrphanConnection'
      BY DEF SMP!IInv, SMP!NoOrphanConnection, SM!NoOrphanConnection,
             SM!Listed, SMP!Listed, SM!Id, SMP!Id
    <3> QED
      BY <3>1, <3>2, ServerAssumption DEF SM!NoOrphanConnection, SM!Listed
  <2>2. CASE ~StopManagerClosed
    <3>1. stop' # "stopped"
      BY <2>2 DEF Stop, StopDone, StopListener, StopLockClients, StopCloseClient,
                  StopUnlockClients, StopManager
    <3> QED
      BY <3>1 DEF StoppedServesNobody
  <2> QED
    BY <2>1, <2>2
<1> QED
  BY <1>1, <1>2, <1>3, <1>4, <1>5, QuietStep DEF ServerTyped

LEMMA OtherKeeps ==
  ASSUME IInv, ManagerFrame,
         \/ \E c \in Session : Disconnect(c)
         \/ Background \/ Terminated \/ UNCHANGED vars
  PROVE  ServerInv'
<1>1. UNCHANGED <<id, pc, target, clients, done, listening, stop, toClose>>
  BY DEF Disconnect, Background, Terminated, vars, managerVars, serverVars, SM!Tick, SM!Sweep,
         SM!SweepStart, SM!SweepScanned, SM!SweepEnd, SM!SweepScan, SM!SweepRemove,
         SM!CleanerExit, SM!GrowIdle, SM!sessionVars
<1>2. device' \in [Session -> {"up", "gone"}]
  BY DEF Disconnect, Background, Terminated, vars, serverVars, IInv, ServerInv, ServerTyped
<1>3. StopSeesClients' /\ DoneWhenStopping'
  BY <1>1 DEF IInv, ServerInv, StopSeesClients, DoneWhenStopping
<1>4. StoppedServesNobody'
  BY <1>1 DEF IInv, ServerInv, StoppedServesNobody, AcceptedHasId, Serving, ManagerFrame
<1> QED
  BY <1>1, <1>2, <1>3, <1>4, QuietStep DEF IInv, ServerInv, ServerTyped

LEMMA InitIInv == Init => IInv
<1> SUFFICES ASSUME Init PROVE IInv
  OBVIOUS
<1>1. SM!Init
  BY DEF Init
<1>2. SMP!IInv
  BY <1>1, SameInit, ManagerAssumed, SMP!InitIInv
<1>3. ServerTyped /\ AcceptedHasId
  BY <1>1 DEF Init, SM!Init, ServerTyped, AcceptedHasId, Phases, StopSteps
<1>4. SetUpIsInserted /\ TargetFound /\ StopSeesClients /\ ClientsAreHandled
  BY DEF Init, SetUpIsInserted, TargetFound, StopSeesClients, ClientsAreHandled
<1>5. CleanedUpIsClosed /\ FinishedIsUnlisted /\ DoneWhenStopping /\ StoppedServesNobody
  BY DEF Init, CleanedUpIsClosed, FinishedIsUnlisted, DoneWhenStopping, StoppedServesNobody
<1> QED
  BY <1>2, <1>3, <1>4, <1>5 DEF IInv, ServerInv

LEMMA NextIInv == IInv /\ [Next]_vars => IInv' /\ [SM!Next]_(SM!vars) /\ ManagerFrame
<1> SUFFICES ASSUME IInv, [Next]_vars
             PROVE  IInv' /\ [SM!Next]_(SM!vars) /\ ManagerFrame
  OBVIOUS
<1>1. [SM!Next]_(SM!vars)
  BY CallsManager DEF IInv
<1>2. SMP!IInv'
  BY <1>1, SameNext, ManagerAssumed, SMP!NextIInv DEF IInv
<1>3. ManagerFrame
  BY <1>1, ManagerFacts, ManagerStep DEF IInv
<1>4. ServerInv'
  BY <1>2, <1>3, AcceptKeeps, HandlerKeeps, StopKeeps, OtherKeeps DEF Next
<1> QED
  BY <1>1, <1>2, <1>3, <1>4 DEF IInv

LEMMA Invariance == Spec => []IInv
BY InitIInv, NextIInv, PTL DEF Spec

-----------------------------------------------------------------------------
(* The safety properties of DeviceServer, for all its behaviours.          *)

(* The handlers, the network and Stop use the session manager only through *)
(* the operations of SessionManager: what is proved of it holds in the     *)
(* server (service/server.go:109-252).                                     *)
THEOREM ServerUsesManager == Spec => UsesManager
<1>1. Init => SM!Init
  BY DEF Init
<1> QED
  BY <1>1, Invariance, NextIInv, PTL DEF Spec, UsesManager, SM!Spec

(* So two connections that are open and in the maps at the same time come  *)
(* from different addresses, in the server too.                            *)
THEOREM ServerAddressExclusive == Spec => []SM!OneOpenPerAddress
<1>1. SMP!OneOpenPerAddress => SM!OneOpenPerAddress
  BY DEF SMP!OneOpenPerAddress, SM!OneOpenPerAddress, SMP!RemoteAddr, SM!RemoteAddr
<1>2. SMP!Spec => []SMP!OneOpenPerAddress
  BY ManagerAssumed, SMP!AddressExclusive
<1>3. SM!Spec => SMP!Spec
  BY SameInit, SameNext, PTL DEF SM!Spec, SMP!Spec
<1> QED
  BY <1>1, <1>2, <1>3, ServerUsesManager, PTL DEF UsesManager

(* Every variable keeps its type, and a connection has a handler exactly   *)
(* from the moment its session is allocated.                               *)
THEOREM ServerTyping == Spec => []TypeOK
<1>1. IInv => TypeOK
  BY ManagerFacts DEF IInv, ServerInv, ServerTyped, AcceptedHasId, TypeOK, SM!TypeOK
<1> QED
  BY <1>1, Invariance, PTL

(* s.clients holds only connections whose handler has not finished its     *)
(* cleanup, each under its own address, however often the address was      *)
(* reused (service/server.go:201-262).                                     *)
THEOREM ClientsHandled == Spec => []ClientsAreHandled
BY Invariance, PTL DEF IInv, ServerInv

(* A handler that has returned leaves no open connection, no entry in      *)
(* s.clients and no session in the maps, whoever replaced, expired or      *)
(* closed its session in the meantime.                                     *)
THEOREM NothingLeft == Spec => []HandlerLeavesNothing
<1>1. IInv => HandlerLeavesNothing
  <2> SUFFICES ASSUME IInv, NEW c \in Session, pc[c] = "finished"
               PROVE  /\ ~connOpen[c] /\ ~SM!Listed(c)
                      /\ \A a \in Addr : clients[a] # c /\ sessionsByAddr[a] # c
    BY DEF HandlerLeavesNothing
  <2>1. ~connOpen[c] /\ ~SM!Listed(c)
    BY DEF IInv, ServerInv, CleanedUpIsClosed, FinishedIsUnlisted
  <2>2. \A a \in Addr : clients[a] # c
    BY ServerAssumption DEF IInv, ServerInv, ClientsAreHandled, Serving
  <2>3. ASSUME NEW a \in Addr, sessionsByAddr[a] = c PROVE FALSE
    <3>1. SM!TypeOK /\ SM!IndicesAgree /\ c # NoSession
      BY ManagerFacts, ServerAssumption DEF IInv
    <3>2. id[c] \in SM!Id
      BY <3>1, AcceptedHasAddr DEF IInv, ServerInv, AcceptedHasId
    <3> QED
      BY <2>1, <2>3, <3>1, <3>2 DEF SM!IndicesAgree, SM!Listed
  <2> QED
    BY <2>1, <2>2, <2>3
<1> QED
  BY <1>1, Invariance, PTL

(* When Stop has returned no handler serves an open connection: what its   *)
(* loop over s.clients has missed, SessionManager.Close has closed         *)
(* (service/server.go:109-154, session/manager.go:347-365).                *)
THEOREM NobodyServed == Spec => []StoppedServesNobody
BY Invariance, PTL DEF IInv, ServerInv

-----------------------------------------------------------------------------
(* The late cleanup.  Two sessions of one address could share an ID if     *)
(* their connections were accepted in the same microsecond; then removing  *)
(* one takes the other out of the maps.                                    *)

(* No two sessions read the same time.                                     *)
OwnReadings == \A c, d \in Session : c # d => Reading[c] \cap Reading[d] = {}

(* The ID of a session carries a time it could read.                       *)
StampRead == \A c \in Session : id[c] # NoId => id[c][2] \in Reading[c]

LEMMA NextStampRead ==
  ASSUME SM!TypeOK, StampRead, [SM!Next]_(SM!vars)
  PROVE  StampRead'
<1> USE DEF SM!sessionVars
<1>1. ASSUME NEW c \in Session, NEW a \in Addr, NEW t \in Reading[c], SM!NewSession(c, a, t)
      PROVE  StampRead'
  BY <1>1 DEF SM!NewSession, SM!TypeOK, StampRead
<1>2. CASE UNCHANGED id
  BY <1>2 DEF StampRead
<1>3. CASE ~(\E c \in Session, a \in Addr : \E t \in Reading[c] : SM!NewSession(c, a, t))
  <2>1. UNCHANGED id
    BY <1>3 DEF SM!Next, SM!Sweep, SM!vars, SM!CreateSession, SM!SetState, SM!UpdateActivity,
                SM!GrowIdle, SM!HangUp, SM!RemoveSession, SM!Tick, SM!SweepStart,
                SM!SweepScan, SM!SweepScanned, SM!SweepRemove, SM!SweepEnd,
                SM!CleanerExit, SM!CloseBegin, SM!CloseFinish
  <2> QED
    BY <1>2, <2>1
<1> QED
  BY <1>1, <1>3

(* The only step that ends a handler removes the session of its own ID.    *)
LEMMA LateRemoveSpares ==
  ASSUME OwnReadings, IInv, StampRead, Next, NEW c \in Session, NEW d \in Session,
         pc[c] = "remove", pc'[c] = "finished", d # c, SM!Listed(d)
  PROVE  SM!Listed(d)'
<1>1. SM!TypeOK /\ SM!IndicesAgree /\ ServerTyped
  BY ManagerFacts DEF IInv, ServerInv
<1>2. SM!RemoveSession(id[c])
  <2>1. ASSUME NEW e \in Session, Handler(e) PROVE SM!RemoveSession(id[c])
    <3>1. CASE e = c
      BY <2>1, <3>1 DEF Handler, Setup, Register, CheckDone, Receive, ReadTimeout,
                        ReadError, Lookup, Observe, Activate, CloseConn, Unregister, Remove
    <3>2. CASE e # c
      <4>1. \E p : pc' = [pc EXCEPT ![e] = p]
        BY <2>1 DEF Handler, Setup, Register, CheckDone, Receive, ReadTimeout,
                    ReadError, Lookup, Observe, Activate, CloseConn, Unregister, Remove, Goto
      <4> QED
        BY <1>1, <3>2, <4>1 DEF ServerTyped
    <3> QED
      BY <3>1, <3>2
  <2>2. ASSUME NEW e \in Session, NEW a \in Addr, NEW t \in Reading[e], Accept(e, a, t)
        PROVE  FALSE
    BY <1>1, <2>2 DEF Accept, Goto, ServerTyped
  <2>3. Stop \/ Background \/ Terminated \/ (\E e \in Session : Disconnect(e)) => pc' = pc
    BY DEF Stop, StopDone, StopListener, StopLockClients, StopCloseClient,
           StopUnlockClients, StopManager, StopManagerClosed, Background, Terminated,
           Disconnect, serverVars, vars
  <2> QED
    BY <2>1, <2>2, <2>3 DEF Next
<1>3. id[c] # NoId
  BY DEF IInv, ServerInv, AcceptedHasId
<1>4. d # NoSession
  BY ServerAssumption
<1>5. PICK i \in SM!Id : sessions[i] = d
  BY DEF SM!Listed
<1>6. id[d] = i
  BY <1>1, <1>4, <1>5 DEF SM!IndicesAgree
<1>7. i # id[c]
  BY <1>3, <1>6, ServerAssumption DEF OwnReadings, StampRead
<1>8. sessions'[i] = sessions[i]
  BY <1>1, <1>2, <1>5, <1>7, EvictTakesOne DEF SM!RemoveSession, SM!mapVars
<1> QED
  BY <1>5, <1>8 DEF SM!Listed

(* If no two sessions read the same time, the RemoveSession of a handler   *)
(* that ends late takes no other session out of the maps, not even the one *)
(* its device has opened from the same address since                       *)
(* (service/server.go:240-252, session/manager.go:302-320).                *)
THEOREM SuccessorSpared ==
  ASSUME OwnReadings
  PROVE  Spec => LateCleanupSparesSuccessor
<1> DEFINE Spares ==
      \A c, d \in Session :
        pc[c] = "remove" /\ pc'[c] = "finished" /\ d # c =>
          (SM!Listed(d) => SM!Listed(d)')
<1>1. Init => StampRead
  BY DEF Init, SM!Init, StampRead
<1>2. IInv /\ StampRead /\ [Next]_vars => StampRead'
  BY NextIInv, ManagerFacts, NextStampRead DEF IInv
<1>3. IInv /\ StampRead /\ [Next]_vars => [Spares]_vars
  BY LateRemoveSpares
<1>4. Spec => [](IInv /\ StampRead)
  BY <1>1, <1>2, Invariance, PTL DEF Spec
<1>5. Spec => [][Spares]_vars
  BY <1>3, <1>4, PTL DEF Spec
<1> QED
  BY <1>5 DEF LateCleanupSparesSuccessor

=============================================================================
