---------------------------- MODULE DeviceServer ----------------------------
(***************************************************************************)
(* The TCP side of internal/service/server.go: the accept loop, one        *)
(* handler goroutine per connection and Stop, composed with the session    *)
(* manager they share.  A connection and the session made for it are the   *)
(* same element of Session.                                                *)
(*                                                                         *)
(* pc[c] is the next thing the handler of connection c does; each step     *)
(* ends where another goroutine can get in between: at a mutex, at the     *)
(* done channel or at the socket.  A device may disconnect and connect     *)
(* again from the same address while the handler of its old connection is  *)
(* still at work: that is what makes the cleanup of a handler interesting. *)
(*                                                                         *)
(* What a record contains, the replies to it and the commands sent to the  *)
(* device do not touch this state; a received record is parsed or not.     *)
(***************************************************************************)

CONSTANTS Session, Addr, Stamp, NoSession, NoId, Reading

VARIABLES
  id, state, connOpen, idle, inserted, sessions, sessionsByAddr,
  tick, sweep, toScan, expired, cleaner, manager,
  pc,          \* where the handler of a connection is
  target,      \* the session processData has looked up
  device,      \* the device's side of the connection: "up" or "gone"
  clients,     \* s.clients: address -> connection
  done,        \* s.done is closed
  listening,   \* s.listener is open and the accept loop waits at it
  stop,        \* where Stop is
  toClose      \* the keys of s.clients its loop has not reached yet

SM == INSTANCE SessionManager

(* What SessionManager assumes of the constants.                           *)
ASSUME ServerAssumption ==
  /\ NoSession \notin Session
  /\ NoId \notin SM!Id
  /\ Reading \in [Session -> SUBSET Stamp]

managerVars == <<id, state, connOpen, idle, inserted, sessions, sessionsByAddr,
                 tick, sweep, toScan, expired, cleaner, manager>>
serverVars == <<pc, target, device, clients, done, listening, stop, toClose>>
vars == <<managerVars, serverVars>>

Phases == {"none", "setup", "register", "loop", "read", "lookup", "observe",
           "activate", "close", "unregister", "remove", "finished"}

(* Between the check of s.done and the next one.                           *)
Serving == {"read", "lookup", "observe", "activate"}

StopSteps == {"running", "listener", "clients", "closing", "sessions",
              "manager", "stopped"}

Init ==
  /\ SM!Init
  /\ pc        = [c \in Session |-> "none"]
  /\ target    = [c \in Session |-> NoSession]
  /\ device    = [c \in Session |-> "up"]
  /\ clients   = [a \in Addr |-> NoSession]
  /\ done      = FALSE
  /\ listening = TRUE
  /\ stop      = "running"
  /\ toClose   = {}

(* clientMutex is held by Stop while it goes through s.clients.            *)
ClientMutexFree == stop # "closing"

Goto(c, p) == pc' = [pc EXCEPT ![c] = p]

-----------------------------------------------------------------------------
(* The network.                                                            *)

(* The kernel has one live connection per remote address: an address comes *)
(* back only after its last connection has ended on one side.  Accept,     *)
(* spawning the handler and NewSession are one step, nothing else can see  *)
(* what they do before the handler takes sm.mutex.  The accept loop that   *)
(* finds s.done closed afterwards takes no further connection.             *)
Accept(c, a, t) ==
  /\ listening
  /\ \A d \in Session : id[d] # NoId /\ SM!RemoteAddr(d) = a =>
                          device[d] = "gone" \/ ~connOpen[d]
  /\ SM!NewSession(c, a, t)
  /\ Goto(c, "setup")
  /\ listening' = ~done
  /\ UNCHANGED <<target, device, clients, done, stop, toClose>>

Disconnect(c) ==
  /\ pc[c] \notin {"none", "finished"}
  /\ device[c] = "up"
  /\ device' = [device EXCEPT ![c] = "gone"]
  /\ UNCHANGED <<managerVars, pc, target, clients, done, listening, stop, toClose>>

-----------------------------------------------------------------------------
(* handleConnection.                                                       *)

Setup(c) ==
  /\ pc[c] = "setup"
  /\ SM!CreateSession(c)
  /\ Goto(c, "register")
  /\ UNCHANGED <<target, device, clients, done, listening, stop, toClose>>

Register(c) ==
  /\ pc[c] = "register"
  /\ ClientMutexFree
  /\ clients' = [clients EXCEPT ![SM!RemoteAddr(c)] = c]
  /\ Goto(c, "loop")
  /\ UNCHANGED <<managerVars, target, device, done, listening, stop, toClose>>

(* Mutant: the loop does not look at s.done.                               *)
CheckDoneNever(c) ==
  /\ pc[c] = "loop"
  /\ Goto(c, "read")
  /\ UNCHANGED <<managerVars, target, device, clients, done, listening, stop,
                 toClose>>

(* runConnectionLoop *)
CheckDone(c) ==
  /\ pc[c] = "loop"
  /\ Goto(c, IF done THEN "close" ELSE "read")
  /\ UNCHANGED <<managerVars, target, device, clients, done, listening, stop,
                 toClose>>

(* Read returns a record: UpdateActivity, then Parse, which may fail or    *)
(* find nothing in it.                                                     *)
Receive(c) ==
  /\ pc[c] = "read"
  /\ connOpen[c] /\ device[c] = "up"
  /\ SM!UpdateActivity(c)
  /\ \E parsed \in BOOLEAN : Goto(c, IF parsed THEN "lookup" ELSE "loop")
  /\ UNCHANGED <<target, device, clients, done, listening, stop, toClose>>

(* The 30 s read deadline passes.                                          *)
ReadTimeout(c) ==
  /\ pc[c] = "read"
  /\ connOpen[c] /\ device[c] = "up"
  /\ Goto(c, "loop")
  /\ UNCHANGED <<managerVars, target, device, clients, done, listening, stop,
                 toClose>>

(* Mutant: every read error is taken for a timeout.                        *)
ReadErrorIgnored(c) ==
  /\ pc[c] = "read"
  /\ ~connOpen[c] \/ device[c] = "gone"
  /\ Goto(c, "loop")
  /\ UNCHANGED <<managerVars, target, device, clients, done, listening, stop,
                 toClose>>

(* The connection was closed on either side.                               *)
ReadError(c) ==
  /\ pc[c] = "read"
  /\ ~connOpen[c] \/ device[c] = "gone"
  /\ Goto(c, "close")
  /\ UNCHANGED <<managerVars, target, device, clients, done, listening, stop,
                 toClose>>

(* processData looks the session up by address, not by the handler's own   *)
(* session.                                                                *)
Lookup(c) ==
  /\ pc[c] = "lookup"
  /\ SM!MutexFree
  /\ target' = [target EXCEPT ![c] = sessionsByAddr[SM!RemoteAddr(c)]]
  /\ Goto(c, IF target'[c] = NoSession THEN "loop" ELSE "observe")
  /\ UNCHANGED <<managerVars, device, clients, done, listening, stop, toClose>>

(* updateSessionWithDeviceInfo: GetState and SetState are two critical     *)
(* sections of the session's mutex.                                        *)
Observe(c) ==
  /\ pc[c] = "observe"
  /\ IF state[target[c]] = "connected"
     THEN Goto(c, "activate") /\ UNCHANGED target
     ELSE Goto(c, "loop") /\ target' = [target EXCEPT ![c] = NoSession]
  /\ UNCHANGED <<managerVars, device, clients, done, listening, stop, toClose>>

Activate(c) ==
  /\ pc[c] = "activate"
  /\ SM!SetState(target[c], "active")
  /\ target' = [target EXCEPT ![c] = NoSession]
  /\ Goto(c, "loop")
  /\ UNCHANGED <<device, clients, done, listening, stop, toClose>>

(* Mutant: Session.Close on a session that is still in the maps.           *)
CloseConnAndSession(c) ==
  /\ pc[c] = "close"
  /\ state'    = [state EXCEPT ![c] = "disconnected"]
  /\ connOpen' = [connOpen EXCEPT ![c] = FALSE]
  /\ Goto(c, "unregister")
  /\ UNCHANGED <<id, idle, inserted, sessions, sessionsByAddr, tick, sweep,
                 toScan, expired, cleaner, manager, target, device, clients,
                 done, listening, stop, toClose>>

(* cleanupConnection *)
CloseConn(c) ==
  /\ pc[c] = "close"
  /\ SM!HangUp(c)
  /\ Goto(c, "unregister")
  /\ UNCHANGED <<target, device, clients, done, listening, stop, toClose>>

(* Mutant: the entry stays in s.clients.                                   *)
UnregisterForgotten(c) ==
  /\ pc[c] = "unregister"
  /\ ClientMutexFree
  /\ Goto(c, "remove")
  /\ UNCHANGED <<managerVars, target, device, clients, done, listening, stop,
                 toClose>>

(* The entry is deleted by address, whichever connection it holds by now.  *)
Unregister(c) ==
  /\ pc[c] = "unregister"
  /\ ClientMutexFree
  /\ clients' = [clients EXCEPT ![SM!RemoteAddr(c)] = NoSession]
  /\ Goto(c, "remove")
  /\ UNCHANGED <<managerVars, target, device, done, listening, stop, toClose>>

(* Mutants: the session stays in the manager; the session to remove is     *)
(* looked up by address; the handler does not notice it is done.           *)
RemoveForgotten(c) ==
  /\ pc[c] = "remove"
  /\ Goto(c, "finished")
  /\ UNCHANGED <<managerVars, target, device, clients, done, listening, stop,
                 toClose>>

RemoveByAddress(c) ==
  /\ pc[c] = "remove"
  /\ LET found == sessionsByAddr[SM!RemoteAddr(c)]
     IN  SM!RemoveSession(id[IF found = NoSession THEN c ELSE found])
  /\ Goto(c, "finished")
  /\ UNCHANGED <<target, device, clients, done, listening, stop, toClose>>

RemoveAgain(c) ==
  /\ pc[c] = "remove"
  /\ SM!RemoveSession(id[c])
  /\ Goto(c, "none")
  /\ UNCHANGED <<target, device, clients, done, listening, stop, toClose>>

Remove(c) ==
  /\ pc[c] = "remove"
  /\ SM!RemoveSession(id[c])
  /\ Goto(c, "finished")
  /\ UNCHANGED <<target, device, clients, done, listening, stop, toClose>>

Handler(c) ==
  \/ Setup(c) \/ Register(c) \/ CheckDone(c)
  \/ Receive(c) \/ ReadTimeout(c) \/ ReadError(c)
  \/ Lookup(c) \/ Observe(c) \/ Activate(c)
  \/ CloseConn(c) \/ Unregister(c) \/ Remove(c)

-----------------------------------------------------------------------------
(* Stop.                                                                   *)

StopDone ==
  /\ stop = "running"
  /\ done' = TRUE
  /\ stop' = "listener"
  /\ UNCHANGED <<managerVars, pc, target, device, clients, listening, toClose>>

StopListener ==
  /\ stop = "listener"
  /\ listening' = FALSE
  /\ stop' = "clients"
  /\ UNCHANGED <<managerVars, pc, target, device, clients, done, toClose>>

StopLockClients ==
  /\ stop = "clients"
  /\ toClose' = {a \in Addr : clients[a] # NoSession}
  /\ stop' = "closing"
  /\ UNCHANGED <<managerVars, pc, target, device, clients, done, listening>>

StopCloseClient(a) ==
  /\ stop = "closing"
  /\ a \in toClose
  /\ SM!HangUp(clients[a])
  /\ toClose' = toClose \ {a}
  /\ UNCHANGED <<pc, target, device, clients, done, listening, stop>>

(* The API server is stopped next; it has no part in this state.           *)
StopUnlockClients ==
  /\ stop = "closing"
  /\ toClose = {}
  /\ stop' = "sessions"
  /\ UNCHANGED <<managerVars, pc, target, device, clients, done, listening, toClose>>

StopManager ==
  /\ stop = "sessions"
  /\ SM!CloseBegin
  /\ stop' = "manager"
  /\ UNCHANGED <<pc, target, device, clients, done, listening, toClose>>

(* Mutant: the manager's Close leaves the sessions open.                   *)
StopManagerForgotten ==
  /\ stop = "manager"
  /\ stop' = "stopped"
  /\ manager' = "closed"
  /\ UNCHANGED <<id, state, connOpen, idle, inserted, sessions, sessionsByAddr,
                 tick, sweep, toScan, expired, cleaner, pc, target, device,
                 clients, done, listening, toClose>>

StopManagerClosed ==
  /\ stop = "manager"
  /\ SM!CloseFinish
  /\ stop' = "stopped"
  /\ UNCHANGED <<pc, target, device, clients, done, listening, toClose>>

Stop ==
  \/ StopDone \/ StopListener \/ StopLockClients
  \/ \E a \in Addr : StopCloseClient(a)
  \/ StopUnlockClients \/ StopManager \/ StopManagerClosed

-----------------------------------------------------------------------------

(* The manager's own goroutine and the passing of time, which matters to   *)
(* no session whose handler has finished.                                  *)
Background ==
  /\ \/ SM!Tick \/ SM!Sweep \/ SM!CleanerExit
     \/ \E c \in Session : pc[c] # "finished" /\ SM!GrowIdle(c)
  /\ UNCHANGED serverVars

(* Every goroutine has returned: the one state the server may rest in.     *)
Terminated ==
  /\ stop = "stopped" /\ ~cleaner
  /\ \A c \in Session : pc[c] \in {"none", "finished"}
  /\ UNCHANGED vars

Next ==
  \/ \E c \in Session, a \in Addr : \E t \in Reading[c] : Accept(c, a, t)
  \/ \E c \in Session : Disconnect(c) \/ Handler(c)
  \/ Stop
  \/ Background
  \/ Terminated

Spec == Init /\ [][Next]_vars

(* Every goroutine that can run goes on running.  A handler never waits at *)
(* the socket for more than 30 s, and it gets sm.mutex and clientMutex     *)
(* although the cleanup takes them again and again, because Go's mutexes   *)
(* do not starve a waiter: strong fairness.  Stop is never obliged to      *)
(* begin, devices are never obliged to speak or to leave.                  *)
Fairness ==
  /\ \A c \in Session : SF_vars(Handler(c))
  /\ WF_vars(Stop /\ stop # "running")
  /\ WF_vars(SM!Sweep /\ UNCHANGED serverVars)

FairSpec == Spec /\ Fairness

-----------------------------------------------------------------------------
(* Properties.                                                             *)

TypeOK ==
  /\ SM!TypeOK
  /\ pc        \in [Session -> Phases]
  /\ target    \in [Session -> Session \cup {NoSession}]
  /\ device    \in [Session -> {"up", "gone"}]
  /\ clients   \in [Addr -> Session \cup {NoSession}]
  /\ done      \in BOOLEAN
  /\ listening \in BOOLEAN
  /\ stop      \in StopSteps
  /\ toClose   \in SUBSET Addr
  /\ \A c \in Session : pc[c] = "none" <=> state[c] = "unborn"

(* The handlers, the network and Stop drive the session manager only       *)
(* through the operations SessionManager.tla specifies, so everything      *)
(* proved of it holds here.                                                *)
UsesManager == SM!Spec

(* s.clients holds only connections of handlers that have not finished     *)
(* their cleanup (active_connections of GetMetrics counts nothing dead).   *)
ClientsAreHandled ==
  \A a \in Addr : clients[a] # NoSession =>
    /\ SM!RemoteAddr(clients[a]) = a
    /\ pc[clients[a]] \in Serving \cup {"loop", "close", "unregister"}

(* A handler that has returned leaves nothing behind: no open connection,  *)
(* no entry in s.clients, no session in the maps, whoever else replaced,   *)
(* expired or closed its session in the meantime.                          *)
HandlerLeavesNothing ==
  \A c \in Session : pc[c] = "finished" =>
    /\ ~connOpen[c]
    /\ ~SM!Listed(c)
    /\ \A a \in Addr : clients[a] # c /\ sessionsByAddr[a] # c

(* The RemoveSession of a handler that ends late takes no other session    *)
(* out of the maps, not even the one its device has opened from the same   *)
(* address since.                                                          *)
LateCleanupSparesSuccessor ==
  [][\A c, d \in Session :
       pc[c] = "remove" /\ pc'[c] = "finished" /\ d # c =>
         (SM!Listed(d) => SM!Listed(d)')]_vars

(* When Stop has returned no handler serves an open connection: what the   *)
(* loop over s.clients has missed, SessionManager.Close has closed.        *)
StoppedServesNobody ==
  stop = "stopped" => \A c \in Session : pc[c] \in Serving => ~connOpen[c]

(* The handler of a connection that was closed on either side finishes: by *)
(* its device, by the session that replaced it, by the cleanup or by Stop. *)
ClosedConnectionsAreCleanedUp ==
  \A c \in Session :
    (pc[c] # "none" /\ (device[c] = "gone" \/ ~connOpen[c])) ~> (pc[c] = "finished")

(* Once Stop has begun every handler finishes.                             *)
StopEndsHandlers ==
  (stop # "running") ~> \A c \in Session : pc[c] \in {"none", "finished"}

=============================================================================
