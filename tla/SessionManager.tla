--------------------------- MODULE SessionManager ---------------------------
(***************************************************************************)
(* The session manager, internal/session/manager.go: the sessions, the two *)
(* maps that index them by ID and by remote address, the ticker-driven     *)
(* cleanup of expired sessions and the shutdown of the manager.            *)
(*                                                                         *)
(* sm.mutex protects the two maps.  Every operation that takes it once and *)
(* lets it go is one action; CleanupExpiredSessions is the exception: it   *)
(* holds sm.mutex while it reads LastActivity of one session after the     *)
(* other under that session's own mutex, so activity on a connection can   *)
(* fall between the scan and the removal.  It is modelled step by step,    *)
(* and MutexFree keeps the other users of the maps out meanwhile.          *)
(*                                                                         *)
(* The operations take the session (a Go pointer) or the ID they are given *)
(* in the code.  Next lets anyone who may hold such a value call them in   *)
(* any order; DeviceServer restricts the calls to what its handlers do.    *)
(***************************************************************************)

CONSTANTS
  Session,       \* the session objects; a session and its net.Conn are one
  Addr,          \* remote addresses, RemoteAddr().String()
  Stamp,         \* readings of the wall clock in microseconds
  NoSession,     \* a map's answer for a key that is absent
  NoId,          \* the ID of a session object that is not allocated yet
  Reading        \* [Session -> SUBSET Stamp]: what the clock may show when
                 \* NewSession reads it for the session

(* generateSessionID: addr + "_" + timestamp.  Distinct pairs give distinct *)
(* strings because the timestamp has a fixed width.                        *)
Id == Addr \X Stamp

ASSUME SessionManagerAssumption ==
  /\ NoSession \notin Session
  /\ NoId \notin Id
  /\ Reading \in [Session -> SUBSET Stamp]

VARIABLES
  id,              \* Session.ID
  state,           \* Session.State; "unborn" before NewSession
  connOpen,        \* the server has not closed Session.Connection
  idle,            \* time.Since(LastActivity) > sessionTimeout
  inserted,        \* the sessions CreateSession has put into the maps
  sessions,        \* sm.sessions
  sessionsByAddr,  \* sm.sessionsByAddr
  tick,            \* cleanupTicker.C holds a tick
  sweep,           \* where CleanupExpiredSessions is: "off", "scan", "remove"
  toScan,          \* the keys the first loop has not visited yet
  expired,         \* expiredSessions
  cleaner,         \* the goroutine of startCleanupRoutine is running
  manager          \* "open", "closing" (stopCleanup closed), "closed"

sessionVars == <<id, state, connOpen, idle, inserted>>
mapVars     == <<sessions, sessionsByAddr>>
sweepVars   == <<sweep, toScan, expired>>
vars == <<sessionVars, mapVars, tick, sweepVars, cleaner, manager>>

RemoteAddr(s) == id[s][1]
Listed(s)     == \E i \in Id : sessions[i] = s
ListedIds     == {i \in Id : sessions[i] # NoSession}
MutexFree     == sweep = "off"

States == {"unborn", "connected", "authenticated", "active", "disconnected"}

Init ==
  /\ id             = [s \in Session |-> NoId]
  /\ state          = [s \in Session |-> "unborn"]
  /\ connOpen       = [s \in Session |-> FALSE]
  /\ idle           = [s \in Session |-> FALSE]
  /\ inserted       = {}
  /\ sessions       = [i \in Id |-> NoSession]
  /\ sessionsByAddr = [a \in Addr |-> NoSession]
  /\ tick           = FALSE
  /\ sweep          = "off"
  /\ toScan         = {}
  /\ expired        = {}
  /\ cleaner        = TRUE
  /\ manager        = "open"

-----------------------------------------------------------------------------
(* Operations on a session, under its own mutex.                           *)

(* Mutant: the new session is not given its ID.                            *)
NewSessionUnnamed(s, a, t) ==
  /\ state[s] = "unborn"
  /\ state'    = [state EXCEPT ![s] = "connected"]
  /\ connOpen' = [connOpen EXCEPT ![s] = TRUE]
  /\ UNCHANGED <<id, idle, inserted, mapVars, tick, sweepVars, cleaner, manager>>

(* NewSession runs before CreateSession takes sm.mutex.                    *)
NewSession(s, a, t) ==
  /\ state[s] = "unborn"
  /\ id'       = [id EXCEPT ![s] = <<a, t>>]
  /\ state'    = [state EXCEPT ![s] = "connected"]
  /\ connOpen' = [connOpen EXCEPT ![s] = TRUE]
  /\ UNCHANGED <<idle, inserted, mapVars, tick, sweepVars, cleaner, manager>>

SetState(s, st) ==
  /\ state[s] # "unborn"
  /\ state' = [state EXCEPT ![s] = st]
  /\ UNCHANGED <<id, connOpen, idle, inserted, mapVars, tick, sweepVars,
                 cleaner, manager>>

(* Mutant: activity puts the session back into the map.                    *)
UpdateActivityRelists(s) ==
  /\ state[s] # "unborn"
  /\ idle' = [idle EXCEPT ![s] = FALSE]
  /\ sessions' = [sessions EXCEPT ![id[s]] = s]
  /\ UNCHANGED <<id, state, connOpen, inserted, sessionsByAddr, tick, sweepVars,
                 cleaner, manager>>

UpdateActivity(s) ==
  /\ state[s] # "unborn"
  /\ idle' = [idle EXCEPT ![s] = FALSE]
  /\ UNCHANGED <<id, state, connOpen, inserted, mapVars, tick, sweepVars,
                 cleaner, manager>>

(* Time passes: the session's last activity falls out of the timeout.      *)
GrowIdle(s) ==
  /\ state[s] # "unborn"
  /\ idle' = [idle EXCEPT ![s] = TRUE]
  /\ UNCHANGED <<id, state, connOpen, inserted, mapVars, tick, sweepVars,
                 cleaner, manager>>

(* The owner of the connection closes it without going through the session. *)
HangUp(s) ==
  /\ s \in inserted
  /\ connOpen' = [connOpen EXCEPT ![s] = FALSE]
  /\ UNCHANGED <<id, state, idle, inserted, mapVars, tick, sweepVars,
                 cleaner, manager>>

(* Session.Close of every session in S.                                    *)
CloseSessions(S) ==
  /\ state'    = [s \in Session |-> IF s \in S THEN "disconnected" ELSE state[s]]
  /\ connOpen' = [s \in Session |-> s \notin S /\ connOpen[s]]

-----------------------------------------------------------------------------
(* Operations on the maps, under sm.mutex.                                 *)

(* Mutant: CreateSession does not look for an existing session.            *)
NoneDisplaced(s) == {}

(* existingSession: what the address index holds for the address of s.     *)
Displaced(s) == {sessionsByAddr[RemoteAddr(s)]} \ {NoSession}

CreateSession(s) ==
  /\ MutexFree
  /\ state[s] # "unborn"
  /\ s \notin inserted
  /\ sessions' = [i \in Id |->
                    IF i = id[s] THEN s
                    ELSE IF i \in {id[r] : r \in Displaced(s)} THEN NoSession
                    ELSE sessions[i]]
  /\ sessionsByAddr' = [sessionsByAddr EXCEPT ![RemoteAddr(s)] = s]
  /\ CloseSessions(Displaced(s))
  /\ inserted' = inserted \cup {s}
  /\ UNCHANGED <<id, idle, tick, sweepVars, cleaner, manager>>

(* Mutants: an evicted session is not closed; it is closed and stays in    *)
(* sm.sessions.                                                            *)
EvictUnclosed(i) ==
  /\ sessions'       = [sessions EXCEPT ![i] = NoSession]
  /\ sessionsByAddr' = [sessionsByAddr EXCEPT
                          ![RemoteAddr(sessions[i])] = NoSession]
  /\ UNCHANGED <<state, connOpen>>

EvictHalf(i) ==
  /\ sessionsByAddr' = [sessionsByAddr EXCEPT
                          ![RemoteAddr(sessions[i])] = NoSession]
  /\ CloseSessions({sessions[i]})
  /\ UNCHANGED sessions

(* The body RemoveSession and the second loop of the cleanup share.        *)
Evict(i) ==
  /\ sessions'       = [sessions EXCEPT ![i] = NoSession]
  /\ sessionsByAddr' = [sessionsByAddr EXCEPT
                          ![RemoteAddr(sessions[i])] = NoSession]
  /\ CloseSessions({sessions[i]})

(* Mutant: RemoveSession does not take sm.mutex.                           *)
RemoveSessionUnlocked(i) ==
  /\ i \in Id
  /\ IF sessions[i] # NoSession
     THEN Evict(i)
     ELSE UNCHANGED <<mapVars, state, connOpen>>
  /\ UNCHANGED <<id, idle, inserted, tick, sweepVars, cleaner, manager>>

(* An ID that is not in the map any more is ignored.                       *)
RemoveSession(i) ==
  /\ MutexFree
  /\ i \in Id
  /\ IF sessions[i] # NoSession
     THEN Evict(i)
     ELSE UNCHANGED <<mapVars, state, connOpen>>
  /\ UNCHANGED <<id, idle, inserted, tick, sweepVars, cleaner, manager>>

-----------------------------------------------------------------------------
(* startCleanupRoutine and CleanupExpiredSessions.                         *)

(* The ticker fires every minute until Close stops it; its channel holds   *)
(* at most one tick.                                                       *)
Tick ==
  /\ manager = "open"
  /\ tick' = TRUE
  /\ UNCHANGED <<sessionVars, mapVars, sweepVars, cleaner, manager>>

SweepStart ==
  /\ cleaner /\ tick /\ MutexFree
  /\ tick'    = FALSE
  /\ sweep'   = "scan"
  /\ toScan'  = ListedIds
  /\ expired' = {}
  /\ UNCHANGED <<sessionVars, mapVars, cleaner, manager>>

(* Mutant: the comparison with sessionTimeout is the wrong way round.      *)
SweepScanInverted(i) ==
  /\ sweep = "scan"
  /\ i \in toScan
  /\ toScan'  = toScan \ {i}
  /\ expired' = IF idle[sessions[i]] THEN expired ELSE expired \cup {i}
  /\ UNCHANGED <<sessionVars, mapVars, tick, sweep, cleaner, manager>>

SweepScan(i) ==
  /\ sweep = "scan"
  /\ i \in toScan
  /\ toScan'  = toScan \ {i}
  /\ expired' = IF idle[sessions[i]] THEN expired \cup {i} ELSE expired
  /\ UNCHANGED <<sessionVars, mapVars, tick, sweep, cleaner, manager>>

SweepScanned ==
  /\ sweep = "scan"
  /\ toScan = {}
  /\ sweep' = "remove"
  /\ UNCHANGED <<sessionVars, mapVars, tick, toScan, expired, cleaner, manager>>

SweepRemove(i) ==
  /\ sweep = "remove"
  /\ i \in expired
  /\ expired' = expired \ {i}
  /\ IF sessions[i] # NoSession
     THEN Evict(i)
     ELSE UNCHANGED <<mapVars, state, connOpen>>
  /\ UNCHANGED <<id, idle, inserted, tick, sweep, toScan, cleaner, manager>>

SweepEnd ==
  /\ sweep = "remove"
  /\ expired = {}
  /\ sweep' = "off"
  /\ UNCHANGED <<sessionVars, mapVars, tick, toScan, expired, cleaner, manager>>

(* select may still take a buffered tick first when stopCleanup is closed. *)
CleanerExit ==
  /\ cleaner /\ MutexFree
  /\ manager # "open"
  /\ cleaner' = FALSE
  /\ UNCHANGED <<sessionVars, mapVars, tick, sweepVars, manager>>

Sweep ==
  \/ SweepStart \/ SweepScanned \/ SweepEnd
  \/ \E i \in Id : SweepScan(i) \/ SweepRemove(i)

-----------------------------------------------------------------------------
(* SessionManager.Close: stop the cleanup, then close what the maps hold.  *)

CloseBegin ==
  /\ manager = "open"
  /\ manager' = "closing"
  /\ UNCHANGED <<sessionVars, mapVars, tick, sweepVars, cleaner>>

CloseFinish ==
  /\ MutexFree
  /\ manager = "closing"
  /\ manager' = "closed"
  /\ CloseSessions({sessions[i] : i \in ListedIds})
  /\ sessions'       = [i \in Id |-> NoSession]
  /\ sessionsByAddr' = [a \in Addr |-> NoSession]
  /\ UNCHANGED <<id, idle, inserted, tick, sweepVars, cleaner>>

-----------------------------------------------------------------------------

Next ==
  \/ \E s \in Session, a \in Addr : \E t \in Reading[s] : NewSession(s, a, t)
  \/ \E s \in Session :
       \/ CreateSession(s)
       \/ SetState(s, "active")
       \/ UpdateActivity(s)
       \/ GrowIdle(s)
       \/ HangUp(s)
  \/ \E i \in Id : RemoveSession(i)
  \/ Tick \/ Sweep \/ CleanerExit
  \/ CloseBegin \/ CloseFinish

Spec == Init /\ [][Next]_vars

(* The ticker keeps firing, the cleanup goroutine keeps running and Close, *)
(* once called, gets sm.mutex.  Nobody has to call the other operations.   *)
Fairness ==
  /\ WF_vars(Tick)
  /\ WF_vars(Sweep)
  /\ WF_vars(CloseFinish)

FairSpec == Spec /\ Fairness

-----------------------------------------------------------------------------
(* Properties.                                                             *)

TypeOK ==
  /\ id             \in [Session -> Id \cup {NoId}]
  /\ state          \in [Session -> States]
  /\ connOpen       \in [Session -> BOOLEAN]
  /\ idle           \in [Session -> BOOLEAN]
  /\ inserted       \in SUBSET {s \in Session : state[s] # "unborn"}
  /\ sessions       \in [Id -> Session \cup {NoSession}]
  /\ sessionsByAddr \in [Addr -> Session \cup {NoSession}]
  /\ tick           \in BOOLEAN
  /\ sweep          \in {"off", "scan", "remove"}
  /\ toScan         \in SUBSET Id
  /\ expired        \in SUBSET Id
  /\ cleaner        \in BOOLEAN
  /\ manager        \in {"open", "closing", "closed"}
  /\ \A s \in Session : state[s] = "unborn" <=> id[s] = NoId

(* The two maps describe the same set of sessions: an entry of either has  *)
(* its counterpart in the other, under the session's own ID and address.   *)
(* CreateSession, RemoveSession, CleanupExpiredSessions and Close each     *)
(* update both, from different keys (manager.go:254-261, 307-308, 329-330, *)
(* 363-364).                                                               *)
IndicesAgree ==
  /\ \A i \in Id : sessions[i] # NoSession =>
        /\ id[sessions[i]] = i
        /\ sessionsByAddr[i[1]] = sessions[i]
  /\ \A a \in Addr : sessionsByAddr[a] # NoSession =>
        /\ sessions[id[sessionsByAddr[a]]] = sessionsByAddr[a]
        /\ RemoteAddr(sessionsByAddr[a]) = a

(* A session that has been in the maps and is not any more has a closed    *)
(* connection: replacing, removing, expiring and shutting down never leave *)
(* a device connected to a session nobody can find.                        *)
NoOrphanConnection ==
  \A s \in inserted : connOpen[s] => Listed(s)

(* At most one open connection per remote address once both sessions are   *)
(* in the maps, whatever the order of arrival at sm.mutex was.             *)
OneOpenPerAddress ==
  \A r, s \in inserted :
    connOpen[r] /\ connOpen[s] /\ RemoteAddr(r) = RemoteAddr(s) => r = s

(* A listed session is never in the Disconnected state: whoever closes a   *)
(* session takes it out of the maps under the same hold of sm.mutex, so    *)
(* GetAllSessions and GetMetrics never count a dead one.                   *)
ListedNotDisconnected ==
  \A i \in ListedIds : state[sessions[i]] # "disconnected"

(* The IDs collected by the first loop of CleanupExpiredSessions still     *)
(* name listed sessions when the second loop gets to them, because nobody  *)
(* else takes sm.mutex in between; the second "exists" test never fails.   *)
SweepTargetsListed ==
  ~MutexFree => toScan \cup expired \subseteq ListedIds

(* A session that left the maps never comes back to them.                  *)
EvictionIsFinal ==
  [][\A s \in inserted : ~Listed(s) => ~Listed(s)']_vars

(* A session that stays idle while the manager is open is closed in the    *)
(* end, by a sweep or by Close.                                            *)
IdleSessionsAreClosed ==
  \A s \in Session :
    (manager = "open" /\ Listed(s) /\ idle[s]) ~> (~idle[s] \/ ~connOpen[s])

-----------------------------------------------------------------------------
(* The manager implements the table it promises.                           *)

Table == INSTANCE SessionTable WITH
           table <- sessionsByAddr,
           known <- inserted,
           open  <- {s \in inserted : connOpen[s]}

ImplementsTable == Table!Spec

=============================================================================
