--------------------------- MODULE DeviceRegistry ---------------------------
(***************************************************************************)
(* The registry of internal/domain/registry.go and the HTTP handlers of    *)
(* internal/api/server.go that search it.                                  *)
(*                                                                         *)
(* Every method of the registry runs under its mutex, but what the methods *)
(* return are pointers to the entries.  A handler that looks for an        *)
(* inverter gets the pointers under the mutex and then walks through the   *)
(* maps of inverters without it, while RegisterInverter puts new inverters *)
(* into the same maps.  The Go runtime ends the program when it catches a  *)
(* map being iterated and written at once.                                 *)
(*                                                                         *)
(* The module has no specification of its own: RecordLoop calls the        *)
(* registering operations and composes the searches.                       *)
(***************************************************************************)

CONSTANTS
  Datalogger,   \* serial numbers, the keys of the registry
  Inverter,     \* serial numbers of inverters
  Host,         \* IP addresses
  Search,       \* the searches HTTP handlers make
  None          \* no host, no datalogger, no insertion

ASSUME RegistryAssumption == None \notin Host \cup Datalogger \cup Inverter

VARIABLES
  ip,         \* DataloggerInfo.IP of each datalogger; None: no entry
  inverters,  \* DataloggerInfo.Inverters
  inserting,  \* the entry a RegisterInverter is writing, under the mutex
  search,     \* what a handler searches for, and where it has not looked yet
  crashed     \* the runtime has ended the program

registryVars == <<ip, inverters, inserting>>
regVars == <<registryVars, search, crashed>>

Registered == {l \in Datalogger : ip[l] # None}

Idle == [inverter |-> None]

RegistryInit ==
  /\ ip        = [l \in Datalogger |-> None]
  /\ inverters = [l \in Datalogger |-> {}]
  /\ inserting = None
  /\ search    = [s \in Search |-> Idle]
  /\ crashed   = FALSE

(* r.mutex: only the insertion of an inverter takes more than one step.    *)
MutexFree == inserting = None

-----------------------------------------------------------------------------
(* Registering.                                                            *)

(* Mutant: the entry is made anew every time.                              *)
RegisterDataloggerAnew(l, h) ==
  /\ MutexFree
  /\ ip' = [ip EXCEPT ![l] = h]
  /\ inverters' = [inverters EXCEPT ![l] = {}]
  /\ UNCHANGED inserting

(* Mutant: an entry that exists is left alone.                             *)
RegisterDataloggerOnce(l, h) ==
  /\ MutexFree
  /\ ip' = [ip EXCEPT ![l] = IF @ = None THEN h ELSE @]
  /\ UNCHANGED <<inverters, inserting>>

(* A new entry without inverters, or the old one with its address renewed. *)
RegisterDatalogger(l, h) ==
  /\ MutexFree
  /\ ip' = [ip EXCEPT ![l] = h]
  /\ UNCHANGED <<inverters, inserting>>

(* RegisterInverter of an inverter that is there, or of a datalogger that  *)
(* is not: nothing that the model tells apart.                             *)
RefreshInverter(l, v) ==
  /\ MutexFree
  /\ v \in inverters[l] \/ l \notin Registered
  /\ UNCHANGED registryVars

(* RegisterInverter of a new inverter writes the map: beginning and end.   *)
InsertBegins(l, v) ==
  /\ MutexFree
  /\ l \in Registered /\ v \notin inverters[l]
  /\ inserting' = l
  /\ UNCHANGED <<ip, inverters>>

(* Mutant: an inverter without a serial number is registered.              *)
InsertEndsUnnamed(l, v) ==
  /\ inserting = l
  /\ inverters' = [inverters EXCEPT ![l] = @ \cup {None}]
  /\ inserting' = None
  /\ UNCHANGED ip

InsertEnds(l, v) ==
  /\ inserting = l
  /\ inverters' = [inverters EXCEPT ![l] = @ \cup {v}]
  /\ inserting' = None
  /\ UNCHANGED ip

-----------------------------------------------------------------------------
(* Searching, as findInverterInRegistry does it.                           *)

(* A request that names inverter v: the pointers to the dataloggers are    *)
(* copied under the mutex.  known is history: where v is registered by now. *)
Begin(s, v) ==
  /\ search[s] = Idle
  /\ MutexFree
  /\ search' = [search EXCEPT ![s] =
       [inverter |-> v, todo |-> Registered,
        known |-> {l \in Datalogger : v \in inverters[l]}]]
  /\ UNCHANGED <<registryVars, crashed>>

(* The iteration over the map of the next datalogger, in any order, without *)
(* the mutex: the runtime may catch it while the map is being written.     *)
Visit(s, l) ==
  /\ search[s] # Idle
  /\ l \in search[s].todo
  /\ \/ inserting = l /\ crashed' = TRUE /\ UNCHANGED search
     \/ /\ search' = [search EXCEPT ![s] =
             IF @.inverter \in inverters[l] THEN Idle
             ELSE [search[s] EXCEPT !.todo = @ \ {l}]]
        /\ UNCHANGED crashed
  /\ UNCHANGED registryVars

(* Nothing found: the handler answers that there is no such inverter.      *)
GiveUp(s) ==
  /\ search[s] # Idle
  /\ search[s].todo = {}
  /\ search' = [search EXCEPT ![s] = Idle]
  /\ UNCHANGED <<registryVars, crashed>>

SearchStep(s) ==
  \/ \E v \in Inverter : Begin(s, v)
  \/ \E l \in Datalogger : Visit(s, l)
  \/ GiveUp(s)

-----------------------------------------------------------------------------
(* Properties.                                                             *)

SearchRecord ==
  [inverter : Inverter, todo : SUBSET Datalogger, known : SUBSET Datalogger]

RegistryTypeOK ==
  /\ ip        \in [Datalogger -> Host \cup {None}]
  /\ inverters \in [Datalogger -> SUBSET Inverter]
  /\ inserting \in Datalogger \cup {None}
  /\ search    \in [Search -> SearchRecord \cup {Idle}]
  /\ crashed   \in BOOLEAN

(* A search that finds nothing is right about the inverters that were      *)
(* registered when it began, although it walks through live maps and       *)
(* dataloggers register themselves again meanwhile, from wherever they are *)
(* (domain/registry.go:40-46, api/server.go:780-790).                      *)
KnownInvertersAreFound ==
  \A s \in Search :
    search[s] # Idle => (search[s].todo = {} => search[s].known = {})

(* "Test concurrent access to ensure thread safety"                        *)
(* (domain/domain_test.go:203): using the registry from several goroutines *)
(* does not end the program.                                               *)
NobodyCrashes == ~crashed

=============================================================================
