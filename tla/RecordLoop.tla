----------------------------- MODULE RecordLoop -----------------------------
(***************************************************************************)
(* What becomes of a record: the part of the connection loop of            *)
(* internal/service/server.go that reads it, answers it, parses it and     *)
(* registers its devices, with the decisions of                            *)
(* internal/protocol/responses.go and the registry.                        *)
(*                                                                         *)
(* The server takes what one Read returns for one record.  TCP promises no *)
(* such thing: a Read may return a part of a record or several records, of *)
(* which only the first is looked at.  What saves the answers is that the  *)
(* loop keeps nothing from one Read to the next, and that a datalogger     *)
(* repeats a record nobody answered.  Nothing saves the registry: what     *)
(* begins in the middle of a record is parsed and registered like a record.*)
(*                                                                         *)
(* A datalogger has one connection at a time and may come back from        *)
(* another address; what it sent on the old connection is still read.  The *)
(* datalogger and the network are external.                                *)
(***************************************************************************)
EXTENDS DeviceRegistry, Naturals, Sequences

CONSTANTS
  Conn,        \* connections
  LoggerOf,    \* [Conn -> Datalogger]
  HostOf,      \* [Conn -> Host]
  InverterOf,  \* [Conn -> Inverter]: the inverter its records name
  Sends,       \* the types of records the dataloggers send
  MaxWire      \* records and pieces of records under way on a connection

Acknowledged == {"03", "04", "50", "1b", "20"}
Echoed       == {"16"}
Commands     == {"05", "06", "10", "18", "19", "29"}
Types        == Acknowledged \cup Echoed \cup Commands

ASSUME LoopAssumption ==
  /\ LoggerOf \in [Conn -> Datalogger] /\ HostOf \in [Conn -> Host]
  /\ InverterOf \in [Conn -> Inverter]
  /\ Sends \subseteq Types
  /\ MaxWire \in Nat \ {0}

VARIABLES
  link,     \* the datalogger's side of a connection
  wire,     \* what it has sent and the server has not read
  seq,      \* the sequence number of its last record, modulo 2
  waiting,  \* the type of that record while it wants an answer; None
  loop,     \* where the goroutine of the connection is
  data,     \* what the last Read returned begins with, until it is done
  parsed    \* the serial numbers found in it, while they are registered

deviceVars == <<link, wire, seq, waiting>>
loopVars   == <<loop, data, parsed>>
vars == <<deviceVars, loopVars, regVars>>

(* A record; the first bytes of one, with or without its type in byte 7;   *)
(* what is left of it.                                                     *)
Whole(t, n) == [part |-> "whole", type |-> t, seq |-> n]
Head8(r)    == [r EXCEPT !.part = "head"]
IsWhole(r, t) == r.part = "whole" /\ r.type = t
Stub        == [part |-> "stub"]
Rest        == [part |-> "rest"]

Items ==
  {Stub, Rest} \cup [part : {"whole", "head"}, type : Sends, seq : 0..1]

(* The serial numbers of a datalogger and, None if empty, of an inverter.  *)
Serials == [logger : Datalogger, inverter : Inverter \cup {None}]

ASSUME NoneAssumption == None \notin Items \cup Sends \cup Serials

Init ==
  /\ RegistryInit
  /\ link    = [c \in Conn |-> "new"]
  /\ wire    = [c \in Conn |-> <<>>]
  /\ seq     = [c \in Conn |-> 0]
  /\ waiting = [c \in Conn |-> None]
  /\ loop    = [c \in Conn |-> "read"]
  /\ data    = [c \in Conn |-> None]
  /\ parsed  = [c \in Conn |-> None]

Goto(c, p) == loop' = [loop EXCEPT ![c] = p]

-----------------------------------------------------------------------------
(* The datalogger (external).                                              *)

Connect(c) ==
  /\ link[c] = "new"
  /\ \A d \in Conn : LoggerOf[d] = LoggerOf[c] => link[d] # "up"
  /\ link' = [link EXCEPT ![c] = "up"]
  /\ UNCHANGED <<wire, seq, waiting, loopVars, regVars>>

Put(c, t, n) ==
  /\ link[c] = "up" /\ Len(wire[c]) < MaxWire
  /\ wire' = [wire EXCEPT ![c] = Append(@, Whole(t, n))]
  /\ UNCHANGED <<link, loopVars, regVars>>

(* The next record, or the answer to a command, which wants no answer.     *)
Send(c, t) ==
  /\ waiting[c] = None
  /\ Put(c, t, 1 - seq[c])
  /\ seq' = [seq EXCEPT ![c] = 1 - @]
  /\ waiting' = [waiting EXCEPT ![c] = IF t \in Commands THEN None ELSE t]

(* The last record, when nobody answered although it has been taken.       *)
Repeat(c) ==
  /\ waiting[c] # None /\ wire[c] = <<>>
  /\ Put(c, waiting[c], seq[c])
  /\ UNCHANGED <<seq, waiting>>

(* The datalogger gives the connection up; it may come back on another.    *)
Leave(c) ==
  /\ link[c] = "up"
  /\ link'    = [link EXCEPT ![c] = "down"]
  /\ waiting' = [waiting EXCEPT ![c] = None]
  /\ UNCHANGED <<wire, seq, loopVars, regVars>>

-----------------------------------------------------------------------------
(* Reading.                                                                *)

Take(c, item, left) ==
  /\ loop[c] = "read"
  /\ data' = [data EXCEPT ![c] = item]
  /\ wire' = [wire EXCEPT ![c] = left]
  /\ Goto(c, "answer")
  /\ UNCHANGED <<link, seq, waiting, parsed, regVars>>

(* A Read returns everything that is there, of which the rest is lost,     *)
ReadAll(c) ==
  /\ wire[c] # <<>>
  /\ Take(c, Head(wire[c]), <<>>)

(* or a part of it, up to the end of a record,                             *)
ReadSome(c) ==
  \E n \in 1..(Len(wire[c]) - 1) :
    Take(c, Head(wire[c]), SubSeq(wire[c], n + 1, Len(wire[c])))

(* or up to the middle of one.                                             *)
ReadInto(c) ==
  \E n \in DOMAIN wire[c] :
    /\ wire[c][n].part = "whole"
    /\ \E item \in IF n = 1 THEN {Head8(wire[c][1]), Stub} ELSE {Head(wire[c])} :
         Take(c, item, <<Rest>> \o SubSeq(wire[c], n + 1, Len(wire[c])))

(* The read error of a connection that was given up.                       *)
ReadError(c) ==
  /\ loop[c] = "read" /\ link[c] = "down" /\ wire[c] = <<>>
  /\ Goto(c, "closed")
  /\ UNCHANGED <<deviceVars, data, parsed, regVars>>

-----------------------------------------------------------------------------
(* Answering.                                                              *)

(* Mutant: one type of record is forgotten.                                *)
ShouldRespondButPing(t) == t \in Acknowledged

(* ShouldRespond and HandleIncomingData switch over the same types.        *)
ShouldRespond(t) == t \in Acknowledged \cup Echoed

(* The type found in byte 7: anything in the middle of a record, nothing   *)
(* in fewer than 8 bytes.                                                  *)
SeenTypes(item) ==
  CASE item.part = "stub" -> {}
    [] item.part = "rest" -> Types
    [] OTHER              -> {item.type}

(* The answer repeats the sequence number and the type of what it answers, *)
(* a ping comes back as it was read.  The datalogger compares; what the    *)
(* server took for the beginning of a record means nothing to it.          *)
Settles(item, c) ==
  /\ item.part = "whole" \/ (item.part = "head" /\ item.type \in Acknowledged)
  /\ item.type = waiting[c] /\ item.seq = seq[c]

(* sendResponse; an answer that cannot be written is gone.                 *)
Respond(c) ==
  \E written \in BOOLEAN :
    waiting' = IF written /\ Settles(data[c], c)
               THEN [waiting EXCEPT ![c] = None] ELSE waiting

Answer(c) ==
  /\ loop[c] = "answer"
  /\ \/ (\E t \in SeenTypes(data[c]) : ShouldRespond(t)) /\ Respond(c)
     \/ /\ SeenTypes(data[c]) = {} \/ \E t \in SeenTypes(data[c]) : ~ShouldRespond(t)
        /\ UNCHANGED waiting
  /\ Goto(c, "parse")
  /\ UNCHANGED <<link, wire, seq, data, parsed, regVars>>

-----------------------------------------------------------------------------
(* Parsing and registering.                                                *)

(* Parse looks at the length of what was read, not at its type.  A ping is *)
(* too short; the beginning of a record, the answer to a command and what  *)
(* is left of a record may be long enough.                                 *)
MayParse(item) == item.part # "stub" /\ (item.part # "rest" => item.type \notin Echoed)

(* What is found where a record has its serial numbers: those of a record, *)
(* without the inverter if the record was cut or its layout names none; in *)
(* the answer to a command anything in the place of the inverter; in the   *)
(* middle of a record anything at all.                                     *)
Names(c) ==
  CASE data[c].part = "rest" -> Serials
    [] data[c].part # "rest" /\ data[c].type \in Commands ->
         {n \in Serials : n.logger = LoggerOf[c]}
    [] OTHER ->
         {n \in Serials : n.logger = LoggerOf[c] /\ n.inverter \in {InverterOf[c], None}}

Back(c) ==
  /\ Goto(c, "read")
  /\ data'   = [data EXCEPT ![c] = None]
  /\ parsed' = [parsed EXCEPT ![c] = None]

(* There is no layout, or it names no datalogger: nothing is registered.   *)
Skip(c) ==
  /\ loop[c] = "parse"
  /\ Back(c)
  /\ UNCHANGED <<deviceVars, regVars>>

(* RegisterDatalogger, and without an inverter that is all.                *)
Register(c) ==
  /\ loop[c] = "parse"
  /\ MayParse(data[c])
  /\ \E n \in Names(c) :
       /\ RegisterDatalogger(n.logger, HostOf[c])
       /\ IF n.inverter = None THEN Back(c)
          ELSE /\ Goto(c, "inverter")
               /\ parsed' = [parsed EXCEPT ![c] = n]
               /\ UNCHANGED data
  /\ UNCHANGED <<deviceVars, search, crashed>>

(* RegisterInverter; a new one takes two steps.                            *)
AddInverter(c) ==
  /\ \/ /\ loop[c] = "inverter"
        /\ RefreshInverter(parsed[c].logger, parsed[c].inverter)
        /\ Back(c)
     \/ /\ loop[c] = "inverter"
        /\ InsertBegins(parsed[c].logger, parsed[c].inverter)
        /\ Goto(c, "insert") /\ UNCHANGED <<data, parsed>>
     \/ /\ loop[c] = "insert"
        /\ InsertEnds(parsed[c].logger, parsed[c].inverter)
        /\ Back(c)
  /\ UNCHANGED <<deviceVars, search, crashed>>

-----------------------------------------------------------------------------

Loop(c) ==
  \/ ReadAll(c) \/ ReadSome(c) \/ ReadInto(c) \/ ReadError(c)
  \/ Answer(c) \/ Skip(c) \/ Register(c) \/ AddInverter(c)

Datalog(c) ==
  \/ Connect(c) \/ Repeat(c) \/ Leave(c)
  \/ \E t \in Sends : Send(c, t)

SearchRegistry(s) == SearchStep(s) /\ UNCHANGED <<deviceVars, loopVars>>

(* After a crash nothing happens any more.                                 *)
Crashed == crashed /\ UNCHANGED vars

Next ==
  \/ /\ ~crashed
     /\ \/ \E c \in Conn : Loop(c) \/ Datalog(c)
        \/ \E s \in Search : SearchRegistry(s)
  \/ Crashed

Spec == Init /\ [][Next]_vars

(* What a whole record of the datalogger's own is registered for.          *)
RegisterRecord(c) ==
  /\ loop[c] = "parse" /\ \E t \in Acknowledged : IsWhole(data[c], t)
  /\ Register(c)

(* The goroutines run; records of every type are read from beginning to    *)
(* end, answers can be written and whole records have a layout that names  *)
(* the datalogger, again and again if not every time.  A datalogger        *)
(* repeats what was not answered and goes on sending data.                 *)
FairConnection(c) ==
  /\ WF_vars(~crashed /\ Loop(c))
  /\ SF_vars(~crashed /\ Answer(c) /\ waiting' # waiting)
  /\ SF_vars(~crashed /\ RegisterRecord(c))
  /\ WF_vars(~crashed /\ Repeat(c))
  /\ SF_vars(~crashed /\ \E t \in Acknowledged : Send(c, t))
  /\ \A t \in Sends \ Commands : SF_vars(~crashed /\ ReadAll(c) /\ IsWhole(data'[c], t))

FairSpec == Spec /\ \A c \in Conn : FairConnection(c)

-----------------------------------------------------------------------------
(* Properties.                                                             *)

TypeOK ==
  /\ RegistryTypeOK
  /\ link    \in [Conn -> {"new", "up", "down"}]
  /\ wire    \in [Conn -> Seq(Items)]
  /\ \A c \in Conn : Len(wire[c]) <= MaxWire
  /\ seq     \in [Conn -> 0..1]
  /\ waiting \in [Conn -> Sends \cup {None}]
  /\ loop    \in [Conn -> {"read", "answer", "parse", "inverter", "insert", "closed"}]
  /\ data    \in [Conn -> Items \cup {None}]
  /\ \A c \in Conn : data[c] = None <=> loop[c] \in {"read", "closed"}
  /\ parsed  \in [Conn -> [logger : Datalogger, inverter : Inverter] \cup {None}]
  /\ \A c \in Conn : parsed[c] = None <=> loop[c] \notin {"inverter", "insert"}

(* Every record a datalogger waits for is answered in the end, in whatever *)
(* pieces it arrives and with whatever it is read together, unless the     *)
(* datalogger gives up (service/server.go:285, responses.go:322).          *)
RecordsAreAnswered ==
  \A c \in Conn : waiting[c] # None ~> (waiting[c] = None \/ crashed)

(* The registry catches up with a datalogger that moved: while it stays    *)
(* connected from one address that address is registered in the end, for   *)
(* good, although the goroutine of its old connection may register the old *)
(* address after the new one was (service/server.go:455,                   *)
(* domain/registry.go:40-46).  This supposes that its records have a       *)
(* layout that names it, and that it is not what the middle of another     *)
(* datalogger's record happens to name.                                    *)
AddressCatchesUp ==
  \A c \in Conn :
    <>[](link[c] = "up") => <>[](ip[LoggerOf[c]] = HostOf[c] \/ crashed)

=============================================================================
