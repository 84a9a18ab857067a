--------------------------- MODULE CommandChannel ---------------------------
(***************************************************************************)
(* How an HTTP request reaches a datalogger and how its answer comes back: *)
(* the handlers of internal/api/server.go, the queues and the response     *)
(* processor of internal/api/command_tracker.go, and the part of the       *)
(* connection loop of internal/service/server.go that drives them.         *)
(*                                                                         *)
(* A handler builds a command, puts it into the queue of the datalogger's  *)
(* host, clears the tracker's entry for the register and polls that entry  *)
(* until an answer appears in it or its time is up.  The goroutine of a    *)
(* connection reads one record, stores it if it is an answer, and then     *)
(* sends at most one queued command: commands wait for the device to       *)
(* speak.  Nothing ties an answer to the request it answers but the        *)
(* command type and two bytes that are taken for its register, and         *)
(* nothing ties a queue to a device but the host.                          *)
(*                                                                         *)
(* Each request is made once and its command is named after it; a device   *)
(* stands for its one connection (DeviceServer has the connections).       *)
(***************************************************************************)
EXTENDS Naturals, Sequences

CONSTANTS
  Request,          \* the HTTP requests
  Device,           \* the dataloggers
  Host,             \* the IP addresses they connect from
  HostOf,           \* [Device -> Host]
  Register,         \* register numbers, as two bytes of a record may spell them
  Six,              \* the dataloggers whose records are of protocol 06
  Replies,          \* the answers a datalogger may send
  QueueCap,         \* capacity of a queue; 100 in the code
  ProtocolDigits,   \* length of DataloggerInfo.Protocol, in hex digits
  InverterNoDigits, \* length of InverterInfo.InverterNo
  ShortTimeout,     \* requestTimeout is shorter than the 100 ms poll
  NoRequest

ASSUME ChannelAssumption ==
  /\ HostOf \in [Device -> Host]
  /\ QueueCap \in Nat \ {0}
  /\ ProtocolDigits \in {0, 2}
  /\ InverterNoDigits \in 0..2
  /\ ShortTimeout \in BOOLEAN
  /\ {"multiregister", "range"} \cap Register = {}
  /\ Six \subseteq Device
  /\ Replies \subseteq [length : Nat, at : [{36, 76} -> Register], value : Nat]

VARIABLES
  pc,         \* where the handler of a request is
  ask,        \* what the request asks for: kind, device and register
  queue,      \* the queues of CommandQueueManager, by host
  tracker,    \* ResponseTracker: the request whose command was answered
  converted,  \* answers whose Value formatSingleResponse turned into a number
  held,       \* the answers a handler has taken from the tracker
  loop,       \* where the connection loop of a device is
  sending,    \* the command it has taken from the queue
  inbox,      \* the commands a device has received and not answered
  answered,   \* history: the commands whose answer has been stored
  spelled,    \* history: those of them whose answer has its register in place
  before      \* history: what was answered when a request cleared its entry

requestVars == <<pc, ask, held, before>>
trackerVars == <<tracker, converted, answered, spelled>>
loopVars    == <<loop, sending, inbox>>
vars == <<requestVars, queue, trackerVars, loopVars>>

-----------------------------------------------------------------------------
(* Requests, commands and keys.                                            *)

InverterKinds == {"invRead", "invWrite", "multiRead", "multiWrite"}
MultiKinds    == {"multiRead", "multiWrite"}
Kinds == {"dlRead", "dlWrite", "regall"} \cup InverterKinds

Asks == [kind : Kinds, device : Device, register : Register]

ASSUME NoRequestAssumption == NoRequest \notin Request \cup Asks

Types == {"05", "06", "10", "18", "19"}
Keys  == Types \X (Register \cup {"multiregister", "range"})

Type(k) ==
  CASE k \in {"invRead", "regall"} -> "05"
    [] k = "invWrite"              -> "06"
    [] k \in MultiKinds            -> "10"
    [] k = "dlWrite"               -> "18"
    [] k = "dlRead"                -> "19"

(* The key a handler clears and polls.                                     *)
WaitKey(a) ==
  <<Type(a.kind), IF a.kind \in MultiKinds THEN "multiregister" ELSE a.register>>

(* Mutant: one of the four copies of the offset was forgotten.             *)
OffsetForgotten(k, d, n) == IF d \in Six /\ n >= 76 /\ k # "dlRead" THEN 40 ELSE 0

(* A record of protocol 06 has the register 40 bytes further on, but only  *)
(* if it is long enough to have it there.                                  *)
Offset(k, d, n) == IF d \in Six /\ n >= 76 THEN 40 ELSE 0

(* The bytes an answer needs; a read of an inverter is empty with one      *)
(* less, a read of a datalogger says how long its value is.                *)
Needs(k, a) ==
  CASE k = "invRead"  -> 49
    [] k = "invWrite" -> 46
    [] k = "dlWrite"  -> 44
    [] k = "dlRead"   -> 44 + a.value

(* The keys an answer with register g is stored under: one to a write      *)
(* holds for a read as well.                                               *)
AnswerKeys(k, g) == {<<Type(k), g>>} \cup {<<"05", g>> : w \in {"invWrite"} \cap {k}}

(* Where answer a of datalogger d to a command of kind k goes: nowhere if  *)
(* it is too short, one to a multi-register command to the key made of its *)
(* first and last register.                                                *)
Files(k, d, a) ==
  LET offset == Offset(k, d, a.length)
  IN  IF k \in MultiKinds
      THEN IF a.length < 86 THEN {} ELSE {<<"10", "range">>}
      ELSE IF a.length < Needs(k, a) + offset THEN {}
      ELSE AnswerKeys(k, a.at[36 + offset])

(* An answer about register g has it in place: its two bytes are where the *)
(* protocol of datalogger d has them.  That matters only for one register. *)
Spells(k, d, a, g) ==
  \/ k \in MultiKinds
  \/ IF d \in Six THEN a.length >= 76 /\ a.at[76] = g ELSE a.at[36] = g

(* fmt "%04x00%s%04x%s%s": sequence number, protocol, length, device ID,   *)
(* type, in hex digits.  The body that follows is made of whole bytes.     *)
DeviceIdDigits(k) ==
  IF k \notin InverterKinds THEN 2
  ELSE IF InverterNoDigits < 2 THEN InverterNoDigits + 1 ELSE InverterNoDigits

HeaderDigits(k) == 4 + 2 + ProtocolDigits + 4 + DeviceIdDigits(k) + 2

(* hex.DecodeString wants an even number of digits.                        *)
Decodes(k) == HeaderDigits(k) % 2 = 0

(* A device finds the protocol in byte 3 and the type in byte 7 of a       *)
(* record, as this program does, or it does not know what it is asked.     *)
Readable(k) == HeaderDigits(k) = 16

QueueOf(r) == HostOf[ask[r].device]

-----------------------------------------------------------------------------

Init ==
  /\ pc        = [r \in Request |-> "idle"]
  /\ ask       = [r \in Request |-> NoRequest]
  /\ queue     = [h \in Host |-> <<>>]
  /\ tracker   = [k \in Keys |-> NoRequest]
  /\ converted = {}
  /\ held      = [r \in Request |-> {}]
  /\ loop      = [d \in Device |-> "read"]
  /\ sending   = [d \in Device |-> NoRequest]
  /\ inbox     = [d \in Device |-> {}]
  /\ answered  = {}
  /\ spelled   = {}
  /\ before    = [r \in Request |-> {}]

Goto(r, p) == pc' = [pc EXCEPT ![r] = p]

-----------------------------------------------------------------------------
(* The HTTP handlers.                                                      *)

(* A valid request of kind k for register g of device d: its command is    *)
(* built, regall has none.                                                 *)
Begin(r, k, d, g) ==
  /\ pc[r] = "idle"
  /\ ask' = [ask EXCEPT ![r] = [kind |-> k, device |-> d, register |-> g]]
  /\ Goto(r, IF k = "regall" THEN "copy"
             ELSE IF Decodes(k) THEN "queue" ELSE "unbuildable")
  /\ UNCHANGED <<held, before, queue, trackerVars, loopVars>>

DataloggerGet(r, d, g)    == Begin(r, "dlRead", d, g)
DataloggerPut(r, d, g)    == Begin(r, "dlWrite", d, g)
InverterGet(r, d, g)      == \E k \in {"invRead", "regall"} : Begin(r, k, d, g)
InverterPut(r, d, g)      == Begin(r, "invWrite", d, g)
MultiregisterGet(r, d, g) == Begin(r, "multiRead", d, g)
MultiregisterPut(r, d, g) == Begin(r, "multiWrite", d, g)

Arrive(r, d, g) ==
  \/ DataloggerGet(r, d, g) \/ DataloggerPut(r, d, g)
  \/ InverterGet(r, d, g) \/ InverterPut(r, d, g)
  \/ MultiregisterGet(r, d, g) \/ MultiregisterPut(r, d, g)

(* Mutant: a queue takes one command too many.                             *)
QueueOneMore(r) ==
  /\ pc[r] = "queue"
  /\ IF Len(queue[QueueOf(r)]) <= QueueCap
     THEN /\ queue' = [queue EXCEPT ![QueueOf(r)] = Append(@, r)]
          /\ Goto(r, "clear")
     ELSE Goto(r, "refused") /\ UNCHANGED queue
  /\ UNCHANGED <<ask, held, before, trackerVars, loopVars>>

(* QueueCommand never blocks: a full queue refuses the command.            *)
Queue(r) ==
  /\ pc[r] = "queue"
  /\ IF Len(queue[QueueOf(r)]) < QueueCap
     THEN /\ queue' = [queue EXCEPT ![QueueOf(r)] = Append(@, r)]
          /\ Goto(r, "clear")
     ELSE Goto(r, "refused") /\ UNCHANGED queue
  /\ UNCHANGED <<ask, held, before, trackerVars, loopVars>>

(* Mutant: the old answer stays in the tracker.                            *)
ClearForgotten(r) ==
  /\ pc[r] = "clear"
  /\ before' = [before EXCEPT ![r] = answered]
  /\ Goto(r, "wait")
  /\ UNCHANGED <<ask, held, queue, trackerVars, loopVars>>

(* DeleteResponse, when the command is in the queue already.               *)
Clear(r) ==
  /\ pc[r] = "clear"
  /\ tracker' = [tracker EXCEPT ![WaitKey(ask[r])] = NoRequest]
  /\ before'  = [before EXCEPT ![r] = answered]
  /\ Goto(r, "wait")
  /\ UNCHANGED <<ask, held, queue, converted, answered, spelled, loopVars>>

(* A tick of the poll that finds an answer; one that finds none changes    *)
(* nothing.                                                                *)
Poll(r) ==
  /\ pc[r] = "wait"
  /\ tracker[WaitKey(ask[r])] # NoRequest
  /\ held' = [held EXCEPT ![r] = {tracker[WaitKey(ask[r])]}]
  /\ Goto(r, IF ask[r].kind = "invRead" THEN "format" ELSE "answered")
  /\ UNCHANGED <<ask, before, queue, trackerVars, loopVars>>

(* Mutant: every wait starts a new timer after every tick.                 *)
TimeoutRestarted(r) ==
  /\ pc[r] = "wait"
  /\ ShortTimeout
  /\ Goto(r, "timedout")
  /\ UNCHANGED <<ask, held, before, queue, trackerVars, loopVars>>

(* waitForResponse starts its timer once.  The wait of a multi-register    *)
(* request starts a new one after every tick, so that it runs out only if  *)
(* it is shorter than the tick.                                            *)
Timeout(r) ==
  /\ pc[r] = "wait"
  /\ ask[r].kind \in MultiKinds => ShortTimeout
  /\ Goto(r, "timedout")
  /\ UNCHANGED <<ask, held, before, queue, trackerVars, loopVars>>

(* formatSingleResponse: the handler holds a pointer to the answer in the  *)
(* tracker, so that what it converts is converted for everyone.            *)
Format(r) ==
  /\ pc[r] = "format"
  /\ IF held[r] \subseteq converted
     THEN Goto(r, "panicked") /\ UNCHANGED converted
     ELSE /\ Goto(r, "answered")
          /\ \E decimal \in BOOLEAN :
               converted' = IF decimal THEN converted \cup held[r] ELSE converted
  /\ UNCHANGED <<ask, held, before, queue, tracker, answered, spelled, loopVars>>

(* regall of an inverter: GetAllResponses, then formatAllResponses.        *)
Copy(r) ==
  /\ pc[r] = "copy"
  /\ held' = [held EXCEPT ![r] =
                {tracker[<<"05", g>>] : g \in Register} \ {NoRequest}]
  /\ Goto(r, "formatAll")
  /\ UNCHANGED <<ask, before, queue, trackerVars, loopVars>>

FormatAll(r) ==
  /\ pc[r] = "formatAll"
  /\ Goto(r, IF held[r] \cap converted = {} THEN "answered" ELSE "panicked")
  /\ UNCHANGED <<ask, held, before, queue, trackerVars, loopVars>>

Handle(r) ==
  \/ Queue(r) \/ Clear(r) \/ Poll(r) \/ Timeout(r)
  \/ Format(r) \/ Copy(r) \/ FormatAll(r)

-----------------------------------------------------------------------------
(* The connection loop.                                                    *)

(* Mutant: the queue is looked at only after an answer.                    *)
DataRecordOnly(d) ==
  /\ loop[d] = "read"
  /\ UNCHANGED vars

(* A record that is no answer: ProcessResponse ignores it.                 *)
DataRecord(d) ==
  /\ loop[d] = "read"
  /\ loop' = [loop EXCEPT ![d] = "pop"]
  /\ UNCHANGED <<requestVars, queue, trackerVars, sending, inbox>>

(* An answer to a command the device has received, whichever, in whatever  *)
(* order: ProcessResponse stores it, under what its bytes say, or finds it *)
(* too short.                                                              *)
Answer(d, r) ==
  /\ loop[d] = "read"
  /\ r \in inbox[d]
  /\ Readable(ask[r].kind)
  /\ inbox' = [inbox EXCEPT ![d] = @ \ {r}]
  /\ loop'  = [loop EXCEPT ![d] = "pop"]
  /\ \E a \in Replies :
       LET keys == Files(ask[r].kind, d, a)
       IN  IF keys = {} THEN UNCHANGED <<tracker, answered, spelled>>
           ELSE /\ tracker'  = [k \in Keys |-> IF k \in keys THEN r ELSE tracker[k]]
                /\ answered' = answered \cup {r}
                /\ spelled'  = IF Spells(ask[r].kind, d, a, ask[r].register)
                               THEN spelled \cup {r} ELSE spelled
  /\ UNCHANGED <<requestVars, queue, converted, sending>>

(* Mutant: the command is read from the queue and left in it.              *)
PopPeeks(d) ==
  /\ loop[d] = "pop"
  /\ LET h == HostOf[d] IN
       IF queue[h] = <<>>
       THEN loop' = [loop EXCEPT ![d] = "read"] /\ UNCHANGED sending
       ELSE /\ sending' = [sending EXCEPT ![d] = Head(queue[h])]
            /\ loop'    = [loop EXCEPT ![d] = "write"]
  /\ UNCHANGED <<requestVars, queue, trackerVars, inbox>>

(* processQueuedCommands, after every record that was read.                *)
Pop(d) ==
  /\ loop[d] = "pop"
  /\ LET h == HostOf[d] IN
       IF queue[h] = <<>>
       THEN loop' = [loop EXCEPT ![d] = "read"] /\ UNCHANGED <<queue, sending>>
       ELSE /\ sending' = [sending EXCEPT ![d] = Head(queue[h])]
            /\ queue'   = [queue EXCEPT ![h] = Tail(@)]
            /\ loop'    = [loop EXCEPT ![d] = "write"]
  /\ UNCHANGED <<requestVars, trackerVars, inbox>>

(* sendCommandToDevice; a command that cannot be written is gone.          *)
Write(d) ==
  /\ loop[d] = "write"
  /\ \E written \in BOOLEAN :
       inbox' = IF written THEN [inbox EXCEPT ![d] = @ \cup {sending[d]}] ELSE inbox
  /\ sending' = [sending EXCEPT ![d] = NoRequest]
  /\ loop'    = [loop EXCEPT ![d] = "read"]
  /\ UNCHANGED <<requestVars, queue, trackerVars>>

(* The device ignores a command, or its answer is lost.                    *)
Lose(d, r) ==
  /\ r \in inbox[d]
  /\ inbox' = [inbox EXCEPT ![d] = @ \ {r}]
  /\ UNCHANGED <<requestVars, queue, trackerVars, loop, sending>>

Serve(d) ==
  \/ DataRecord(d) \/ Pop(d) \/ Write(d)
  \/ \E r \in Request : Answer(d, r)

-----------------------------------------------------------------------------

Next ==
  \/ \E r \in Request :
       Handle(r) \/ \E d \in Device, g \in Register : Arrive(r, d, g)
  \/ \E d \in Device : Serve(d) \/ \E r \in Request : Lose(d, r)

Spec == Init /\ [][Next]_vars

(* Handlers run to their end and connected devices go on sending records.  *)
Fairness ==
  /\ \A r \in Request : WF_vars(Handle(r))
  /\ \A d \in Device : WF_vars(Serve(d))

FairSpec == Spec /\ Fairness

-----------------------------------------------------------------------------
(* Properties.                                                             *)

Ended == {"unbuildable", "refused", "timedout", "answered", "panicked"}

Steps == {"idle", "queue", "clear", "wait", "format", "copy", "formatAll"} \cup Ended

TypeOK ==
  /\ pc        \in [Request -> Steps]
  /\ ask       \in [Request -> Asks \cup {NoRequest}]
  /\ queue     \in [Host -> Seq(Request)]
  /\ \A h \in Host : Len(queue[h]) <= QueueCap
  /\ tracker   \in [Keys -> Request \cup {NoRequest}]
  /\ converted \in SUBSET Request
  /\ held      \in [Request -> SUBSET Request]
  /\ loop      \in [Device -> {"read", "pop", "write"}]
  /\ sending   \in [Device -> Request \cup {NoRequest}]
  /\ inbox     \in [Device -> SUBSET Request]
  /\ answered  \in SUBSET Request
  /\ spelled   \in SUBSET answered
  /\ before    \in [Request -> SUBSET Request]
  /\ \A r \in Request : pc[r] = "idle" <=> ask[r] = NoRequest

Queued(r) == \E h \in Host : \E i \in DOMAIN queue[h] : queue[h][i] = r

(* Every place the command of a request is at.                             *)
Places(r) ==
  {p \in {"queue"} \X Host \X (1..QueueCap) :
     p[3] \in DOMAIN queue[p[2]] /\ queue[p[2]][p[3]] = r}
  \cup {<<"sending", d>> : d \in {e \in Device : sending[e] = r}}
  \cup {<<"inbox", d>>   : d \in {e \in Device : r \in inbox[e]}}
  \cup {<<"answered">>   : q \in answered \cap {r}}

(* A command is queued, being sent, at a device or answered, never two of  *)
(* them and never twice: no device executes it a second time, two          *)
(* connections of one host that drain the same queue do not both get it,   *)
(* and a request that was told its command could not be queued has none    *)
(* anywhere (command_tracker.go:54-65, service/server.go:345-356).         *)
CommandIsInOnePlace ==
  \A r \in Request :
    /\ \A p, q \in Places(r) : p = q
    /\ pc[r] \in {"idle", "queue", "unbuildable", "refused"} => Places(r) = {}

(* What a handler reports is never an answer that was stored before it     *)
(* cleared the entry: a retry after a timeout is not served with what the  *)
(* first attempt left behind (api/server.go:1137-1139).                    *)
AnswersAreFresh ==
  \A r \in Request :
    ask[r] # NoRequest /\ ask[r].kind # "regall" => held[r] \cap before[r] = {}

(* What a request that polls is answered with has been sent for a command  *)
(* of its own type or, a read, for a write, and it is about the register   *)
(* of the request if it has its own in place.  It may be another request's *)
(* answer, a multi-register request gets none, and an answer of protocol   *)
(* 06 that is cut before byte 76 may be about anything                     *)
(* (command_tracker.go:145-158, 189-205, 234-249, 269-284).                *)
AnswersFit ==
  \A r \in Request : ask[r] # NoRequest /\ ask[r].kind # "regall" =>
    \A q \in held[r] :
      /\ ask[q].kind \in {ask[r].kind} \cup
            (IF ask[r].kind = "invRead" THEN {"invWrite"} ELSE {})
      /\ q \in spelled => ask[q].register = ask[r].register

(* Every request but those for several registers ends.                     *)
SingleRequestsEnd ==
  \A r \in Request :
    (pc[r] # "idle" /\ ask[r].kind \notin MultiKinds) ~> (pc[r] \in Ended)

(* As long as the devices of a host speak, no command stays in its queue,  *)
(* whether anyone still waits for the answer or not.                       *)
QueuedCommandsAreSent ==
  \A r \in Request : Queued(r) ~> ~Queued(r)

-----------------------------------------------------------------------------
(* What the code says of itself and does not keep.                         *)

(* "Configurable timeout" / "Default timeout" (api/server.go:161, 190): a  *)
(* multi-register request ends, with an answer or with "Command timeout".  *)
MultiRequestsEnd ==
  \A r \in Request :
    (pc[r] # "idle" /\ ask[r].kind \in MultiKinds) ~> (pc[r] \in Ended)

(* "Return a copy to avoid race conditions" (api/server.go:137): no other  *)
(* handler changes what regall formats, whose Value is text throughout.    *)
HandlersDoNotPanic ==
  \A r \in Request : pc[r] # "panicked"

=============================================================================
