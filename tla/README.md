# A formal model of go-grott

go-grott is a server for Growatt solar dataloggers. Dataloggers keep a TCP
connection open and send records; the server parses them, publishes them over
MQTT and to PVOutput, and lets HTTP clients read and write registers of the
devices through the same TCP connections.

The TLA+ here models that program from the socket to its outputs: the session
table, the connection handlers with their shutdown, what becomes of a record
that arrives in pieces, the registry of devices, the way of a command from an
HTTP request to a device and back, the MQTT publisher with its startup filter and
the PVOutput client, and, as functions, the frames, layouts and register formats.
TLC checks each module on small instances. Every safety property that a passing
run checks is also proved with TLAPS, for any number of sessions, addresses,
connections, requests and inverters and for frames and values of any content;
liveness stays with TLC.

## Inventory

| component | source | state | operations | talks to |
|---|---|---|---|---|
| session manager | `internal/session/manager.go` | sessions by ID and by address, a ticker, a stop channel; per session: state, last activity, connection | create, look up, remove, expire, close | called by the TCP server; one goroutine of its own |
| TCP server | `internal/service/server.go` | `s.clients`, `s.done`, the listener | accept; one goroutine per connection: read, process, send one queued command; `Stop` | session manager, parser, registry, publisher, monitoring, API server |
| command channel | `internal/api/server.go`, `internal/api/command_tracker.go` | a queue of 100 commands per host, the tracker of answers by type and register | HTTP reads and writes of registers, single and multiple, `regall`; answers; polling with a timeout | registry; the connection handlers drain the queues and store the answers |
| replies and time sync | `internal/service/server.go:360-428, 602-691`, `internal/protocol/responses.go` | counters | acknowledge a record, answer a ping, send a time command a second after record `03` | the device |
| command builder | `internal/protocol/commands.go` | none | frames, CRC, XOR mask | the API server, time sync |
| registry | `internal/domain/registry.go` | dataloggers and their inverters | register, look up | server writes, API reads |
| parser | `internal/parser/parser.go` | layouts, read once | record to values | server |
| format converter | `internal/api/format_converter.go` | none | register text to number and back | API |
| MQTT publisher | `internal/pubsub/mqtt.go` | connection flags, discovery cache, grace period | connect, retry, birth message, publish, close | server; callbacks of the MQTT client |
| autodiscovery | `internal/homeassistant/autodiscovery.go` | none after start | messages from a table | publisher |
| PVOutput | `internal/service/pvoutput/pvoutput.go` | time of last update by inverter | send with a rate limit | server |
| validator | `internal/validation/validator.go` | counters | check packets and fields | the parser, which logs what it finds |
| config, main | `internal/config`, `cmd/main.go` | none | read, wire, wait for a signal | all |

What is hard about it:

* **Reconnection.** The handler of an old connection, the handler of the new one
  from the same address, the cleanup goroutine and `Stop` all take sessions out
  of the same two maps, some by ID, some by address.
* **Keys that are not identities.** Session IDs are an address and a time; the
  client map is keyed by address; queues are keyed by host; answers are keyed by
  type and register. Each may name the wrong thing after something else changed.
* **Lost and late answers.** A command waits until its device speaks, its answer
  may be lost or come after the client was told of a timeout, and nothing in
  an answer says which request it belongs to.
* **Somebody else's connection.** The MQTT client connects again by itself and
  reports it in callbacks of its own goroutines; the publisher keeps a flag of
  the connection, a flag of a subscription and a cache of what was announced,
  none of which is in step with the client.
* **Check, act, record.** The PVOutput limit and the discovery cache are read,
  then a request is made, then they are written, without a lock across.
* **A stream taken for records.** One `Read` is taken for one record, although TCP
  may cut or join them; what is lost must come again, and old data of a
  datalogger that moved may be processed after new.
* **Pointers out of the lock.** The registry hands out its entries, and handlers
  walk through their maps while records register devices.
* **Arithmetic on strings.** Commands, layout keys and register values are put
  together from strings whose lengths nobody checks.
* **Shutdown.** Connections may be accepted, registered and entered into the
  session manager while `Stop` is already past the step that would close them.

`PROJECT.json` lists every such place with its line, and the properties that
watch it.

## Modules

| module | models |
|---|---|
| `SessionTable` | what the session manager promises: one table from address to session, and the set of open connections |
| `SessionManager` | `internal/session/manager.go` in full |
| `SessionManagerProofs` | its invariants and its refinement of `SessionTable`, proved |
| `DeviceServer` | accept loop, connection handlers and `Stop`, composed with `SessionManager` |
| `DeviceServerProofs` | its invariants, and that the manager's theorems hold in it, proved |
| `DeviceRegistry` | `internal/domain/registry.go` and the searches of the HTTP handlers |
| `RecordLoop` | a record from the wire to the registry: reading, answering, parsing, registering; extends `DeviceRegistry` |
| `RecordLoopProofs` | what the loop does to the registry and what a search finds there, proved |
| `CommandChannel` | HTTP handlers, queues, tracker and the part of the connection loop that drives them |
| `CommandChannelProofs` | where a command is and what a handler reports, proved |
| `MqttPublisher` | `internal/pubsub/mqtt.go` without the startup filter: connection, callbacks, background retry, discovery, `Close` |
| `MqttPublisherProofs` | the flags of the connection and of the subscription, proved |
| `StartupFilter` | the startup filter of `internal/pubsub/mqtt.go` |
| `PvOutput` | `internal/service/pvoutput/pvoutput.go`: the rate limit and the requests |
| `Outputs` | what `processData` does with a parsed record: `StartupFilter` and `PvOutput` together |
| `OutputsProofs` | the rate limit and the grace period, proved |
| `Frames` | register commands, the time command, acknowledgements, masks, and their readers, as functions |
| `Layouts` | the choice of a layout and numeric fields, as functions |
| `RegisterValues` | register values in the formats of the API, as functions; extends `Frames` |
| `Codec` | one call of any of these functions, with what is expected of its result |
| `CodecProofs` | what the functions compute, for every input, proved |
| `MC...` | the instances for TLC |

`DeviceServer` composes with `SessionManager`, and `SessionManager` implements
`SessionTable`. `RecordLoop` composes the connection loop with the registry, `Outputs`
the two outputs. A connection handler runs through all of them: `DeviceServer` has
its life, `RecordLoop` what it does with a record (`Loop`), `CommandChannel` the
commands it takes from a queue (`Serve`), `MqttPublisher` (`Work`) and `Outputs`
(`Record`, `Request`) the end of it. They share no variable but the socket, on which each
depends in its own way; put together they would be beyond TLC and say no
more.

### SessionManager

A session is a member of `Session`; its ID is the pair of its address and the
reading of the clock (`generateSessionID`), so IDs collide when the clock shows
the same microsecond twice. `sessions` and `sessionsByAddr` are the two maps.
`NewSession` allocates outside the mutex and `CreateSession` is its critical
section. Every operation under `sm.mutex` is one step, with the exception of
`CleanupExpiredSessions`: the last activity of a session is guarded by the
session's mutex only, so the scan takes one step per session and the removal
another, and `MutexFree` keeps the other users of `sm.mutex` out in between.
`idle` says that the timeout has passed; `GrowIdle` is time passing and
`UpdateActivity` the arrival of data. `HangUp` is somebody closing the
connection without the session (`cleanupConnection`, `Stop`). `inserted` is a
history variable: the sessions `CreateSession` has seen.

Byte counts, device type, serial number and the other fields of a session that
no operation reads are left out, and so is a second call of `Close`, which panics.

### DeviceServer

The handler of connection `c` has a program counter `pc[c]`; each step ends
where another goroutine can get in: at a mutex, at the `done` channel, at the
socket. A connection and its session are the same element. `Accept` contains
the `NewSession` that the handler calls first, because nobody sees it before
`CreateSession`. Two connections of one address overlap only if the first is
closed on one side, as TCP has it; that is exactly when a late cleanup meets its
successor. `Stop` is eight steps, one for each thing it does, the loop over
`s.clients` one step per entry under `clientMutex`. Parsing succeeds or fails
nondeterministically. The context handed to the handlers is cancelled by
`main` only after `Stop`, so `done` stands for both.

### CommandChannel

A request is made once; its command is named after it. `ask[r]` is its kind,
datalogger and register. Kinds with the same control are told apart only by
their protocol type: reads and writes of datalogger and inverter registers,
reads and writes of several registers, `regall`. A handler builds the command
(`Begin`, one action per route that calls it), queues it, clears the tracker's entry, polls and, for an inverter
read, converts the value in place. A connection loop reads one record (an answer
or not), then takes at most one command from its host's queue and writes it. The
device answers what it has received in any order, or never.

What is stored of an answer is decided by its bytes, not by the command
(`command_tracker.go:106-335`): its type says of what kind it is, and two bytes are
taken for the register. `Replies` are the answers a datalogger may send, each with a
length, what it has at bytes 36 and 76, and the length a datalogger read gives its
value. `Offset` is the 40 bytes by which protocol 06 (`Six`) moves everything, unless
the answer is too short for them: then a cut answer of protocol 06 is read like
one of protocol 05. `Needs` is the length below which nothing is stored. A device puts
what it likes into its answers; the history variable `spelled` has those that had the
register of their command where the code looks for it in whole answers. Which place the
real devices use is not known from this repository (see below).

Whether a command can be built and understood depends on the lengths of strings
from the registry; `HeaderDigits` is that arithmetic, and `ProtocolDigits` and
`InverterNoDigits` say what was registered. The server always registers empty
strings (`internal/service/server.go:456, 461`), so that **as deployed no
inverter command is ever built and no datalogger command has its type where a
device looks for it** (run `codec_addressed`). The runs of `CommandChannel`
use two digits each, as the tests of the API do
(`internal/api/integration_test.go`), because otherwise nothing ever happens.

### DeviceRegistry and RecordLoop

`wire[c]` is what a datalogger has sent on connection `c` and nobody has read.
A `Read` takes everything (`ReadAll`), whole records (`ReadSome`) or a part of one
(`ReadInto`); the code looks only at what the data begins with: a whole
record, a `head` with the type in byte 7, a `stub` of fewer than 8 bytes or the `rest` of
a record, whose bytes may be anything. `Answer` is `ShouldRespond` with
`HandleIncomingData`, which switch over the same types, and `sendResponse`, which may
fail; `Skip`, `Register` and `AddInverter` are `processData`. Everything that is long
enough may have a layout (`MayParse`) and may have none (`Skip`). What is then
registered is what stands where a record has its serial numbers (`Names`): in a
record the datalogger's own, with its inverter or without (`t06221b` has no `pvserial`,
and `service/server.go:460` then leaves `RegisterInverter` out); in the answer to a command
any inverter; in the `rest` of a record any datalogger and any inverter. `parsed` holds them from
`RegisterDatalogger` to `RegisterInverter`. Twelve of the embedded layouts (`t000104`, `t020104`,
`t050104`, `t050104xmid`, `T060150X`, `t060103xmax3`, `t060104max3`, `t060104sph`, `t060104xtl3`,
`t065004x`, `t065104x`, `t06NNNNXTL3`) name no datalogger: their records register nothing,
which is `Skip` too. The datalogger is
external: it stops and waits after a record, repeats what nobody answered, and
takes an answer by its sequence number and type (`Settles`).

In `DeviceRegistry` each method is one step under the mutex, except the insertion
of an inverter into its map, which has a beginning and an end, so that a handler
that walks through the map without the mutex (`Visit`) can meet it: the Go
runtime then ends the program (`crashed`).

### Outputs and StartupFilter

`Filter` is `shouldFilterStartupData`: `since` and `graceAge` count ticks since
`lastDataTime` and `gracePeriodStart`, up to where the code cannot tell any more.
`resumed` is history: the time since the start or since the record that ended the last gap.
A record goes to the filter and then to PVOutput whatever the filter said (`Record`); while
the publisher is not connected the filter does not see it (`Unseen`).

### Frames, Layouts, RegisterValues and Codec

These are functions without state. `Codec` has one action for each entry point
of the program: `input` is a call, `output` its result. Bytes are numbers, strings of hex
digits are sequences of numbers below 16, texts are bytes. The readers that the
properties set against the writers are the program's own: `Plain` is
`decryptIfNeeded`, `FormatResponseValue` reads what `CreateValueForCommand` wrote.
The value of a CRC is left out (two zero bytes): nothing in the running program
checks one. The mask is applied bit by bit (`Xor`), since the prover knows no
operation on words. A device type is four digits, and what makes it a smart meter
is its last byte (`IsSmartMeter`), as in `parser.go:366`. `InputsAssumption` says what the calls are: a register is at
most 65535, an inverter number has at most two digits, the value of a command is
so short that its length fits the two bytes of the frame (`MaxBytes`; the
handlers write one register at a time), a numeric field has at most four bytes, as in
all embedded layouts, and a hexadecimal value of a `PUT` at most fifteen digits, so
that `ParseInt` accepts it. Seven functions of `api/server.go` build commands with the same
shape; `Command` is all of them, `Arguments` and `DeviceId` where they differ.

### MqttPublisher

`connected`, `birthSubscribed`, `discovered`, `haDiscovery` and `stopReconnect` are
the fields of `MQTTPublisher`; of `lastDiscoveryTime` only zero, recent or older
than `RediscoveryInterval` is kept. Each critical section of `p.mu` is a step.
`caller[0]` is `Connect`, `caller[n]` the `onConnect` of the n-th connection;
both subscribe to the birth messages and may meet. `retry` is the background
reconnection. A worker publishes one record at a time: it sets the discovery
up if nobody has, makes the topics, and for each topic looks into the cache,
publishes and marks it.

The MQTT client (`client`, `lost`, `ups`) is external, modelled from how the code
uses it and what the paho client documents: `Connect` on a client that is
connected or reconnecting succeeds at once, on one that is connecting it fails; a
message of QoS 0 published while the client reconnects is dropped and its
token has no error; after a loss the client connects again by itself. Each callback
has a goroutine of its own, and nothing orders them: `lost` is the set of the
connections whose `OnConnectionLost` has still to run, and it may run after the next
connection was made and its `onConnect` has run. The history variable `overtaken` says
that this has happened and no connection was made since. The
broker keeps the session, as `SetCleanSession(false)` asks it to. `known` is what
Home Assistant knows; it forgets everything when it restarts (the discovery
messages are not retained) and announces itself, which nobody may hear.

### PvOutput

`age[v]` is the time since the entry of `lastUpdateMap` for `v`, in ticks of which
the configured limit is `Interval`; it stops counting there, because the code
only asks whether it has been reached, and no entry counts as reached. `own` is a
history variable: the same for the updates a connection completed itself. A
record with smart meter values makes two requests, any other one. Time may
pass, and other connections may go on, between any two steps.

## Runs

Passing:

| run | instance | shows |
|---|---|---|
| `manager` | 2 sessions, 2 addresses, 2 readings in any order, 134 100 states | both maps agree; whatever left them is closed and stays out; at most one open connection per address; what the cleanup scanned is still there when it removes; the table is implemented; an idle session is closed in the end |
| `server` | 2 connections of one address, one of which may fall silent, cleanup, `Stop` at any moment, fair handlers | `s.clients` holds only handled connections; a finished handler leaves nothing behind and spares its successor; after `Stop` no open connection is served; the manager is used only through its operations; handlers of closed connections finish, and all finish after `Stop` |
| `commands` | 2 requests of any kind, 2 dataloggers on one host, one of them of protocol 06, 2 registers, answers of 3 lengths, queue of 1, 262 093 states | a command is never in two places, a refused one in none; answers are never older than the request, fit its type, and fit its register if they had their own in place; requests for one register end; queued commands leave the queue |
| `publisher` | 1 publishing connection, 1 inverter, 1 field, 2 connections of the client, 1 restart of Home Assistant, callbacks in any order, 504 232 states | a connected client is known to be, unless a late `OnConnectionLost` hid it; the flag that keeps everyone from subscribing is set only if the subscription exists; in the end Home Assistant knows every sensor, whatever was lost or cleared in between, again unless the last callback was late |
| `outputs` | 2 connections, 2 inverters, an interval of 2 ticks, a grace period and a gap of 1, 7 284 states | updates that one connection completes are an interval apart; neither the limit nor failures keep an inverter from being reported for ever; nothing is published in the grace period, and what is dropped does not prolong it |
| `records` | 1 datalogger that moves from one address to another, a serial number of no datalogger, 1 inverter, data, pings and answers to commands, 2 records on the wire, 1 searching handler, 78 980 states | every record is answered in the end, in whatever pieces it came; a registered inverter is found by a search that began after; the registry ends up with the address of the connection that stays |
| `codec` | 16 762 states, two per call | commands read back, acknowledgements agree, layouts are those of the device, numeric fields are read whole, register values read back |

Violations, each a disagreement between the code and what it says of itself:

| run | what TLC finds |
|---|---|
| `commands_multi` | "Command timeout": the timer of a multi-register request is made anew with every tick and never fires, and no answer is ever stored under the key it polls |
| `commands_regall` | "Return a copy to avoid race conditions": the copy shares its entries, a decimal read turns one into a number and the next `regall` asserts a string and panics |
| `publisher_devices` | "Generate device ID ... to avoid conflicts": the discovery is set up once, for the first device, and the sensors of the second are announced under the first one's ID, or not at all |
| `registry_iteration` | "Test concurrent access to ensure thread safety": a handler iterates over the inverters of a datalogger while a record adds one, and the runtime ends the program |
| `codec_addressed` | "Pad to 2 characters", "Protocol byte values for header[3]", "logger ID starts at byte 8": the empty inverter number is padded to one digit and the command is not hexadecimal; the protocol byte is missing because the registered protocol is empty; the time command of protocols 05 and 06 carries another ID, in another place |

Further disagreements the models show, which have no run of their own:

* The loop of `Stop` over `s.clients` ("Close all client connections",
  `service/server.go:122`) misses a connection whose entry a late cleanup of its
  predecessor deleted (line 247), and one that registers after the loop;
  `SessionManager.Close` gets both (`StoppedServesNobody`).
* Two dataloggers behind one address share a command queue, so that a command
  goes to whichever speaks first (`command_tracker.go:50`, `service/server.go:339`).
* A handler clears the tracker's entry after it has queued the command, and may
  delete the answer it is going to wait for (`api/server.go:1139`).
* `MQTTPublisher.Close` reads `connected` and leaves a client alone that is just
  connecting (`mqtt.go:684`): it stays connected until the program exits.
* Of what one `Read` returns only the beginning is looked at, and a record is
  acknowledged before it is parsed: the data of a record that was cut behind its
  header is lost (`service/server.go:285, 365`; `ReadInto`, `Answer`, `Skip`).
* The parser looks at the length of what was read, not at its type: an answer to a
  command of protocol 06 that is 100 bytes long or more finds the general layout,
  and what it has in the place of the serial number is registered as an inverter.
  The middle of a record with 06 in its fourth byte is registered as a datalogger
  with an inverter, whatever its bytes name (`parser.go:227`, `service/server.go:455-465`;
  `Names`). `OwnEntries` says that nothing else registers what is not the datalogger's own.
* A late `OnConnectionLost` takes down the flag that the next `onConnect` has set, and
  `Publish` drops every record (`mqtt.go:399`) although the client is connected, until it
  loses the connection again: against "Auto-reconnect on network disruptions"
  (`README.md:147`) and "MQTT connection lost, will auto-reconnect" (`mqtt.go:306`), which
  the client does and the publisher does not notice (`overtaken`).
* One `lastDataTime` serves all inverters: as long as one sends, the gap of another
  is not seen, and its first records after it are published; PVOutput gets all of
  them anyway (`README.md:16`, `mqtt.go:451`, `service/server.go:473`).
* The register of an answer is searched at byte 36 (76 for protocol 06,
  `command_tracker.go:157`), twice the 18 (38) where the program's own
  commands have it: positions of hex digits, it seems. An answer of protocol 06
  that is shorter than 76 bytes is searched at byte 36 again and filed under
  whatever stands there; a request for that register is answered with it (`Offset`).
* A decimal value of a multi-register `PUT` is read as hex digits
  (`api/server.go:1809`), against `README.md:249`.
* `normalizeHex` says "pad to 4 characters", but refuses odd lengths and lets more
  than four digits through, which a write then cuts to 16 bits
  (`format_converter.go:184`).
* The last fallback of `findLayout` is `T06NNNNXMIN`, which no map has, since its keys
  are in lower case (`parser.go:34, 160`): it never helps. For protocol 06 a general
  layout is found before (`LayoutsFit`), for the others none is.
* `t065020` takes the key of a smart meter but is an inverter to `getDeviceType`
  (`parser.go:388`), which looks for `120`.
* The `decrypt` flag of a layout is not read: every record is unmasked, also those of
  protocols 00 and 02, which come unmasked (`parser.go:310`).
* `buildHeader` makes ten bytes, two of them zero, so that the ID in a time command
  starts at byte 10 under every protocol (`commands.go:200`), and the delayed time
  command reads the connection's buffer a second later (`service/server.go:391`).
* The PVOutput limit ("Minimum time between updates", `config.yaml:66`) holds per
  connection, not per inverter, when several connections report one.

### Bounds, and why they are enough

* Two sessions are an old and a new connection: every hazard of the manager and
  of the handlers is between a session and its successor, or between a session
  and the cleanup or `Stop`. With two addresses in `manager` two sessions may
  also be unrelated.
* The proofs lift all these bounds for the safety properties; what follows matters
  for liveness and for the violations. For `codec` they also lift TLC's integers of 32
  bits, in which the range of a field of four bytes does not fit.
* `AnyReading` lets each session read any of two moments in any order, so that
  IDs collide and the clock runs backwards; `OwnReading` makes IDs unique, which
  keeps `server` small. The proofs assume nothing about readings.
* In `server` only the first connection may fall silent, only while its
  handler waits at the socket, where it would spend half an hour, and the ticker
  fires only then (`OneSilentNext`); in `manager` every session may, at any moment,
  with every tick. No fairness is asked of what this leaves out.
* Two requests are enough for one to disturb the other: in a queue, in the
  tracker, through a shared answer. A queue of one makes it full. `Near` fixes the
  first request's device and register, which may be exchanged, and lets the other
  differ in one of them or in neither: a request that shares nothing with the
  other meets it only in the queue, as one of another device does. The answers
  (`MCReplies`) are too short for a read, cut before byte 76, or whole, and have
  different registers in the two places, so that the wrong place is the wrong register;
  one datalogger is of protocol 06. For time, `FixedNext` leaves out what differs only in name:
  several registers are written by the first request or read by the other; the other makes no
  `regall` and no datalogger write; only its answers may have their register out of place.
  The proofs leave out nothing.
* `ShortTimeout` is false, as deployed (10 s); the tests set 50 ms, with which also
  multi-register requests time out.
* Two connections of the client are one before and one after a loss: everything
  the callbacks of one can do to the other happens, in any order. One worker meets every
  callback between any two of its steps; that several of them share
  `haDiscovery` shows in `publisher_devices`, which has two. One field is enough
  because fields meet only in the end of the loop over the topics.
* In `outputs` two connections race for an inverter while the second inverter
  competes for both; with two ticks an age may be fresh, between, or due. A grace
  period of one tick has a beginning and an end; with a threshold of one tick
  records may come within and after it.
* In `records` (`MovingNext`) the old connection carries one data record, as often as it
  takes, or one answer to a command, uncut, and the new one records and pings in any pieces: what meets is the late
  registration of the old address, the answers to the new records and a search. The search runs
  while nothing is on the wire, so that what it meets are registrations under way. The second
  serial number `l2` belongs to nobody: it is what the middle of a record may name. Two records on
  the wire are enough for a `Read` to return one, both, or one and a half. Since the
  old connection sends nothing more after its record, its datalogger leaves it.
* `codec` takes every kind of command with every protocol and known, short and empty
  inverter numbers, registers at the edges of a byte, all device types with layouts
  and one without, fields of up to three bytes in records of up to three at every
  alignment, and values at the edges of 8 and 16 bits. The functions treat
  bytes alike, so that a few of them stand for all.
* Symmetry is used for safety only.

The specifications never deadlock silently: `DeviceServer` has `Terminated` for
its only final states and `RecordLoop` `Crashed` for its own; the handlers of
`CommandChannel` end and its connection loops go on, `SessionManager` and `PvOutput` can
always be called. `CHECK_DEADLOCK FALSE` is set for `publisher`, because after `Close`
nothing publishes, and when the bounded outside world has done all it may, the
publisher rightly stops, and for `codec`, where a call returns once.

### Fairness, and why the code justifies it

* `SessionManager`: the ticker fires, the cleanup goroutine runs, `Close` gets the
  mutex once it was called. All are unconditional goroutines and a runtime timer.
* `DeviceServer`: strong fairness for every handler. It waits at the socket at
  most 30 s (read deadline) and at mutexes the cleanup takes repeatedly; Go's
  mutexes hand over to a waiter that starves. `Stop` goes on once it began.
  No device is obliged to speak or to leave. `StopEndsHandlers` supposes that the
  process lives on after `Stop` has returned; `main` exits soon after.
* `CommandChannel`: handlers run on and connected devices keep sending records, as
  dataloggers do every few minutes. Nothing obliges a device to answer.

* `MqttPublisher`: the callbacks and goroutines run; the broker does not refuse for
  ever; each inverter goes on sending records, and a discovery message that is
  tried again and again is published again and again. Losses are bounded, so that
  the connection is stable in the end. `SensorsBecomeKnown` rests on
  `RediscoveryInterval > 0` (`Periodic`): without it, what was dropped during a
  reconnection might stay unknown. It promises nothing once the last
  `OnConnectionLost` was `overtaken`. Nothing obliges Home Assistant to restart or
  anybody to call `Close`.
* `RecordLoop`, for each connection (`FairConnection`): the goroutines run; a datalogger
  repeats what was not answered, which
  is what it does on the other end of the protocol, and goes on sending data;
  records of each type arrive uncut again and again, whole records have a layout that
  names the datalogger again and again, and answers can be written
  again and again, each if it is tried again and again. Without these nothing the
  server does could have a record answered or its sender registered: a datalogger whose records
  have one of the layouts without `datalogserial` never is, and `AddressCatchesUp` is not about it.
  In `records` the old connection need only run and end.
* `Outputs`: connections go on sending records of every inverter, also while the publisher
  is connected, time passes, and PVOutput accepts requests about an inverter again
  and again. `PublishingGoesOn` supposes that gaps end.

## Proofs

Each component's proofs are in a module of their own, in the order in which they build
on each other. All theorems hold for any values of the constants that satisfy the
assumptions named; the type invariant of each module is proved as well and not
listed.

| module | theorems | say |
|---|---|---|
| `SessionTable` | `TablePromise` | in the table, what is open is listed |
| `SessionManagerProofs` | `IndexConsistency`, `NoOrphans`, `ListedAreLive`, `SweepIsStable`, `AddressExclusive` | the invariants of run `manager` |
| | `EvictedForGood` | a session that left the maps never returns |
| | `Refinement` | every behaviour implements `SessionTable` |
| `DeviceServerProofs` | `ServerUsesManager`, `ServerAddressExclusive` | the server changes the manager only through its operations, so that the manager's theorems hold in the server |
| | `ClientsHandled`, `NothingLeft`, `NobodyServed` | the invariants of run `server` |
| | `SuccessorSpared` | a late cleanup takes only its own session out |
| `CommandChannelProofs` | `OnePlace` | a command is never in two places, a refused one in none |
| | `FreshAnswers`, `FittingAnswers` | a handler that polls reports no answer older than the moment it cleared the entry, none to a command of an unfitting type, and none about another register that had its own where the protocol has it |
| `RecordLoopProofs` | `KnownFound`, `OneInserter` | a search finds what was registered when it began; insertions exclude each other |
| | `NothingForgotten`, `OwnEntries` | the registry only grows; an entry gets the address of another datalogger's connection only from the middle of a record, and an inverter not its own only from that or from an answer to a command |
| `OutputsProofs` | `RateLimit`, `FilteredRateLimit` | updates that one connection completes are an interval apart, without and with the filter |
| | `FilteredClient` | the client behind the filter implements `PvOutput` |
| | `StartupDropped` | nothing is published before the grace period is over |
| `MqttPublisherProofs` | `UpNoticed`, `FlaggedSubscribed` | the invariants of run `publisher`: a late `OnConnectionLost` is the only way to miss a connection, and the flag of the subscription does not lie |
| | `OneDeviceOwnId` | with one inverter nothing is announced under another's ID |
| `CodecProofs` | `FramesRead`, `LayoutsOfDevices`, `WholeFields`, `ValuesReadBack` | the invariants of run `codec` |

Assumptions. `SessionManagerAssumption`, `ServerAssumption`, `NoRequestAssumption`,
`RegistryAssumption` and `NoneAssumption` say that the values for "none" are no members of the sets
they are added to. `ChannelAssumption`, `LoopAssumption`, `PublisherAssumption`, `IntervalAssumption` and
`FilterAssumption` type the constants. `LoggerIdAssumption` says that the ID
of a datalogger has ten bytes: as many as the layouts read into `datalogserial`, from where
the registry has it, and as many as the readers of a frame expect. `InputsAssumption` is described
under `Codec`. Three theorems have a hypothesis of
their own, because without it they are false:

* `SuccessorSpared` supposes that no two connections read the same clock value
  (`OwnReadings`). Session IDs contain the address and the microsecond; if two of one
  address collide, `RemoveSession` of the old one removes the new one.
* `OneDeviceOwnId` supposes one inverter: with two, run `publisher_devices` shows that the
  second's sensors are announced under the first one's ID.
* `FramesReadBack` itself is about devices whose protocol and inverter number are
  known; for those the server registers, `codec_addressed` shows what becomes of the command.

### Arguments

**SessionManager.** The inductive invariant `IInv` is the conjunction of the checked
invariants and of three facts no user of the manager would ask for: `IndexedInserted` (a map only
holds what `CreateSession` put there), `FreshIsOpen` (nobody closes a session
before it is in the maps) and `ScanDone` (the removal starts when the scan is
complete). `IndicesAgree` alone is not inductive: that `CreateSession` overwrites no
entry but the one it closes needs to know that the new session is in neither map
and that an ID determines its address, so that a colliding ID belongs to the
session found under the same address. Each action has a lemma; `Refinement` maps
`CreateSession` to `Open`, the removals to `Drop`, `HangUp` to `HangUp` and the
rest to stuttering.

**DeviceServer.** `ManagerFrame` and `CallsManager` show that each action of the server is an action
of the manager or leaves it alone; with `SetUpIsInserted` (a handler past its setup has its session
in the maps' history) and `AcceptedHasId` no operation is called where its guard is
false. From there `SessionManagerProofs` is used as it stands, through an instance.
`ServerInv` adds what the handlers know of themselves: cleanup begins by closing
the connection (`CleanedUpIsClosed`), and the session of a finished handler is not listed
(`FinishedIsUnlisted`), which holds although `RemoveSession` may find nothing, because then
somebody else removed it. `NobodyServed` follows from the manager, not from the loop
over `s.clients`: `SessionManager.Close` is what gets the connections the loop misses.

**CommandChannel.** `OnePlace` speaks of one count of places; the invariant `PlaceInv` has
it in pieces that a step can disturb one at a time: no two positions of all queues hold the same command
(`QueuedOnce`), no two loops write it (`SentOnce`), no two devices have it (`ReceivedOnce`),
the four kinds of places exclude each other (`PlacesApart`), and a handler that has
not queued has nothing anywhere (`IssuedWereQueued`), without which `QueueCommand` could
double it. `FreshAnswers` rests on `OnePlace`: the entry a handler has cleared cannot
take an old answer again (`WaitsForFresh`), because a command that was answered is at
no device. `FittingAnswers` follows the bytes. `AnswersStored` says that what is in the tracker was filed
under a key of its command's type (`FiledUnder`), with its command's register if it is in
`spelled`. A step that stores keeps that because of `FilesWhereItSays`: for every kind,
datalogger and length, an answer that is long enough to be stored and has its register in place
is filed under that register. The four copies of the offset have to agree for this; mutant
`OffsetForgotten` changes one. Then `KeysFit`: two commands that share a key
have fitting types and the same register, and no single register is waited for where
answers about several are filed (`RangeIsNotPolled`).

**RecordLoop.** A search holds what is still to be seen; `KnownIsAhead` says that this includes
every place where its inverter was known when it began. That it stays there is
`RegistryGrows`, so that a datalogger that registers again must keep its inverters.
`InsertersHoldMutex` is the mutual exclusion of `RegisterInverter`, whose end
writes the map its beginning has announced. `RegistrySteps` is the lemma the theorems
share: the only ways the registry changes. `OwnEntries` adds `ParsedIsNamed`: what a loop is
registering was named by the data it still has, so that a foreign entry leads back to the
`rest` of a record or to an answer.

**Outputs.** `LimitedPerConnection` is not inductive; `LimitInv` adds that the entry of the map
is never older than the connection's own last update, and that what passed the
check stays due until it is recorded, although others may record meanwhile.
`GraceInv` is `resumed = graceAge`, and `graceAge = Grace` once the filter is open: the
filter's own count of the grace period is the time since the gap ended, whatever was
dropped meanwhile.

**MqttPublisher.** `ConnectedInv` adds to `UpIsNoticed` that `Close` has set `stopReconnect`: the
other step that takes the flag down. What remains is `OnConnectionLost`, which meets a client
that is connected only when it is late, and then `overtaken` is set, until
the next `onConnect` puts the flag up again. `SubscribeInv` adds that a caller about to set
the flag was told of the subscription by the broker.

**Codec.** `CallInv` says that the result is the function's value, so that the rest are lemmas about
the functions, for every input. A frame is read as `head \o body`: `CommandFrame` says what each of its parts
is and where, `MaskedBytes` what the mask changes, `XorBack` that twice the same
mask is none (by cases over the bits of each position, from `BitsOfByte`), `HexOfConcat` and its
companions that digits of bytes and bytes of digits invert each other. The value of digits is a
recursive function; that it exists, and that it is a natural number in its range, is shown with
the least number for which it would fail (`LeastNumber`, from `NatLessThanWellFounded`), since
the library's induction theorems take an operator. The remainders of the fields' ranges are arithmetic of
the sizes 1, 2 and 4, each by itself. The cases of a layout's name are those of `FindLayout`.

### Only model-checked

* Liveness: `IdleSessionsAreClosed`, `ClosedConnectionsAreCleanedUp`, `StopEndsHandlers`,
  `SingleRequestsEnd`, `QueuedCommandsAreSent`, `SensorsBecomeKnown`, `UpdatesGoOn`, `PublishingGoesOn`,
  `RecordsAreAnswered`, `AddressCatchesUp`. The prover has neither fairness nor ENABLED.
* The violated properties, which are false, and what follows the time command (`TimeSync`), whose
  address is wrong (`codec_addressed`).

## Plan

1. An abstract command channel, in which a request is put and taken once, implemented by
   `CommandChannel`: the refinement that `PlaceInv` prepares.
2. An abstract registry for `RecordLoop`, of which `KnownInvertersAreFound` and `RegistryGrows` are
   the promises.
3. What the violations say, as theorems: that no inverter command is ever built from
   what the server registers, for any inverter, register and value, and that with
   several inverters the discovery is right for the first one only.

## Not modelled

* Configuration and wiring are read once and keep no state.
* The texts of the Home Assistant messages come from a table.
* The validator: the parser calls it and logs what it finds, but no record is
  dropped for it; its counters are incremented without a lock.
* Of the parser: text fields, dividers, and the setting of members by name, which
  depend on the contents of the layouts.
* `ResponseHandler`, the ping command, `ValidateCommand` and `ParseCommandInfo`: nothing in the
  running program calls them.
* The device connection tracker of the API: written, never read.
* The simulators under `cmd/`, and generated mocks.
