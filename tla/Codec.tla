------------------------------- MODULE Codec --------------------------------
(***************************************************************************)
(* Every conversion of Frames, Layouts and RegisterValues as a call: input *)
(* is what it is called with, output what it returns, and then nothing     *)
(* more happens.  The conversions keep no state from one call to the next. *)
(***************************************************************************)
EXTENDS RegisterValues

L == INSTANCE Layouts

CONSTANTS
  LoggerId,    \* the ID of a datalogger, ten bytes
  Serial,      \* the serial number of its inverter
  Inputs       \* the calls looked at

(* The calls the program makes.  A frame's length fits its two bytes, an   *)
(* inverter number has at most two digits; a numeric field of the embedded *)
(* layouts has two or four bytes; a hexadecimal value of more than fifteen *)
(* digits may not be an integer of the program.                            *)
Byte  == 0..255
Digit == 0..15

MaxRegister == 65535
MaxBytes    == 65000

CommandCall(c) ==
  /\ c.kind \in CommandKinds /\ c.register \in Nat /\ c.register <= MaxRegister
  /\ c.protocol \in {<<>>} \cup {<<0, d>> : d \in Digit}
  /\ c.inverterNo \in Seq(Digit) /\ Len(c.inverterNo) <= 2
  /\ c.bytes \in Seq(Byte) /\ Len(c.bytes) <= MaxBytes

AckCall(c) == c.header \in Seq(Byte) /\ Len(c.header) = 8

FieldCall(c) ==
  /\ c.hex \in Seq(Digit) /\ c.field.pos \in Nat
  /\ c.field.length \in 0..4 /\ c.field.type \in {"num", "numx"}

ValueCall(c) ==
  \/ c.format = "dec" /\ c.value \in Int
  \/ c.format = "hex" /\ c.value \in Seq(Digit) /\ Len(c.value) <= 15
  \/ c.format = "text" /\ c.value \in Seq(Byte)

ASSUME LoggerIdAssumption == LoggerId \in Seq(Byte) /\ Len(LoggerId) = 10

ASSUME InputsAssumption ==
  \A c \in Inputs : /\ c.op = "command" => CommandCall(c)
                    /\ c.op = "ack"     => AckCall(c)
                    /\ c.op = "field"   => FieldCall(c)
                    /\ c.op = "value"   => ValueCall(c)

VARIABLES input, output

vars == <<input, output>>

Pending == [pending |-> TRUE]

Init == input \in Inputs /\ output = Pending

Call(op, result) ==
  /\ input.op = op /\ output = Pending
  /\ output' = result
  /\ UNCHANGED input

QueueCommand ==
  Call("command", Command(input.kind, LoggerId, input.protocol, input.inverterNo,
                          Arguments(input.kind, input.register, input.bytes)))

HandleRecord03 ==
  Call("announce", TimeSync(Announcement(input.speaks, LoggerId, Serial)))

CreateAck == Call("ack", Ok(Ack(input.header)))

DetectLayout ==
  Call("layout", Ok(L!FindLayout(L!BuildKey(input.record, input.config))))

ExtractField == Call("field", L!Extract(input.hex, input.field))

PutRegister == Call("value", WriteRegister(input.value, input.format))

Next ==
  \/ QueueCommand \/ HandleRecord03 \/ CreateAck
  \/ DetectLayout \/ ExtractField \/ PutRegister

Spec == Init /\ [][Next]_vars

Done(op) == input.op = op /\ output # Pending

-----------------------------------------------------------------------------
(* Frames.                                                                 *)

SealLen(f) == IF f[4] = 2 THEN 0 ELSE 2
Counted(f) == 256 * f[5] + f[6]

(* A register command for a device whose protocol and inverter number are  *)
(* known is built, and the program's own reader finds protocol, type,      *)
(* logger ID, padding and arguments in it, each at its place, and the      *)
(* length right, whether it was masked or not                              *)
(* (queueInverterRegisterReadCommand and its siblings against              *)
(* decryptIfNeeded).                                                       *)
CommandsReadBack ==
  Done("command") /\ Len(input.protocol) = 2 /\ input.inverterNo # <<>> =>
    /\ output.ok
    /\ LET f    == output.value
           p    == Plain(f)
           args == Arguments(input.kind, input.register, input.bytes)
           from == IF f[4] = 6 THEN 39 ELSE 19
       IN  /\ f[4] = input.protocol[2] /\ f[8] = TypeByte(input.kind)
           /\ SubSeq(p, 9, 18) = LoggerId
           /\ \A i \in 19..(from - 1) : p[i] = 0
           /\ SubSeq(p, from, Len(p) - SealLen(f)) = args
           /\ Counted(f) = Len(f) - 6 - SealLen(f)

(* What the program sends to a datalogger it knows from its announcement   *)
(* and its records has the datalogger's protocol in byte 3, its type in    *)
(* byte 7 and the datalogger's ID from byte 8 on.                          *)
CommandsAreAddressed ==
  \/ Done("announce")
  \/ Done("command") /\ input.protocol = RegisteredProtocol
                     /\ input.inverterNo = RegisteredInverterNo
  => /\ output.ok
     /\ LET f == output.value
        IN  /\ f[4] = input.speaks
            /\ f[8] = IF input.op = "announce" THEN 24 ELSE TypeByte(input.kind)
            /\ SubSeq(Plain(f), 9, 18) = LoggerId

(* An acknowledgement repeats sequence number, protocol, device and type   *)
(* of its record, has the right length, and says the same whether it is    *)
(* masked or not: 47 is a masked zero (createAckResponse).                 *)
AcksAgree ==
  Done("ack") =>
    LET f == output.value
    IN  /\ SubSeq(f, 1, 4) = SubSeq(input.header, 1, 4)
        /\ SubSeq(f, 7, 8) = SubSeq(input.header, 7, 8)
        /\ Counted(f) = Len(f) - 6 - SealLen(f)
        /\ Plain(f)[9] = 0

(* Commands and acknowledgements are what their readers expect.            *)
FramesReadBack == CommandsReadBack /\ AcksAgree

-----------------------------------------------------------------------------
(* Layouts.                                                                *)

(* The layout of a record is one of its protocol, made for its device type *)
(* or for all of them, and never a general one where the record's own is   *)
(* there; for a smart meter it depends neither on the length of the record *)
(* nor on the inverter type of the configuration (buildLayoutKey and       *)
(* findLayout).                                                            *)
LayoutIsOfTheDevice ==
  Done("layout") =>
    LET r     == input.record
        found == output.value
        meter == <<r.protocol, r.device, FALSE, "">>
    IN  /\ found # L!None => /\ found[1] = r.protocol
                             /\ found[2] \in {r.device, L!NNNN}
        /\ L!BuildKey(r, input.config) \in L!Files => found = L!BuildKey(r, input.config)
        /\ L!IsSmartMeter(r.device) /\ meter \in L!Files => found = meter

(* Every record of protocol 06 is parsed, whatever its device, its length  *)
(* and the configuration: there is a general layout for it (findLayout).   *)
SixesHaveALayout ==
  Done("layout") /\ input.record.protocol = "06" => output.value # L!None

(* A record gets the layout of its device, and those of protocol 06 get    *)
(* one in any case.                                                        *)
LayoutsFit == LayoutIsOfTheDevice /\ SixesHaveALayout

(* A field is read if and only if all of it is in the record, and its      *)
(* value is the only one in the range of its type that leaves the same     *)
(* bytes (extractNumericValue, extractSignedNumericValue).                 *)
FieldsAreReadWhole ==
  Done("field") =>
    LET f    == input.field
        size == 2 ^ (8 * f.length)
        low  == IF f.type = "numx" THEN -(size \div 2) ELSE 0
        bits == L!Unsigned(input.hex, f.pos, f.length)
    IN  /\ output.ok <=> /\ f.length > 0 /\ f.pos + 2 * f.length <= Len(input.hex)
                         /\ f.type = "numx" => f.length \in {1, 2, 4}
        /\ output.ok => /\ output.value \in low..(low + size - 1)
                        /\ (output.value - bits) % size = 0

-----------------------------------------------------------------------------
(* Register values.                                                        *)

(* What an inverter write accepts is reported by a later read in the same  *)
(* format: the same number, the first two bytes of a text without trailing *)
(* zeros, the last four digits of a hexadecimal value                      *)
(* (CreateValueForCommand against FormatResponseValue).                    *)
WrittenIsReadBack ==
  Done("value") /\ output.ok =>
    LET v    == input.value
        back == ReportRegister(output.value, input.format)
    IN  CASE input.format = "dec"  -> back = v
          [] input.format = "text" -> back = TrimNuls(SubSeq(v, 1, IF Len(v) < 2 THEN Len(v) ELSE 2))
          [] input.format = "hex"  ->
               IF Len(v) < 4 THEN back = PadTo4(v) ELSE back = SubSeq(v, Len(v) - 3, Len(v))

=============================================================================
