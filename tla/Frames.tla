------------------------------- MODULE Frames -------------------------------
(***************************************************************************)
(* The frames the program writes and how it reads them: the register       *)
(* commands of internal/api/server.go, the time command of                 *)
(* internal/protocol/commands.go, the acknowledgement of                   *)
(* internal/protocol/responses.go, and the readers of                      *)
(* internal/api/command_tracker.go and internal/service/server.go.         *)
(*                                                                         *)
(* A frame is a sequence of bytes, byte 0 of the code being element 1.  A  *)
(* string of hex digits is a sequence of numbers below 16.  The value of a *)
(* CRC is left out, since nothing in the running program looks at one.     *)
(***************************************************************************)
EXTENDS Naturals, Sequences

Ok(v) == [ok |-> TRUE, value |-> v]
Error == [ok |-> FALSE]

Word(n)     == <<(n \div 256) % 256, n % 256>>
Zeros(n)    == [i \in 1..n |-> 0]
HexOf(b)    == [i \in 1..(2 * Len(b)) |->
                  IF i % 2 = 1 THEN b[(i + 1) \div 2] \div 16 ELSE b[i \div 2] % 16]
HexDecode(d) == IF Len(d) % 2 = 1 THEN Error
                ELSE Ok([i \in 1..(Len(d) \div 2) |-> 16 * d[2 * i - 1] + d[2 * i]])

UpToNul(b) ==
  SubSeq(b, 1, CHOOSE n \in 0..Len(b) :
                 /\ \A i \in 1..n : b[i] # 0
                 /\ n = Len(b) \/ b[n + 1] = 0)

-----------------------------------------------------------------------------
(* The mask, "Growatt" over and over from byte 8 on.                       *)

Mask == <<71, 114, 111, 119, 97, 116, 116>>

(* Exclusive or of two bytes, bit by bit.                                  *)
Bit(n, weight) == (n \div weight) % 2

Xor(a, b) ==
  LET differ(weight) == IF Bit(a, weight) = Bit(b, weight) THEN 0 ELSE weight
  IN  differ(1) + differ(2) + differ(4) + differ(8)
        + differ(16) + differ(32) + differ(64) + differ(128)

Masked(f, last) ==
  [i \in 1..Len(f) |-> IF i \in 9..last THEN Xor(f[i], Mask[((i - 9) % 7) + 1]) ELSE f[i]]

Crc == <<0, 0>>

(* Commands are masked and then sealed, but not those of protocol 02.      *)
Sealed(p)      == p # <<0, 2>>
Finish(f, p)   == IF Sealed(p) THEN Masked(f, Len(f)) \o Crc ELSE f

(* What the response processor sees of a frame: all but the last two bytes *)
(* unmasked, unless byte 3 says protocol 02.                               *)
Plain(f) == IF f[4] = 2 THEN f ELSE Masked(f, Len(f) - 2)

-----------------------------------------------------------------------------
(* Register commands.                                                      *)

InverterKinds == {"invRead", "invWrite", "multiRead", "multiWrite"}
CommandKinds  == {"dlRead", "dlWrite"} \cup InverterKinds

TypeByte(k) ==
  CASE k = "dlRead" -> 25 [] k = "dlWrite" -> 24
    [] k = "invRead" -> 5 [] k = "invWrite" -> 6
    [] k \in {"multiRead", "multiWrite"} -> 16

(* Registers and values: register g twice for a read, the value's length   *)
(* for the datalogger, a count for several registers (one here).           *)
Arguments(k, g, v) ==
  CASE k \in {"dlRead", "invRead"} -> Word(g) \o Word(g)
    [] k = "dlWrite"    -> Word(g) \o Word(Len(v)) \o v
    [] k = "invWrite"   -> Word(g) \o v
    [] k = "multiRead"  -> Word(1) \o Word(g)
    [] k = "multiWrite" -> Word(1) \o Word(g) \o v

Padding(p) == IF p = <<0, 6>> THEN Zeros(20) ELSE <<>>
Body(id, p, args) == id \o Padding(p) \o args

(* Mutant: the device and the type are not counted.                        *)
BodyLenShort(body) == Len(body)

BodyLen(body) == Len(body) + 2

(* One "0" is put before an inverter number that is too short.             *)
DeviceId(k, no) ==
  IF k \notin InverterKinds THEN <<0, 1>> ELSE IF Len(no) < 2 THEN <<0>> \o no ELSE no

(* fmt "%04x00%s%04x%s%s": the protocol and the inverter number are what   *)
(* the registry has, whatever their lengths.                               *)
CommandHeader(k, p, no, body) ==
  HexOf(Word(1) \o <<0>>) \o p \o HexOf(Word(BodyLen(body)))
    \o DeviceId(k, no) \o HexOf(<<TypeByte(k)>>)

Command(k, id, p, no, args) ==
  LET body  == Body(id, p, args)
      bytes == HexDecode(CommandHeader(k, p, no, body) \o HexOf(body))
  IN  IF bytes.ok THEN Ok(Finish(bytes.value, p)) ELSE Error

(* What processData gives the registry: nothing.                           *)
RegisteredProtocol   == <<>>
RegisteredInverterNo == <<>>

-----------------------------------------------------------------------------
(* The time command.                                                       *)

Protocols == {2, 5, 6, 8, 9, 16, 24, 25}

ProtocolByte(p) == IF p \in Protocols THEN p ELSE 2

(* Ten bytes, of which the last two stay zero.                             *)
TimeHeader(p, bodyLen) ==
  <<0, 1, 0, ProtocolByte(p)>> \o Word(bodyLen) \o <<1, 24>> \o Zeros(2)

TimeText == [i \in 1..19 |-> 48]
TimeBody(p, id) ==
  Body(id, HexOf(<<p>>), Word(31) \o Word(Len(TimeText)) \o TimeText)

TimeCommand(p, id) ==
  Finish(TimeHeader(p, Len(TimeBody(p, id)) + 2) \o TimeBody(p, id), HexOf(<<p>>))

(* The logger ID handleRecord03TimeSync finds in the announcement.         *)
AnnouncedId(r) ==
  IF r[4] \in {5, 6}
  THEN IF Len(r) < 36 THEN <<>> ELSE UpToNul(SubSeq(Masked(r, Len(r) - 2), 17, 36))
  ELSE IF Len(r) < 18 THEN <<>> ELSE UpToNul(SubSeq(r, 9, 18))

TimeSync(r) ==
  IF AnnouncedId(r) = <<>> THEN Error ELSE Ok(TimeCommand(r[4], AnnouncedId(r)))

(* A datalogger's announcement (external): its ID from byte 8, where the   *)
(* layouts have datalogserial, padding under protocol 06, the serial of    *)
(* the inverter, and more.                                                 *)
Announcement(p, id, serial) ==
  Finish(<<0, 1, 0, p, 0, 100, 1, 3>> \o Body(id, HexOf(<<p>>), serial \o Zeros(20)),
         HexOf(<<p>>))

-----------------------------------------------------------------------------
(* The acknowledgement.                                                    *)

AckIsSealed(h) == h[4] # 2

Ack(h) ==
  SubSeq(h, 1, 4) \o Word(3) \o SubSeq(h, 7, 8)
    \o IF AckIsSealed(h) THEN <<71>> \o Crc ELSE <<0>>

=============================================================================
