--------------------------- MODULE RegisterValues ---------------------------
(***************************************************************************)
(* The value of a register in the formats of the HTTP API: the converter   *)
(* of internal/api/format_converter.go, the value an inverter write puts   *)
(* on the wire and the value an answer is reported as.                     *)
(*                                                                         *)
(* A decimal value is an integer, a hexadecimal one its digits, a text its *)
(* bytes.  A value in between is always a string of hex digits.            *)
(***************************************************************************)
EXTENDS Integers, Frames

Formats == {"dec", "hex", "text"}

DecToHex(n) == IF 0 <= n /\ n <= 65535 THEN Ok(HexOf(Word(n))) ELSE Error

(* An odd number of digits is refused, although it could be padded; more   *)
(* than four are let through.                                              *)
PadTo4(d)       == Zeros(4 - Len(d)) \o d
NormalizeHex(d) == IF Len(d) % 2 = 1 THEN Error
                   ELSE Ok(IF Len(d) < 4 THEN PadTo4(d) ELSE d)

(* Mutant: the bytes of a text are not swapped.                            *)
TextToHexInOrder(t) ==
  IF t = <<>> THEN Error ELSE Ok(HexOf(SubSeq(t \o <<0>>, 1, 2)))

(* The first two bytes, zero for one that is missing, the second first.    *)
TextToHex(t) ==
  IF t = <<>> THEN Error
  ELSE LET two == SubSeq(t \o <<0>>, 1, 2) IN Ok(HexOf(<<two[2], two[1]>>))

ConvertToHex(v, format) ==
  CASE format = "dec" -> DecToHex(v)
    [] format = "hex" -> NormalizeHex(v)
    [] format = "text" -> TextToHex(v)

HexToDec(d) ==
  LET value[i \in 0..Len(d)] == IF i = 0 THEN 0 ELSE 16 * value[i - 1] + d[i]
  IN  value[Len(d)]

TrimNuls(b) ==
  SubSeq(b, 1, CHOOSE n \in 0..Len(b) :
                 /\ \A i \in (n + 1)..Len(b) : b[i] = 0
                 /\ n = 0 \/ b[n] # 0)

(* The first two bytes are swapped; d has an even number of digits here.   *)
HexToText(d) ==
  LET b == HexDecode(d).value
  IN  TrimNuls(IF Len(b) < 2 THEN b ELSE <<b[2], b[1]>> \o SubSeq(b, 3, Len(b)))

ConvertFromHex(d, format) ==
  CASE format = "dec" -> HexToDec(d)
    [] format = "hex" -> d
    [] format = "text" -> HexToText(d)

(* PUT /inverter: to hex, to an integer, to the two bytes of the command.  *)
WriteRegister(v, format) ==
  LET hex == ConvertToHex(v, format)
  IN  IF hex.ok THEN Ok(Word(ConvertFromHex(hex.value, "dec"))) ELSE Error

(* The two bytes of an answer, reported in a format.                       *)
ReportRegister(bytes, format) == ConvertFromHex(HexOf(bytes), format)

=============================================================================
