------------------------------ MODULE Layouts -------------------------------
(***************************************************************************)
(* How the parser chooses the layout of a record and reads a number with   *)
(* it: buildLayoutKey, findLayout and the extraction of numeric fields in  *)
(* internal/parser/parser.go, with the names of the embedded layouts.      *)
(*                                                                         *)
(* A key is <<protocol, device type, extended, inverter type>>, a device   *)
(* type being two bytes.  The code writes a key as one string: t06NNNNXmin *)
(* is <<"06", <<"NN", "NN">>, TRUE, "min">>.  Keys are compared without    *)
(* regard to case, for every string that is looked up in upper case is     *)
(* looked up in lower case next.                                           *)
(***************************************************************************)
EXTENDS Integers, Sequences

File(protocol, first, last, extended, inverter) ==
  <<protocol, <<first, last>>, extended, inverter>>

NNNN == <<"NN", "NN">>

Files == {
  File("00", "01", "04", FALSE, ""),      File("02", "01", "04", FALSE, ""),
  File("05", "01", "04", FALSE, ""),      File("05", "01", "04", FALSE, "o"),
  File("05", "01", "04", FALSE, "spf"),   File("05", "01", "04", TRUE, "mid"),
  File("06", "01", "03", TRUE, "min"),    File("06", "01", "03", TRUE, "max3"),
  File("06", "01", "04", FALSE, ""),      File("06", "01", "04", FALSE, "max3"),
  File("06", "01", "04", FALSE, "o"),     File("06", "01", "04", FALSE, "spf"),
  File("06", "01", "04", FALSE, "sph"),   File("06", "01", "04", TRUE, ""),
  File("06", "01", "04", TRUE, "min"),    File("06", "01", "04", TRUE, "tl3"),
  File("06", "01", "20", FALSE, ""),      File("06", "01", "50", TRUE, ""),
  File("06", "22", "1b", FALSE, ""),      File("06", "50", "04", TRUE, ""),
  File("06", "50", "20", FALSE, ""),      File("06", "51", "04", TRUE, ""),
  File("06", "51", "20", FALSE, ""),      File("06", "NN", "NN", TRUE, ""),
  File("06", "NN", "NN", TRUE, "min"),    File("06", "NN", "NN", TRUE, "mod"),
  File("06", "NN", "NN", TRUE, "sph"),    File("06", "NN", "NN", TRUE, "tl3") }

(* By the last byte of the device type.                                    *)
IsSmartMeter(device) == device[2] \in {"20", "1b"}

(* Mutant: a long record of a smart meter is extended, too.                *)
BuildKeyAlike(r, config) ==
  <<r.protocol, r.device, r.long, IF config = "default" THEN "" ELSE config>>

(* The header names protocol and device; X is added for more than 750 hex  *)
(* digits, the inverter type of the configuration unless it is default,    *)
(* and neither for a smart meter.                                          *)
BuildKey(r, config) ==
  IF IsSmartMeter(r.device) THEN <<r.protocol, r.device, FALSE, "">>
  ELSE <<r.protocol, r.device, r.long, IF config = "default" THEN "" ELSE config>>

Generic(k)        == <<k[1], NNNN, k[3], k[4]>>
GenericDefault(k) == <<k[1], NNNN, TRUE, "">>

(* The keys findLayout looks up, in order; after them it asks for          *)
(* "T06NNNNXMIN", which is in no map whose keys are in lower case.         *)
Tries(k) == <<k, Generic(k), GenericDefault(k)>>

None == <<>>

FindLayout(k) ==
  LET hits == {i \in DOMAIN Tries(k) : Tries(k)[i] \in Files}
  IN  IF hits = {} THEN None
      ELSE Tries(k)[CHOOSE i \in hits : \A j \in hits : i <= j]

-----------------------------------------------------------------------------
(* Numeric fields: length bytes from hex digit pos on.                     *)

IsValidPosition(hex, pos, length) ==
  pos >= 0 /\ length > 0 /\ pos + 2 * length <= Len(hex)

Unsigned(hex, pos, length) ==
  LET value[i \in 0..(2 * length)] == IF i = 0 THEN 0 ELSE 16 * value[i - 1] + hex[pos + i]
  IN  value[2 * length]

(* Mutant: the sign bit alone still counts as positive.                    *)
SignedLate(n, length) == IF n > 2 ^ (8 * length - 1) THEN n - 2 ^ (8 * length) ELSE n

Signed(n, length) == IF n >= 2 ^ (8 * length - 1) THEN n - 2 ^ (8 * length) ELSE n

(* A field that does not fit, and a signed one of a length no Go integer   *)
(* has, is skipped.                                                        *)
Extract(hex, f) ==
  IF ~IsValidPosition(hex, f.pos, f.length) \/ (f.type = "numx" /\ f.length \notin {1, 2, 4, 8})
  THEN [ok |-> FALSE]
  ELSE LET n == Unsigned(hex, f.pos, f.length)
       IN  [ok |-> TRUE, value |-> IF f.type = "numx" THEN Signed(n, f.length) ELSE n]

=============================================================================
