----------------------------- MODULE CodecProofs -----------------------------
(***************************************************************************)
(* Proofs about Codec, for every datalogger ID of ten bytes and whatever   *)
(* calls CommandCall, AckCall, FieldCall and ValueCall admit.  The value   *)
(* of a number in hexadecimal is a recursive function of its digits: that  *)
(* it exists, and is a natural number, is shown with the least number for  *)
(* which it would fail.                                                    *)
(***************************************************************************)
EXTENDS Codec, SequenceTheorems, WellFoundedInduction, TLAPS

(* A call that has returned has returned what its conversion gives.        *)
Answered(op, result) == Done(op) => output = result

CallInv ==
  /\ input \in Inputs
  /\ Answered("command", Command(input.kind, LoggerId, input.protocol, input.inverterNo,
                                 Arguments(input.kind, input.register, input.bytes)))
  /\ Answered("ack", Ok(Ack(input.header)))
  /\ Answered("layout", Ok(L!FindLayout(L!BuildKey(input.record, input.config))))
  /\ Answered("field", L!Extract(input.hex, input.field))
  /\ Answered("value", WriteRegister(input.value, input.format))

(* Every call returns what its conversion gives (the handlers of commands, *)
(* acknowledgements, records and PUT requests).                            *)
THEOREM Answers == Spec => []CallInv
<1>1. Init => CallInv
  BY DEF Init, CallInv, Answered, Done
<1>2. CallInv /\ [Next]_vars => CallInv'
  <2> SUFFICES ASSUME CallInv, [Next]_vars PROVE CallInv'
    OBVIOUS
  <2>1. CASE UNCHANGED vars
    BY <2>1 DEF CallInv, Answered, Done, vars
  <2>2. CASE Next
    <3>1. CASE QueueCommand
      BY <3>1 DEF CallInv, Answered, Done, QueueCommand, Call
    <3>2. CASE HandleRecord03
      BY <3>2 DEF CallInv, Answered, Done, HandleRecord03, Call
    <3>3. CASE CreateAck
      BY <3>3 DEF CallInv, Answered, Done, CreateAck, Call
    <3>4. CASE DetectLayout
      BY <3>4 DEF CallInv, Answered, Done, DetectLayout, Call
    <3>5. CASE ExtractField
      BY <3>5 DEF CallInv, Answered, Done, ExtractField, Call
    <3>6. CASE PutRegister
      BY <3>6 DEF CallInv, Answered, Done, PutRegister, Call
    <3> QED
      BY <2>2, <3>1, <3>2, <3>3, <3>4, <3>5, <3>6 DEF Next
  <2> QED
    BY <2>1, <2>2
<1> QED
  BY <1>1, <1>2, PTL DEF Spec

-----------------------------------------------------------------------------
(* Layouts.                                                                *)

(* findLayout tries the key, the general key of its inverter type and the  *)
(* general key of all, in this order, and takes the first there is.        *)
LEMMA FirstHit ==
  ASSUME NEW k
  PROVE  /\ k \in L!Files => L!FindLayout(k) = k
         /\ k \notin L!Files /\ L!Generic(k) \in L!Files => L!FindLayout(k) = L!Generic(k)
         /\ k \notin L!Files /\ L!Generic(k) \notin L!Files /\ L!GenericDefault(k) \in L!Files
              => L!FindLayout(k) = L!GenericDefault(k)
         /\ k \notin L!Files /\ L!Generic(k) \notin L!Files /\ L!GenericDefault(k) \notin L!Files
              => L!FindLayout(k) = L!None
<1> DEFINE hits == {i \in DOMAIN L!Tries(k) : L!Tries(k)[i] \in L!Files}
           first == CHOOSE i \in hits : \A j \in hits : i <= j
<1>1. /\ DOMAIN L!Tries(k) = 1..3 /\ L!Tries(k)[1] = k
      /\ L!Tries(k)[2] = L!Generic(k) /\ L!Tries(k)[3] = L!GenericDefault(k)
  BY DEF L!Tries
<1>2. L!FindLayout(k) = IF hits = {} THEN L!None ELSE L!Tries(k)[first]
  BY DEF L!FindLayout
<1>3. ASSUME NEW n \in hits, \A j \in hits : n <= j PROVE L!FindLayout(k) = L!Tries(k)[n]
  <2>1. first \in hits /\ \A j \in hits : first <= j
    BY <1>3
  <2>2. first = n
    BY <2>1, <1>3, <1>1
  <2> QED
    BY <1>2, <2>2, <1>3
<1>4. ASSUME k \in L!Files PROVE L!FindLayout(k) = k
  BY <1>4, <1>1, <1>3
<1>5. ASSUME k \notin L!Files, L!Generic(k) \in L!Files
      PROVE L!FindLayout(k) = L!Generic(k)
  <2>1. 2 \in hits /\ \A j \in hits : 2 <= j
    BY <1>5, <1>1
  <2> HIDE DEF hits
  <2> QED
    BY <1>1, <1>3, <2>1
<1>6. ASSUME k \notin L!Files, L!Generic(k) \notin L!Files, L!GenericDefault(k) \in L!Files
      PROVE L!FindLayout(k) = L!GenericDefault(k)
  <2>1. 3 \in hits /\ \A j \in hits : 3 <= j
    BY <1>6, <1>1
  <2> HIDE DEF hits
  <2> QED
    BY <1>1, <1>3, <2>1
<1>7. ASSUME k \notin L!Files, L!Generic(k) \notin L!Files, L!GenericDefault(k) \notin L!Files
      PROVE L!FindLayout(k) = L!None
  BY <1>7, <1>1, <1>2
<1> QED
  BY <1>4, <1>5, <1>6, <1>7

(* Under CallInv a record gets the layout of its device.                   *)
LEMMA LayoutFits == CallInv => LayoutsFit
<1> SUFFICES ASSUME CallInv, Done("layout") PROVE LayoutsFit
  BY DEF LayoutsFit, LayoutIsOfTheDevice, SixesHaveALayout
<1> DEFINE r     == input.record
           k     == L!BuildKey(r, input.config)
           found == output.value
<1>1. found = L!FindLayout(k)
  BY DEF CallInv, Answered, Ok
<1>2. k[1] = r.protocol /\ k[2] = r.device
  BY DEF L!BuildKey
<1>3. /\ L!Generic(k)[1] = r.protocol /\ L!Generic(k)[2] = L!NNNN
      /\ L!GenericDefault(k)[1] = r.protocol /\ L!GenericDefault(k)[2] = L!NNNN
  BY <1>2 DEF L!Generic, L!GenericDefault
<1>4. found # L!None => found[1] = r.protocol /\ found[2] \in {r.device, L!NNNN}
  BY <1>1, <1>2, <1>3, FirstHit
<1>5. k \in L!Files => found = k
  BY <1>1, FirstHit
<1>6. L!IsSmartMeter(r.device) => k = <<r.protocol, r.device, FALSE, "">>
  BY DEF L!BuildKey
<1>7. r.protocol = "06" => found # L!None
  <2> SUFFICES ASSUME r.protocol = "06" PROVE found # L!None
    OBVIOUS
  <2>1. L!GenericDefault(k) \in L!Files
    <3>1. L!GenericDefault(k) = L!File("06", "NN", "NN", TRUE, "")
      BY <1>2 DEF L!GenericDefault, L!File, L!NNNN
    <3>2. L!File("06", "NN", "NN", TRUE, "") \in L!Files
      BY DEF L!Files
    <3> QED
      BY <3>1, <3>2
  <2>2. k # L!None /\ L!Generic(k) # L!None /\ L!GenericDefault(k) # L!None
    BY DEF L!BuildKey, L!Generic, L!GenericDefault, L!None
  <2> QED
    BY <1>1, <2>1, <2>2, FirstHit
<1> QED
  BY <1>4, <1>5, <1>6, <1>7 DEF LayoutsFit, LayoutIsOfTheDevice, SixesHaveALayout

-----------------------------------------------------------------------------
(* The value of hexadecimal digits.                                        *)

(* A set of numbers that is not empty has a least one: what the proofs     *)
(* below have for induction.                                               *)
LEMMA LeastNumber ==
  ASSUME NEW T \in SUBSET Nat, T # {}
  PROVE  \E n \in T : \A m \in T : n <= m
<1>1. IsWellFoundedOn(OpToRel(<, Nat), Nat)
  BY NatLessThanWellFounded
<1>2. PICK n \in T : \A m \in T : <<m, n>> \notin OpToRel(<, Nat)
  BY <1>1, WFMin, Zenon
<1>3. \A m \in T : ~(m < n)
  BY <1>2, Zenon DEF OpToRel
<1> QED
  BY <1>3

(* v[i] is the value of the first i of the digits after from.              *)
Horner(d, from, n, v) ==
  v = [i \in 0..n |-> IF i = 0 THEN 0 ELSE 16 * v[i - 1] + d[from + i]]

(* Every sequence of digits has a value.                                   *)
LEMMA HornerExists ==
  ASSUME NEW d \in Seq(Digit), NEW from \in Nat, NEW n \in Nat, from + n <= Len(d)
  PROVE  \E v \in [0..n -> Nat] : Horner(d, from, n, v)
<1> DEFINE Exists(m) == \E v \in [0..m -> Nat] : Horner(d, from, m, v)
           T == {m \in 0..n : ~Exists(m)}
<1>1. Exists(0)
  <2>1. [i \in 0..0 |-> 0] \in [0..0 -> Nat] /\ Horner(d, from, 0, [i \in 0..0 |-> 0])
    BY DEF Horner
  <2> QED
    BY <2>1
<1>2. ASSUME NEW m \in 1..n, Exists(m - 1) PROVE Exists(m)
  <2>1. PICK v \in [0..(m - 1) -> Nat] : Horner(d, from, m - 1, v)
    BY <1>2
  <2> DEFINE w == [i \in 0..m |-> IF i = m THEN 16 * v[m - 1] + d[from + m] ELSE v[i]]
  <2>2. d[from + m] \in Nat
    <3>1. from + m \in 1..Len(d)
      BY LenProperties
    <3>2. d[from + m] \in Digit
      BY <3>1, ElementOfSeq
    <3>3. \A x \in Digit : x \in Nat
      BY DEF Digit
    <3> QED
      BY <3>2, <3>3, Zenon
  <2>3. w \in [0..m -> Nat]
    BY <2>2
  <2>4. \A i \in 0..(m - 1) : v[i] = IF i = 0 THEN 0 ELSE 16 * v[i - 1] + d[from + i]
    BY <2>1 DEF Horner
  <2>5. \A i \in 0..m : w[i] = IF i = 0 THEN 0 ELSE 16 * w[i - 1] + d[from + i]
    BY <2>4
  <2> HIDE DEF w
  <2>6. w = [i \in 0..m |-> IF i = 0 THEN 0 ELSE 16 * w[i - 1] + d[from + i]]
    BY <2>3, <2>5
  <2>7. Horner(d, from, m, w)
    BY <2>6, Zenon DEF Horner
  <2> QED
    BY <2>3, <2>7
<1> HIDE DEF Exists
<1>3. T \in SUBSET Nat /\ \A m \in 0..n : m \notin T => Exists(m)
  OBVIOUS
<1>4. \A m \in T : m \in 0..n /\ ~Exists(m)
  OBVIOUS
<1> HIDE DEF T
<1>5. ASSUME T # {} PROVE FALSE
  <2>1. PICK m \in T : \A l \in T : m <= l
    BY <1>3, <1>5, LeastNumber
  <2>2. m \in 1..n
    BY <2>1, <1>1, <1>4
  <2>3. m - 1 \in 0..n /\ m - 1 \notin T
    BY <2>1, <2>2
  <2> QED
    BY <2>1, <2>2, <2>3, <1>2, <1>3, <1>4
<1>6. Exists(n)
  BY <1>3, <1>5
<1> QED
  BY <1>6 DEF Exists

(* An unsigned field is the value of its digits.                           *)
LEMMA UnsignedIsHorner ==
  ASSUME NEW d \in Seq(Digit), NEW pos \in Nat, NEW length \in Nat,
         pos + 2 * length <= Len(d)
  PROVE  \E v : Horner(d, pos, 2 * length, v) /\ L!Unsigned(d, pos, length) = v[2 * length]
<1>1. 2 * length \in Nat
  OBVIOUS
<1>2. \E v : Horner(d, pos, 2 * length, v)
  BY <1>1, HornerExists
<1> QED
  BY <1>2 DEF Horner, L!Unsigned

(* strconv.ParseInt of a hexadecimal value is the value of its digits.     *)
LEMMA HexToDecIsHorner ==
  ASSUME NEW d \in Seq(Digit)
  PROVE  \E v : Horner(d, 0, Len(d), v) /\ HexToDec(d) = v[Len(d)]
<1>1. \E v : Horner(d, 0, Len(d), v)
  BY HornerExists, LenProperties
<1>2. ASSUME NEW v
      PROVE  Horner(d, 0, Len(d), v)
               <=> v = [i \in 0..Len(d) |-> IF i = 0 THEN 0 ELSE 16 * v[i - 1] + d[i]]
  BY LenProperties DEF Horner
<1> QED
  BY <1>1, <1>2 DEF HexToDec

(* One more digit multiplies the value by sixteen and adds the digit.      *)
LEMMA HornerSteps ==
  ASSUME NEW d \in Seq(Digit), NEW from \in Nat, NEW n \in Nat, from + n <= Len(d),
         NEW v, Horner(d, from, n, v)
  PROVE  /\ v[0] = 0
         /\ \A i \in 1..n : d[from + i] \in 0..15 /\ v[i] = 16 * v[i - 1] + d[from + i]
<1>1. \A i \in 1..n : from + i \in 1..Len(d)
  BY LenProperties
<1>2. \A i \in 1..n : d[from + i] \in 0..15
  BY <1>1, ElementOfSeq DEF Digit
<1>3. \A i \in 1..n : v[i] = 16 * v[i - 1] + d[from + i]
  BY DEF Horner
<1>4. v[0] = 0
  BY DEF Horner
<1> QED
  BY <1>2, <1>3, <1>4

(* The value of any digits is a natural number.                            *)
LEMMA HornerNat ==
  ASSUME NEW d \in Seq(Digit), NEW from \in Nat, NEW n \in Nat, from + n <= Len(d),
         NEW v, Horner(d, from, n, v)
  PROVE  \A i \in 0..n : v[i] \in Nat
<1> DEFINE T == {i \in 0..n : v[i] \notin Nat}
<1>1. T \in SUBSET Nat /\ \A i \in 0..n : i \notin T => v[i] \in Nat
  OBVIOUS
<1>2. \A i \in T : i \in 0..n /\ v[i] \notin Nat
  OBVIOUS
<1>3. v[0] = 0 /\ \A i \in 1..n : d[from + i] \in 0..15 /\ v[i] = 16 * v[i - 1] + d[from + i]
  BY HornerSteps
<1> HIDE DEF T
<1>4. ASSUME T # {} PROVE FALSE
  <2>1. PICK m \in T : \A l \in T : m <= l
    BY <1>1, <1>4, LeastNumber
  <2>2. m \in 1..n
    BY <1>2, <1>3, <2>1
  <2>3. m - 1 \in 0..n /\ m - 1 \notin T
    BY <2>1, <2>2
  <2>4. v[m - 1] \in Nat
    BY <1>1, <2>3
  <2>5. d[from + m] \in 0..15 /\ v[m] = 16 * v[m - 1] + d[from + m]
    BY <1>3, <2>2, Zenon
  <2>6. \A x \in Nat : \A y \in 0..15 : 16 * x + y \in Nat
    OBVIOUS
  <2>7. v[m] \in Nat
    BY <2>4, <2>5, <2>6, Zenon
  <2> QED
    BY <1>2, <2>1, <2>7
<1> QED
  BY <1>1, <1>4

(* The powers of two that the sizes of fields are.                         *)
LEMMA Powers == /\ 2^0 = 1 /\ 2^7 = 128 /\ 2^8 = 256 /\ 2^15 = 32768 /\ 2^16 = 65536
                /\ 2^24 = 16777216 /\ 2^31 = 2147483648 /\ 2^32 = 4294967296
  BY SMT

(* The values v of the first n of the digits e.                            *)
Digitwise(v, e, n) ==
  v[0] = 0 /\ \A i \in 1..n : e[i] \in 0..15 /\ v[i] = 16 * v[i - 1] + e[i]

(* Two, four, six and eight digits have a value below 2^8, 2^16, 2^24 and  *)
(* 2^32.                                                                   *)
LEMMA DigitwiseRange ==
  ASSUME NEW v, NEW e, NEW n \in Nat, Digitwise(v, e, n)
  PROVE  /\ v[0] = 0
         /\ n >= 2 => v[2] \in Nat /\ v[2] <= 255
         /\ n >= 4 => v[4] \in Nat /\ v[4] <= 65535
         /\ n >= 6 => v[6] \in Nat /\ v[6] <= 16777215
         /\ n >= 8 => v[8] \in Nat /\ v[8] <= 4294967295
<1>0. v[0] = 0
  BY DEF Digitwise
<1>1. ASSUME n >= 1 PROVE v[1] \in Nat /\ v[1] <= 15
  <2>1. v[1] = 16 * v[0] + e[1] /\ e[1] \in 0..15
    BY <1>1 DEF Digitwise
  <2> QED
    BY <1>0, <2>1
<1>2. ASSUME n >= 2 PROVE v[2] \in Nat /\ v[2] <= 255
  <2>1. v[2] = 16 * v[1] + e[2] /\ e[2] \in 0..15
    BY <1>2 DEF Digitwise
  <2>2. v[1] \in Nat /\ v[1] <= 15
    BY <1>2, <1>1, SMT
  <2> QED
    BY <2>1, <2>2, SMT
<1>3. ASSUME n >= 3 PROVE v[3] \in Nat /\ v[3] <= 4095
  <2>1. v[3] = 16 * v[2] + e[3] /\ e[3] \in 0..15
    BY <1>3 DEF Digitwise
  <2>2. v[2] \in Nat /\ v[2] <= 255
    BY <1>3, <1>2, SMT
  <2> QED
    BY <2>1, <2>2, SMT
<1>4. ASSUME n >= 4 PROVE v[4] \in Nat /\ v[4] <= 65535
  <2>1. v[4] = 16 * v[3] + e[4] /\ e[4] \in 0..15
    BY <1>4 DEF Digitwise
  <2>2. v[3] \in Nat /\ v[3] <= 4095
    BY <1>4, <1>3, SMT
  <2> QED
    BY <2>1, <2>2, SMT
<1>5. ASSUME n >= 5 PROVE v[5] \in Nat /\ v[5] <= 1048575
  <2>1. v[5] = 16 * v[4] + e[5] /\ e[5] \in 0..15
    BY <1>5 DEF Digitwise
  <2>2. v[4] \in Nat /\ v[4] <= 65535
    BY <1>5, <1>4, SMT
  <2> QED
    BY <2>1, <2>2, SMT
<1>6. ASSUME n >= 6 PROVE v[6] \in Nat /\ v[6] <= 16777215
  <2>1. v[6] = 16 * v[5] + e[6] /\ e[6] \in 0..15
    BY <1>6 DEF Digitwise
  <2>2. v[5] \in Nat /\ v[5] <= 1048575
    BY <1>6, <1>5, SMT
  <2> QED
    BY <2>1, <2>2, SMT
<1>7. ASSUME n >= 7 PROVE v[7] \in Nat /\ v[7] <= 268435455
  <2>1. v[7] = 16 * v[6] + e[7] /\ e[7] \in 0..15
    BY <1>7 DEF Digitwise
  <2>2. v[6] \in Nat /\ v[6] <= 16777215
    BY <1>7, <1>6, SMT
  <2> QED
    BY <2>1, <2>2, SMT
<1>8. ASSUME n >= 8 PROVE v[8] \in Nat /\ v[8] <= 4294967295
  <2>1. v[8] = 16 * v[7] + e[8] /\ e[8] \in 0..15
    BY <1>8 DEF Digitwise
  <2>2. v[7] \in Nat /\ v[7] <= 268435455
    BY <1>8, <1>7, SMT
  <2> QED
    BY <2>1, <2>2, SMT
<1> QED
  BY <1>0, <1>2, <1>4, <1>6, <1>8, SMT

(* An unsigned field is below the size of its bytes.                       *)
LEMMA UnsignedRange ==
  ASSUME NEW d \in Seq(Digit), NEW pos \in Nat, NEW length \in 0..4,
         pos + 2 * length <= Len(d)
  PROVE  /\ L!Unsigned(d, pos, length) \in Nat
         /\ L!Unsigned(d, pos, length) < 2 ^ (8 * length)
<1> DEFINE n == 2 * length
           e == [i \in 1..n |-> d[pos + i]]
<1>1. length \in Nat /\ n \in Nat /\ pos + n <= Len(d)
  OBVIOUS
<1>2. PICK v : Horner(d, pos, n, v) /\ L!Unsigned(d, pos, length) = v[n]
  BY <1>1, UnsignedIsHorner
<1>3. v[0] = 0 /\ \A i \in 1..n : d[pos + i] \in 0..15 /\ v[i] = 16 * v[i - 1] + d[pos + i]
  BY <1>1, <1>2, HornerSteps
<1>4. Digitwise(v, e, n)
  BY <1>3 DEF Digitwise
<1> HIDE DEF n, e
<1>5. /\ v[0] = 0
      /\ n >= 2 => v[2] \in Nat /\ v[2] <= 255
      /\ n >= 4 => v[4] \in Nat /\ v[4] <= 65535
      /\ n >= 6 => v[6] \in Nat /\ v[6] <= 16777215
      /\ n >= 8 => v[8] \in Nat /\ v[8] <= 4294967295
  BY <1>1, <1>4, DigitwiseRange, SMT
<1>6. CASE length = 0
  <2>1. n = 0
    BY <1>6 DEF n
  <2> QED
    BY <1>2, <1>5, <1>6, <2>1, Powers, SMT
<1>7. CASE length = 1
  <2>1. n = 2
    BY <1>7 DEF n
  <2> QED
    BY <1>2, <1>5, <1>7, <2>1, Powers, SMT
<1>8. CASE length = 2
  <2>1. n = 4
    BY <1>8 DEF n
  <2> QED
    BY <1>2, <1>5, <1>8, <2>1, Powers, SMT
<1>9. CASE length = 3
  <2>1. n = 6
    BY <1>9 DEF n
  <2> QED
    BY <1>2, <1>5, <1>9, <2>1, Powers, SMT
<1>10. CASE length = 4
  <2>1. n = 8
    BY <1>10 DEF n
  <2> QED
    BY <1>2, <1>5, <1>10, <2>1, Powers, SMT
<1> QED
  BY <1>6, <1>7, <1>8, <1>9, <1>10

-----------------------------------------------------------------------------
(* Fields.                                                                 *)

(* The half of the size of one to four bytes, where the sign begins.       *)
LEMMA ByteSizes ==
  ASSUME NEW length \in 1..4
  PROVE  /\ 2 ^ (8 * length) \in Nat /\ 2 ^ (8 * length - 1) \in Nat
         /\ 2 ^ (8 * length) = 2 * 2 ^ (8 * length - 1)
<1>1. CASE length = 1
  BY <1>1, 2 ^ 8 = 2 * 2 ^ 7, SMT
<1>2. CASE length = 2
  BY <1>2, 2 ^ 16 = 2 * 2 ^ 15, SMT
<1>3. CASE length = 3
  BY <1>3, 2 ^ 24 = 2 * 2 ^ 23, SMT
<1>4. CASE length = 4
  BY <1>4, 2 ^ 32 = 2 * 2 ^ 31, SMT
<1> QED
  BY <1>1, <1>2, <1>3, <1>4

(* A number with or without the size subtracted is in the range of the     *)
(* sign, and leaves the same bytes.                                        *)
LEMMA SignedIsWhole ==
  ASSUME NEW n \in Nat, NEW size \in Nat, NEW half \in Nat, size = 2 * half, n < size,
         NEW v, v = IF n >= half THEN n - size ELSE n
  PROVE  /\ v \in Int /\ -(size \div 2) <= v /\ v <= -(size \div 2) + size - 1
         /\ (v - n) % size = 0
<1>1. size \div 2 = half
  OBVIOUS
<1>2. 0 % size = 0 /\ (-size) % size = 0
  OBVIOUS
<1>3. v - n = 0 \/ v - n = -size
  OBVIOUS
<1> QED
  BY <1>1, <1>2, <1>3

(* Under CallInv a field is read whole or not at all.                      *)
LEMMA FieldIsWhole == CallInv => FieldsAreReadWhole
<1> DEFINE hex    == input.hex
           f      == input.field
           length == f.length
           size   == 2 ^ (8 * length)
           half   == 2 ^ (8 * length - 1)
           bits   == L!Unsigned(hex, f.pos, length)
           inside == length > 0 /\ f.pos + 2 * length <= Len(hex)
           whole  == inside /\ (f.type = "numx" => length \in {1, 2, 4})
           low    == IF f.type = "numx" THEN -(size \div 2) ELSE 0
<1> SUFFICES ASSUME CallInv, Done("field")
             PROVE  /\ output.ok <=> whole
                    /\ output.ok => /\ output.value \in low..(low + size - 1)
                                    /\ (output.value - bits) % size = 0
  BY DEF FieldsAreReadWhole
<1>1. /\ hex \in Seq(Digit) /\ f.pos \in Nat
      /\ length \in 0..4 /\ f.type \in {"num", "numx"}
  BY InputsAssumption DEF CallInv, Done, FieldCall
<1>2. output = L!Extract(hex, f)
  BY DEF CallInv, Answered
<1>3. output.ok <=> whole
  BY <1>1, <1>2, LenProperties DEF L!Extract, L!IsValidPosition
<1>4. ASSUME whole
      PROVE  /\ output.value \in low..(low + size - 1)
             /\ (output.value - bits) % size = 0
  <2>0. length \in 1..4
    BY <1>1, <1>4
  <2>1. size \in Nat /\ half \in Nat /\ size = 2 * half
    BY <2>0, ByteSizes, Zenon
  <2>2. bits \in Nat /\ bits < size
    BY <1>1, <1>4, UnsignedRange
  <2>3. output.value = IF f.type = "numx" THEN L!Signed(bits, length) ELSE bits
    BY <1>1, <1>2, <1>4, LenProperties DEF L!Extract, L!IsValidPosition
  <2>4. L!Signed(bits, length) = IF bits >= half THEN bits - size ELSE bits
    BY DEF L!Signed
  <2> HIDE DEF size, half, bits
  <2>5. CASE f.type = "numx"
    BY <2>1, <2>2, <2>3, <2>4, <2>5, SignedIsWhole
  <2>6. CASE f.type # "numx"
    BY <2>1, <2>2, <2>3, <2>6
  <2> QED
    BY <2>5, <2>6
<1> QED
  BY <1>3, <1>4

-----------------------------------------------------------------------------
(* Bytes and their two digits.                                             *)

(* A byte is made of its two digits.                                       *)
LEMMA ByteHalves ==
  ASSUME NEW x \in 0..255
  PROVE  x \div 16 \in 0..15 /\ x % 16 \in 0..15 /\ x = 16 * (x \div 16) + (x % 16)
  OBVIOUS

(* hex.EncodeToString gives two digits for every byte, in order.           *)
LEMMA HexOfBytes ==
  ASSUME NEW b \in Seq(Byte)
  PROVE  /\ HexOf(b) \in Seq(Digit) /\ Len(HexOf(b)) = 2 * Len(b)
         /\ \A i \in 1..Len(b) : HexOf(b)[2 * i - 1] = b[i] \div 16 /\ HexOf(b)[2 * i] = b[i] % 16
<1> DEFINE n == Len(b)
           digit(i) == IF i % 2 = 1 THEN b[(i + 1) \div 2] \div 16 ELSE b[i \div 2] % 16
<1>1. n \in Nat /\ 2 * n \in Nat /\ \A i \in 1..n : b[i] \in 0..255
  BY ElementOfSeq, LenProperties DEF Byte
<1>2. ASSUME NEW i \in 1..(2 * n) PROVE digit(i) \in 0..15
  <2>1. CASE i % 2 = 1
    <3>1. (i + 1) \div 2 \in 1..n
      BY <1>1, <2>1
    <3>2. b[(i + 1) \div 2] \in 0..255
      BY <1>1, <3>1
    <3> QED
      BY <2>1, <3>2, ByteHalves
  <2>2. CASE i % 2 # 1
    <3>1. i \div 2 \in 1..n
      BY <1>1, <2>2
    <3>2. b[i \div 2] \in 0..255
      BY <1>1, <3>1
    <3> QED
      BY <2>2, <3>2, ByteHalves
  <2> QED
    BY <2>1, <2>2
<1>3. HexOf(b) = [i \in 1..(2 * n) |-> digit(i)]
  BY DEF HexOf
<1> HIDE DEF digit, n
<1>4. HexOf(b) \in [1..(2 * n) -> Digit]
  BY <1>2, <1>3 DEF Digit
<1>5. HexOf(b) \in Seq(Digit) /\ Len(HexOf(b)) = 2 * n
  BY <1>1, <1>4
<1>6. ASSUME NEW i \in 1..n
      PROVE  HexOf(b)[2 * i - 1] = b[i] \div 16 /\ HexOf(b)[2 * i] = b[i] % 16
  <2>1. /\ 2 * i - 1 \in 1..(2 * n) /\ (2 * i - 1) % 2 = 1 /\ ((2 * i - 1) + 1) \div 2 = i
        /\ 2 * i \in 1..(2 * n) /\ (2 * i) % 2 # 1 /\ (2 * i) \div 2 = i
    BY <1>1
  <2>2. digit(2 * i - 1) = b[i] \div 16 /\ digit(2 * i) = b[i] % 16
    BY <2>1 DEF digit
  <2> QED
    BY <1>3, <2>1, <2>2
<1> QED
  BY <1>5, <1>6 DEF n

(* The four digits of two bytes.                                           *)
LEMMA HexOfTwo ==
  ASSUME NEW b \in Seq(Byte), Len(b) = 2
  PROVE  /\ HexOf(b) \in Seq(Digit) /\ Len(HexOf(b)) = 4
         /\ b[1] \in 0..255 /\ b[2] \in 0..255
         /\ HexOf(b)[1] = b[1] \div 16 /\ HexOf(b)[2] = b[1] % 16
         /\ HexOf(b)[3] = b[2] \div 16 /\ HexOf(b)[4] = b[2] % 16
<1>1. HexOf(b) \in Seq(Digit) /\ Len(HexOf(b)) = 2 * Len(b)
  BY HexOfBytes, Zenon
<1>2. \A i \in 1..2 : HexOf(b)[2 * i - 1] = b[i] \div 16 /\ HexOf(b)[2 * i] = b[i] % 16
  BY HexOfBytes, Zenon
<1>3. b[1] \in Byte /\ b[2] \in Byte
  BY ElementOfSeq
<1> QED
  BY <1>1, <1>2, <1>3 DEF Byte

(* hex.DecodeString undoes hex.EncodeToString.                             *)
LEMMA DecodedHex ==
  ASSUME NEW b \in Seq(Byte)
  PROVE  HexDecode(HexOf(b)) = Ok(b)
<1> DEFINE h == HexOf(b)  n == Len(b)
<1>1. n \in Nat /\ \A i \in 1..n : b[i] \in 0..255
  BY LenProperties, ElementOfSeq DEF Byte
<1>2. /\ Len(h) = 2 * n
      /\ \A i \in 1..n : h[2 * i - 1] = b[i] \div 16 /\ h[2 * i] = b[i] % 16
  BY HexOfBytes, Zenon
<1> HIDE DEF h
<1>3. Len(h) % 2 # 1 /\ Len(h) \div 2 = n
  BY <1>1, <1>2
<1>4. HexDecode(h) = Ok([i \in 1..n |-> 16 * h[2 * i - 1] + h[2 * i]])
  BY <1>3, Zenon DEF HexDecode
<1>5. \A i \in 1..n : 16 * h[2 * i - 1] + h[2 * i] = b[i]
  <2>1. SUFFICES ASSUME NEW i \in 1..n PROVE 16 * (b[i] \div 16) + (b[i] % 16) = b[i]
    BY <1>2
  <2>2. b[i] \in 0..255
    BY <1>1
  <2> QED
    BY <2>2, ByteHalves
<1>6. b = [i \in 1..n |-> b[i]]
  BY LenProperties
<1>7. [i \in 1..n |-> 16 * h[2 * i - 1] + h[2 * i]] = b
  BY <1>5, <1>6
<1> QED
  BY <1>4, <1>7 DEF h

(* The digits of two runs of bytes, one after the other, are the digits of *)
(* both together.                                                          *)
LEMMA HexOfConcat ==
  ASSUME NEW a \in Seq(Byte), NEW b \in Seq(Byte)
  PROVE  HexOf(a) \o HexOf(b) = HexOf(a \o b)
<1> DEFINE m == Len(a)  n == Len(b)  ab == a \o b
           ha == HexOf(a)  hb == HexOf(b)  hab == HexOf(ab)
<1>1. m \in Nat /\ n \in Nat
  BY LenProperties
<1>2. /\ ab \in Seq(Byte) /\ Len(ab) = m + n
      /\ \A i \in 1..(m + n) : ab[i] = IF i <= m THEN a[i] ELSE b[i - m]
  BY ConcatProperties
<1>3. /\ ha \in Seq(Digit) /\ Len(ha) = 2 * m
      /\ \A i \in 1..m : ha[2 * i - 1] = a[i] \div 16 /\ ha[2 * i] = a[i] % 16
  BY HexOfBytes, Zenon
<1>4. /\ hb \in Seq(Digit) /\ Len(hb) = 2 * n
      /\ \A i \in 1..n : hb[2 * i - 1] = b[i] \div 16 /\ hb[2 * i] = b[i] % 16
  BY HexOfBytes, Zenon
<1> HIDE DEF ab
<1>5. /\ hab \in Seq(Digit) /\ Len(hab) = 2 * Len(ab)
      /\ \A i \in 1..Len(ab) : hab[2 * i - 1] = ab[i] \div 16 /\ hab[2 * i] = ab[i] % 16
  BY <1>2, HexOfBytes, Zenon
<1> HIDE DEF ha, hb, hab
<1> DEFINE both == ha \o hb
<1>6. /\ both \in Seq(Digit) /\ Len(both) = 2 * m + 2 * n
      /\ \A i \in 1..(2 * m + 2 * n) : both[i] = IF i <= 2 * m THEN ha[i] ELSE hb[i - 2 * m]
  <2>1. /\ both \in Seq(Digit) /\ Len(both) = Len(ha) + Len(hb)
        /\ \A i \in 1..(Len(ha) + Len(hb)) :
             both[i] = IF i <= Len(ha) THEN ha[i] ELSE hb[i - Len(ha)]
    BY <1>3, <1>4, ConcatProperties, Zenon
  <2> QED
    BY <1>3, <1>4, <2>1, Zenon
<1> HIDE DEF both, m, n
<1>7. ASSUME NEW i \in 1..(2 * m + 2 * n) PROVE both[i] = hab[i]
  <2>1. PICK j \in 1..(m + n) : i = 2 * j - 1 \/ i = 2 * j
    <3>1. (i + 1) \div 2 \in 1..(m + n)
      BY <1>1
    <3>2. i = 2 * ((i + 1) \div 2) - 1 \/ i = 2 * ((i + 1) \div 2)
      BY <1>1
    <3> QED
      BY <3>1, <3>2
  <2>2. hab[2 * j - 1] = ab[j] \div 16 /\ hab[2 * j] = ab[j] % 16
    BY <1>2, <1>5
  <2>3. CASE j <= m
    <3>1. j \in 1..m /\ ab[j] = a[j]
      BY <1>1, <1>2, <2>3
    <3>2. ha[2 * j - 1] = a[j] \div 16 /\ ha[2 * j] = a[j] % 16
      BY <1>3, <3>1
    <3>3. i <= 2 * m /\ both[i] = ha[i]
      BY <1>1, <1>6, <2>1, <2>3
    <3> QED
      BY <2>1, <2>2, <3>1, <3>2, <3>3
  <2>4. CASE ~(j <= m)
    <3>1. j - m \in 1..n /\ ab[j] = b[j - m]
      BY <1>1, <1>2, <2>4
    <3>2. hb[2 * (j - m) - 1] = b[j - m] \div 16 /\ hb[2 * (j - m)] = b[j - m] % 16
      BY <1>4, <3>1
    <3>3. both[i] = hb[i - 2 * m]
      BY <1>1, <1>6, <2>1, <2>4
    <3>4. i = 2 * j - 1 => i - 2 * m = 2 * (j - m) - 1
      BY <1>1
    <3>5. i = 2 * j => i - 2 * m = 2 * (j - m)
      BY <1>1
    <3> QED
      BY <2>1, <2>2, <3>1, <3>2, <3>3, <3>4, <3>5
  <2> QED
    BY <2>3, <2>4
<1>8. Len(both) = Len(hab) /\ Len(both) = 2 * m + 2 * n
  BY <1>1, <1>2, <1>5, <1>6
<1>9. both = hab
  BY <1>5, <1>6, <1>7, <1>8, SeqEqual
<1> QED
  BY <1>9 DEF both, hab, ab, ha, hb

(* A byte below sixteen has a zero before its digit.                       *)
LEMMA HexOfDigit ==
  ASSUME NEW d \in Digit
  PROVE  HexOf(<<d>>) = <<0, d>>
<1>1. d \div 16 = 0 /\ d % 16 = d
  BY SMT DEF Digit
<1>2. HexOf(<<d>>) = [i \in 1..2 |-> IF i % 2 = 1 THEN <<d>>[(i + 1) \div 2] \div 16
                                     ELSE <<d>>[i \div 2] % 16]
  BY DEF HexOf
<1>3. HexOf(<<d>>) = [i \in 1..2 |-> IF i = 1 THEN 0 ELSE d]
  BY <1>1, <1>2
<1>4. HexOf(<<d>>) = [i \in 1..2 |-> IF i = 1 THEN 0 ELSE d] /\ d \in Digit
  BY <1>3
<1> QED
  BY <1>4

(* Two digits are those of one byte.                                       *)
LEMMA HexOfPair ==
  ASSUME NEW a \in Digit, NEW b \in Digit
  PROVE  16 * a + b \in Byte /\ HexOf(<<16 * a + b>>) = <<a, b>>
<1> DEFINE x == 16 * a + b
<1>1. x \in Byte /\ x \div 16 = a /\ x % 16 = b
  BY SMT DEF Digit, Byte
<1> HIDE DEF x
<1>2. HexOf(<<x>>) = [i \in 1..2 |-> IF i % 2 = 1 THEN <<x>>[(i + 1) \div 2] \div 16
                                     ELSE <<x>>[i \div 2] % 16]
  BY DEF HexOf
<1>3. HexOf(<<x>>) = [i \in 1..2 |-> IF i = 1 THEN a ELSE b]
  BY <1>1, <1>2
<1>4. HexOf(<<x>>) = <<a, b>>
  BY <1>3
<1> QED
  BY <1>1, <1>4 DEF x

-----------------------------------------------------------------------------
(* Two bytes, the most significant first.                                  *)

(* One more than a register can hold, and the value of four digits.        *)
Span == 65536
Weighed(a, b, c, e) == 4096 * a + 256 * b + 16 * c + e

(* A number is written in two bytes.                                       *)
LEMMA WordIsTwoBytes ==
  ASSUME NEW n \in Nat
  PROVE  /\ Word(n) \in Seq(Byte) /\ Len(Word(n)) = 2
         /\ Word(n)[1] = (n \div 256) % 256 /\ Word(n)[2] = n % 256
  BY SMT DEF Word, Byte

(* The two bytes of a number.                                              *)
LEMMA WordBytes ==
  ASSUME NEW n \in Nat
  PROVE  /\ (n \div 256) % 256 \in Byte /\ n % 256 \in Byte
         /\ Word(n) = <<(n \div 256) % 256, n % 256>>
  BY SMT DEF Word, Byte

(* A number that fits two bytes is read back from them.                    *)
LEMMA WordReadBack ==
  ASSUME NEW n \in Nat, n < Span
  PROVE  256 * ((n \div 256) % 256) + (n % 256) = n
  BY SMT DEF Span

(* Of the value of four or more digits, two bytes keep the last four.      *)
LEMMA HexToDecLast ==
  ASSUME NEW d \in Seq(Digit), Len(d) >= 4
  PROVE  /\ HexToDec(d) \in Nat
         /\ HexToDec(d) % Span = Weighed(d[Len(d) - 3], d[Len(d) - 2], d[Len(d) - 1], d[Len(d)])
         /\ Len(d) = 4 => HexToDec(d) < Span
<1> DEFINE n == Len(d)
<1>1. n \in Nat /\ 0 + n <= n
  BY LenProperties
<1>2. PICK v : Horner(d, 0, n, v) /\ HexToDec(d) = v[n]
  BY HexToDecIsHorner
<1>3. \A i \in 0..n : v[i] \in Nat
  BY <1>1, <1>2, HornerNat
<1>4. v[0] = 0 /\ \A i \in 1..n : d[0 + i] \in 0..15 /\ v[i] = 16 * v[i - 1] + d[0 + i]
  BY <1>1, <1>2, HornerSteps
<1>5. \A i \in 1..n : d[i] \in 0..15 /\ v[i] = 16 * v[i - 1] + d[i]
  BY <1>1, <1>4
<1> DEFINE x == v[n - 4]  a == d[n - 3]  b == d[n - 2]  c == d[n - 1]  e == d[n]
           low == 4096 * a + 256 * b + 16 * c + e
<1>6. x \in Nat /\ a \in 0..15 /\ b \in 0..15 /\ c \in 0..15 /\ e \in 0..15
  BY <1>1, <1>3, <1>5
<1>7. /\ v[n - 3] = 16 * x + a /\ v[n - 2] = 16 * v[n - 3] + b
      /\ v[n - 1] = 16 * v[n - 2] + c /\ v[n] = 16 * v[n - 1] + e
  BY <1>1, <1>5
<1> HIDE DEF x, a, b, c, e
<1>8. v[n] = 65536 * x + low
  BY <1>6, <1>7, SMT
<1>9. low \in Nat /\ low < 65536
  BY <1>6, SMT
<1> HIDE DEF low
<1>10. v[n] % 65536 = low
  BY <1>6, <1>8, <1>9, SMT
<1>11. n = 4 => x = 0
  BY <1>4 DEF x
<1>12. n = 4 => v[n] < 65536
  BY <1>8, <1>9, <1>11, SMT
<1> QED
  BY <1>1, <1>2, <1>3, <1>10, <1>12, SMT DEF Span, Weighed, low, a, b, c, e

(* The value of four digits.                                               *)
LEMMA HexToDecOfFour ==
  ASSUME NEW d \in Seq(Digit), Len(d) = 4
  PROVE  HexToDec(d) = Weighed(d[1], d[2], d[3], d[4])
<1>1. Len(d) >= 4
  OBVIOUS
<1>2. /\ HexToDec(d) \in Nat /\ HexToDec(d) < Span
      /\ HexToDec(d) % Span = Weighed(d[Len(d) - 3], d[Len(d) - 2], d[Len(d) - 1], d[Len(d)])
  BY <1>1, HexToDecLast, Zenon
<1> QED
  BY <1>2, SMT DEF Span, Weighed

(* Two digits are found in their value.                                    *)
LEMMA TwoDigits ==
  ASSUME NEW a \in 0..15, NEW b \in 0..15
  PROVE  (16 * a + b) \div 16 = a /\ (16 * a + b) % 16 = b
  OBVIOUS

(* The digits of a number in two bytes are its last four.                  *)
LEMMA HexOfWord ==
  ASSUME NEW n \in Nat, NEW a \in Digit, NEW b \in Digit, NEW c \in Digit, NEW e \in Digit,
         n % Span = Weighed(a, b, c, e)
  PROVE  HexOf(Word(n)) = <<a, b, c, e>>
<1> DEFINE w == Word(n)  h == HexOf(w)
<1>1. a \in 0..15 /\ b \in 0..15 /\ c \in 0..15 /\ e \in 0..15
  BY DEF Digit
<1>2. (n \div 256) % 256 = 16 * a + b /\ n % 256 = 16 * c + e
  BY <1>1, SMT DEF Span, Weighed
<1>3. w \in Seq(Byte) /\ Len(w) = 2 /\ w[1] = 16 * a + b /\ w[2] = 16 * c + e
  BY <1>2, WordIsTwoBytes, ZenonT(60)
<1>4. w \in Seq(Byte) /\ Len(w) = 2
  BY <1>3
<1> HIDE DEF w
<1>5. /\ h \in Seq(Digit) /\ Len(h) = 4
      /\ h[1] = w[1] \div 16 /\ h[2] = w[1] % 16
      /\ h[3] = w[2] \div 16 /\ h[4] = w[2] % 16
  BY <1>4, HexOfTwo, ZenonT(60)
<1> HIDE DEF h
<1>6. /\ w[1] \div 16 = a /\ w[1] % 16 = b
      /\ w[2] \div 16 = c /\ w[2] % 16 = e
  BY <1>1, <1>3, TwoDigits
<1>7. h = <<a, b, c, e>>
  BY <1>5, <1>6
<1> QED
  BY <1>7 DEF h, w

(* Two bytes written in hexadecimal have the value of the two.             *)
LEMMA HexToDecOfWord ==
  ASSUME NEW hi \in Byte, NEW lo \in Byte
  PROVE  HexToDec(HexOf(<<hi, lo>>)) = 256 * hi + lo
<1> DEFINE b == <<hi, lo>>  d == HexOf(b)
<1>1. b \in Seq(Byte) /\ Len(b) = 2 /\ b[1] = hi /\ b[2] = lo
  OBVIOUS
<1>2. hi \in 0..255 /\ lo \in 0..255
  BY DEF Byte
<1> HIDE DEF b
<1>3. d \in Seq(Digit) /\ Len(d) = 4
  BY <1>1, HexOfTwo, Zenon
<1>4. /\ d[1] = hi \div 16 /\ d[2] = hi % 16
      /\ d[3] = lo \div 16 /\ d[4] = lo % 16
  BY <1>1, HexOfTwo, Zenon
<1> HIDE DEF d
<1>5. HexToDec(d) = Weighed(d[1], d[2], d[3], d[4])
  BY <1>3, HexToDecOfFour
<1>6. HexToDec(d) = 256 * hi + lo
  BY <1>2, <1>4, <1>5, SMT DEF Weighed
<1> QED
  BY <1>6 DEF d, b

-----------------------------------------------------------------------------
(* Register values, each in its format.                                    *)

(* A decimal value that a write accepts is read back.                      *)
LEMMA DecimalReadBack ==
  ASSUME NEW v \in Int, WriteRegister(v, "dec").ok
  PROVE  ReportRegister(WriteRegister(v, "dec").value, "dec") = v
<1>1. ConvertToHex(v, "dec") = DecToHex(v) /\ \A d : ConvertFromHex(d, "dec") = HexToDec(d)
  BY DEF ConvertToHex, ConvertFromHex
<1>2. 0 <= v /\ v <= 65535 /\ DecToHex(v) = Ok(HexOf(Word(v)))
  BY <1>1, SMT DEF WriteRegister, DecToHex, Error
<1>3. HexToDec(HexOf(Word(v))) = v
  <2>1. HexToDec(HexOf(Word(v))) = 256 * ((v \div 256) % 256) + (v % 256)
    BY <1>2, WordBytes, HexToDecOfWord
  <2> QED
    BY <1>2, <2>1, SMT
<1>4. WriteRegister(v, "dec").value = Word(v)
  BY <1>1, <1>2, <1>3 DEF WriteRegister, Ok
<1> QED
  BY <1>1, <1>3, <1>4 DEF ReportRegister

(* A hexadecimal value of four digits or more keeps its last four.         *)
LEMMA HexOfLastDigits ==
  ASSUME NEW d \in Seq(Digit), Len(d) >= 4
  PROVE  HexOf(Word(HexToDec(d))) = <<d[Len(d) - 3], d[Len(d) - 2], d[Len(d) - 1], d[Len(d)]>>
<1>1. /\ HexToDec(d) \in Nat
      /\ HexToDec(d) % Span = Weighed(d[Len(d) - 3], d[Len(d) - 2], d[Len(d) - 1], d[Len(d)])
  BY HexToDecLast, Zenon
<1>2. /\ d[Len(d) - 3] \in Digit /\ d[Len(d) - 2] \in Digit
      /\ d[Len(d) - 1] \in Digit /\ d[Len(d)] \in Digit
  BY ElementOfSeq, LenProperties
<1> QED
  BY <1>1, <1>2, HexOfWord, Zenon

(* A hexadecimal value is read back, short ones with zeros before them.    *)
LEMMA HexReadBack ==
  ASSUME NEW v \in Seq(Digit), WriteRegister(v, "hex").ok
  PROVE  ReportRegister(WriteRegister(v, "hex").value, "hex")
           = IF Len(v) < 4 THEN PadTo4(v) ELSE SubSeq(v, Len(v) - 3, Len(v))
<1> DEFINE d == IF Len(v) < 4 THEN PadTo4(v) ELSE v
           back == HexOf(Word(HexToDec(d)))
<1>1. /\ ConvertToHex(v, "hex") = NormalizeHex(v)
      /\ \A x : ConvertFromHex(x, "dec") = HexToDec(x) /\ ConvertFromHex(x, "hex") = x
  BY DEF ConvertToHex, ConvertFromHex
<1>2. NormalizeHex(v) = Ok(d)
  BY <1>1 DEF WriteRegister, NormalizeHex, Error
<1>3. WriteRegister(v, "hex").value = Word(HexToDec(d))
  BY <1>1, <1>2 DEF WriteRegister, Ok
<1>4. ReportRegister(WriteRegister(v, "hex").value, "hex") = back
  BY <1>1, <1>3, Zenon DEF ReportRegister
<1>5. Len(v) \in Nat /\ \A i \in 1..Len(v) : v[i] \in Digit
  BY LenProperties, ElementOfSeq
<1>6. CASE Len(v) < 4
  <2>1. Zeros(4 - Len(v)) \in Seq(Digit)
    BY <1>5, <1>6 DEF Zeros, Digit
  <2>2. d \in Seq(Digit) /\ Len(d) = 4
    BY <1>5, <1>6, <2>1, ConcatProperties DEF PadTo4, Zeros
  <2> HIDE DEF d
  <2>3. Len(d) >= 4
    BY <2>2
  <2>4. back = <<d[Len(d) - 3], d[Len(d) - 2], d[Len(d) - 1], d[Len(d)]>>
    BY <2>2, <2>3, HexOfLastDigits, Zenon
  <2> HIDE DEF back
  <2>5. back = d
    BY <2>2, <2>4
  <2> QED
    BY <1>4, <1>6, <2>5 DEF d
<1>7. CASE Len(v) >= 4
  <2> DEFINE n == Len(v)  last == SubSeq(v, n - 3, n)
  <2>1. d = v
    BY <1>5, <1>7
  <2>2. back = <<v[n - 3], v[n - 2], v[n - 1], v[n]>>
    BY <1>7, <2>1, HexOfLastDigits, Zenon
  <2>3. n \in Nat /\ \A i \in (n - 3)..n : v[i] \in Digit
    BY <1>5, <1>7
  <2> HIDE DEF n
  <2>4. /\ last \in Seq(Digit) /\ Len(last) = IF n - 3 <= n THEN n - (n - 3) + 1 ELSE 0
        /\ \A i \in 1..(n - (n - 3) + 1) : last[i] = v[n - 3 + i - 1]
    BY <2>3, SubSeqProperties
  <2> HIDE DEF last
  <2>5. Len(last) = 4 /\ \A i \in 1..4 : last[i] = v[n - 3 + i - 1]
    BY <2>3, <2>4
  <2>6. last = <<v[n - 3], v[n - 2], v[n - 1], v[n]>>
    BY <2>3, <2>4, <2>5
  <2>7. ~(Len(v) < 4)
    BY <1>5, <1>7
  <2> QED
    BY <1>4, <2>2, <2>6, <2>7, Zenon DEF n, last
<1> QED
  BY <1>5, <1>6, <1>7

(* A zero after one byte of text is trimmed.                               *)
LEMMA TrimmedPair ==
  ASSUME NEW x \in Byte
  PROVE  TrimNuls(<<x, 0>>) = TrimNuls(<<x>>)
<1> DEFINE Ends(b, n) == /\ \A i \in (n + 1)..Len(b) : b[i] = 0
                         /\ n = 0 \/ b[n] # 0
           end == IF x = 0 THEN 0 ELSE 1
<1>1. end \in 0..1 /\ Ends(<<x, 0>>, end) /\ Ends(<<x>>, end)
  OBVIOUS
<1>2. \A n \in 0..2 : Ends(<<x, 0>>, n) => n = end
  OBVIOUS
<1>3. \A n \in 0..1 : Ends(<<x>>, n) => n = end
  OBVIOUS
<1>4. Len(<<x, 0>>) = 2 /\ Len(<<x>>) = 1
  OBVIOUS
<1> HIDE DEF end
<1>5. (CHOOSE n \in 0..2 : Ends(<<x, 0>>, n)) = end
  <2>1. end \in 0..2
    BY <1>1
  <2> HIDE DEF Ends
  <2> QED
    BY <2>1, <1>1, <1>2
<1>6. (CHOOSE n \in 0..1 : Ends(<<x>>, n)) = end
  <2> HIDE DEF Ends
  <2> QED
    BY <1>1, <1>3
<1>7. TrimNuls(<<x, 0>>) = SubSeq(<<x, 0>>, 1, end) /\ TrimNuls(<<x>>) = SubSeq(<<x>>, 1, end)
  BY <1>4, <1>5, <1>6, Zenon DEF TrimNuls
<1>8. SubSeq(<<x, 0>>, 1, end) = SubSeq(<<x>>, 1, end)
  BY DEF end
<1> QED
  BY <1>7, <1>8

(* The first two of two or more elements.                                  *)
LEMMA FirstTwo ==
  ASSUME NEW S, NEW u \in Seq(S), Len(u) >= 2
  PROVE  SubSeq(u, 1, 2) = <<u[1], u[2]>>
<1> DEFINE two == SubSeq(u, 1, 2)
<1>1. \A i \in 1..2 : u[i] \in S
  BY LenProperties, ElementOfSeq
<1>2. /\ two \in Seq(S) /\ Len(two) = IF 1 <= 2 THEN 2 - 1 + 1 ELSE 0
      /\ \A i \in 1..(2 - 1 + 1) : two[i] = u[1 + i - 1]
  BY <1>1, SubSeqProperties
<1> HIDE DEF two
<1>3. two = <<u[1], u[2]>>
  BY <1>2
<1> QED
  BY <1>3 DEF two

(* Of a text its first two bytes are read back, without trailing zeros.    *)
LEMMA TextReadBack ==
  ASSUME NEW v \in Seq(Byte), WriteRegister(v, "text").ok
  PROVE  ReportRegister(WriteRegister(v, "text").value, "text")
           = TrimNuls(SubSeq(v, 1, IF Len(v) < 2 THEN Len(v) ELSE 2))
<1> DEFINE first  == v[1]
           second == IF Len(v) < 2 THEN 0 ELSE v[2]
<1>1. /\ ConvertToHex(v, "text") = TextToHex(v)
      /\ \A x : ConvertFromHex(x, "dec") = HexToDec(x) /\ ConvertFromHex(x, "text") = HexToText(x)
  BY DEF ConvertToHex, ConvertFromHex
<1>2. v # <<>>
  BY <1>1 DEF WriteRegister, TextToHex, Error
<1>3. Len(v) \in Nat /\ Len(v) # 0 /\ \A i \in 1..Len(v) : v[i] \in Byte
  BY <1>2, LenProperties, ElementOfSeq, EmptySeq
<1>4. first \in Byte /\ second \in Byte
  BY <1>3 DEF Byte
<1>5. SubSeq(v \o <<0>>, 1, 2) = <<first, second>>
  <2> DEFINE u == v \o <<0>>
  <2>1. <<0>> \in Seq(Byte) /\ Len(<<0>>) = 1
    BY DEF Byte
  <2>2. /\ u \in Seq(Byte) /\ Len(u) = Len(v) + Len(<<0>>)
        /\ \A i \in 1..(Len(v) + Len(<<0>>)) :
             u[i] = IF i <= Len(v) THEN v[i] ELSE <<0>>[i - Len(v)]
    BY <2>1, ConcatProperties
  <2> HIDE DEF u
  <2>3. u[1] = first /\ u[2] = second
    BY <1>3, <2>1, <2>2
  <2>4. SubSeq(u, 1, 2) = <<u[1], u[2]>>
    BY <1>3, <2>1, <2>2, FirstTwo
  <2> QED
    BY <2>3, <2>4, Zenon DEF u
<1>6. SubSeq(v, 1, IF Len(v) < 2 THEN Len(v) ELSE 2)
        = IF Len(v) < 2 THEN <<first>> ELSE <<first, second>>
  <2>1. CASE Len(v) < 2
    <3>1. Len(v) = 1
      <4>1. \A n \in Nat : n # 0 /\ n < 2 => n = 1
        OBVIOUS
      <4> QED
        BY <1>3, <2>1, <4>1, Zenon
    <3>2. v = <<first>>
      <4>1. <<first>> \in Seq(Byte) /\ Len(<<first>>) = 1 /\ <<first>>[1] = v[1]
        BY <1>4
      <4>2. \A i \in 1..Len(v) : v[i] = <<first>>[i]
        BY <3>1, <4>1
      <4> HIDE DEF first
      <4> QED
        BY <3>1, <4>1, <4>2, SeqEqual
    <3>3. SubSeq(v, 1, Len(v)) = v
      BY SubSeqFull
    <3> QED
      BY <2>1, <3>1, <3>2, <3>3
  <2>2. CASE ~(Len(v) < 2)
    <3>1. SubSeq(v, 1, 2) = <<v[1], v[2]>>
      BY <1>3, <2>2, FirstTwo
    <3> QED
      BY <2>2, <3>1
  <2> QED
    BY <2>1, <2>2
<1>7. Len(v) < 2 => second = 0
  OBVIOUS
<1> HIDE DEF first, second
<1> DEFINE swapped == <<second, first>>
<1>8. TextToHex(v) = Ok(HexOf(swapped))
  <2> DEFINE two == SubSeq(v \o <<0>>, 1, 2)
  <2>1. TextToHex(v) = Ok(HexOf(<<two[2], two[1]>>))
    BY <1>2, Zenon DEF TextToHex
  <2>2. two = <<first, second>>
    BY <1>5
  <2> HIDE DEF two
  <2>3. two[1] = first /\ two[2] = second
    BY <2>2
  <2> QED
    BY <2>1, <2>3
<1>9. HexToDec(HexOf(swapped)) = 256 * second + first
  BY <1>4, HexToDecOfWord
<1>10. Word(256 * second + first) = swapped
  BY <1>4, SMT DEF Word, Byte
<1>11. WriteRegister(v, "text").value = swapped
  BY <1>1, <1>8, <1>9, <1>10 DEF WriteRegister, Ok
<1>12. HexDecode(HexOf(swapped)).value = swapped
  <2>1. swapped \in Seq(Byte)
    BY <1>4
  <2>2. HexDecode(HexOf(swapped)) = Ok(swapped)
    BY <2>1, DecodedHex, Zenon
  <2> QED
    BY <2>2 DEF Ok
<1>13. HexToText(HexOf(swapped)) = TrimNuls(<<first, second>>)
  <2>1. /\ ~(Len(swapped) < 2) /\ swapped[1] = second /\ swapped[2] = first
        /\ SubSeq(swapped, 3, Len(swapped)) = <<>>
    BY <1>4, SubSeqEmpty
  <2>2. <<first, second>> \o <<>> = <<first, second>>
    BY <1>4, ConcatEmptySeq
  <2> HIDE DEF swapped
  <2> QED
    BY <1>12, <2>1, <2>2, Zenon DEF HexToText
<1>14. ReportRegister(WriteRegister(v, "text").value, "text") = TrimNuls(<<first, second>>)
  BY <1>1, <1>11, <1>13 DEF ReportRegister
<1> QED
  BY <1>4, <1>6, <1>7, <1>14, TrimmedPair

(* Under CallInv what an inverter write accepts is reported by a later     *)
(* read.                                                                   *)
LEMMA ValueReadBack == CallInv => WrittenIsReadBack
<1> DEFINE v == input.value
<1> SUFFICES ASSUME CallInv, Done("value"), output.ok
             PROVE  LET back == ReportRegister(output.value, input.format)
                    IN  CASE input.format = "dec"  -> back = v
                          [] input.format = "text" ->
                               back = TrimNuls(SubSeq(v, 1, IF Len(v) < 2 THEN Len(v) ELSE 2))
                          [] input.format = "hex"  ->
                               IF Len(v) < 4 THEN back = PadTo4(v)
                               ELSE back = SubSeq(v, Len(v) - 3, Len(v))
  BY DEF WrittenIsReadBack
<1>1. /\ output = WriteRegister(v, input.format)
      /\ \/ input.format = "dec" /\ v \in Int
         \/ input.format = "hex" /\ v \in Seq(Digit)
         \/ input.format = "text" /\ v \in Seq(Byte)
  BY InputsAssumption DEF CallInv, Answered, Done, ValueCall
<1>2. CASE input.format = "dec"
  BY <1>1, <1>2, DecimalReadBack
<1>3. CASE input.format = "hex"
  BY <1>1, <1>3, HexReadBack
<1>4. CASE input.format = "text"
  BY <1>1, <1>4, TextReadBack
<1> QED
  BY <1>1, <1>2, <1>3, <1>4

-----------------------------------------------------------------------------
(* The mask.                                                               *)

(* A byte is the sum of its bits.                                          *)
LEMMA BitsOfByte ==
  ASSUME NEW n \in Byte
  PROVE  /\ \A w \in {1, 2, 4, 8, 16, 32, 64, 128} : Bit(n, w) \in {0, 1}
         /\ n = Bit(n, 1) + 2 * Bit(n, 2) + 4 * Bit(n, 4) + 8 * Bit(n, 8)
                + 16 * Bit(n, 16) + 32 * Bit(n, 32) + 64 * Bit(n, 64) + 128 * Bit(n, 128)
  BY SMTT(30) DEF Bit, Byte

(* The bits of a sum of bits are the bits it is made of.                   *)
LEMMA BitsOfSum ==
  ASSUME NEW a \in {0, 1}, NEW b \in {0, 1}, NEW c \in {0, 1}, NEW d \in {0, 1},
         NEW e \in {0, 1}, NEW f \in {0, 1}, NEW g \in {0, 1}, NEW h \in {0, 1},
         NEW n, n = a + 2 * b + 4 * c + 8 * d + 16 * e + 32 * f + 64 * g + 128 * h
  PROVE  /\ n \in Byte
         /\ Bit(n, 1) = a /\ Bit(n, 2) = b /\ Bit(n, 4) = c /\ Bit(n, 8) = d
         /\ Bit(n, 16) = e /\ Bit(n, 32) = f /\ Bit(n, 64) = g /\ Bit(n, 128) = h
  BY SMTT(30) DEF Bit, Byte

(* The exclusive or with the same byte twice changes nothing.              *)
LEMMA XorBack ==
  ASSUME NEW a \in Byte, NEW b \in Byte
  PROVE  Xor(a, b) \in Byte /\ Xor(Xor(a, b), b) = a
<1> DEFINE Weights == {1, 2, 4, 8, 16, 32, 64, 128}
           x(w) == IF Bit(a, w) = Bit(b, w) THEN 0 ELSE 1
           n == Xor(a, b)
<1>1. \A w \in Weights : Bit(a, w) \in {0, 1} /\ Bit(b, w) \in {0, 1} /\ x(w) \in {0, 1}
  BY BitsOfByte
<1>2. n = x(1) + 2 * x(2) + 4 * x(4) + 8 * x(8)
            + 16 * x(16) + 32 * x(32) + 64 * x(64) + 128 * x(128)
  BY DEF Xor
<1> HIDE DEF x
<1>3. n \in Byte /\ \A w \in Weights : Bit(n, w) = x(w)
  <2>1. /\ x(1) \in {0, 1} /\ x(2) \in {0, 1} /\ x(4) \in {0, 1} /\ x(8) \in {0, 1}
        /\ x(16) \in {0, 1} /\ x(32) \in {0, 1} /\ x(64) \in {0, 1} /\ x(128) \in {0, 1}
    BY <1>1
  <2> HIDE DEF n
  <2> QED
    BY <1>2, <2>1, BitsOfSum
<1> HIDE DEF n
<1>4. \A w \in Weights : (IF Bit(n, w) = Bit(b, w) THEN 0 ELSE w) = w * Bit(a, w)
  BY <1>1, <1>3 DEF x
<1>5. Xor(n, b) = Bit(a, 1) + 2 * Bit(a, 2) + 4 * Bit(a, 4) + 8 * Bit(a, 8)
                    + 16 * Bit(a, 16) + 32 * Bit(a, 32) + 64 * Bit(a, 64) + 128 * Bit(a, 128)
  BY <1>1, <1>4 DEF Xor
<1>6. Xor(n, b) = a
  BY <1>5, BitsOfByte
<1> QED
  BY <1>3, <1>6 DEF n

(* The exclusive or of a byte with itself is zero.                         *)
LEMMA SameBytes == \A a \in Byte : Xor(a, a) = 0
  BY DEF Xor

(* The mask is made of bytes.                                              *)
LEMMA MaskBytes == \A n \in Nat : Mask[(n % 7) + 1] \in Byte
<1>1. SUFFICES ASSUME NEW n \in Nat PROVE Mask[(n % 7) + 1] \in Byte
  OBVIOUS
<1>2. n % 7 \in 0..6
  OBVIOUS
<1>3. \A i \in 1..7 : Mask[i] \in Byte
  BY DEF Mask, Byte
<1>4. (n % 7) + 1 \in 1..7
  BY <1>2
<1> QED
  BY <1>3, <1>4

(* Masking keeps the length and changes the bytes from the ninth to the    *)
(* last to be masked.                                                      *)
LEMMA MaskedBytes ==
  ASSUME NEW f \in Seq(Byte), NEW last \in Int
  PROVE  /\ Masked(f, last) \in Seq(Byte) /\ Len(Masked(f, last)) = Len(f)
         /\ \A i \in 1..Len(f) :
              Masked(f, last)[i] =
                IF i \in 9..last THEN Xor(f[i], Mask[((i - 9) % 7) + 1]) ELSE f[i]
<1> DEFINE n == Len(f)  m == Masked(f, last)
           byte(i) == IF i \in 9..last THEN Xor(f[i], Mask[((i - 9) % 7) + 1]) ELSE f[i]
<1>1. n \in Nat /\ \A i \in 1..n : f[i] \in Byte
  BY LenProperties, ElementOfSeq
<1>2. m = [i \in 1..n |-> byte(i)]
  BY DEF Masked
<1>3. ASSUME NEW i \in 1..n PROVE byte(i) \in Byte
  <2>1. CASE i \in 9..last
    <3>1. i - 9 \in Nat
      BY <1>1, <2>1
    <3>2. Mask[((i - 9) % 7) + 1] \in Byte
      BY <3>1, MaskBytes
    <3> QED
      BY <1>1, <2>1, <3>2, XorBack, Zenon
  <2>2. CASE ~(i \in 9..last)
    BY <1>1, <2>2
  <2> QED
    BY <2>1, <2>2
<1> HIDE DEF byte, n, m
<1>4. m \in [1..n -> Byte]
  BY <1>2, <1>3
<1>5. m \in Seq(Byte) /\ Len(m) = n
  BY <1>1, <1>4
<1> QED
  BY <1>2, <1>5 DEF byte, n, m

(* What decryptIfNeeded makes of a finished frame begins with the frame as *)
(* it was before it was masked and sealed, or sent as it was under         *)
(* protocol 02.                                                            *)
LEMMA Unsealed ==
  ASSUME NEW v \in Seq(Byte), Len(v) >= 8, NEW d \in Digit, v[4] = d
  PROVE  LET f == Finish(v, <<0, d>>)
         IN  /\ f \in Seq(Byte) /\ Len(f) = Len(v) + SealLen(f)
             /\ \A i \in 1..8 : f[i] = v[i]
             /\ Plain(f) \in Seq(Byte) /\ Len(Plain(f)) = Len(f)
             /\ \A i \in 1..Len(v) : Plain(f)[i] = v[i]
<1> DEFINE n == Len(v)  f == Finish(v, <<0, d>>)
           m == Masked(v, n)  p == Plain(f)
<1>1. n \in Nat /\ n >= 8 /\ \A i \in 1..n : v[i] \in Byte
  BY LenProperties, ElementOfSeq
<1>2. CASE d = 2
  <2>1. f = v
    BY <1>2 DEF Finish, Sealed
  <2>2. f[4] = 2
    BY <1>2, <2>1
  <2>3. p = v /\ SealLen(f) = 0
    BY <2>1, <2>2 DEF Plain, SealLen
  <2> HIDE DEF f, p
  <2>4. /\ f \in Seq(Byte) /\ Len(f) = n + SealLen(f)
        /\ \A i \in 1..8 : f[i] = v[i]
        /\ p \in Seq(Byte) /\ Len(p) = Len(f)
        /\ \A i \in 1..n : p[i] = v[i]
    BY <1>1, <2>1, <2>3
  <2> QED
    BY <2>4 DEF f, p
<1>3. CASE d # 2
  <2>1. <<0, d>> # <<0, 2>>
    BY <1>3
  <2>2. f = m \o Crc
    BY <2>1 DEF Finish, Sealed
  <2>3. /\ m \in Seq(Byte) /\ Len(m) = n
        /\ \A i \in 1..n :
             m[i] = IF i \in 9..n THEN Xor(v[i], Mask[((i - 9) % 7) + 1]) ELSE v[i]
    BY <1>1, MaskedBytes
  <2>4. Crc \in Seq(Byte) /\ Len(Crc) = 2
    BY DEF Crc, Byte
  <2> HIDE DEF m, f
  <2>5. /\ f \in Seq(Byte) /\ Len(f) = n + 2
        /\ \A i \in 1..n : f[i] = m[i]
    <3>1. /\ f \in Seq(Byte) /\ Len(f) = Len(m) + Len(Crc)
          /\ \A i \in 1..(Len(m) + Len(Crc)) :
               f[i] = IF i <= Len(m) THEN m[i] ELSE Crc[i - Len(m)]
      BY <2>2, <2>3, <2>4, ConcatProperties, ZenonT(60)
    <3> HIDE DEF n
    <3> QED
      BY <1>1, <2>3, <2>4, <3>1
  <2> HIDE DEF n
  <2>6. ASSUME NEW i \in 1..8 PROVE f[i] = v[i]
    <3>1. i \in 1..n /\ ~(i \in 9..n)
      BY <1>1
    <3> QED
      BY <2>3, <2>5, <3>1, Zenon
  <2>7. f[4] = d
    BY <2>6
  <2>8. p = Masked(f, n) /\ SealLen(f) = 2
    <3>1. Len(f) - 2 = n
      BY <1>1, <2>5
    <3> QED
      BY <1>3, <2>7, <3>1 DEF Plain, SealLen
  <2> HIDE DEF p
  <2>9. /\ p \in Seq(Byte) /\ Len(p) = Len(f)
        /\ \A i \in 1..Len(f) :
             p[i] = IF i \in 9..n THEN Xor(f[i], Mask[((i - 9) % 7) + 1]) ELSE f[i]
    <3>1. n \in Int
      BY <1>1
    <3>2. /\ Masked(f, n) \in Seq(Byte) /\ Len(Masked(f, n)) = Len(f)
          /\ \A i \in 1..Len(f) :
               Masked(f, n)[i] =
                 IF i \in 9..n THEN Xor(f[i], Mask[((i - 9) % 7) + 1]) ELSE f[i]
      BY <2>5, <3>1, MaskedBytes, ZenonT(60)
    <3> QED
      BY <2>8, <3>2, Zenon
  <2>10. ASSUME NEW i \in 1..n PROVE p[i] = v[i]
    <3>1. i \in 1..Len(f) /\ f[i] = m[i]
      BY <1>1, <2>5
    <3>2. CASE i \in 9..n
      <4>1. i - 9 \in Nat
        BY <1>1, <3>2
      <4>2. Mask[((i - 9) % 7) + 1] \in Byte /\ v[i] \in Byte
        BY <1>1, <4>1, MaskBytes
      <4>3. /\ p[i] = Xor(f[i], Mask[((i - 9) % 7) + 1])
            /\ m[i] = Xor(v[i], Mask[((i - 9) % 7) + 1])
        BY <2>3, <2>9, <3>1, <3>2, Zenon
      <4> QED
        BY <3>1, <4>2, <4>3, XorBack
    <3>3. CASE ~(i \in 9..n)
      BY <2>3, <2>9, <3>1, <3>3, Zenon
    <3> QED
      BY <3>2, <3>3
  <2> QED
    BY <2>5, <2>6, <2>8, <2>9, <2>10, Zenon DEF n, f, p
<1> QED
  BY <1>2, <1>3

-----------------------------------------------------------------------------
(* Sequences one after the other.                                          *)

(* The elements of a concatenation.                                        *)
LEMMA Joined ==
  ASSUME NEW S, NEW s \in Seq(S), NEW t \in Seq(S)
  PROVE  /\ s \o t \in Seq(S) /\ Len(s \o t) = Len(s) + Len(t)
         /\ \A i \in 1..Len(s) : (s \o t)[i] = s[i]
         /\ \A i \in (Len(s) + 1)..(Len(s) + Len(t)) : (s \o t)[i] = t[i - Len(s)]
<1> DEFINE u == s \o t  m == Len(s)  n == Len(t)
<1>1. m \in Nat /\ n \in Nat
  BY LenProperties
<1>2. /\ u \in Seq(S) /\ Len(u) = m + n
      /\ \A i \in 1..(m + n) : u[i] = IF i <= m THEN s[i] ELSE t[i - m]
  BY ConcatProperties, Zenon
<1> HIDE DEF u, m, n
<1>3. ASSUME NEW i \in 1..m PROVE u[i] = s[i]
  <2>1. i \in 1..(m + n) /\ i <= m
    BY <1>1
  <2> QED
    BY <1>2, <2>1, Zenon
<1>4. ASSUME NEW i \in (m + 1)..(m + n) PROVE u[i] = t[i - m]
  <2>1. i \in 1..(m + n) /\ ~(i <= m)
    BY <1>1
  <2> QED
    BY <1>2, <2>1, Zenon
<1> QED
  BY <1>2, <1>3, <1>4, Zenon DEF u, m, n

(* The elements of a sequence with one more at its end.                    *)
LEMMA Extended ==
  ASSUME NEW S, NEW s \in Seq(S), NEW x \in S
  PROVE  /\ s \o <<x>> \in Seq(S) /\ Len(s \o <<x>>) = Len(s) + 1
         /\ \A i \in 1..Len(s) : (s \o <<x>>)[i] = s[i]
         /\ (s \o <<x>>)[Len(s) + 1] = x
<1> DEFINE t == <<x>>  u == s \o t  m == Len(s)
<1>1. t \in Seq(S) /\ Len(t) = 1 /\ t[1] = x
  OBVIOUS
<1> HIDE DEF t
<1>2. m \in Nat
  BY LenProperties
<1>3. /\ u \in Seq(S) /\ Len(u) = m + Len(t)
      /\ \A i \in 1..m : u[i] = s[i]
      /\ \A i \in (m + 1)..(m + Len(t)) : u[i] = t[i - m]
  BY <1>1, Joined, Zenon
<1> HIDE DEF u, m
<1>4. m + 1 \in (m + 1)..(m + Len(t)) /\ (m + 1) - m = 1
  BY <1>1, <1>2
<1>5. u[m + 1] = t[(m + 1) - m]
  BY <1>3, <1>4, Zenon
<1>6. u[m + 1] = x
  BY <1>1, <1>4, <1>5, Zenon
<1> QED
  BY <1>1, <1>3, <1>6, Zenon DEF u, t, m

(* Zeros are bytes.                                                        *)
LEMMA ZeroBytes ==
  ASSUME NEW n \in Nat
  PROVE  Zeros(n) \in Seq(Byte) /\ Len(Zeros(n)) = n /\ \A i \in 1..n : Zeros(n)[i] = 0
<1>1. 0 \in Byte
  BY DEF Byte
<1>2. Zeros(n) \in [1..n -> Byte]
  BY <1>1 DEF Zeros
<1> QED
  BY <1>2 DEF Zeros

(* A sequence that is not empty and has at most two elements.              *)
LEMMA OneOrTwo ==
  ASSUME NEW S, NEW s \in Seq(S), Len(s) <= 2, s # <<>>
  PROVE  Len(s) = 1 \/ Len(s) = 2
<1> DEFINE n == Len(s)
<1>1. n \in Nat /\ n # 0
  BY LenProperties, EmptySeq
<1>2. n <= 2
  OBVIOUS
<1> HIDE DEF n
<1>3. n = 1 \/ n = 2
  BY <1>1, <1>2
<1> QED
  BY <1>3, Zenon DEF n

-----------------------------------------------------------------------------
(* Commands.                                                               *)

(* The first eight bytes of a command: its protocol, the length that is    *)
(* counted, the device and the type.                                       *)
HeadBytes(d, n, dev, type) == Word(1) \o <<0>> \o <<d>> \o Word(n) \o <<dev>> \o <<type>>

(* Where the eight bytes are.                                              *)
LEMMA HeadIsEight ==
  ASSUME NEW d \in Digit, NEW n \in Nat, NEW dev \in Byte, NEW type \in Byte,
         NEW head, head = HeadBytes(d, n, dev, type)
  PROVE  /\ head \in Seq(Byte) /\ Len(head) = 8
         /\ head[4] = d /\ head[8] = type
         /\ head[5] = (n \div 256) % 256 /\ head[6] = n % 256
<1> DEFINE w == Word(n)
           a == Word(1) \o <<0>>  b == a \o <<d>>  c == b \o w  e == c \o <<dev>>
           h == e \o <<type>>
<1>1. /\ Word(1) \in Seq(Byte) /\ Len(Word(1)) = 2
      /\ w \in Seq(Byte) /\ Len(w) = 2 /\ w[1] = (n \div 256) % 256 /\ w[2] = n % 256
  BY WordIsTwoBytes
<1>2. 0 \in Byte /\ d \in Byte
  BY SMT DEF Byte, Digit
<1>3. Word(1) \in Seq(Byte) /\ w \in Seq(Byte)
  BY <1>1
<1>4. a \in Seq(Byte) /\ Len(a) = Len(Word(1)) + 1
  BY <1>2, <1>3, Extended
<1> HIDE DEF a
<1>5. a \in Seq(Byte)
  BY <1>4
<1>6. b \in Seq(Byte) /\ Len(b) = Len(a) + 1 /\ b[Len(a) + 1] = d
  BY <1>2, <1>5, Extended
<1> HIDE DEF b
<1>7. Len(b) = 4 /\ b[4] = d
  <2>1. Len(a) = 2 + 1
    BY <1>1, <1>4, Zenon
  <2>2. Len(a) = 3 /\ 3 + 1 = 4
    BY <2>1
  <2> QED
    BY <1>6, <2>2, Zenon
<1> HIDE DEF w
<1>8. /\ c \in Seq(Byte) /\ Len(c) = Len(b) + Len(w)
      /\ \A i \in 1..Len(b) : c[i] = b[i]
      /\ \A i \in (Len(b) + 1)..(Len(b) + Len(w)) : c[i] = w[i - Len(b)]
  BY <1>3, <1>6, Joined, Zenon
<1> HIDE DEF c
<1>9. Len(c) = 6 /\ c[4] = d /\ c[5] = w[1] /\ c[6] = w[2]
  <2>1. /\ Len(c) = 4 + 2
        /\ \A i \in 1..4 : c[i] = b[i]
        /\ \A i \in (4 + 1)..(4 + 2) : c[i] = w[i - 4]
    BY <1>1, <1>7, <1>8, ZenonT(60)
  <2>2. c[4] = b[4] /\ c[5] = w[1] /\ c[6] = w[2]
    BY <2>1
  <2> QED
    BY <1>7, <2>1, <2>2
<1>10. c \in Seq(Byte)
  BY <1>8
<1>11. /\ e \in Seq(Byte) /\ Len(e) = Len(c) + 1
       /\ \A i \in 1..Len(c) : e[i] = c[i]
  BY <1>10, Extended
<1> HIDE DEF e
<1>12. e \in Seq(Byte)
  BY <1>11
<1>13. /\ h \in Seq(Byte) /\ Len(h) = Len(e) + 1
       /\ \A i \in 1..Len(e) : h[i] = e[i]
       /\ h[Len(e) + 1] = type
  BY <1>12, Extended
<1> HIDE DEF h
<1>14. Len(h) = 8 /\ h[4] = d /\ h[8] = type /\ h[5] = w[1] /\ h[6] = w[2]
  BY <1>9, <1>11, <1>13
<1>15. /\ Len(h) = 8 /\ h[4] = d /\ h[8] = type
       /\ h[5] = (n \div 256) % 256 /\ h[6] = n % 256
  BY <1>1, <1>14, Zenon
<1>16. head = h
  BY DEF HeadBytes, h, e, c, w, b, a
<1> QED
  BY <1>13, <1>15, <1>16, Zenon

(* The type of every command is a byte.                                    *)
LEMMA TypeIsByte == \A k \in CommandKinds : TypeByte(k) \in Byte
  BY DEF TypeByte, CommandKinds, InverterKinds, Byte

(* The device is one byte, whatever the kind of the command and for one or *)
(* two digits of the inverter number.                                      *)
LEMMA DeviceByte ==
  ASSUME NEW k \in CommandKinds, NEW no \in Seq(Digit), Len(no) = 1 \/ Len(no) = 2
  PROVE  \E dev \in Byte : DeviceId(k, no) = HexOf(<<dev>>)
<1>0. \A i \in 1..Len(no) : no[i] \in Digit
  BY ElementOfSeq
<1>1. CASE k \notin InverterKinds
  <2>1. 0 \in Digit /\ 1 \in Digit
    BY DEF Digit
  <2>2. DeviceId(k, no) = <<0, 1>>
    BY <1>1 DEF DeviceId
  <2> QED
    BY <2>1, <2>2, HexOfPair
<1>2. CASE k \in InverterKinds /\ Len(no) = 1
  <2>1. no[1] \in Digit /\ 0 \in Digit
    <3>1. 1 \in 1..Len(no)
      BY <1>2
    <3>2. 0 \in Digit
      BY DEF Digit
    <3> QED
      BY <1>0, <3>1, <3>2
  <2>2. no = <<no[1]>>
    BY <1>2, <2>1
  <2>3. DeviceId(k, no) = <<0>> \o no
    BY <1>2 DEF DeviceId
  <2>4. <<0>> \o no = <<0, no[1]>>
    <3> DEFINE z == <<0>>  x == no[1]  u == z \o <<x>>
    <3>1. z \in Seq(Digit) /\ x \in Digit
      BY <2>1
    <3>2. Len(z) = 1 /\ z[1] = 0
      OBVIOUS
    <3> HIDE DEF z, x
    <3>3. /\ u \in Seq(Digit) /\ Len(u) = Len(z) + 1
          /\ \A i \in 1..Len(z) : u[i] = z[i]
          /\ u[Len(z) + 1] = x
      BY <3>1, Extended
    <3> HIDE DEF u
    <3>4. u = <<0, x>>
      BY <3>2, <3>3
    <3>5. u = <<0>> \o no
      BY <2>2, Zenon DEF u, z, x
    <3> QED
      BY <3>4, <3>5, Zenon DEF x
  <2> QED
    BY <2>1, <2>2, <2>3, <2>4, HexOfPair
<1>3. CASE k \in InverterKinds /\ Len(no) = 2
  <2>1. no[1] \in Digit /\ no[2] \in Digit
    <3>1. 1 \in 1..Len(no) /\ 2 \in 1..Len(no)
      BY <1>3
    <3> QED
      BY <1>0, <3>1
  <2>2. no = <<no[1], no[2]>>
    BY <1>3, <2>1
  <2>3. DeviceId(k, no) = no
    BY <1>3 DEF DeviceId
  <2> QED
    BY <2>1, <2>2, <2>3, HexOfPair
<1> QED
  BY <1>1, <1>2, <1>3

(* The header fmt.Sprintf gives is the digits of the eight bytes.          *)
LEMMA HeaderIsHex ==
  ASSUME NEW k \in CommandKinds, NEW d \in Digit, NEW no \in Seq(Digit),
         NEW body \in Seq(Byte), NEW dev \in Byte, DeviceId(k, no) = HexOf(<<dev>>)
  PROVE  CommandHeader(k, <<0, d>>, no, body)
           = HexOf(HeadBytes(d, BodyLen(body), dev, TypeByte(k)))
<1> DEFINE t == TypeByte(k)  n == BodyLen(body)
           a == Word(1) \o <<0>>  b == a \o <<d>>  c == b \o Word(n)  e == c \o <<dev>>
<1>1. t \in Byte
  BY TypeIsByte, Zenon
<1>2. n \in Nat /\ Word(n) \in Seq(Byte) /\ Word(1) \in Seq(Byte)
  <2>1. Len(body) \in Nat
    BY LenProperties, Zenon
  <2>2. 1 \in Nat /\ \A m \in Nat : m + 2 \in Nat
    OBVIOUS
  <2>3. n \in Nat
    BY <2>1, <2>2, Zenon DEF BodyLen
  <2> HIDE DEF n
  <2> QED
    BY <2>2, <2>3, WordIsTwoBytes, ZenonT(60)
<1>3. /\ <<0>> \in Seq(Byte) /\ <<d>> \in Seq(Byte)
      /\ <<dev>> \in Seq(Byte) /\ <<t>> \in Seq(Byte)
  BY <1>1 DEF Byte, Digit
<1>4. a \in Seq(Byte)
  BY <1>2, <1>3, ConcatProperties
<1>5. b \in Seq(Byte)
  BY <1>3, <1>4, ConcatProperties
<1>6. c \in Seq(Byte)
  BY <1>2, <1>5, ConcatProperties
<1>7. e \in Seq(Byte)
  BY <1>3, <1>6, ConcatProperties
<1>8. CommandHeader(k, <<0, d>>, no, body)
        = HexOf(a) \o HexOf(<<d>>) \o HexOf(Word(n)) \o HexOf(<<dev>>) \o HexOf(<<t>>)
  BY HexOfDigit DEF CommandHeader
<1>9. HexOf(a) \o HexOf(<<d>>) = HexOf(b)
  BY <1>3, <1>4, HexOfConcat, Zenon
<1>10. HexOf(b) \o HexOf(Word(n)) = HexOf(c)
  BY <1>2, <1>5, HexOfConcat, Zenon
<1>11. HexOf(c) \o HexOf(<<dev>>) = HexOf(e)
  BY <1>3, <1>6, HexOfConcat, Zenon
<1>12. HexOf(e) \o HexOf(<<t>>) = HexOf(e \o <<t>>)
  BY <1>3, <1>7, HexOfConcat, Zenon
<1>13. e \o <<t>> = HeadBytes(d, n, dev, t)
  BY DEF HeadBytes
<1> HIDE DEF a, b, c, e, t, n
<1>14. CommandHeader(k, <<0, d>>, no, body) = HexOf(e \o <<t>>)
  BY <1>8, <1>9, <1>10, <1>11, <1>12, Zenon
<1> QED
  BY <1>13, <1>14, Zenon DEF t, n

(* The arguments have at most four bytes more than the value.              *)
LEMMA ArgumentBytes ==
  ASSUME NEW k \in CommandKinds, NEW g \in Nat, NEW v \in Seq(Byte)
  PROVE  /\ Arguments(k, g, v) \in Seq(Byte)
         /\ Len(Arguments(k, g, v)) <= Len(v) + 4
<1> DEFINE n == Len(v)
<1>1. n \in Nat /\ 1 \in Nat
  BY LenProperties
<1>2. 2 + 2 = 4
  OBVIOUS
<1>3. \A m \in Nat : Word(m) \in Seq(Byte) /\ Len(Word(m)) = 2
  BY WordIsTwoBytes, ZenonT(60)
<1>4. ASSUME NEW m1 \in Nat, NEW m2 \in Nat
      PROVE  Word(m1) \o Word(m2) \in Seq(Byte) /\ Len(Word(m1) \o Word(m2)) = 4
  <2>1. /\ Word(m1) \o Word(m2) \in Seq(Byte)
        /\ Len(Word(m1) \o Word(m2)) = Len(Word(m1)) + Len(Word(m2))
    BY <1>3, Joined, Zenon
  <2> QED
    BY <1>2, <1>3, <2>1, Zenon
<1>5. \A s \in Seq(Byte) : s \o v \in Seq(Byte) /\ Len(s \o v) = Len(s) + n
  BY Joined, Zenon
<1>6. \A s \in Seq(Byte) : /\ Len(s) = 2 => Len(s \o v) = 2 + n
                           /\ Len(s) = 4 => Len(s \o v) = 4 + n
  BY <1>5, Zenon
<1> HIDE DEF n
<1>7. 4 <= n + 4 /\ 2 + n <= n + 4 /\ 4 + n <= n + 4
  BY <1>1
<1> DEFINE a == Arguments(k, g, v)
<1>8. CASE k \in {"dlRead", "invRead"}
  <2>1. a = Word(g) \o Word(g)
    BY <1>8 DEF Arguments
  <2> QED
    BY <1>4, <1>7, <2>1, Zenon DEF n
<1>9. CASE k = "dlWrite"
  <2>1. a = Word(g) \o Word(Len(v)) \o v
    BY <1>9 DEF Arguments
  <2>2. Word(g) \o Word(Len(v)) \in Seq(Byte) /\ Len(Word(g) \o Word(Len(v))) = 4
    BY <1>1, <1>4, Zenon DEF n
  <2> QED
    BY <1>5, <1>6, <1>7, <2>1, <2>2, Zenon DEF n
<1>10. CASE k = "invWrite"
  <2>1. a = Word(g) \o v
    BY <1>10 DEF Arguments
  <2> QED
    BY <1>3, <1>5, <1>6, <1>7, <2>1, Zenon DEF n
<1>11. CASE k = "multiRead"
  <2>1. a = Word(1) \o Word(g)
    BY <1>11 DEF Arguments
  <2> QED
    BY <1>1, <1>4, <1>7, <2>1, Zenon DEF n
<1>12. CASE k = "multiWrite"
  <2>1. a = Word(1) \o Word(g) \o v
    BY <1>12 DEF Arguments
  <2>2. Word(1) \o Word(g) \in Seq(Byte) /\ Len(Word(1) \o Word(g)) = 4
    BY <1>1, <1>4, Zenon
  <2> QED
    BY <1>5, <1>6, <1>7, <2>1, <2>2, Zenon DEF n
<1>13. \/ k \in {"dlRead", "invRead"} \/ k = "dlWrite" \/ k = "invWrite"
       \/ k = "multiRead" \/ k = "multiWrite"
  BY DEF CommandKinds, InverterKinds
<1> QED
  BY <1>8, <1>9, <1>10, <1>11, <1>12, <1>13, Zenon

(* Bytes of padding under protocol d.                                      *)
PadLen(d) == IF d = 6 THEN 20 ELSE 0

(* The body is the ID of the datalogger, the padding and the arguments.    *)
LEMMA BodyParts ==
  ASSUME NEW d \in Digit, NEW args \in Seq(Byte)
  PROVE  LET body == Body(LoggerId, <<0, d>>, args)
         IN  /\ body \in Seq(Byte) /\ Len(body) = 10 + PadLen(d) + Len(args)
             /\ \A i \in 1..10 : body[i] = LoggerId[i]
             /\ \A i \in 11..(10 + PadLen(d)) : body[i] = 0
             /\ \A i \in 1..Len(args) : body[10 + PadLen(d) + i] = args[i]
<1> DEFINE pad == Padding(<<0, d>>)  m == PadLen(d)  n == Len(args)
           a == LoggerId \o pad  body == a \o args
<1>1. LoggerId \in Seq(Byte) /\ Len(LoggerId) = 10
  BY LoggerIdAssumption
<1>2. /\ pad \in Seq(Byte) /\ Len(pad) = m /\ (m = 0 \/ m = 20) /\ \A i \in 1..m : pad[i] = 0
  <2>1. 0 \in Byte
    BY DEF Byte
  <2>2. CASE d = 6
    <3>1. pad = Zeros(20) /\ m = 20
      BY <2>2 DEF Padding, PadLen
    <3>2. 20 \in Nat
      OBVIOUS
    <3> QED
      BY <3>1, <3>2, ZeroBytes, Zenon
  <2>3. CASE d # 6
    <3>1. <<0, d>> # <<0, 6>>
      BY <2>3
    <3>2. pad = <<>> /\ m = 0
      BY <2>3, <3>1 DEF Padding, PadLen
    <3> HIDE DEF pad, m
    <3> QED
      BY <3>2
  <2> QED
    BY <2>2, <2>3
<1>3. pad \in Seq(Byte) /\ LoggerId \in Seq(Byte)
  BY <1>1, <1>2
<1> HIDE DEF pad, m
<1>4. /\ a \in Seq(Byte) /\ Len(a) = Len(LoggerId) + Len(pad)
      /\ \A i \in 1..Len(LoggerId) : a[i] = LoggerId[i]
      /\ \A i \in (Len(LoggerId) + 1)..(Len(LoggerId) + Len(pad)) : a[i] = pad[i - Len(LoggerId)]
  BY <1>3, Joined, Zenon
<1> HIDE DEF a
<1>5. /\ Len(a) = 10 + m
      /\ \A i \in 1..10 : a[i] = LoggerId[i]
      /\ \A i \in (10 + 1)..(10 + m) : a[i] = pad[i - 10]
  BY <1>1, <1>2, <1>4, Zenon
<1>6. /\ body \in Seq(Byte) /\ Len(body) = Len(a) + n
      /\ \A i \in 1..Len(a) : body[i] = a[i]
      /\ \A i \in (Len(a) + 1)..(Len(a) + n) : body[i] = args[i - Len(a)]
  <2>1. a \in Seq(Byte)
    BY <1>4
  <2> QED
    BY <2>1, Joined, Zenon
<1> HIDE DEF body
<1>7. /\ Len(body) = 10 + m + n
      /\ \A i \in 1..(10 + m) : body[i] = a[i]
      /\ \A i \in ((10 + m) + 1)..((10 + m) + n) : body[i] = args[i - (10 + m)]
  BY <1>5, <1>6, Zenon
<1>8. n \in Nat /\ m \in Nat
  BY <1>2, LenProperties
<1> HIDE DEF n
<1>9. \A i \in 1..10 : body[i] = LoggerId[i]
  <2>1. SUFFICES ASSUME NEW i \in 1..10 PROVE body[i] = LoggerId[i]
    OBVIOUS
  <2>2. i \in 1..(10 + m)
    BY <1>8
  <2> QED
    BY <1>5, <1>7, <2>2, Zenon
<1>10. \A i \in 11..(10 + m) : body[i] = 0
  <2>1. SUFFICES ASSUME NEW i \in 11..(10 + m) PROVE body[i] = 0
    OBVIOUS
  <2>2. i \in 1..(10 + m) /\ i \in (10 + 1)..(10 + m) /\ i - 10 \in 1..m
    BY <1>8
  <2>3. a[i] = pad[i - 10] /\ pad[i - 10] = 0
    BY <1>2, <1>5, <2>2, Zenon
  <2> QED
    BY <1>7, <2>2, <2>3, Zenon
<1>11. \A i \in 1..n : body[10 + m + i] = args[i]
  <2>1. SUFFICES ASSUME NEW i \in 1..n PROVE body[10 + m + i] = args[i]
    OBVIOUS
  <2> DEFINE j == 10 + m + i
  <2>2. j \in ((10 + m) + 1)..((10 + m) + n) /\ j - (10 + m) = i
    BY <1>8
  <2> HIDE DEF j
  <2>3. body[j] = args[j - (10 + m)]
    BY <1>7, <2>2, Zenon
  <2> QED
    BY <2>2, <2>3, Zenon DEF j
<1>12. Body(LoggerId, <<0, d>>, args) = body
  BY DEF Body, body, a, pad
<1> QED
  BY <1>6, <1>7, <1>9, <1>10, <1>11, <1>12, Zenon DEF m, n

(* The frame of a command, from its bytes.                                 *)
CommandFrame(d, dev, type, args) ==
  LET body == Body(LoggerId, <<0, d>>, args)
  IN  Finish(HeadBytes(d, BodyLen(body), dev, type) \o body, <<0, d>>)

(* A command is built, and it is the frame of its bytes.                   *)
LEMMA CommandIsLaidOut ==
  ASSUME NEW k \in CommandKinds, NEW d \in Digit, NEW no \in Seq(Digit),
         Len(no) = 1 \/ Len(no) = 2, NEW args \in Seq(Byte)
  PROVE  \E dev \in Byte : Command(k, LoggerId, <<0, d>>, no, args)
                              = Ok(CommandFrame(d, dev, TypeByte(k), args))
<1> DEFINE p == <<0, d>>  body == Body(LoggerId, p, args)
<1>1. PICK dev \in Byte : DeviceId(k, no) = HexOf(<<dev>>)
  BY DeviceByte
<1> DEFINE head == HeadBytes(d, BodyLen(body), dev, TypeByte(k))  v == head \o body
<1>2. body \in Seq(Byte)
  BY BodyParts
<1>3. TypeByte(k) \in Byte
  BY TypeIsByte, Zenon
<1>4. BodyLen(body) \in Nat
  <2>1. Len(body) \in Nat
    BY <1>2, LenProperties, Zenon
  <2> HIDE DEF body
  <2> QED
    BY <2>1 DEF BodyLen
<1> DEFINE bytes == HexDecode(CommandHeader(k, p, no, body) \o HexOf(body))
<1>5. Command(k, LoggerId, p, no, args)
        = IF bytes.ok THEN Ok(Finish(bytes.value, p)) ELSE Error
  BY DEF Command
<1> HIDE DEF body
<1>6. CommandHeader(k, p, no, body) = HexOf(head)
  BY <1>1, <1>2, HeaderIsHex
<1>7. head \in Seq(Byte)
  BY <1>3, <1>4, HeadIsEight
<1> HIDE DEF head, p
<1>8. HexOf(head) \o HexOf(body) = HexOf(v)
  BY <1>2, <1>7, HexOfConcat, Zenon
<1>9. v \in Seq(Byte)
  BY <1>2, <1>7, ConcatProperties, Zenon
<1> HIDE DEF v
<1>10. bytes = Ok(v)
  BY <1>6, <1>8, <1>9, DecodedHex, Zenon
<1>11. bytes.ok = TRUE /\ bytes.value = v
  BY <1>10 DEF Ok
<1>12. Command(k, LoggerId, p, no, args) = Ok(Finish(v, p))
  BY <1>5, <1>11, Zenon
<1>13. Finish(v, p) = CommandFrame(d, dev, TypeByte(k), args)
  BY Zenon DEF CommandFrame, v, head, body, p
<1> QED
  BY <1>12, <1>13, Zenon DEF p

(* The length that is counted fits two bytes.                              *)
Fits(d, args) == 12 + PadLen(d) + Len(args) < Span

(* It does for every value of at most MaxBytes.                            *)
LEMMA CommandFits ==
  ASSUME NEW d \in Digit, NEW args \in Seq(Byte), NEW v \in Seq(Byte),
         Len(v) <= MaxBytes, Len(args) <= Len(v) + 4
  PROVE  Fits(d, args)
<1> DEFINE n == Len(args)  m == Len(v)  pad == PadLen(d)
<1>1. n \in Nat /\ m \in Nat /\ n <= m + 4 /\ m <= MaxBytes
  BY LenProperties, Zenon
<1>2. pad = 0 \/ pad = 20
  BY DEF PadLen
<1> HIDE DEF n, m, pad
<1>3. 12 + pad + n < Span
  BY <1>1, <1>2, SMT DEF Span, MaxBytes
<1> QED
  BY <1>3, Zenon DEF Fits, n, pad

(* What CommandsReadBack says of a frame.                                  *)
ReadsBack(f, d, type, args) ==
  LET p    == Plain(f)
      from == IF f[4] = 6 THEN 39 ELSE 19
  IN  /\ f[4] = d /\ f[8] = type
      /\ SubSeq(p, 9, 18) = LoggerId
      /\ \A i \in 19..(from - 1) : p[i] = 0
      /\ SubSeq(p, from, Len(p) - SealLen(f)) = args
      /\ Counted(f) = Len(f) - 6 - SealLen(f)

(* A frame is read back.                                                   *)
LEMMA FrameReads ==
  ASSUME NEW d \in Digit, NEW type \in Byte, NEW dev \in Byte,
         NEW args \in Seq(Byte), Fits(d, args)
  PROVE  ReadsBack(CommandFrame(d, dev, type, args), d, type, args)
<1> DEFINE body  == Body(LoggerId, <<0, d>>, args)
           m     == PadLen(d)
           n     == Len(args)
           count == BodyLen(body)
           head  == HeadBytes(d, count, dev, type)
           v     == head \o body
           f     == Finish(v, <<0, d>>)
           p     == Plain(f)
           from  == IF f[4] = 6 THEN 39 ELSE 19
<1>3. n \in Nat /\ (m = 0 \/ m = 20)
  BY LenProperties DEF PadLen
<1>4. /\ body \in Seq(Byte) /\ Len(body) = 10 + m + n
      /\ \A i \in 1..10 : body[i] = LoggerId[i]
      /\ \A i \in 11..(10 + m) : body[i] = 0
      /\ \A i \in 1..n : body[10 + m + i] = args[i]
  BY BodyParts, Zenon
<1>5. count = Len(body) + 2
  BY DEF BodyLen
<1> HIDE DEF body, m, n, count
<1>6. count = 12 + m + n
  BY <1>3, <1>4, <1>5, SMTT(60)
<1>7. count \in Nat /\ count < Span
  <2>1. count \in Nat
    BY <1>3, <1>6
  <2>2. 12 + m + n < Span
    BY Zenon DEF Fits, m, n
  <2> QED
    BY <1>6, <2>1, <2>2, Zenon
<1>8. /\ head \in Seq(Byte) /\ Len(head) = 8 /\ head[4] = d /\ head[8] = type
      /\ head[5] = (count \div 256) % 256 /\ head[6] = count % 256
  <2>1. count \in Nat
    BY <1>7
  <2>2. head = HeadBytes(d, count, dev, type)
    OBVIOUS
  <2> HIDE DEF head
  <2> QED
    BY <2>1, <2>2, HeadIsEight
<1> HIDE DEF head
<1>9. /\ v \in Seq(Byte) /\ Len(v) = 8 + (10 + m + n)
      /\ \A i \in 1..8 : v[i] = head[i]
      /\ \A i \in (8 + 1)..(8 + (10 + m + n)) : v[i] = body[i - 8]
  <2>1. head \in Seq(Byte) /\ body \in Seq(Byte)
    BY <1>4, <1>8
  <2>2. /\ v \in Seq(Byte) /\ Len(v) = Len(head) + Len(body)
        /\ \A i \in 1..Len(head) : v[i] = head[i]
        /\ \A i \in (Len(head) + 1)..(Len(head) + Len(body)) : v[i] = body[i - Len(head)]
    BY <2>1, Joined, Zenon
  <2> HIDE DEF v
  <2> QED
    BY <1>4, <1>8, <2>2, ZenonT(60)
<1> HIDE DEF v
<1>10. Len(v) >= 8 /\ v[4] = d /\ 4 \in 1..8
  BY <1>3, <1>8, <1>9, SMTT(60)
<1>11. /\ f \in Seq(Byte) /\ Len(f) = Len(v) + SealLen(f)
       /\ \A i \in 1..8 : f[i] = v[i]
       /\ p \in Seq(Byte) /\ Len(p) = Len(f)
       /\ \A i \in 1..Len(v) : p[i] = v[i]
  BY <1>9, <1>10, Unsealed
<1>12. SealLen(f) \in Nat
  BY DEF SealLen
<1> HIDE DEF p, f
<1>13. /\ Len(p) - SealLen(f) = 18 + m + n /\ Len(f) - 6 - SealLen(f) = 12 + m + n
       /\ \A i \in 1..(18 + m + n) : p[i] = v[i]
  <2>1. 8 + (10 + m + n) = 18 + m + n /\ 18 + m + n \in Nat
    BY <1>3
  <2>2. Len(v) = 18 + m + n
    BY <1>9, <2>1, Zenon
  <2>3. /\ Len(f) = 18 + m + n + SealLen(f) /\ Len(p) = Len(f)
        /\ \A i \in 1..(18 + m + n) : p[i] = v[i]
    BY <1>11, <2>2, Zenon
  <2>4. Len(f) \in Nat
    BY <1>11, LenProperties, Zenon
  <2>5. Len(f) - SealLen(f) = 18 + m + n /\ Len(f) - 6 - SealLen(f) = 12 + m + n
    BY <1>3, <1>12, <2>3, <2>4
  <2> QED
    BY <2>3, <2>5, Zenon
<1>14. \A i \in 1..8 : f[i] = head[i]
  BY <1>9, <1>11, Zenon
<1>15. f[4] = d /\ f[8] = type
  BY <1>8, <1>14
<1>16. from = 19 + m
  BY <1>15 DEF m, PadLen
<1> HIDE DEF from
<1>17. ASSUME NEW i \in 1..(10 + m + n) PROVE p[8 + i] = body[i]
  <2> DEFINE j == 8 + i
  <2>1. j \in 1..(18 + m + n) /\ j \in (8 + 1)..(8 + (10 + m + n)) /\ j - 8 = i
    BY <1>3
  <2> HIDE DEF j
  <2>2. p[j] = v[j] /\ v[j] = body[j - 8]
    BY <1>9, <1>13, <2>1, Zenon
  <2> QED
    BY <2>1, <2>2, Zenon DEF j
<1>18. Counted(f) = Len(f) - 6 - SealLen(f)
  <2>1. f[5] = (count \div 256) % 256 /\ f[6] = count % 256
    BY <1>8, <1>14
  <2>2. 256 * ((count \div 256) % 256) + (count % 256) = count
    BY <1>7, WordReadBack, Zenon
  <2>3. Counted(f) = count
    BY <2>1, <2>2, ZenonT(60) DEF Counted
  <2> QED
    BY <1>6, <1>13, <2>3, Zenon
<1>19. SubSeq(p, 9, 18) = LoggerId
  <2> DEFINE u == SubSeq(p, 9, 18)
  <2>1. \A i \in 9..18 : p[i] \in Byte
    <3>1. SUFFICES ASSUME NEW i \in 9..18 PROVE p[i] \in Byte
      OBVIOUS
    <3>2. i \in 1..(18 + m + n)
      BY <1>3
    <3>3. i \in 1..Len(v)
      BY <1>3, <1>9, SMTT(60)
    <3>4. v[i] \in Byte
      BY <1>9, <3>3, ElementOfSeq, Zenon
    <3> QED
      BY <1>13, <3>2, <3>4, Zenon
  <2>2. /\ u \in Seq(Byte) /\ Len(u) = IF 9 <= 18 THEN 18 - 9 + 1 ELSE 0
        /\ \A i \in 1..(18 - 9 + 1) : u[i] = p[9 + i - 1]
    BY <2>1, SubSeqProperties
  <2> HIDE DEF u
  <2>3. Len(u) = 10
    BY <2>2
  <2>4. ASSUME NEW i \in 1..10 PROVE u[i] = LoggerId[i]
    <3>1. i \in 1..(18 - 9 + 1) /\ 9 + i - 1 = 8 + i /\ i \in 1..(10 + m + n)
      BY <1>3
    <3> QED
      BY <1>4, <1>17, <2>2, <3>1, Zenon
  <2>5. LoggerId \in Seq(Byte) /\ Len(LoggerId) = 10
    BY LoggerIdAssumption
  <2>6. u = LoggerId
    BY <2>2, <2>3, <2>4, <2>5, SeqEqual, Zenon
  <2> QED
    BY <2>6 DEF u
<1>20. \A i \in 19..(from - 1) : p[i] = 0
  <2>1. SUFFICES ASSUME NEW i \in 19..(from - 1) PROVE p[i] = 0
    OBVIOUS
  <2>2. i - 8 \in 11..(10 + m) /\ i - 8 \in 1..(10 + m + n) /\ 8 + (i - 8) = i
    BY <1>3, <1>16
  <2> QED
    BY <1>4, <1>17, <2>2, Zenon
<1>21. SubSeq(p, from, Len(p) - SealLen(f)) = args
  <2> DEFINE a == 19 + m  e == 18 + m + n  u == SubSeq(p, a, e)
  <2>1. \A i \in a..e : p[i] \in Byte
    <3>1. SUFFICES ASSUME NEW i \in a..e PROVE p[i] \in Byte
      OBVIOUS
    <3>2. i \in 1..(18 + m + n)
      BY <1>3
    <3>3. i \in 1..Len(v)
      BY <1>3, <1>9, SMTT(60)
    <3>4. v[i] \in Byte
      BY <1>9, <3>3, ElementOfSeq, Zenon
    <3> QED
      BY <1>13, <3>2, <3>4, Zenon
  <2>2. a \in Int /\ e \in Int /\ e - a + 1 = n /\ (a <= e <=> n # 0)
    BY <1>3
  <2> HIDE DEF a, e
  <2>3. /\ u \in Seq(Byte) /\ Len(u) = IF a <= e THEN e - a + 1 ELSE 0
        /\ \A i \in 1..(e - a + 1) : u[i] = p[a + i - 1]
    <3>1. a \in Int /\ e \in Int
      BY <2>2
    <3> QED
      BY <2>1, <3>1, SubSeqProperties
  <2> HIDE DEF u
  <2>4. Len(u) = n
    BY <2>2, <2>3
  <2>5. ASSUME NEW i \in 1..n PROVE u[i] = args[i]
    <3> DEFINE j == 10 + m + i
    <3>1. a + i - 1 = 8 + j /\ j \in 1..(10 + m + n)
      BY <1>3 DEF a
    <3>2. args[i] = body[j]
      BY <1>4, Zenon
    <3> HIDE DEF j
    <3>3. u[i] = p[a + i - 1]
      BY <2>2, <2>3, Zenon
    <3>4. p[8 + j] = body[j]
      BY <1>17, <3>1, Zenon
    <3> QED
      BY <3>1, <3>2, <3>3, <3>4, Zenon
  <2>6. u = args
    BY <2>3, <2>4, <2>5, SeqEqual, Zenon DEF n
  <2>7. Len(p) - SealLen(f) = e /\ from = a
    BY <1>13, <1>16, Zenon DEF a, e
  <2> QED
    BY <2>6, <2>7, Zenon DEF u
<1>22. f = CommandFrame(d, dev, type, args)
  BY Zenon DEF CommandFrame, f, v, head, body, count
<1>23. ReadsBack(f, d, type, args)
  BY <1>15, <1>18, <1>19, <1>20, <1>21, Zenon DEF ReadsBack, p, from
<1> QED
  BY <1>22, <1>23, Zenon

(* Under CallInv every command for a device whose protocol and inverter    *)
(* number are known is read back.                                          *)
LEMMA CommandsAreReadBack == CallInv => CommandsReadBack
<1> DEFINE k == input.kind  no == input.inverterNo  g == input.register  b == input.bytes
           args == Arguments(k, g, b)
<1> SUFFICES ASSUME CallInv, Done("command"), Len(input.protocol) = 2, no # <<>>
             PROVE  output.ok /\ ReadsBack(output.value, input.protocol[2], TypeByte(k), args)
  BY Zenon DEF CommandsReadBack, ReadsBack
<1>1. CommandCall(input) /\ output = Command(k, LoggerId, input.protocol, no, args)
  BY InputsAssumption, Zenon DEF CallInv, Answered, Done
<1>2. /\ k \in CommandKinds /\ g \in Nat /\ b \in Seq(Byte) /\ Len(b) <= MaxBytes
      /\ no \in Seq(Digit) /\ Len(no) <= 2
      /\ input.protocol \in {<<>>} \cup {<<0, d>> : d \in Digit}
  BY <1>1, Zenon DEF CommandCall
<1>3. PICK d \in Digit : input.protocol = <<0, d>>
  <2>1. Len(<<>>) # 2
    OBVIOUS
  <2>2. input.protocol # <<>>
    BY <2>1
  <2> QED
    BY <1>2, <2>2, Zenon
<1>4. input.protocol[2] = d
  BY <1>3
<1>5. Len(no) = 1 \/ Len(no) = 2
  BY <1>2, OneOrTwo, Zenon
<1>6. args \in Seq(Byte) /\ Len(args) <= Len(b) + 4
  BY <1>2, ArgumentBytes, Zenon
<1>7. Fits(d, args)
  BY <1>2, <1>6, CommandFits, Zenon
<1>8. TypeByte(k) \in Byte
  BY <1>2, TypeIsByte, Zenon
<1> HIDE DEF args
<1>9. PICK dev \in Byte :
        Command(k, LoggerId, <<0, d>>, no, args) = Ok(CommandFrame(d, dev, TypeByte(k), args))
  BY <1>2, <1>5, <1>6, CommandIsLaidOut, Zenon
<1> DEFINE f == CommandFrame(d, dev, TypeByte(k), args)
<1>10. output = Ok(f)
  BY <1>1, <1>3, <1>9, Zenon DEF args
<1>11. ReadsBack(f, d, TypeByte(k), args)
  BY <1>6, <1>7, <1>8, FrameReads, Zenon
<1> HIDE DEF f
<1>12. output.ok /\ output.value = f
  BY <1>10 DEF Ok
<1> QED
  BY <1>4, <1>11, <1>12, Zenon

-----------------------------------------------------------------------------
(* Acknowledgements.                                                       *)

(* An acknowledgement of the record with header h that ends in t.          *)
AckWith(h, t) == SubSeq(h, 1, 4) \o Word(3) \o SubSeq(h, 7, 8) \o t

(* Where the header and the end are in it.                                 *)
LEMMA AckParts ==
  ASSUME NEW h, \A i \in 1..8 : h[i] \in Byte, NEW t \in Seq(Byte),
         NEW f, f = AckWith(h, t)
  PROVE  /\ f \in Seq(Byte) /\ Len(f) = 8 + Len(t)
         /\ \A i \in 1..4 : f[i] = h[i]
         /\ f[5] = 0 /\ f[6] = 3 /\ f[7] = h[7] /\ f[8] = h[8]
         /\ \A i \in (8 + 1)..(8 + Len(t)) : f[i] = t[i - 8]
<1> DEFINE a == SubSeq(h, 1, 4)  w == Word(3)  b == SubSeq(h, 7, 8)
           aw == a \o w  awb == aw \o b
<1>1. \A i \in 1..8 : h[i] \in Byte
  OBVIOUS
<1>2. /\ a \in Seq(Byte) /\ Len(a) = 4
      /\ \A i \in 1..4 : a[i] = h[i]
  <2>1. \A i \in 1..4 : h[i] \in Byte
    BY <1>1
  <2>2. /\ a \in Seq(Byte) /\ Len(a) = IF 1 <= 4 THEN 4 - 1 + 1 ELSE 0
        /\ \A i \in 1..(4 - 1 + 1) : a[i] = h[1 + i - 1]
    BY <2>1, SubSeqProperties
  <2> HIDE DEF a
  <2> QED
    BY <2>2
<1>3. /\ b \in Seq(Byte) /\ Len(b) = 2 /\ b[1] = h[7] /\ b[2] = h[8]
  <2>1. \A i \in 7..8 : h[i] \in Byte
    BY <1>1
  <2>2. /\ b \in Seq(Byte) /\ Len(b) = IF 7 <= 8 THEN 8 - 7 + 1 ELSE 0
        /\ \A i \in 1..(8 - 7 + 1) : b[i] = h[7 + i - 1]
    BY <2>1, SubSeqProperties
  <2> HIDE DEF b
  <2> QED
    BY <2>2
<1>4. w \in Seq(Byte) /\ Len(w) = 2 /\ w[1] = 0 /\ w[2] = 3
  <2>1. 3 \in Nat /\ (3 \div 256) % 256 = 0 /\ 3 % 256 = 3
    BY SMT
  <2>2. /\ Word(3) \in Seq(Byte) /\ Len(Word(3)) = 2
        /\ Word(3)[1] = (3 \div 256) % 256 /\ Word(3)[2] = 3 % 256
    BY <2>1, WordIsTwoBytes, ZenonT(60)
  <2> QED
    BY <2>1, <2>2, ZenonT(60)
<1> HIDE DEF a, w, b
<1>5. a \in Seq(Byte) /\ w \in Seq(Byte) /\ b \in Seq(Byte)
  BY <1>2, <1>3, <1>4
<1>6. /\ aw \in Seq(Byte) /\ Len(aw) = Len(a) + Len(w)
      /\ \A i \in 1..Len(a) : aw[i] = a[i]
      /\ \A i \in (Len(a) + 1)..(Len(a) + Len(w)) : aw[i] = w[i - Len(a)]
  BY <1>5, Joined, Zenon
<1> HIDE DEF aw
<1>7. /\ Len(aw) = 4 + 2
      /\ \A i \in 1..4 : aw[i] = a[i]
      /\ \A i \in (4 + 1)..(4 + 2) : aw[i] = w[i - 4]
  BY <1>2, <1>4, <1>6, Zenon
<1>8. Len(aw) = 6 /\ (\A i \in 1..4 : aw[i] = h[i]) /\ aw[5] = 0 /\ aw[6] = 3
  BY <1>2, <1>4, <1>7
<1>9. aw \in Seq(Byte)
  BY <1>6
<1>10. /\ awb \in Seq(Byte) /\ Len(awb) = Len(aw) + Len(b)
       /\ \A i \in 1..Len(aw) : awb[i] = aw[i]
       /\ \A i \in (Len(aw) + 1)..(Len(aw) + Len(b)) : awb[i] = b[i - Len(aw)]
  BY <1>5, <1>9, Joined, Zenon
<1> HIDE DEF awb
<1>11. /\ Len(awb) = 6 + 2
       /\ \A i \in 1..6 : awb[i] = aw[i]
       /\ \A i \in (6 + 1)..(6 + 2) : awb[i] = b[i - 6]
  BY <1>3, <1>8, <1>10, Zenon
<1>12. /\ Len(awb) = 8 /\ \A i \in 1..4 : awb[i] = h[i]
       /\ awb[5] = 0 /\ awb[6] = 3 /\ awb[7] = h[7] /\ awb[8] = h[8]
  BY <1>3, <1>8, <1>11
<1>13. awb \in Seq(Byte)
  BY <1>10
<1>14. f = awb \o t
  BY Zenon DEF AckWith, awb, aw, a, w, b
<1>15. /\ f \in Seq(Byte) /\ Len(f) = Len(awb) + Len(t)
       /\ \A i \in 1..Len(awb) : f[i] = awb[i]
       /\ \A i \in (Len(awb) + 1)..(Len(awb) + Len(t)) : f[i] = t[i - Len(awb)]
  <2> DEFINE g == awb \o t
  <2>1. /\ g \in Seq(Byte) /\ Len(g) = Len(awb) + Len(t)
        /\ \A i \in 1..Len(awb) : g[i] = awb[i]
        /\ \A i \in (Len(awb) + 1)..(Len(awb) + Len(t)) : g[i] = t[i - Len(awb)]
    BY <1>13, Joined, Zenon
  <2>2. f = g
    BY <1>14
  <2> HIDE DEF g
  <2> QED
    BY <2>1, <2>2, Zenon
<1>16. /\ Len(f) = 8 + Len(t)
       /\ \A i \in 1..8 : f[i] = awb[i]
       /\ \A i \in (8 + 1)..(8 + Len(t)) : f[i] = t[i - 8]
  BY <1>12, <1>15, Zenon
<1>17. /\ \A i \in 1..4 : f[i] = h[i]
       /\ f[5] = 0 /\ f[6] = 3 /\ f[7] = h[7] /\ f[8] = h[8]
  <2>1. \A i \in 1..8 : f[i] = awb[i]
    BY <1>16, Zenon
  <2>2. /\ \A i \in 1..4 : f[i] = awb[i]
        /\ f[5] = awb[5] /\ f[6] = awb[6] /\ f[7] = awb[7] /\ f[8] = awb[8]
    <3>1. /\ \A i \in 1..4 : i \in 1..8
          /\ 5 \in 1..8 /\ 6 \in 1..8 /\ 7 \in 1..8 /\ 8 \in 1..8
      OBVIOUS
    <3> QED
      BY <2>1, <3>1, Zenon
  <2> QED
    BY <1>12, <2>2, Zenon
<1> QED
  BY <1>15, <1>16, <1>17, Zenon

(* An acknowledgement says the same whether it is masked or not.           *)
LEMMA AckReads ==
  ASSUME NEW h, \A i \in 1..8 : h[i] \in Byte
  PROVE  LET f == Ack(h)
         IN  /\ SubSeq(f, 1, 4) = SubSeq(h, 1, 4)
             /\ SubSeq(f, 7, 8) = SubSeq(h, 7, 8)
             /\ Counted(f) = Len(f) - 6 - SealLen(f)
             /\ Plain(f)[9] = 0
<1> DEFINE f == Ack(h)
           t == IF AckIsSealed(h) THEN <<71>> \o Crc ELSE <<0>>
           n == IF h[4] = 2 THEN 1 ELSE 3
<1>1. t \in Seq(Byte) /\ Len(t) = n /\ t[1] = IF h[4] = 2 THEN 0 ELSE 71
  <2>1. CASE h[4] = 2
    <3>1. t = <<0>> /\ n = 1
      BY <2>1 DEF AckIsSealed
    <3>2. <<0>> \in Seq(Byte) /\ Len(<<0>>) = 1 /\ <<0>>[1] = 0
      BY DEF Byte
    <3> HIDE DEF t, n
    <3> QED
      BY <2>1, <3>1, <3>2
  <2>2. CASE h[4] # 2
    <3> DEFINE x == <<71>>
    <3>1. t = x \o Crc /\ n = 3
      BY <2>2 DEF AckIsSealed
    <3>2. x \in Seq(Byte) /\ Len(x) = 1 /\ x[1] = 71
      BY DEF Byte
    <3>3. Crc \in Seq(Byte) /\ Len(Crc) = 2
      BY DEF Byte, Crc
    <3> HIDE DEF t, n, x
    <3>4. /\ x \o Crc \in Seq(Byte) /\ Len(x \o Crc) = Len(x) + Len(Crc)
          /\ \A i \in 1..Len(x) : (x \o Crc)[i] = x[i]
      <4>1. x \in Seq(Byte) /\ Crc \in Seq(Byte)
        BY <3>2, <3>3
      <4> QED
        BY <4>1, Joined
    <3>5. t \in Seq(Byte) /\ Len(t) = 1 + 2 /\ \A i \in 1..1 : t[i] = x[i]
      BY <3>1, <3>2, <3>3, <3>4, Zenon
    <3>6. t \in Seq(Byte) /\ Len(t) = 3 /\ t[1] = x[1]
      BY <3>5
    <3> QED
      BY <2>2, <3>1, <3>2, <3>6
  <2> QED
    BY <2>1, <2>2
<1>2. n \in Nat /\ n >= 1
  OBVIOUS
<1>3. f = AckWith(h, t)
  BY DEF Ack, AckWith
<1> HIDE DEF t, f
<1>4. /\ f \in Seq(Byte) /\ Len(f) = 8 + n
      /\ \A i \in 1..4 : f[i] = h[i]
      /\ f[5] = 0 /\ f[6] = 3 /\ f[7] = h[7] /\ f[8] = h[8]
      /\ \A i \in (8 + 1)..(8 + n) : f[i] = t[i - 8]
  <2>1. \A i \in 1..8 : h[i] \in Byte
    OBVIOUS
  <2>2. t \in Seq(Byte)
    BY <1>1
  <2>3. /\ f \in Seq(Byte) /\ Len(f) = 8 + Len(t)
        /\ \A i \in 1..4 : f[i] = h[i]
        /\ f[5] = 0 /\ f[6] = 3 /\ f[7] = h[7] /\ f[8] = h[8]
        /\ \A i \in (8 + 1)..(8 + Len(t)) : f[i] = t[i - 8]
    BY <1>3, <2>1, <2>2, AckParts, SMTT(60)
  <2> QED
    BY <1>1, <2>3, Zenon
<1>5. f[9] = t[1]
  <2>1. 9 \in (8 + 1)..(8 + n) /\ 9 - 8 = 1
    BY <1>2
  <2>2. f[9] = t[9 - 8]
    BY <1>4, <2>1, Zenon
  <2> QED
    BY <2>1, <2>2, Zenon
<1>6. f[4] = h[4]
  BY <1>4
<1>7. Counted(f) = Len(f) - 6 - SealLen(f)
  <2>1. Counted(f) = 3
    BY <1>4, SMT DEF Counted
  <2>2. SealLen(f) = n - 1
    BY <1>6 DEF SealLen
  <2> QED
    BY <1>2, <1>4, <2>1, <2>2
<1>8. Plain(f)[9] = 0
  <2>1. CASE h[4] = 2
    BY <1>1, <1>5, <1>6, <2>1 DEF Plain
  <2>2. CASE h[4] # 2
    <3>1. Len(f) - 2 = 9 /\ 9 \in Int /\ f[9] = 71 /\ 71 \in Byte
      BY <1>1, <1>4, <1>5, <2>2 DEF Byte
    <3>2. Plain(f) = Masked(f, 9)
      BY <1>6, <2>2, <3>1 DEF Plain
    <3>3. 9 \in 1..Len(f) /\ 9 \in 9..9 /\ ((9 - 9) % 7) + 1 = 1
      BY <1>2, <1>4
    <3>4. Masked(f, 9)[9] = Xor(f[9], Mask[((9 - 9) % 7) + 1])
      BY <3>3 DEF Masked
    <3>5. Mask[1] = 71
      BY DEF Mask
    <3>6. Xor(71, 71) = 0
      BY <3>1, SameBytes, Zenon
    <3> QED
      BY <3>1, <3>2, <3>3, <3>4, <3>5, <3>6, ZenonT(60)
  <2> QED
    BY <2>1, <2>2
<1>9. SubSeq(f, 1, 4) = SubSeq(h, 1, 4)
  <2> DEFINE x == SubSeq(f, 1, 4)  y == SubSeq(h, 1, 4)
  <2>1. \A i \in 1..4 : f[i] = h[i] /\ h[i] \in Byte
    BY <1>4
  <2>2. x = [i \in 1..4 |-> f[i]] /\ y = [i \in 1..4 |-> h[i]]
    OBVIOUS
  <2> QED
    BY <2>1, <2>2
<1>10. SubSeq(f, 7, 8) = SubSeq(h, 7, 8)
  <2>1. \A i \in 7..8 : f[i] = h[i]
    BY <1>4
  <2> QED
    BY <2>1
<1> QED
  BY <1>7, <1>8, <1>9, <1>10, Zenon DEF f

(* Under CallInv every acknowledgement is what its reader expects.         *)
LEMMA AcksAreReadBack == CallInv => AcksAgree
<1> SUFFICES ASSUME CallInv, Done("ack")
             PROVE  LET f == output.value
                    IN  /\ SubSeq(f, 1, 4) = SubSeq(input.header, 1, 4)
                        /\ SubSeq(f, 7, 8) = SubSeq(input.header, 7, 8)
                        /\ Counted(f) = Len(f) - 6 - SealLen(f)
                        /\ Plain(f)[9] = 0
  BY Zenon DEF AcksAgree
<1> DEFINE h == input.header
<1>1. h \in Seq(Byte) /\ Len(h) = 8 /\ output = Ok(Ack(h))
  BY InputsAssumption, Zenon DEF CallInv, Answered, Done, AckCall
<1>2. output.value = Ack(h)
  BY <1>1 DEF Ok
<1> HIDE DEF h
<1>3. \A i \in 1..8 : h[i] \in Byte
  BY <1>1, ElementOfSeq, Zenon
<1>4. LET f == Ack(h)
      IN  /\ SubSeq(f, 1, 4) = SubSeq(h, 1, 4)
          /\ SubSeq(f, 7, 8) = SubSeq(h, 7, 8)
          /\ Counted(f) = Len(f) - 6 - SealLen(f)
          /\ Plain(f)[9] = 0
  BY <1>3, AckReads, Zenon
<1> QED
  BY <1>2, <1>4, Zenon DEF h

-----------------------------------------------------------------------------
(* The properties of the specification.                                    *)

(* A record gets the layout of its device, and one of protocol 06 gets one *)
(* in any case, for every record and configuration (findLayout).           *)
THEOREM LayoutsOfDevices == Spec => []LayoutsFit
  BY Answers, LayoutFits, PTL

(* A field is read if and only if all of it is in the record, and its      *)
(* value leaves the bytes of the record, for every field of at most four   *)
(* bytes (extractNumericValue, extractSignedNumericValue).                 *)
THEOREM WholeFields == Spec => []FieldsAreReadWhole
  BY Answers, FieldIsWhole, PTL

(* What an inverter write accepts is reported by a later read in the same  *)
(* format, for every number, text and hexadecimal value                    *)
(* (CreateValueForCommand against FormatResponseValue).                    *)
THEOREM ValuesReadBack == Spec => []WrittenIsReadBack
  BY Answers, ValueReadBack, PTL

(* Every command and every acknowledgement is what its reader expects: the *)
(* command's parts are each at their place once it is unmasked, and its    *)
(* length is right, for every value of at most MaxBytes (the queueing      *)
(* functions of server.go against decryptIfNeeded, createAckResponse).     *)
THEOREM FramesRead == Spec => []FramesReadBack
<1>1. CallInv => FramesReadBack
  BY CommandsAreReadBack, AcksAreReadBack DEF FramesReadBack
<1> QED
  BY <1>1, Answers, PTL

=============================================================================
