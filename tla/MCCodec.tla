------------------------------ MODULE MCCodec -------------------------------
EXTENDS Codec

SampleId     == [i \in 1..10 |-> 64 + i]
SampleSerial == [i \in 1..10 |-> 96 + i]

Tuples(S, lengths) == UNION {[1..n -> S] : n \in lengths}

(* Registers at the edges of a byte, dataloggers and inverters of which    *)
(* everything or nothing is known.                                         *)
CommandInputs ==
  [op: {"command"}, kind: CommandKinds, speaks: {2, 5, 6},
   protocol: {<<>>, <<0, 2>>, <<0, 5>>, <<0, 6>>}, inverterNo: {<<>>, <<1>>, <<0, 1>>},
   register: {0, 31, 256, 4095}, bytes: {<<0, 1>>, <<255, 128>>}]

AnnounceInputs == [op: {"announce"}, speaks: {2, 5, 6}]

AckInputs ==
  {[op |-> "ack", header |-> <<1, n, 0, p, 0, 9, 1, t>>] :
     n \in {0, 255}, p \in {0, 2, 5, 6}, t \in {3, 4, 27, 32, 80}}

LayoutInputs ==
  [op: {"layout"}, config: {"default", "spf", "sph", "max", "min", "mod", "tl3"},
   record: [protocol: {"00", "02", "05", "06"}, long: BOOLEAN,
            device: ({"01", "22", "50", "51", "99"}
                       \X {"03", "04", "20", "50", "1b", "99"})]]

FieldInputs ==
  {[op |-> "field", hex |-> HexOf(b), field |-> f] :
     b \in Tuples({0, 1, 127, 128, 255}, 0..3),
     f \in [pos: {0, 1, 2}, length: 0..3, type: {"num", "numx"}]}

ValueInputs ==
  [op: {"value"}, format: {"dec"}, value: {-1, 0, 1, 10, 255, 256, 4660, 65535, 65536}]
  \cup [op: {"value"}, format: {"hex"}, value: Tuples({0, 1, 10}, 0..6)]
  \cup [op: {"value"}, format: {"text"}, value: Tuples({0, 65, 66, 200}, 1..3)]

AllInputs ==
  CommandInputs \cup AnnounceInputs \cup AckInputs
    \cup LayoutInputs \cup FieldInputs \cup ValueInputs

=============================================================================
