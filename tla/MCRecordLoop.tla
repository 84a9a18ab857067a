---------------------------- MODULE MCRecordLoop ----------------------------
(* Small instances of RecordLoop for TLC.                                  *)
EXTENDS RecordLoop

CONSTANTS c1, c2, h1, h2, l1, v1

(* One datalogger with one inverter, first behind h1, then behind h2.      *)
OneLogger   == [c \in Conn |-> l1]
OneInverter == [c \in Conn |-> v1]
Moving      == [c \in Conn |-> IF c = c1 THEN h1 ELSE h2]

(* The old connection is there to finish late: it comes first, and its     *)
(* datalogger sends one data record on it, as often as it takes, or one    *)
(* answer to a command, neither of which is cut, and gives it up.  The new *)
(* one stays, and gets no commands.  A search runs while nothing is under  *)
(* way: what the goroutines register meanwhile is what they have read.     *)
Searching == \E s \in Search : search[s] # Idle

MovingNext ==
  /\ Next
  /\ link[c1] = "new" => link'[c2] = "new"
  /\ link'[c2] # "down"
  /\ Len(wire'[c1]) <= 1 /\ ~ReadInto(c1)
  /\ waiting'[c1] \in {"04", None}
  /\ seq[c1] = 1 => seq'[c1] = 1
  /\ \A t \in Commands : ~Send(c2, t)
  /\ Searching \/ Searching' =>
       (\A c \in Conn : wire[c] = <<>>) /\ UNCHANGED <<link, wire, seq>>

MovingSpec ==
  /\ Init /\ [][MovingNext]_vars
  /\ WF_vars(~crashed /\ Loop(c1)) /\ WF_vars(~crashed /\ Leave(c1))
  /\ FairConnection(c2)

=============================================================================
