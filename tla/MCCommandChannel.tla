-------------------------- MODULE MCCommandChannel --------------------------
(* Small instances of CommandChannel for TLC.                              *)
EXTENDS CommandChannel, TLC

CONSTANTS r1, r2, d1, g1, h1

Symmetry == Permutations(Request) \cup Permutations(Device)

(* All dataloggers behind one address, as behind a router.                 *)
SameHost == [d \in Device |-> h1]

(* One request, whichever comes first, is about the first register of the  *)
(* first device: devices and registers may be exchanged, so that nothing   *)
(* is lost, and liveness does not allow TLC's SYMMETRY.  The other differs *)
(* from it in the device or in the register.                               *)
Near(a) == a # NoRequest => a.device = d1 \/ a.register = g1

(* Answers that are too short for a read, cut before the second place of a *)
(* register, and whole.  Where there are two registers the two places      *)
(* spell different ones.                                                   *)
MCReplies ==
  LET at == {[p \in {36, 76} |-> IF p = 36 THEN g ELSE h] : g, h \in Register}
  IN  [length : {48, 75, 89}, value : {0},
       at : {f \in at : Register = {g1} \/ f[36] # f[76]}]

(* What is left out for time: a command for several registers is a write   *)
(* of the first request or a read of the other, there being no difference  *)
(* between them but the name; the other makes no regall, which disturbs    *)
(* nobody, and no datalogger write, which meets a datalogger read or its   *)
(* like as the read does; and only the other gets answers that have their  *)
(* register out of place.                                                  *)
FixedNext ==
  /\ Next
  /\ ask'[r1] # NoRequest =>
       /\ ask'[r1].device = d1 /\ ask'[r1].register = g1
       /\ ask'[r1].kind # "multiRead"
  /\ \A r \in Request : Near(ask'[r])
  /\ \A r \in Request \ {r1} :
       ask'[r] # NoRequest => ask'[r].kind \in {"dlRead", "invRead", "invWrite", "multiRead"}
  /\ answered' \ spelled' \subseteq {r2}

FixedSpec == Init /\ [][FixedNext]_vars /\ Fairness

=============================================================================
