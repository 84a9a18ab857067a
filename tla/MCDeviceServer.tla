--------------------------- MODULE MCDeviceServer ---------------------------
(* A small instance of DeviceServer for TLC.                               *)
EXTENDS DeviceServer

CONSTANT c1

(* Every session reads a moment of its own (Stamp = Session).              *)
OwnReading == [s \in Session |-> {s}]

(* Of the two connections, of which either may be the older one, c1 may    *)
(* fall silent, which takes it half an hour at the socket, and the ticks   *)
(* that would find nobody silent are left out: small enough for safety and *)
(* liveness together, with the cleanup going on.  SessionManager has ticks *)
(* and silence at any moment.                                              *)
OneSilentNext ==
  /\ Next
  /\ \A s \in Session : idle'[s] => s = c1
  /\ idle'[c1] => idle[c1] \/ pc[c1] = "read"
  /\ tick' => tick \/ (idle[c1] /\ sweep = "off")

OneSilentSpec == Init /\ [][OneSilentNext]_vars /\ Fairness

=============================================================================
