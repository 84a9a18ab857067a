------------------------------- MODULE Outputs -------------------------------
(***************************************************************************)
(* What processData of internal/service/server.go does with a record that  *)
(* was parsed: it hands it to the publisher, whose filter may drop it, and *)
(* then to the PVOutput client, whose limit may skip it, whatever the      *)
(* filter said.  The two keep their state under mutexes of their own, so   *)
(* that the filter and the check of the limit make one step here.          *)
(***************************************************************************)
EXTENDS PvOutput, StartupFilter

outVars == <<vars, filterVars>>

OutInit == Init /\ FilterInit

(* The PVOutput client gets a record of v in the goroutine of c.           *)
Monitor(c, v) ==
  /\ pc[c] = "idle"
  /\ \/ \E meter \in BOOLEAN : Send(c, v, meter)
     \/ ~CanUpdate(v) /\ UNCHANGED vars

Record(c, v) == Filter /\ Monitor(c, v)

(* While the publisher is not connected its filter does not see a record.  *)
Unseen(c, v) == UNCHANGED filterVars /\ Monitor(c, v)

(* The requests to PVOutput go on, and time does.                          *)
Request(c) ==
  /\ FirstAccepted(c) \/ LastAccepted(c) \/ Refused(c) \/ Stamp(c)
  /\ UNCHANGED filterVars

Pass == Tick /\ FilterTick

OutNext ==
  \/ \E c \in Conn : Request(c) \/ \E v \in Inverter : Record(c, v) \/ Unseen(c, v)
  \/ Pass

OutSpec == OutInit /\ [][OutNext]_outVars

(* Each connection keeps sending records of each inverter, also while the  *)
(* publisher is connected, and PVOutput accepts a request about an         *)
(* inverter again and again if it is made again and again.                 *)
OutFairness ==
  /\ WF_outVars(Pass)
  /\ \A c \in Conn :
       /\ WF_outVars(Request(c)) /\ WF_outVars(pc[c] = "stamp" /\ Request(c))
       /\ \A v \in Inverter :
            /\ SF_outVars(CanUpdate(v) /\ Record(c, v))
            /\ SF_outVars(sending[c] = v /\ FirstAccepted(c) /\ Request(c))
            /\ SF_outVars(sending[c] = v /\ LastAccepted(c) /\ Request(c))

OutFairSpec == OutSpec /\ OutFairness

-----------------------------------------------------------------------------
(* Properties.                                                             *)

OutTypeOK == TypeOK /\ FilterTypeOK

Published(v) == ~inGrace' /\ \E c \in Conn : Record(c, v)

(* No record is published before the grace period is over, counted from    *)
(* the start of the program or from the record that ended the last gap in  *)
(* what the filter saw, of whichever inverter (pubsub/mqtt.go:449-470).    *)
StartupDataIsDropped ==
  [][\A v \in Inverter : Published(v) => resumed' >= Grace]_outVars

(* If the gaps end, every inverter is published again and again: dropping  *)
(* records never feeds the filter that drops them (pubsub/mqtt.go:451-476). *)
PublishingGoesOn ==
  \A v \in Inverter : <>[]~Gap => []<><<Published(v)>>_outVars

=============================================================================
