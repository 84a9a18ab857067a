------------------------------- MODULE PvOutput -------------------------------
(***************************************************************************)
(* The PVOutput client of internal/service/pvoutput/pvoutput.go: the rate  *)
(* limit per inverter, which is looked at before the requests and recorded *)
(* after them, under a mutex that is released in between.                  *)
(*                                                                         *)
(* Send runs in the goroutine of a connection (Conn).  Time is counted in  *)
(* ticks, of which UpdateLimitMinutes are Interval; an age stops counting  *)
(* at Interval, from where on the code cannot tell ages apart.  A request  *)
(* may take any time.  The service that answers it is external.            *)
(***************************************************************************)
EXTENDS Integers

CONSTANTS
  Conn,       \* connections, each handled by a goroutine
  Inverter,   \* inverter serials
  Interval    \* updateInterval, in ticks

ASSUME IntervalAssumption == Interval \in Nat

VARIABLES
  pc,        \* where Send of a connection is
  sending,   \* the inverter it sends for
  age,       \* time.Since(lastUpdateMap[v]); Interval when there is no entry
  own        \* the same, of the last update the connection itself completed

vars == <<pc, sending, age, own>>

Init ==
  /\ pc = [c \in Conn |-> "idle"]
  /\ sending \in [Conn -> Inverter]
  /\ age = [v \in Inverter |-> Interval]
  /\ own = [c \in Conn |-> [v \in Inverter |-> Interval]]

-----------------------------------------------------------------------------

(* Mutant: off by one.                                                     *)
CanUpdateEarly(v) == age[v] + 1 >= Interval

CanUpdate(v) == age[v] >= Interval

(* Mutant: a record that comes too early starts the interval again.        *)
SendRestarts(c, v, meter) ==
  /\ pc[c] = "idle"
  /\ IF CanUpdate(v)
     THEN /\ sending' = [sending EXCEPT ![c] = v]
          /\ pc' = [pc EXCEPT ![c] = IF meter THEN "first" ELSE "only"]
          /\ UNCHANGED age
     ELSE /\ age' = [age EXCEPT ![v] = 0]
          /\ UNCHANGED <<pc, sending>>
  /\ UNCHANGED own

(* A record of v, with or without the values of a smart meter; one that    *)
(* comes too early is skipped.                                             *)
Send(c, v, meter) ==
  /\ pc[c] = "idle"
  /\ CanUpdate(v)
  /\ sending' = [sending EXCEPT ![c] = v]
  /\ pc' = [pc EXCEPT ![c] = IF meter THEN "first" ELSE "only"]
  /\ UNCHANGED <<age, own>>

(* makeRequest succeeds: the first of two requests, or the last one.       *)
FirstAccepted(c) ==
  /\ pc[c] = "first"
  /\ pc' = [pc EXCEPT ![c] = "second"]
  /\ UNCHANGED <<sending, age, own>>

LastAccepted(c) ==
  /\ pc[c] \in {"only", "second"}
  /\ pc' = [pc EXCEPT ![c] = "stamp"]
  /\ UNCHANGED <<sending, age, own>>

(* makeRequest fails, and so does Send: nothing is recorded, also of a     *)
(* first request that was accepted.                                        *)
Refused(c) ==
  /\ pc[c] \in {"only", "first", "second"}
  /\ pc' = [pc EXCEPT ![c] = "idle"]
  /\ UNCHANGED <<sending, age, own>>

(* Mutant: the end of the interval is recorded instead of the update.      *)
StampAhead(c) ==
  /\ pc[c] = "stamp"
  /\ age' = [age EXCEPT ![sending[c]] = -Interval]
  /\ own' = [own EXCEPT ![c][sending[c]] = 0]
  /\ pc'  = [pc EXCEPT ![c] = "idle"]
  /\ UNCHANGED sending

(* updateTimestamp.                                                        *)
Stamp(c) ==
  /\ pc[c] = "stamp"
  /\ age' = [age EXCEPT ![sending[c]] = 0]
  /\ own' = [own EXCEPT ![c][sending[c]] = 0]
  /\ pc'  = [pc EXCEPT ![c] = "idle"]
  /\ UNCHANGED sending

Later(a) == IF a < Interval THEN a + 1 ELSE a

Tick ==
  /\ age' = [v \in Inverter |-> Later(age[v])]
  /\ own' = [c \in Conn |-> [v \in Inverter |-> Later(own[c][v])]]
  /\ UNCHANGED <<pc, sending>>

Step(c) ==
  \/ \E v \in Inverter, meter \in BOOLEAN : Send(c, v, meter)
  \/ FirstAccepted(c) \/ LastAccepted(c) \/ Refused(c) \/ Stamp(c)

Next == Tick \/ \E c \in Conn : Step(c)

Spec == Init /\ [][Next]_vars

(* Each connection keeps sending records of each inverter, and the service *)
(* accepts a request about an inverter again and again if it is made again *)
(* and again.                                                              *)
Fairness ==
  /\ WF_vars(Tick)
  /\ \A c \in Conn :
       /\ WF_vars(Step(c)) /\ WF_vars(Stamp(c))
       /\ \A v \in Inverter :
            /\ SF_vars(\E meter \in BOOLEAN : Send(c, v, meter))
            /\ SF_vars(sending[c] = v /\ FirstAccepted(c))
            /\ SF_vars(sending[c] = v /\ LastAccepted(c))

FairSpec == Spec /\ Fairness

-----------------------------------------------------------------------------
(* Properties.                                                             *)

Age == 0..Interval

TypeOK ==
  /\ pc \in [Conn -> {"idle", "only", "first", "second", "stamp"}]
  /\ sending \in [Conn -> Inverter]
  /\ age \in [Inverter -> Age]
  /\ own \in [Conn -> [Inverter -> Age]]

(* What is left of the limit when several connections report one inverter: *)
(* all of them may pass the check before one has recorded its update, but  *)
(* the updates that one connection completes are an interval apart         *)
(* (pvoutput.go:79 and 141).                                               *)
LimitedPerConnection ==
  \A c \in Conn : pc[c] = "stamp" => own[c][sending[c]] = Interval

(* Neither the limit nor failed requests keep an inverter from being       *)
(* reported again, for whatever other inverters are reported meanwhile.    *)
UpdatesGoOn ==
  \A v \in Inverter : []<>(\E c \in Conn : pc[c] = "stamp" /\ sending[c] = v)

(* The strengthening of LimitedPerConnection: the entry of the map is at   *)
(* least as recent as what the connection recorded itself, and what passed *)
(* the check stays due until it is recorded.                               *)
LimitInv ==
  /\ TypeOK
  /\ \A c \in Conn, v \in Inverter : age[v] <= own[c][v]
  /\ \A c \in Conn : pc[c] # "idle" => own[c][sending[c]] = Interval

=============================================================================
