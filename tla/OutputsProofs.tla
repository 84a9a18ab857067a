---------------------------- MODULE OutputsProofs ----------------------------
(***************************************************************************)
(* Proofs about the two outputs, alone and together, for any connections,  *)
(* inverters, interval, grace period and gap threshold: what is left of    *)
(* PVOutput's rate limit when connections race; that the filter does not   *)
(* disturb it; and that the filter keeps its promise whatever the          *)
(* goroutines of the connections do.                                       *)
(***************************************************************************)
EXTENDS Outputs, TLAPS

-----------------------------------------------------------------------------
(* The PVOutput client.                                                    *)

USE IntervalAssumption

(* An age that counts stays within the interval, and keeps the order.      *)
LEMMA LaterCounts ==
  ASSUME NEW a \in Age, NEW b \in Age, a <= b
  PROVE  Later(a) \in Age /\ Later(a) <= Later(b) /\ (b = Interval => Later(b) = Interval)
  BY DEF Age, Later

(* What is due by the map is due by any record that is no younger.         *)
LEMMA DueIsDue ==
  ASSUME NEW a \in Age, NEW b \in Age, a <= b, a >= Interval
  PROVE  b = Interval
  BY DEF Age

(* The strengthened limit holds before anything was sent.                  *)
LEMMA InitLimit == Init => LimitInv
<1> SUFFICES ASSUME Init PROVE LimitInv
  OBVIOUS
<1>1. TypeOK
  BY DEF Init, TypeOK, Age
<1>2. \A c \in Conn, v \in Inverter : age[v] <= own[c][v]
  BY DEF Init
<1>3. \A c \in Conn : pc[c] # "idle" => own[c][sending[c]] = Interval
  BY DEF Init
<1> QED
  BY <1>1, <1>2, <1>3 DEF LimitInv

(* Every step keeps it: only Send needs the check, only Stamp resets.      *)
LEMMA NextLimit == LimitInv /\ [Next]_vars => LimitInv'
<1> SUFFICES ASSUME LimitInv, [Next]_vars PROVE LimitInv'
  OBVIOUS
<1> USE DEF LimitInv, TypeOK
<1>1. CASE Tick
  <2>1. TypeOK'
    <3>1. \A a \in Age : Later(a) \in Age
      BY DEF Later, Age
    <3> QED
      BY <1>1, <3>1 DEF Tick
  <2>2. ASSUME NEW c \in Conn, NEW v \in Inverter PROVE age'[v] <= own'[c][v]
    BY <1>1, LaterCounts DEF Tick
  <2>3. ASSUME NEW c \in Conn, pc'[c] # "idle" PROVE own'[c][sending'[c]] = Interval
    <3>1. own[c][sending[c]] = Interval /\ sending[c] \in Inverter
      BY <1>1, <2>3 DEF Tick
    <3>2. own'[c][sending[c]] = Later(own[c][sending[c]]) /\ sending' = sending
      BY <1>1, <3>1 DEF Tick
    <3> QED
      BY <3>1, <3>2 DEF Later
  <2> QED
    BY <2>1, <2>2, <2>3
<1>2. ASSUME NEW c \in Conn, NEW v \in Inverter, NEW meter \in BOOLEAN, Send(c, v, meter)
      PROVE  LimitInv'
  <2>1. own[c][v] = Interval
    <3>1. own[c][v] \in Age /\ age[v] \in Age /\ age[v] <= own[c][v]
      OBVIOUS
    <3>2. age[v] >= Interval
      BY <1>2 DEF Send, CanUpdate
    <3> QED
      BY <3>1, <3>2, DueIsDue
  <2> QED
    BY <1>2, <2>1 DEF Send
<1>3. ASSUME NEW c \in Conn, FirstAccepted(c) \/ LastAccepted(c) \/ Refused(c)
      PROVE  LimitInv'
  BY <1>3 DEF FirstAccepted, LastAccepted, Refused
<1>4. ASSUME NEW c \in Conn, Stamp(c)
      PROVE  LimitInv'
  <2> DEFINE v == sending[c]
  <2>1. TypeOK'
    BY <1>4 DEF Stamp, Age
  <2>2. ASSUME NEW d \in Conn, NEW w \in Inverter PROVE age'[w] <= own'[d][w]
    BY <1>4 DEF Stamp, Age
  <2>3. ASSUME NEW d \in Conn, pc'[d] # "idle" PROVE own'[d][sending'[d]] = Interval
    BY <1>4, <2>3 DEF Stamp
  <2> QED
    BY <2>1, <2>2, <2>3
<1>5. CASE UNCHANGED vars
  BY <1>5 DEF vars
<1> QED
  BY <1>1, <1>2, <1>3, <1>4, <1>5 DEF Next, Step

(* The updates that one connection completes for an inverter are at least  *)
(* the configured interval apart (canUpdate and updateTimestamp).          *)
THEOREM RateLimit == Spec => []LimitedPerConnection
<1>1. Init => LimitInv
  BY InitLimit
<1>2. LimitInv /\ [Next]_vars => LimitInv'
  BY NextLimit
<1>3. LimitInv => LimitedPerConnection
  BY DEF LimitInv, LimitedPerConnection
<1> QED
  BY <1>1, <1>2, <1>3, PTL DEF Spec

-----------------------------------------------------------------------------
(* The filter.                                                             *)

(* The two clocks of the filter agree, and the flag goes down only when    *)
(* the grace period is over.                                               *)
GraceInv ==
  /\ FilterTypeOK
  /\ resumed = graceAge
  /\ ~inGrace => graceAge = Grace

OutInv == LimitInv /\ GraceInv

(* The filter takes no part in the steps of the PVOutput client.           *)
LEMMA StepsOfPvOutput == [OutNext]_outVars => [Next]_vars
<1>1. Pass => Next
  BY DEF Pass, Next
<1>2. ASSUME NEW c \in Conn, Request(c) PROVE Next
  BY <1>2 DEF Request, Step, Next
<1>3. ASSUME NEW c \in Conn, NEW v \in Inverter, Record(c, v) \/ Unseen(c, v)
      PROVE  Next \/ UNCHANGED vars
  BY <1>3 DEF Record, Unseen, Monitor, Step, Next
<1> QED
  BY <1>1, <1>2, <1>3 DEF OutNext, outVars

(* The PVOutput client does not touch the filter: its state changes only   *)
(* with a record it sees and with time.                                    *)
LEMMA StepsOfFilter ==
  [OutNext]_outVars => Filter \/ FilterTick \/ UNCHANGED filterVars
BY DEF OutNext, Pass, Request, Record, Unseen, outVars

LEMMA FilterKeeps ==
  ASSUME GraceInv, Filter
  PROVE  GraceInv' /\ (~inGrace' => graceAge' = Grace)
<1> USE FilterAssumption DEF GraceInv, FilterTypeOK
<1>1. /\ since' = 0
      /\ graceAge' = IF Gap THEN 0 ELSE graceAge
      /\ resumed' = IF Gap THEN 0 ELSE resumed
  BY DEF Filter
<1>2. inGrace' = ((inGrace \/ Gap) /\ graceAge' < Grace)
  BY DEF Filter
<1>3. /\ since' \in 0..(Threshold + 1)
      /\ graceAge' \in 0..Grace
      /\ resumed' = graceAge'
  BY <1>1
<1>4. inGrace' \in BOOLEAN
  BY <1>2, Zenon
<1>5. ASSUME ~inGrace' PROVE graceAge' = Grace
  <2>1. ~(inGrace \/ Gap) \/ ~(graceAge' < Grace)
    BY <1>2, <1>5, Zenon
  <2>2. CASE ~(inGrace \/ Gap)
    <3>1. ~inGrace /\ ~Gap
      BY <2>2, Zenon
    <3> QED
      BY <3>1, <1>1
  <2>3. CASE ~(graceAge' < Grace)
    BY <2>3, <1>3
  <2> QED
    BY <2>1, <2>2, <2>3
<1> QED
  BY <1>3, <1>4, <1>5, Zenon

LEMMA FilterTickKeeps ==
  ASSUME GraceInv, FilterTick
  PROVE  GraceInv'
BY FilterAssumption DEF GraceInv, FilterTypeOK, FilterTick, Gap

LEMMA InitGrace == FilterInit => GraceInv
BY FilterAssumption DEF FilterInit, GraceInv, FilterTypeOK

LEMMA NextGrace == GraceInv /\ [OutNext]_outVars => GraceInv'
<1> SUFFICES ASSUME GraceInv, [OutNext]_outVars PROVE GraceInv'
  OBVIOUS
<1>1. CASE UNCHANGED filterVars
  BY <1>1 DEF GraceInv, FilterTypeOK, filterVars
<1> QED
  BY <1>1, StepsOfFilter, FilterKeeps, FilterTickKeeps

LEMMA OutInvariance == OutSpec => []OutInv
<1>1. OutInit => OutInv
  BY InitLimit, InitGrace DEF OutInit, OutInv
<1>2. OutInv /\ [OutNext]_outVars => OutInv'
  BY NextLimit, NextGrace, StepsOfPvOutput DEF OutInv
<1> QED
  BY <1>1, <1>2, PTL DEF OutSpec

-----------------------------------------------------------------------------

(* Every variable of the filter and of the PVOutput client keeps its type: *)
(* no age, period or gap is counted beyond where the code still tells it   *)
(* apart.                                                                  *)
THEOREM OutputsTyping == OutSpec => []OutTypeOK
<1>1. OutInv => OutTypeOK
  BY DEF OutInv, LimitInv, GraceInv, OutTypeOK
<1> QED
  BY <1>1, OutInvariance, PTL

(* The client behind the filter is the client of PvOutput: whatever the    *)
(* filter drops, what is proved of PvOutput holds (service/server.go:431-  *)
(* 480).                                                                   *)
THEOREM FilteredClient == OutSpec => Spec
<1>1. OutInit => Init
  BY DEF OutInit
<1> QED
  BY <1>1, StepsOfPvOutput, PTL DEF OutSpec, Spec

(* So the updates one connection completes for an inverter stay an         *)
(* interval apart (pvoutput.go:79 and 141).                                *)
THEOREM FilteredRateLimit == OutSpec => []LimitedPerConnection
BY FilteredClient, RateLimit, PTL

(* No record is published before the grace period is over, counted from    *)
(* the start of the program or from the record that ended the last gap     *)
(* (pubsub/mqtt.go:449-470).                                               *)
THEOREM StartupDropped == OutSpec => StartupDataIsDropped
<1> DEFINE Dropped == \A v \in Inverter : Published(v) => resumed' >= Grace
<1>1. OutInv /\ [OutNext]_outVars => [Dropped]_outVars
  <2> SUFFICES ASSUME OutInv, NEW c \in Conn, NEW v \in Inverter, Record(c, v), ~inGrace'
               PROVE  resumed' >= Grace
    BY DEF Published
  <2>1. GraceInv' /\ graceAge' = Grace
    BY FilterKeeps DEF Record, OutInv
  <2> QED
    BY <2>1, FilterAssumption DEF GraceInv
<1>2. OutSpec => [][Dropped]_outVars
  BY <1>1, OutInvariance, PTL DEF OutSpec
<1> QED
  BY <1>2 DEF StartupDataIsDropped

=============================================================================
