---------------------------- MODULE StartupFilter ----------------------------
(***************************************************************************)
(* The startup filter of internal/pubsub/mqtt.go: records that arrive in   *)
(* the grace period after the start of the program, or after a gap in the  *)
(* data, are not published.  There is one such period for all inverters.   *)
(*                                                                         *)
(* Time is counted in ticks and stops counting where the code cannot tell  *)
(* it apart any more.  The filter is enabled; disabled it is not there.    *)
(***************************************************************************)
EXTENDS Naturals

CONSTANTS
  Grace,      \* GracePeriodSeconds, in ticks
  Threshold   \* DataGapThresholdHours, in ticks

(* A threshold of 0 would make a gap of every pause between two records.   *)
ASSUME FilterAssumption == Grace \in Nat /\ Threshold \in Nat \ {0}

VARIABLES
  since,     \* time since lastDataTime
  inGrace,   \* inGracePeriod
  graceAge,  \* time since gracePeriodStart
  resumed    \* history: time since the start, or since the last gap ended

filterVars == <<since, inGrace, graceAge, resumed>>

FilterInit ==
  /\ since    = 0
  /\ inGrace  = TRUE
  /\ graceAge = 0
  /\ resumed  = 0

Gap == since > Threshold

(* Mutant: a period that has ended is not started anew by a gap.           *)
FilterKeepsStart ==
  /\ since'    = 0
  /\ graceAge' = graceAge
  /\ inGrace'  = ((inGrace \/ Gap) /\ graceAge' < Grace)
  /\ resumed'  = IF Gap THEN 0 ELSE resumed

(* Mutant: nobody clears the flag when the period is over.                 *)
FilterNeverEnds ==
  /\ since'    = 0
  /\ graceAge' = IF Gap THEN 0 ELSE graceAge
  /\ inGrace'  = (inGrace \/ Gap)
  /\ resumed'  = IF Gap THEN 0 ELSE resumed

(* shouldFilterStartupData, under p.mu: the record that was just received  *)
(* is dropped if inGrace'.                                                 *)
Filter ==
  /\ since'    = 0
  /\ graceAge' = IF Gap THEN 0 ELSE graceAge
  /\ inGrace'  = ((inGrace \/ Gap) /\ graceAge' < Grace)
  /\ resumed'  = IF Gap THEN 0 ELSE resumed

FilterTick ==
  /\ since'    = IF Gap THEN since ELSE since + 1
  /\ graceAge' = IF graceAge < Grace THEN graceAge + 1 ELSE graceAge
  /\ resumed'  = IF resumed < Grace THEN resumed + 1 ELSE resumed
  /\ UNCHANGED inGrace

FilterTypeOK ==
  /\ since    \in 0..(Threshold + 1)
  /\ inGrace  \in BOOLEAN
  /\ graceAge \in 0..Grace
  /\ resumed  \in 0..Grace

=============================================================================
