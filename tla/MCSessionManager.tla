-------------------------- MODULE MCSessionManager --------------------------
(* Small instances of SessionManager for TLC.                              *)
EXTENDS SessionManager, TLC

(* Sessions, addresses and stamps are interchangeable: no definition       *)
(* orders or names one.  Used for safety only.                             *)
Symmetry ==
  Permutations(Session) \cup Permutations(Addr) \cup Permutations(Stamp)

(* The clock may show anything: IDs of one address may collide.            *)
AnyReading == [s \in Session |-> Stamp]

(* Every session reads a moment of its own (Stamp = Session).              *)
OwnReading == [s \in Session |-> {s}]

=============================================================================
