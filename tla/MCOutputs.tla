------------------------------ MODULE MCOutputs ------------------------------
(* Small instances of Outputs for TLC.                                     *)
EXTENDS Outputs

=============================================================================
