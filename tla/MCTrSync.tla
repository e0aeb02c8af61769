------------------------------ MODULE MCTrSync -------------------------------
(* Instances of TrSync for TLC. *)
EXTENDS TrSync
==============================================================================
