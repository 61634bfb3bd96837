--------------------------- MODULE MCContinuousKit ---------------------------
(* An instance of ContinuousKit for TLC: two partitions. *)
EXTENDS ContinuousKit
=============================================================================
