---------------------------- MODULE MCUnitDispatch ----------------------------
(* Instances of UnitDispatch for TLC. *)
EXTENDS UnitDispatch

CONSTANTS u1, e1

\* The unit may be retried once.
Tries == [u \in Units |-> IF u = u1 THEN 2 ELSE 1]
=============================================================================
