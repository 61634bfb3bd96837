----------------------------- MODULE MCFiniteKit -----------------------------
(* Instances of FiniteKit for TLC. *)
EXTENDS FiniteKit

CONSTANTS r1, r2, own

\* The first run has two units, the second none.
Sizes == [r \in Runs |-> IF r = r1 THEN 2 ELSE 0]

AllScopes == Runs \cup Calls \cup {own, Shutdown}
=============================================================================
