-------------------------- MODULE MCFiniteExecution --------------------------
(* Instances of FiniteExecution for TLC. *)
EXTENDS FiniteProperties, TLC

CONSTANTS r1, u1, u2, a, b

\* Two units in one run.
OneRun == [u \in {u1, u2} |-> r1]
\* The first unit may be retried once, the second not at all.
Tries == (u1 :> 2) @@ (u2 :> 1)
ServeTwo == [e \in {a, b} |-> Runs]
ServeOne == [e \in {a} |-> Runs]
=============================================================================
