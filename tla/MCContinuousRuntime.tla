------------------------- MODULE MCContinuousRuntime -------------------------
(* Instances of ContinuousRuntime for TLC. *)
EXTENDS ContinuousProperties, TLC

\* Every partition weighs the same.
Even == [p \in Partitions |-> 1]

\* Workers and passes of the reconciler are interchangeable.
Interchangeable == Permutations(Workers) \cup Permutations(Reconcilers)
=============================================================================
