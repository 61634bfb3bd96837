--------------------------- MODULE MCPartitionLease ---------------------------
(* Instances of PartitionLease for TLC. *)
EXTENDS PartitionLease, TLC

\* Workers are interchangeable, and so are partitions.
Interchangeable == Permutations(Workers) \cup Permutations(Partitions)
=============================================================================
