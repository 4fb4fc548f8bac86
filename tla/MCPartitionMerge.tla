-------------------------- MODULE MCPartitionMerge --------------------------
(***************************************************************************)
(* PartitionMerge for TLC.  The partitions with a subquery are             *)
(* interchangeable; an id without one stands for all such ids.             *)
(***************************************************************************)
EXTENDS PartitionMerge, TLC

Symm == Permutations(Partitions)
=============================================================================
