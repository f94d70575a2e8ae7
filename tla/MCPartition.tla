----------------------------- MODULE MCPartition -----------------------------
(* Values for the constants of PartitionLifecycle.                         *)
EXTENDS PartitionLifecycle

FewBlocks == 1 .. 2
FewLimits == 0 .. 2
=============================================================================
