----------------------------- MODULE MC_Memory -----------------------------
(***************************************************************************)
(* Memory for TLC: no action tells two addresses of one allocator apart.   *)
(***************************************************************************)
EXTENDS Memory, TLC

Symmetry == Permutations(HeapBlocks) \cup Permutations(SlabItems)
=============================================================================
