------------------------------- MODULE MCHeap -------------------------------
(* Eight blocks to give out, three owners, sizes at the block boundaries.      *)
EXTENDS Heap, TLC

MCSymmetry == Permutations(Owners)
=============================================================================
