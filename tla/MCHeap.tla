------------------------------ MODULE MCHeap ------------------------------
(* Instances of Heap for TLC.                                              *)
EXTENDS Heap, TLC

CONSTANTS r1, r2

MCRoots == {r1, r2}
MCSymmetry == Permutations(MCRoots)
=============================================================================
