---------------------------- MODULE MCSemaphores ----------------------------
(* Small instances of Semaphores for TLC.                                  *)
EXTENDS Semaphores

CONSTANTS t1, t2, t3, t4

MCThreads == {t1, t2, t3, t4}
Symmetry == Permutations(MCThreads)
=============================================================================
