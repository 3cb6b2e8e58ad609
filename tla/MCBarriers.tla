----------------------------- MODULE MCBarriers -----------------------------
(* A small instance of Barriers for TLC.                                   *)
EXTENDS Barriers

CONSTANTS t1, t2, t3, t4

MCThreads == {t1, t2, t3, t4}
=============================================================================
