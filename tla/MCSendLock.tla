----------------------------- MODULE MCSendLock -----------------------------
(* A small instance of SendLock for TLC.                                   *)
EXTENDS SendLock

CONSTANTS t1, t2, t3

MCThreads == {t1, t2, t3}
=============================================================================
