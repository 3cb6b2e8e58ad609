----------------------------- MODULE MCSyncVars -----------------------------
(* Small instances of SyncVars for TLC.                                    *)
EXTENDS SyncVars

CONSTANTS t1, t2, t3, v1, v2

MCThreads == {t1, t2, t3}
MCValues == {v1, v2}
Symmetry == Permutations(MCThreads) \cup Permutations(MCValues)
=============================================================================
