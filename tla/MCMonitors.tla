----------------------------- MODULE MCMonitors -----------------------------
(* Small instances of Monitors for TLC.                                    *)
EXTENDS Monitors

CONSTANTS t1, t2, t3

MCThreads == {t1, t2, t3}
Symmetry == Permutations(MCThreads)

(* The system may rest only when all threads are outside or asleep: any    *)
(* other state without a step is a deadlock, and reported by TLC.          *)
AtRest == ~ Active /\ UNCHANGED vars
RestingSpec == Init /\ [][Next \/ AtRest]_vars
=============================================================================
