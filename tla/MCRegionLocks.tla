--------------------------- MODULE MCRegionLocks ---------------------------
(* Instances of RegionLocks for TLC.                                       *)
EXTENDS RegionLocks, TLC

CONSTANTS t1, t2, o1, o2

MCThreads == {t1, t2}
MCObjects == {o1, o2}
MCSymmetry == Permutations(MCThreads) \cup Permutations(MCObjects)
Single(m) == {<<[obj |-> o, mode |-> m]>> : o \in MCObjects}
Pair(m, n) ==
    {<<[obj |-> p[1], mode |-> m], [obj |-> p[2], mode |-> n]>> :
        p \in {q \in MCObjects \X MCObjects : q[1] # q[2]}}

MCLockArgs == Single("rw") \cup Pair("rw", "ro")
MCTryLockArgs == Pair("rw", "ro")

MCPrec == [r \in 1 .. 3 |-> IF r = 3 THEN 0 ELSE 1]
=============================================================================
