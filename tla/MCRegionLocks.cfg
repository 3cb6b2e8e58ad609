CONSTANTS
    t1 = t1
    t2 = t2
    o1 = o1
    o2 = o2
    Nobody = Nobody
    Threads <- MCThreads
    Objects <- MCObjects
    Regions = {1, 2, 3}
    MaxAddress = 3
    Prec <- MCPrec
    LockArgs <- MCLockArgs
    TryLockArgs <- MCTryLockArgs
SPECIFICATION Spec
SYMMETRY MCSymmetry
INVARIANTS StacksOK NoLockCycle LocksCover
PROPERTIES LockedRegionsStable
CHECK_DEADLOCK FALSE
