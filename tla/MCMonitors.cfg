CONSTANTS
    t1 = t1
    t2 = t2
    t3 = t3
    Nobody = Nobody
    Threads <- MCThreads
    NumMonitors = 2
    MaxCalls = 2
    MaxSpurious = 1
SPECIFICATION RestingSpec
SYMMETRY Symmetry
INVARIANTS TypeOK NoMissedSignal WaitReturnsSignalled NoLockCycle
PROPERTIES SignalsAreNotOverwritten
