CONSTANTS
    t1 = t1
    t2 = t2
    t3 = t3
    t4 = t4
    Threads <- MCThreads
    InitCount = 1
    MaxSignals = 5
    MaxTries = 2
SPECIFICATION FairSpec
INVARIANTS TypeOK TokensConserved WaitingDrift WakeupsWithoutTry
PROPERTIES ServedWithoutTry
CHECK_DEADLOCK FALSE
