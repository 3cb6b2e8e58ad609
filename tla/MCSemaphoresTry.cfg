CONSTANTS
    t1 = t1
    t2 = t2
    t3 = t3
    t4 = t4
    Threads <- MCThreads
    InitCount = 0
    MaxSignals = 2
    MaxTries = 1
SPECIFICATION FairSpec
PROPERTIES WaiterServed
CHECK_DEADLOCK FALSE
