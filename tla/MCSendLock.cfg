CONSTANTS
    t1 = t1
    t2 = t2
    t3 = t3
    Threads <- MCThreads
    InitCount = 1
    MaxSignals = 6
    MaxTries = 0
SPECIFICATION LockSpec
INVARIANTS MutualExclusion
PROPERTIES FreeLockIsTaken
CHECK_DEADLOCK FALSE
