CONSTANTS
    t1 = t1
    t2 = t2
    t3 = t3
    v1 = v1
    v2 = v2
    Nobody = Nobody
    NoValue = NoValue
    Threads <- MCThreads
    Values <- MCValues
    MaxCalls = 2
SPECIFICATION FairSpec
INVARIANTS SignalOK UnlockedReadsAgree
PROPERTIES WrittenOnce ReadersReturn
CHECK_DEADLOCK FALSE
