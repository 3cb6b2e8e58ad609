CONSTANTS
    t1 = t1
    t2 = t2
    t3 = t3
    Nobody = Nobody
    Threads <- MCThreads
    NumMonitors = 1
    MaxCalls = 2
    MaxSpurious = 1
SPECIFICATION FairSpec
PROPERTIES SignalledReturns ImplementsMonitorSpec
CHECK_DEADLOCK FALSE
