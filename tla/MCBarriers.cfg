CONSTANTS
    t1 = t1
    t2 = t2
    t3 = t3
    t4 = t4
    Threads <- MCThreads
    MaxPhases = 2
    WordSize = 16
SPECIFICATION ContractSpec
INVARIANTS BarrierOK NobodyPassesEarly
PROPERTIES AllPass
CHECK_DEADLOCK FALSE
