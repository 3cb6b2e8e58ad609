CONSTANTS
    t1 = t1
    t2 = t2
    t3 = t3
    o1 = o1
    o2 = o2
    o3 = o3
    Null = Null
    Moved = Moved
    Nobody = Nobody
    Limbo = Limbo
    Public = Public
    Object <- MCObjects
    InitRegion <- MCRegion
    Senders <- MCSenders
    Receivers <- MCReceivers
    Dynamic = FALSE
    InitCapacity = 4
    Lists <- ShortLists
    Amounts <- MCAmounts
    MaxCalls = 2
SPECIFICATION Spec
INVARIANTS WaitersOK LimboIsInTransit
PROPERTIES ImplementsFifo
CHECK_DEADLOCK FALSE
