CONSTANTS
    t1 = t1
    t2 = t2
    t3 = t3
    o1 = o1
    o2 = o2
    o3 = o3
    Null = Null
    Moved = Moved
    Nobody = Nobody
    Limbo = Limbo
    Public = Public
    Object <- MCObjects
    InitRegion <- MCRegion
    Senders <- MCSenders
    Receivers <- MCReceivers
    Dynamic = TRUE
    InitCapacity = 20
    Lists <- LongList
    Amounts <- DynamicAmounts
    MaxCalls = 2
SPECIFICATION FairSpec
INVARIANTS ChannelOK ReceiverInFlight
PROPERTIES ReceiversServed ImplementsFifo
CHECK_DEADLOCK FALSE
