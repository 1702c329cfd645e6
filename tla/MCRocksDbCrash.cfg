SPECIFICATION FairSpec
CONSTANTS
    c1 = c1
    c2 = c2
    k1 = k1
    s1 = s1
    Requests <- MCRequests
    Readers <- MCReaders
    Keys <- MCKeys
    Values <- MCValues
    Slots <- MCSlots
    Capacity = 2
    MaxTries = 2
    MaxWork <- MCWork
    MaxCrashes = 1
INVARIANTS StoreInvariant AcknowledgedDurable
PROPERTIES ImplementsStore RequestsAnswered
CHECK_DEADLOCK FALSE
