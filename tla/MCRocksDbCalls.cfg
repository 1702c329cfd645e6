SPECIFICATION Spec
CONSTANTS
    c1 = c1
    r1 = r1
    k1 = k1
    k2 = k2
    s1 = s1
    s2 = s2
    Requests <- MCRequests
    Readers <- MCReaders
    Keys <- MCKeys
    Values <- MCValues
    Slots <- MCSlots
    Capacity = 1
    MaxTries = 1
    MaxWork <- MCWork
    MaxCrashes = 0
INVARIANTS WritesInvariant WritesWhole ReadsOwnWrites SnapshotCoherent
SYMMETRY Symmetry
CHECK_DEADLOCK FALSE
