CONSTANTS
    Clients = {c1, c2}
    Names = {n1}
    Urls = {u1}
    RandomIds = {1}
    PublishIds = {2}
    Bodies = {1}
    Timeouts = {1}
    CheckpointData = {1}
    ReceiveLimits = {2}
    PageLimit = 1
    Skew = 0
    MaxBatch = 2
    MaxTime = 2
    MaxIncarnation = 1
    MaxReceipt = 3
    Operations = {"create", "send", "publish", "receive", "delete_message", "change_visibility", "cleanup"}
    AttributeSets <- MCAttributeSets
    SuppliedAttributes <- MCSupplied
    Delays <- MCDelays
SPECIFICATION KvSpec
INVARIANTS RowsIndexed LookupsExact
SYMMETRY MCSymmetry
