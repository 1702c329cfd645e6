CONSTANTS
    Clients = {c1, c2}
    Names = {n1}
    Urls = {u1}
    RandomIds = {1}
    PublishIds = {2}
    Bodies = {1}
    Timeouts = {1}
    CheckpointData = {1}
    ReceiveLimits = {1}
    PageLimit = 2
    Skew = 0
    MaxBatch = 1
    MaxTime = 1
    MaxIncarnation = 2
    MaxReceipt = 0
    Operations = {"create", "delete_queue", "purge", "send", "publish", "cleanup"}
    AttributeSets <- MCAttributeSets
    SuppliedAttributes <- MCSupplied
    Delays <- MCDelays
SPECIFICATION FairSpec
PROPERTIES GarbageReclaimed
