CONSTANTS
    Clients = {c1, c2, c3}
    Names = {n1, n2}
    Urls = {u1, u2}
    RandomIds = {}
    PublishIds = {2}
    Bodies = {2}
    Timeouts = {1}
    CheckpointData = {1}
    ReceiveLimits = {1}
    PageLimit = 1
    Skew = 0
    MaxBatch = 1
    MaxTime = 0
    MaxIncarnation = 3
    MaxReceipt = 0
    Operations = {"create", "delete_queue", "purge", "set_attributes", "publish", "cleanup"}
    AttributeSets <- MCAttributeSets
    SuppliedAttributes <- MCSupplied
    Delays <- MCDelays
SPECIFICATION Spec
INVARIANTS IdentitiesUnique
PROPERTIES UnreachableStaysUnreachable
SYMMETRY MCSymmetry
