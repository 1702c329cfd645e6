CONSTANTS
    Clients = {c1, c2}
    Names = {n1}
    Urls = {u1}
    RandomIds = {}
    PublishIds = {2}
    Bodies = {1}
    Timeouts = {2}
    CheckpointData = {1}
    ReceiveLimits = {1}
    PageLimit = 1
    Skew = 1
    MaxBatch = 1
    MaxTime = 2
    MaxIncarnation = 1
    MaxReceipt = 2
    Operations = {"create", "publish", "receive", "delete_message", "change_visibility", "checkpoint", "cleanup"}
    AttributeSets <- MCAttributeSets
    SuppliedAttributes <- MCSupplied
    Delays <- MCDelays
SPECIFICATION Spec
INVARIANTS QueueInvariant ClaimsProtected
PROPERTIES NoLiveMessageLost
SYMMETRY MCSymmetry
