SPECIFICATION Spec
CONSTANTS
    Topics <- MCTopics
    Endpoints <- MCEndpoints
    QueueEndpoints <- MCQueueEndpoints
    Arns <- MCArns
    Messages <- MCMessages
    ConfirmationIds <- MCConfirmationIds
    Workers <- MCWorkers
    Owner <- MCOwner
    ChunkSize = 1
    ClaimLimit = 1
    IntentLease = 1
    DeliveryLease = 1
    MaxAttempts = 1
    RetryBase = 1
    Skew = 0
    MaxLate = 0
    MaxIncarnation = 2
    MaxFaults = 0
INVARIANT PubsubInvariant
INVARIANT AudienceKept
CHECK_DEADLOCK FALSE
