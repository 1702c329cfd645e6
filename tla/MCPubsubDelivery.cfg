SPECIFICATION MCSpec
CONSTANTS
    Topics <- MCTopics
    Endpoints <- MCEndpoints
    QueueEndpoints <- MCEndpoints
    Arns <- MCArns
    Messages <- MCMessages
    ConfirmationIds = {}
    Workers <- MCWorkers
    Owner <- MCOwner
    ChunkSize = 2
    ClaimLimit = 1
    IntentLease = 2
    DeliveryLease = 2
    MaxAttempts = 2
    RetryBase = 1
    Skew = 0
    MaxLate = 1
    MaxIncarnation = 1
    MaxFaults = 1
INVARIANT FanOutExact
INVARIANT OneSettler
INVARIANT DeliveredReached
PROPERTY SettledForGood
PROPERTY PublicationsSettled
