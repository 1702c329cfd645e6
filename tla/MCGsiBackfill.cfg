SPECIFICATION MCSpec
CONSTANTS
    LastItem = 2
    Indexes = {1, 2}
    Keys <- MCKeys
    NoKey = NoKey
    Vals <- MCVals
    Images <- MCImages
    ProjectsAll = {1}
    ScanPage = 1
    TailPage = 2
    CleanupRows = 2
    Forever = FALSE
    MaxVersion <- MCMaxVersion
    MaxLog = 2
    MaxUpdates = 2
INVARIANT GsiInvariant
INVARIANT IndexesExact
INVARIANT NoProjectionConflict
PROPERTY BlockedOnlyByRetention
PROPERTY BuildsSettle
