SPECIFICATION FairSpec
CONSTANTS
    Minimum = 2
    Maximum = 24
    Factors = {80, 90}
INVARIANTS WindowInvariant OneReductionPerWindow
PROPERTIES RisesAreEarned FailedProbeUndone NotLockedLow ImplementsLimit
