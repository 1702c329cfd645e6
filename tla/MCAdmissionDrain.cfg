SPECIFICATION FairSpec
CONSTANTS
    Callers = {t1, t2, t3}
    Controls = {k1}
    Minimum = 1
    Maximum = 2
    Reserve = 1
    QueueCapacity = 2
INVARIANTS DrainedIdle
PROPERTIES WaitersAdmitted DrainEnds
CHECK_DEADLOCK FALSE
