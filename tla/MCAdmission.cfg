SPECIFICATION Spec
CONSTANTS
    Callers = {t1, t2, t3, t4}
    Controls = {k1, k2}
    Minimum = 1
    Maximum = 3
    Reserve = 1
    QueueCapacity = 3
INVARIANTS AdmissionInvariant PoolBounded
PROPERTIES NoOvertaking
SYMMETRY Symmetry
CHECK_DEADLOCK FALSE
