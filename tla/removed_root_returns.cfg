SPECIFICATION Spec
CONSTANTS
    Roots = {r1, r2}
    Tasks = {t1, t2, t3, t4}
    NoTask = NoTask
    MaxRemovals = 2
    MayDamage = FALSE
SYMMETRY Symmetries
INVARIANTS
    RemovedStaysRemoved
CHECK_DEADLOCK FALSE
