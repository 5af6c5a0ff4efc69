SPECIFICATION Spec
CONSTANTS
    Roots = {r1, r2}
    Tasks = {t1, t2, t3, t4}
    NoTask = NoTask
    MaxRemovals = 1
    MayDamage = TRUE
SYMMETRY Symmetries
INVARIANTS
    TypeOK
    IndexedIsRegistered
    RemovedStaysRemoved
CHECK_DEADLOCK FALSE
