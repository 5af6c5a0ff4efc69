SPECIFICATION Spec
CONSTANTS
    Tasks = {s, t}
    MaxTasks = 3
    MaxChanges = 3
    MaxBatches = 1
    MaxStarts = 1
    NoCatalog = NoCatalog
INVARIANTS
    TypeOK
    WholeCatalogShowsDatabase
CHECK_DEADLOCK FALSE
SYMMETRY Symmetry
