SPECIFICATION FairSpec
CONSTANTS
    Importers = {i1, i2}
    Workers = {w1, w2}
    MaxVersions = 3
    Generations = 2
    Fingerprint <- ReturningCatalogs
    NoRecord = NoRecord
INVARIANTS
    OneSnapshotWriter
    PendingIsNoticed
    QuietSnapshotIsCurrent
PROPERTIES
    SnapshotsGrowNewer
    PendingIsTaken
CHECK_DEADLOCK FALSE
