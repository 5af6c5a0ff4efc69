SPECIFICATION FairSpec
CONSTANTS
    NoScan = NoScan
    Startup = boot
    Scans = {boot, s1, s2}
    Kinds <- LeasedKinds
    MaxBatches = 0
INVARIANTS
    QuietReadyIsServed
    QuietEnrichmentSettled
PROPERTIES
    FailedScanKeepsCatalog
    EveryScanEnds
    ClientSettles
