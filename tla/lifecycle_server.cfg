SPECIFICATION Spec
CONSTANTS
    NoScan = NoScan
    Startup = boot
    Scans = {boot, s1, s2}
    Kinds <- ServerKinds
    MaxBatches = 1
SYMMETRY RequestSymmetry
INVARIANTS
    OneScanAtWork
    NewestTokenLives
    ClientShowsCurrentCatalog
    QuietNeverIndexing
PROPERTIES
    NoPartialAfterWhole
