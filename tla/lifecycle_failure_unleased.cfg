SPECIFICATION Spec
CONSTANTS
    NoScan = NoScan
    Startup = boot
    Scans = {boot, s1, s2}
    Kinds = {"index"}
    MaxBatches = 0
PROPERTIES
    FailedScanKeepsCatalog
