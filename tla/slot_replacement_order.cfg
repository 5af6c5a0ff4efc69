SPECIFICATION SlotSpec
CONSTANTS
    NoScan = NoScan
    Startup = boot
    Scans = {boot, s1, s2, s3}
SYMMETRY RequestSymmetry
INVARIANT
    ObsoleteSelectionCancelled
CHECK_DEADLOCK FALSE
