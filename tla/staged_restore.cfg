SPECIFICATION Spec
CONSTANTS
    Archives = {a, b}
    a = a
    b = b
    FoldersIn <- TwoArchives
    Uploads = {u, v}
    FolderOrder <- TwoFolders
    MaxUploads = 2
    MaxStarts = 3
    Kept = 2
    Own = Own
    None = None
    Torn = Torn
    Behind = Behind
    Down = Down
    Unstartable = Unstartable
INVARIANTS
    TypeOK
    PendingIsWhole
    ReplacedIsKept
    OpensNoForeignLog
PROPERTIES
    RestartKeepsPromise
CHECK_DEADLOCK FALSE
SYMMETRY Symmetries
