SPECIFICATION Spec
CONSTANTS
    Requests = {q, r}
    browser = browser
    device = device
    Clients = {browser, device}
    Device = device
    Contexts <- Tabs
    MaxSession = 3
    MaxVersion = 2
    MaxPairing = 1
    None = None
INVARIANTS
    TypeOK
    OneSessionPerSignIn
    OldPasswordIsCutOff
    ClientIsAsTold
SYMMETRY Symmetries
