SPECIFICATION FairSpec
CONSTANTS
    MaxRequests = 6
    MaxDamage = 2
INVARIANTS
    GenerationsInOrder
    QuietNewestIsLastRequest
    StartFindsCatalog
PROPERTIES
    EveryRequestSettles
CHECK_DEADLOCK FALSE
