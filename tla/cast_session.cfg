SPECIFICATION Spec
CONSTANTS
    Devices = {phone}
    Polls = {p}
    MaxSessions = 2
    MaxChanges = 3
    MaxForeign = 1
    EventBuffer = 1
PROPERTIES
    StoppedStaysStopped
    PageCatchesUp
CHECK_DEADLOCK TRUE
