SPECIFICATION Spec
CONSTANTS
    MaxAlerts = 2
    ListLimit = 1
    LoadLimit = 2
    MaxShown = 2
    MaxRequests = 1
INVARIANTS
    NoDuplicates
    CaughtUp
    ChoicesStick
    ConnectionIsKept
