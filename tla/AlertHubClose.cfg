SPECIFICATION Spec
CONSTANTS
    Clients = {c1, c2}
    MaxAlerts = 2
    HubCap = 1
    SendCap = 1
    InitLimit = 1
INVARIANT CloseIsHandled
CHECK_DEADLOCK FALSE
