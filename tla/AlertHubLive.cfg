SPECIFICATION FairSpec
CONSTANTS
    Clients = {c1}
    MaxAlerts = 2
    HubCap = 1
    SendCap = 1
    InitLimit = 1
PROPERTIES
    HubDrains
    Delivered
    ClientRemoved
CHECK_DEADLOCK FALSE
