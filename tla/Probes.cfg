SPECIFICATION FairSpec
CONSTANTS
    Pids = {1, 2}
    Comms = {"sh"}
    Letters <- MCLetters
    Space = " "
    Argvs <- MCArgvs
    Paths <- MCPaths
    Dests <- MCDests
    RingSize = 2
    MAX_ARGS = 4
    MAX_ARGS_COUNT = 2
    AttachSets <- MCAttachSets
    MaxEvents = 3
INVARIANTS
    TypeOK
    RecordsAreClean
    ArgsArePrefix
    NoLostWakeup
PROPERTIES
    DeliverySpec
    RingSpec
    RecordsAreFinal
    EveryRecordRead
CHECK_DEADLOCK FALSE
