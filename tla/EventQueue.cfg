SPECIFICATION FairSpec
CONSTANTS
    Workers = {w1, w2}
    BufSize = 2
    RingSize = 1
    MaxEvents = 3
INVARIANTS
    TypeOK
    AtMostOnce
    Accounting
    StrandedBound
PROPERTIES
    DeliverySpec
    EventuallyHandled
    WorkersStop
CHECK_DEADLOCK FALSE
