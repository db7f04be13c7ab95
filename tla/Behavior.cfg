SPECIFICATION Spec
CONSTANTS
    p1 = p1
    p2 = p2
    Pods <- MCPods
    Events <- MCEvents
    Window = 1
    ChanCap = 1
    MaxTime = 4
    MaxCalls = 4
INVARIANTS EvidenceIsFresh FirstBurstIsReported
CHECK_DEADLOCK FALSE
