SPECIFICATION Spec
CONSTANTS
    Workers = {w1, w2}
    Pids = {1, 2, 3}
    EventPids = {3}
    maxTreeDepth = 3
    cacheEntryTTL = 2
    cacheMaxSize = 2
    MaxLag = 1
    MaxTime = 3
SYMMETRY MCWorkers
INVARIANTS
    TypeOK
    NoCircles
    TreesAreRecent
CHECK_DEADLOCK FALSE
