SPECIFICATION Spec
CONSTANTS
    Workers = {w1, w2}
    Rules = {"shell"}
    Critical = {}
    Pods = {"pod"}
    Pids = {7}
    Procs = {"nc"}
    RuntimeProcs = {}
    Protected = {}
    Conns = {"public"}
    SuspectConns = {}
    PrivateConns = {}
    Events <- MCCacheEvents
    Allowed <- MCAllowed
    Modes = {"alert"}
    Window = 2
    KeepAlert = 2
    MaxTime = 3
    MaxTaken = 3
INVARIANTS OncePerWindow SilenceIsShort
PROPERTY SuppressionSpec
SYMMETRY WorkerSymmetry
