SPECIFICATION FairSpec
CONSTANTS
    Workers = {w1, w2}
    Rules = {"shell", "shadow"}
    Critical = {"shell", "shadow"}
    Pods = {"pod"}
    Pids = {7}
    Procs <- MCProcs
    RuntimeProcs = {"kubelet"}
    Protected = {"kubelet"}
    Conns = {"public", "private"}
    SuspectConns = {"private"}
    PrivateConns = {"private"}
    Events <- MCKillEvents
    Allowed <- MCAllowed
    Modes = {"detect", "alert", "enforce"}
    Window = 1
    KeepAlert = 1
    MaxTime = 0
    MaxTaken = 2
INVARIANT NoSilentKill
PROPERTY Responded
