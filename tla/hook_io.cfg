SPECIFICATION FairSpec
CONSTANTS
    f1 = f1
    f2 = f2
    Fibers = {f1, f2}
    Conns = {6}
    Listener = 4
    InitSize = 4
    MaxBusy = 1
    IoOps = {"recv", "send", "accept"}
    None = None
INVARIANTS
    HookInv
    ContextIsOwn
    FlagsHonoured
PROPERTIES
    ConnectTruthful
    TimedWaitEnds
