SPECIFICATION FairSpec
CONSTANTS
    Clients = {c1, c2}
    Conns = {1, 2}
    Methods = {"known", "unknown"}
    MaxFaults = 1
    MaySplit = TRUE
    None = None
INVARIANTS
    CallInv
PROPERTIES
    SingleUserServed
    CallEnds
    ServerReleases
CHECK_DEADLOCK FALSE
