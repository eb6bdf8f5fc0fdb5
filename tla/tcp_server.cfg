SPECIFICATION FairSpec
CONSTANTS
    Addrs = {a1, a2, a3}
    Taken = {a2, a3}
    Foreign = {a3}
    Ports = {q1, q2}
    None = None
    MaxFds = 3
    MaxBacklog = 1
    AcceptThreads = 1
    Shared = TRUE
    MaxArrivals = 1
INVARIANTS
    ServerInv
    EndsTrue
PROPERTIES
    StopQuiet
    PendingTaken
CHECK_DEADLOCK FALSE
