SPECIFICATION FairSpec
CONSTANTS
    Providers = {p1, p2}
    Clients = {c1}
    Workers = 2
    MaxLate = 1
    None = None
INVARIANTS
    RegistryInv
    StaleBounded
    NobodyServesUnlisted
PROPERTIES
    HeartbeatsSuffice
    ClientFinds
CHECK_DEADLOCK FALSE
