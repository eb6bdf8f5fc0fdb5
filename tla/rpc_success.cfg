SPECIFICATION Spec
CONSTANTS
    Clients = {c1, c2}
    Conns = {1, 2}
    Methods = {"known"}
    MaxFaults = 1
    MaySplit = FALSE
    None = None
PROPERTY
    SuccessMeansAnswered
CHECK_DEADLOCK FALSE
