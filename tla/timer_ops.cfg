SPECIFICATION Spec
CONSTANTS
    a = a
    b = b
    c = c
    u1 = u1
    u2 = u2
    w1 = w1
    w2 = w2
    Timers = {a, b}
    Recurring = {b}
    Users = {u1, u2}
    Workers = {w1, w2}
    Periods = {1, 2}
    MaxTimeout = 3
    Hour = 1
    Coincide = FALSE
    None = None
    MaxLate = 1
    MaxOps = 1
    Jumps = {}
INVARIANTS
    TimerInv
    ResetOutsideHeap
    NoOversleep
PROPERTIES
    CancelledStaysSilent
    ExpiriesRight
SYMMETRY Symmetry
