SPECIFICATION Spec
CONSTANTS
    f1 = f1
    r1 = r1
    r2 = r2
    r3 = r3
    k1 = k1
    k2 = k2
    k3 = k3
    Fds = {f1}
    Waiters = {r1, r2, r3}
    Threads = {k1, k2}
    Shared = FALSE
    None = None
INVARIANTS
    TriggersRegistered
SYMMETRY Symmetry
