SPECIFICATION FairSpec
CONSTANTS
    t1 = t1
    t2 = t2
    f1 = f1
    f2 = f2
    Threads = {}
    Main = Main
    UseCaller = TRUE
    Fibers = {f1, f2}
    Pin <- NoPin
    AnyThread = AnyThread
    None = None
    MaxWaits = 2
PROPERTIES
    CallerServes
