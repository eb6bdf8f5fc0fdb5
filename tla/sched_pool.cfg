SPECIFICATION FairSpec
CONSTANTS
    t1 = t1
    t2 = t2
    f1 = f1
    f2 = f2
    Threads = {t1, t2}
    Main = Main
    UseCaller = FALSE
    Fibers = {f1, f2}
    Pin <- NoPin
    AnyThread = AnyThread
    None = None
    MaxWaits = 1
INVARIANTS
    SchedulerInv
    RunsOnOneThread
    ResumesReady
    ExactlyOneWakeUp
PROPERTIES
    ImplementsPool
    StopReturns
    ScheduledFinishesUnlessStopped
