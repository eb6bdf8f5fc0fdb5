------------------------------ MODULE Scheduler ------------------------------
(***************************************************************************)
(* The N:M scheduler of CoroutineLibrary: Scheduler::run, scheduleLock and *)
(* stop, the Fiber life cycle they drive (resume, yield, MainFunc), and    *)
(* IOManager's idle fiber, tickle and stopping, which decide when a worker *)
(* sleeps in epoll_wait and when it may exit.                              *)
(*                                                                         *)
(* A fiber sleeps on a timer (sleep() of hook.cpp) or on one event of a    *)
(* file descriptor of its own (do_io of hook.cpp).  Deadlines are the      *)
(* concern of module Timer, several events on a descriptor that of module  *)
(* IOEvents: here a timer is due once the environment says so, and the     *)
(* event of fiber f is f itself.                                           *)
(*                                                                         *)
(* Every step is atomic in the code: it runs under Scheduler::m_mutex or   *)
(* an FdContext's mutex, or it touches one atomic counter, or nothing but  *)
(* the thread's own state.                                                 *)
(***************************************************************************)
EXTENDS Integers, Sequences, FiniteSets, SequencesExt

CONSTANTS Threads,    \* the threads start() creates (m_threads)
          Main,       \* the thread that owns the IOManager and calls stop()
          UseCaller,  \* m_useCaller: Main becomes a worker inside stop()
          Fibers,     \* the fibers of the program
          Pin,        \* Pin[f]: the thread argument f's callback is scheduled with
          AnyThread,        \* thread = -1
          None,       \* nullptr
          MaxWaits    \* bound: how often one fiber sleeps or waits

Workers == Threads \cup (IF UseCaller THEN {Main} ELSE {})

ASSUME SchedulerAssumption ==
    /\ IsFiniteSet(Threads)
    /\ IsFiniteSet(Fibers)
    /\ Main \notin Threads
    /\ UseCaller \in BOOLEAN
    /\ Workers # {}
    /\ AnyThread \notin Workers
    /\ None \notin Workers
    /\ None \notin Fibers
    /\ Pin \in [Fibers -> Workers \cup {AnyThread}]
    /\ MaxWaits \in Nat

VARIABLES
    tasks,        \* m_tasks
    active,       \* m_activeThreadCount
    idle,         \* m_idleThreadCount
    stop,         \* m_stopping
    pc,           \* where each thread is
    task,         \* run()'s local variable task, per worker
    idleDone,     \* workers whose idle fiber is TERM
    fstate,       \* Fiber::m_state; "NONE": not submitted, "CB": still a callback
    fmutex,       \* the holder of Fiber::m_mutex
    left,         \* how many more times each fiber may sleep or wait
    timers,       \* fibers with a timer in m_timers
    due,          \* those whose deadline has passed
    events,       \* fibers whose event is registered in their FdContext
    fdlock,       \* the holder of the FdContext's mutex
    ready,        \* registered events on epoll's ready list
    edge,         \* the tickle pipe is on epoll's ready list
    pending,      \* m_pendingEventCount
    cbs,          \* idle()'s local vector of expired callbacks, per worker
    evs,          \* idle()'s array of epoll events still to be handled, per worker
    owes,         \* threads about to call tickle()
    toTickle      \* tickle() calls left in stop()

queueVars == <<tasks, active>>
fiberVars == <<fstate, fmutex, left>>
timerVars == <<timers, due>>
eventVars == <<events, fdlock, ready, pending>>
idleVars  == <<idle, idleDone, cbs, evs>>
mainVars  == <<stop, toTickle>>
vars == <<queueVars, fiberVars, timerVars, eventVars, idleVars, mainVars,
          pc, task, edge, owes>>

-----------------------------------------------------------------------------
(* Tasks.  A callback that is to become fiber f, fiber f itself, or the    *)
(* lambda of a sleep timer, which schedules f.                             *)

Task == [kind : {"cb", "fiber", "wake"}, fiber : Fibers, thread : Workers \cup {AnyThread}]
NoTask == [kind |-> "none", fiber |-> None, thread |-> AnyThread]

CbTask(f)    == [kind |-> "cb",    fiber |-> f, thread |-> Pin[f]]
FiberTask(f) == [kind |-> "fiber", fiber |-> f, thread |-> AnyThread]
WakeTask(f)  == [kind |-> "wake",  fiber |-> f, thread |-> AnyThread]

\* The locations of run(), of a fiber's body, of idle() and of stop().
WorkerPC == {"take", "lock", "resume", "run", "park", "lambda", "retire", "goidle",
             "stop1", "stop2", "stop3", "wait", "expire", "sched", "events",
             "count", "leave", "exit"}
MainPC == {"submit", "tickle", "join", "done"}

\* A thread at location p that does not first have to call tickle().
At(t, p) == pc[t] = p /\ t \notin owes

Goto(t, p) == pc' = [pc EXCEPT ![t] = p]

Owe(t, b) == owes' = IF b THEN owes \cup {t} ELSE owes

\* scheduleLock: push under m_mutex; need_tickle is what the queue was before.
ScheduleLock(t, x) ==
    /\ tasks' = Append(tasks, x)
    /\ Owe(t, tasks = <<>>)

Running(t) == task[t].fiber

-----------------------------------------------------------------------------
Init ==
    /\ tasks = <<>> /\ active = 0 /\ idle = 0
    /\ stop = FALSE /\ toTickle = 0
    /\ pc = [t \in Threads \cup {Main} |-> IF t = Main THEN "submit" ELSE "take"]
    /\ task = [t \in Workers |-> NoTask]
    /\ idleDone = {}
    /\ fstate = [f \in Fibers |-> "NONE"]
    /\ fmutex = [f \in Fibers |-> None]
    /\ left = [f \in Fibers |-> MaxWaits]
    /\ timers = {} /\ due = {}
    /\ events = {} /\ ready = {} /\ pending = 0
    /\ fdlock = [f \in Fibers |-> None]
    /\ edge = FALSE
    /\ cbs = [t \in Workers |-> {}]
    /\ evs = [t \in Workers |-> {}]
    /\ owes = {}

\* IOManager::tickle: write to the pipe only if some thread is idle.  The pipe
\* is edge triggered: several writes before epoll_wait returns are one event.
Tickle(t) ==
    /\ t \in owes
    /\ edge' = (edge \/ idle > 0)
    /\ owes' = owes \ {t}
    /\ UNCHANGED <<queueVars, fiberVars, timerVars, eventVars, idleVars, mainVars, pc, task>>

-----------------------------------------------------------------------------
(* run(): take a task, execute it, retire it.                              *)

MayRunIfPinned(t, x) == x.thread = t          \* mutant: thread -1 forgotten
MayRun(t, x) == x.thread \in {AnyThread, t}

\* The first task this thread may run; tickle_me says that tasks remain.
Take(t) ==
    /\ At(t, "take")
    /\ \E i \in 1..Len(tasks) :
        /\ MayRun(t, tasks[i])
        /\ \A j \in 1..(i - 1) : ~MayRun(t, tasks[j])
        /\ task' = [task EXCEPT ![t] = tasks[i]]
        /\ tasks' = RemoveAt(tasks, i)
        /\ Goto(t, IF tasks[i].kind = "wake" THEN "lambda" ELSE "lock")
    /\ active' = active + 1
    /\ Owe(t, Len(tasks) > 1)
    /\ UNCHANGED <<fiberVars, timerVars, eventVars, idleVars, mainVars, edge>>

\* No task for this thread; tickle_me if tasks of other threads were skipped.
TakeNone(t) ==
    /\ At(t, "take")
    /\ \A i \in 1..Len(tasks) : ~MayRun(t, tasks[i])
    /\ Owe(t, tasks # <<>>)
    /\ Goto(t, "goidle")
    /\ UNCHANGED <<queueVars, fiberVars, timerVars, eventVars, idleVars, mainVars, task, edge>>

MutexIgnored(f) == TRUE                       \* mutant: resume without the lock
MutexFree(f) == fmutex[f] = None

\* A callback task becomes a new fiber, whose mutex nobody else can hold.
Create(t) ==
    /\ At(t, "lock")
    /\ task[t].kind = "cb"
    /\ fstate' = [fstate EXCEPT ![Running(t)] = "READY"]
    /\ fmutex' = [fmutex EXCEPT ![Running(t)] = t]
    /\ Goto(t, "resume")
    /\ UNCHANGED <<queueVars, left, timerVars, eventVars, idleVars, mainVars, task, edge, owes>>

\* A fiber task waits for the fiber's mutex and skips a fiber that is TERM.
Lock(t) ==
    /\ At(t, "lock")
    /\ task[t].kind = "fiber"
    /\ MutexFree(Running(t))
    /\ IF fstate[Running(t)] = "TERM"
       THEN Goto(t, "retire") /\ UNCHANGED fmutex
       ELSE Goto(t, "resume") /\ fmutex' = [fmutex EXCEPT ![Running(t)] = t]
    /\ UNCHANGED <<queueVars, fstate, left, timerVars, eventVars, idleVars, mainVars, task, edge, owes>>

\* Fiber::resume; its assert(m_state==READY) is the invariant ResumesReady.
Resume(t) ==
    /\ At(t, "resume")
    /\ fstate' = [fstate EXCEPT ![Running(t)] = "RUNNING"]
    /\ Goto(t, "run")
    /\ UNCHANGED <<queueVars, fmutex, left, timerVars, eventVars, idleVars, mainVars, task, edge, owes>>

\* The lambda of a sleep timer: scheduleLock(fiber, -1).
Lambda(t) ==
    /\ At(t, "lambda")
    /\ ScheduleLock(t, FiberTask(Running(t)))
    /\ Goto(t, "retire")
    /\ UNCHANGED <<active, fiberVars, timerVars, eventVars, idleVars, mainVars, task, edge>>

\* m_activeThreadCount-- and task.reset().
Retire(t) ==
    /\ At(t, "retire")
    /\ active' = active - 1
    /\ task' = [task EXCEPT ![t] = NoTask]
    /\ Goto(t, "take")
    /\ UNCHANGED <<tasks, fiberVars, timerVars, eventVars, idleVars, mainVars, edge, owes>>

-----------------------------------------------------------------------------
(* A fiber's body, between resume and yield.                               *)

Submit(t, f) ==
    /\ fstate[f] = "NONE"
    /\ fstate' = [fstate EXCEPT ![f] = "CB"]
    /\ ScheduleLock(t, CbTask(f))
    /\ UNCHANGED <<active, fmutex, left, timerVars, eventVars, idleVars, mainVars, pc, task, edge>>

\* A fiber schedules another callback, as the accept loop does per client.
Spawn(t, f) == At(t, "run") /\ Submit(t, f)

\* sleep(): addTimer, whose wake-up of epoll_wait depends on the deadlines.
Sleep(t) ==
    /\ At(t, "run")
    /\ left[Running(t)] > 0
    /\ left' = [left EXCEPT ![Running(t)] = @ - 1]
    /\ timers' = timers \cup {Running(t)}
    /\ \E atFront \in BOOLEAN : Owe(t, atFront)
    /\ Goto(t, "park")
    /\ UNCHANGED <<queueVars, fstate, fmutex, due, eventVars, idleVars, mainVars, task, edge>>

\* EPOLL_CTL_DEL and the event's bit in FdContext::events.
ForgetEpollOnly(f) == ready' = ready \ {f} /\ UNCHANGED events          \* mutant
Forget(f) == events' = events \ {f} /\ ready' = ready \ {f}

\* do_io(): addEvent under the FdContext's mutex.
Wait(t) ==
    /\ At(t, "run")
    /\ left[Running(t)] > 0
    /\ fdlock[Running(t)] = None
    /\ left' = [left EXCEPT ![Running(t)] = @ - 1]
    /\ pending' = pending + 1
    /\ events' = events \cup {Running(t)}
    /\ Goto(t, "park")
    /\ UNCHANGED <<queueVars, fstate, fmutex, timerVars, fdlock, ready, idleVars, mainVars, task, edge, owes>>

\* cancelEvent(), of a timed-out wait or a closed descriptor: the count first,
\* then the trigger, both under the FdContext's mutex.
Cancel(t, f) ==
    /\ At(t, "run")
    /\ f \in events
    /\ fdlock[f] = None
    /\ pending' = pending - 1
    /\ Forget(f)
    /\ ScheduleLock(t, FiberTask(f))
    /\ UNCHANGED <<active, fiberVars, timerVars, fdlock, idleVars, mainVars, pc, task, edge>>

\* Fiber::yield after a registration, and run()'s release of the mutex.
Yield(t) ==
    /\ At(t, "park")
    /\ fstate' = [fstate EXCEPT ![Running(t)] = "READY"]
    /\ fmutex' = [fmutex EXCEPT ![Running(t)] = None]
    /\ Goto(t, "retire")
    /\ UNCHANGED <<queueVars, left, timerVars, eventVars, idleVars, mainVars, task, edge, owes>>

\* MainFunc: the callback returned.
Finish(t) ==
    /\ At(t, "run")
    /\ fstate' = [fstate EXCEPT ![Running(t)] = "TERM"]
    /\ fmutex' = [fmutex EXCEPT ![Running(t)] = None]
    /\ Goto(t, "retire")
    /\ UNCHANGED <<queueVars, left, timerVars, eventVars, idleVars, mainVars, task, edge, owes>>

-----------------------------------------------------------------------------
(* The idle fiber.                                                         *)

StopRequested(t) == stop                      \* mutant: leave once m_stopping is set
IdleFiberEnded(t) == t \in idleDone

\* Leave run() if the idle fiber is TERM, else count this thread idle.
GoIdle(t) ==
    /\ At(t, "goidle")
    /\ IF IdleFiberEnded(t)
       THEN Goto(t, IF t = Main THEN "join" ELSE "exit") /\ UNCHANGED idle
       ELSE Goto(t, "stop1") /\ idle' = idle + 1
    /\ UNCHANGED <<queueVars, fiberVars, timerVars, eventVars, idleDone, cbs, evs, mainVars, task, edge, owes>>

\* IOManager::stopping() reads three things, one after the other: the timers ...
StoppingTimers(t) ==
    /\ At(t, "stop1")
    /\ Goto(t, IF timers = {} THEN "stop2" ELSE "wait")
    /\ UNCHANGED <<queueVars, fiberVars, timerVars, eventVars, idleVars, mainVars, task, edge, owes>>

NoPending == pending = 0

\* ... the pending events ...
StoppingEvents(t) ==
    /\ At(t, "stop2")
    /\ Goto(t, IF NoPending THEN "stop3" ELSE "wait")
    /\ UNCHANGED <<queueVars, fiberVars, timerVars, eventVars, idleVars, mainVars, task, edge, owes>>

QueueDrained == stop /\ tasks = <<>> /\ active = 0

\* ... and Scheduler::stopping() under m_mutex.  If all hold, the idle fiber ends.
StoppingTasks(t) ==
    /\ At(t, "stop3")
    /\ IF QueueDrained
       THEN Goto(t, "leave") /\ idleDone' = idleDone \cup {t}
       ELSE Goto(t, "wait") /\ UNCHANGED idleDone
    /\ UNCHANGED <<queueVars, fiberVars, timerVars, eventVars, idle, cbs, evs, mainVars, task, edge, owes>>

\* epoll_wait returns what is on the ready list; each item goes to one thread.
EpollReturns(t) ==
    /\ At(t, "wait")
    /\ edge \/ ready # {}
    /\ edge' = FALSE
    /\ ready' = {}
    /\ evs' = [evs EXCEPT ![t] = ready]
    /\ Goto(t, "expire")
    /\ UNCHANGED <<queueVars, fiberVars, timerVars, events, fdlock, pending, idle, idleDone, cbs, mainVars, task, owes>>

NoMaxTimeout == due # {}                      \* mutant: only a deadline ends it
TimeoutPasses == TRUE

\* epoll_wait's timeout, at most MAX_TIMEOUT and at most the next deadline.
EpollTimeout(t) ==
    /\ At(t, "wait")
    /\ ~edge /\ ready = {}
    /\ TimeoutPasses
    /\ Goto(t, "expire")
    /\ UNCHANGED <<queueVars, fiberVars, timerVars, eventVars, idleVars, mainVars, task, edge, owes>>

\* listExpiredCb moves every expired timer's callback to the local vector.
Expire(t) ==
    /\ At(t, "expire")
    /\ cbs' = [cbs EXCEPT ![t] = due]
    /\ timers' = timers \ due
    /\ due' = {}
    /\ Goto(t, "sched")
    /\ UNCHANGED <<queueVars, fiberVars, eventVars, idle, idleDone, evs, mainVars, task, edge, owes>>

\* scheduleLock each expired callback.
ScheduleCb(t) ==
    /\ At(t, "sched")
    /\ \E f \in cbs[t] :
        /\ cbs' = [cbs EXCEPT ![t] = @ \ {f}]
        /\ ScheduleLock(t, WakeTask(f))
    /\ UNCHANGED <<active, fiberVars, timerVars, eventVars, idle, idleDone, evs, mainVars, pc, task, edge>>

CbsDone(t) ==
    /\ At(t, "sched")
    /\ cbs[t] = {}
    /\ Goto(t, "events")
    /\ UNCHANGED <<queueVars, fiberVars, timerVars, eventVars, idleVars, mainVars, task, edge, owes>>

\* An event still registered is removed, from epoll too, and triggered; one that
\* another thread cancelled or triggered since epoll_wait returned is skipped.
Trigger(t) ==
    /\ At(t, "events")
    /\ \E f \in evs[t] :
        /\ fdlock[f] = None
        /\ evs' = [evs EXCEPT ![t] = @ \ {f}]
        /\ IF f \in events
           THEN /\ Forget(f)
                /\ fdlock' = [fdlock EXCEPT ![f] = t]
                /\ ScheduleLock(t, FiberTask(f))
                /\ Goto(t, "count")
           ELSE UNCHANGED <<events, ready, fdlock, tasks, owes, pc>>
    /\ UNCHANGED <<active, fiberVars, timerVars, pending, idle, idleDone, cbs, mainVars, task, edge>>

\* --m_pendingEventCount, after the trigger, and release of the FdContext.
CountDown(t) ==
    /\ At(t, "count")
    /\ pending' = pending - 1
    /\ fdlock' = [f \in Fibers |-> IF fdlock[f] = t THEN None ELSE fdlock[f]]
    /\ Goto(t, "events")
    /\ UNCHANGED <<queueVars, fiberVars, timerVars, events, ready, idleVars, mainVars, task, edge, owes>>

EventsDone(t) ==
    /\ At(t, "events")
    /\ evs[t] = {}
    /\ Goto(t, "leave")
    /\ UNCHANGED <<queueVars, fiberVars, timerVars, eventVars, idleVars, mainVars, task, edge, owes>>

\* The idle fiber yields, or ended: m_idleThreadCount--.
LeaveIdle(t) ==
    /\ At(t, "leave")
    /\ idle' = idle - 1
    /\ Goto(t, "take")
    /\ UNCHANGED <<queueVars, fiberVars, timerVars, eventVars, idleDone, cbs, evs, mainVars, task, edge, owes>>

-----------------------------------------------------------------------------
(* The owner: schedules callbacks, then stop().                            *)

MainSubmit(f) == At(Main, "submit") /\ Submit(Main, f)

\* stop(): stopping() is false before m_stopping is set; one tickle() for each
\* thread and one more for the root thread's scheduler fiber.
Stop ==
    /\ At(Main, "submit")
    /\ stop' = TRUE
    /\ toTickle' = Cardinality(Workers)
    /\ Goto(Main, "tickle")
    /\ UNCHANGED <<queueVars, fiberVars, timerVars, eventVars, idleVars, task, edge, owes>>

StopTickle ==
    /\ At(Main, "tickle")
    /\ toTickle > 0
    /\ toTickle' = toTickle - 1
    /\ edge' = (edge \/ idle > 0)
    /\ UNCHANGED <<queueVars, fiberVars, timerVars, eventVars, idleVars, stop, pc, task, owes>>

\* m_schedulerFiber->resume() runs run() on the root thread; else join.
StopRun ==
    /\ At(Main, "tickle")
    /\ toTickle = 0
    /\ Goto(Main, IF UseCaller THEN "take" ELSE "join")
    /\ UNCHANGED <<queueVars, fiberVars, timerVars, eventVars, idleVars, mainVars, task, edge, owes>>

Join ==
    /\ At(Main, "join")
    /\ \A t \in Threads : pc[t] = "exit"
    /\ Goto(Main, "done")
    /\ UNCHANGED <<queueVars, fiberVars, timerVars, eventVars, idleVars, mainVars, task, edge, owes>>

-----------------------------------------------------------------------------
(* The environment: time passes, descriptors become ready.                 *)

Due(f) ==
    /\ f \in timers \ due
    /\ due' = due \cup {f}
    /\ UNCHANGED <<queueVars, fiberVars, timers, eventVars, idleVars, mainVars, pc, task, edge, owes>>

Ready(f) ==
    /\ f \in events \ ready
    /\ ready' = ready \cup {f}
    /\ UNCHANGED <<queueVars, fiberVars, timerVars, events, fdlock, pending, idleVars, mainVars, pc, task, edge, owes>>

\* The process ends when stop() has returned.
Terminated == pc[Main] = "done" /\ UNCHANGED vars

RunStep(t) == \/ Take(t) \/ TakeNone(t) \/ Create(t) \/ Lock(t) \/ Resume(t)
              \/ Lambda(t) \/ Retire(t)

BodyStep(t) == \/ Sleep(t) \/ Wait(t) \/ Yield(t) \/ Finish(t)
               \/ \E f \in Fibers : Spawn(t, f) \/ Cancel(t, f)

CheckStep(t) == \/ GoIdle(t) \/ StoppingTimers(t) \/ StoppingEvents(t)
                \/ StoppingTasks(t) \/ LeaveIdle(t)

PollStep(t) == \/ EpollReturns(t) \/ EpollTimeout(t) \/ Expire(t) \/ ScheduleCb(t)
               \/ CbsDone(t) \/ Trigger(t) \/ CountDown(t) \/ EventsDone(t)

WorkerStep(t) == RunStep(t) \/ BodyStep(t) \/ CheckStep(t) \/ PollStep(t)

StopStep == StopTickle \/ StopRun \/ Join

MainStep == Stop \/ StopStep \/ \E f \in Fibers : MainSubmit(f)

Next == \/ \E t \in Workers : WorkerStep(t)
        \/ \E t \in Threads \cup {Main} : Tickle(t)
        \/ MainStep
        \/ \E f \in Fibers : Due(f) \/ Ready(f)
        \/ Terminated

Spec == Init /\ [][Next]_vars

\* The kernel schedules every thread; time passes; a descriptor a fiber waits for
\* becomes ready in the end.  Nobody is obliged to schedule or to stop.
Fairness ==
    /\ \A t \in Workers : WF_vars(WorkerStep(t))
    /\ \A t \in Threads \cup {Main} : WF_vars(Tickle(t))
    /\ WF_vars(StopStep)
    /\ \A f \in Fibers : WF_vars(Due(f)) /\ WF_vars(Ready(f))

FairSpec == Spec /\ Fairness

-----------------------------------------------------------------------------
(* Correctness.                                                            *)

\* Type invariant of the state above.
QueueOK  == tasks \in Seq(Task) /\ active \in Int
FiberOK  == /\ fstate \in [Fibers -> {"NONE", "CB", "READY", "RUNNING", "TERM"}]
            /\ fmutex \in [Fibers -> Workers \cup {None}]
            /\ left \in [Fibers -> 0..MaxWaits]
TimerOK  == due \subseteq timers /\ timers \subseteq Fibers
EventOK  == /\ ready \subseteq events /\ events \subseteq Fibers
            /\ fdlock \in [Fibers -> Workers \cup {None}]
            /\ pending \in Int
IdleOK   == /\ idle \in Int /\ idleDone \subseteq Workers
            /\ cbs \in [Workers -> SUBSET Fibers]
            /\ evs \in [Workers -> SUBSET Fibers]
ThreadOK == /\ pc \in [Threads \cup {Main} -> WorkerPC \cup MainPC]
            /\ task \in [Workers -> Task \cup {NoTask}]
            /\ owes \subseteq Threads \cup {Main}
            /\ edge \in BOOLEAN /\ stop \in BOOLEAN /\ toTickle \in Nat

TypeOK == QueueOK /\ FiberOK /\ TimerOK /\ EventOK /\ IdleOK /\ ThreadOK

\* Fiber f runs on thread t: between resume() and the return of resume().
On(t, f) == pc[t] \in {"run", "park"} /\ task[t].fiber = f

\* Thread t has taken the task that will resume f, but has not resumed it yet.
Holds(t, f) == pc[t] \in {"lock", "resume", "lambda"} /\ task[t].fiber = f

\* A fiber is resumed and executed by at most one thread at a time, although it
\* is rescheduled, and taken by another thread, before it has yielded: the mutex
\* run() holds across resume() (scheduler.cpp:136) is what prevents it.
RunsOnOneThread ==
    \A t, u \in Workers :
        /\ pc[t] \in {"resume", "run", "park"} /\ pc[u] \in {"resume", "run", "park"}
        /\ task[t].fiber = task[u].fiber
        => t = u

\* The assert of Fiber::resume (fiber.cpp:128): the fiber is READY, neither
\* running elsewhere nor finished.
ResumesReady == \A t \in Workers : pc[t] = "resume" => fstate[Running(t)] = "READY"

\* The wake-ups on their way to f: queued tasks, tasks workers have taken, its
\* timer, expired callbacks not yet scheduled, its registered event.
WakeUps(f) ==
    {<<"task", i>>   : i \in {j \in 1..Len(tasks) : tasks[j].fiber = f}}
    \cup {<<"worker", t>> : t \in {u \in Workers : Holds(u, f)}}
    \cup {<<"cb", t>>     : t \in {u \in Workers : f \in cbs[u]}}
    \cup {<<"timer", g>>  : g \in timers \cap {f}}
    \cup {<<"event", g>>  : g \in events \cap {f}}

\* Fibers that have to run (again): scheduled, parked, or about to park.
MustRun(f) == \/ fstate[f] \in {"CB", "READY"}
              \/ \E t \in Workers : On(t, f) /\ pc[t] = "park"

\* A wake-up is never lost and never doubled, wherever the timer, the event, its
\* cancellation and the parking of the fiber interleave: exactly one is on its way
\* to a fiber that must run again, none to one that runs, has finished or was
\* never scheduled.
ExactlyOneWakeUp ==
    \A f \in Fibers : IF MustRun(f) THEN \E w \in WakeUps(f) : WakeUps(f) = {w}
                                    ELSE WakeUps(f) = {}

\* Every worker has left run().
AllLeft == \A t \in Workers : pc[t] \in {"exit", "join", "done"}

\* The assert of ~Scheduler (scheduler.cpp:53): when the last worker has left, no
\* task is queued and none is being executed, whoever scheduled one meanwhile.
NoTaskLeft == AllLeft => tasks = <<>> /\ active = 0

\* The type invariant and the assertion of the destructor.
SchedulerInv == TypeOK /\ NoTaskLeft

\* The comment at ioscheduler.cpp:346, "no timers left and no pending events left":
\* when the last worker has left, nobody is abandoned in a timer or an event.
NobodyAbandoned ==
    AllLeft => /\ timers = {} /\ events = {} /\ pending = 0
               /\ \A f \in Fibers : fstate[f] \in {"NONE", "TERM"}

\* Once a worker runs (a root thread that is the only one does so inside stop()),
\* a scheduled callback runs to its end, through all its waits.
ScheduledFinishes ==
    \A f \in Fibers :
        (fstate[f] = "CB" /\ \E t \in Workers : pc[t] \in WorkerPC) ~> fstate[f] = "TERM"

\* A pool of the root thread alone serves all that it was given: nobody is left behind
\* when run() ends, nor while it goes on (ioscheduler.cpp:346, scheduler.cpp:188).
CallerServes == []NobodyAbandoned /\ ScheduledFinishes

\* As ScheduledFinishes, as long as nobody calls stop(): NobodyAbandoned tells why.
ScheduledFinishesUnlessStopped ==
    \A f \in Fibers : fstate[f] = "CB" ~> (fstate[f] = "TERM" \/ stop)

\* stop() returns: every worker leaves its idle fiber and run(), and is joined.
StopReturns == stop ~> pc[Main] = "done"

-----------------------------------------------------------------------------
(* The promise to the fibers.                                              *)

Phase(f) ==
    LET queued == \/ \E i \in 1..Len(tasks) : tasks[i].fiber = f /\ tasks[i].kind # "wake"
                  \/ \E t \in Workers : Holds(t, f) /\ task[t].kind # "wake"
    IN  CASE fstate[f] = "NONE" -> "absent"
          [] fstate[f] = "TERM" -> "done"
          [] fstate[f] \in {"CB", "READY"} -> IF queued THEN "scheduled" ELSE "waiting"
          [] OTHER -> IF \E t \in Workers : On(t, f) /\ pc[t] = "run" THEN "running"
                      ELSE IF queued THEN "woken" ELSE "parking"

Runner(f) == IF \E t \in Workers : On(t, f) THEN CHOOSE t \in Workers : On(t, f) ELSE None

Pool == INSTANCE FiberPool WITH
            Threads <- Workers, Nobody <- None,
            phase <- [f \in Fibers |-> Phase(f)],
            on <- [f \in Fibers |-> Runner(f)],
            closed <- (pc[Main] = "done")

\* The scheduler implements FiberPool.
ImplementsPool == Pool!Spec
=============================================================================
