--------------------------- MODULE SchedulerProofs ---------------------------
(***************************************************************************)
(* Theorems about Scheduler, for any number of threads and fibers, pinned  *)
(* or not, and any number of waits.                                        *)
(***************************************************************************)
EXTENDS Scheduler, FiniteSetTheorems, SequenceTheorems, TLAPS

\* Where a worker has a task in its local variable.
Busy == {"lock", "resume", "run", "park", "lambda", "retire"}

\* A worker that executes something has a task; expired callbacks are held only
\* while they are scheduled.
LocalInv == \A t \in Workers : /\ pc[t] \in Busy => task[t] \in Task
                               /\ cbs[t] # {} => pc[t] = "sched"

TypeInv == TypeOK /\ LocalInv

\* Removing one element of a sequence leaves a sequence of the others.
LEMMA RemoveAtType ==
    ASSUME NEW S, NEW s \in Seq(S), NEW i \in 1..Len(s)
    PROVE  /\ RemoveAt(s, i) \in Seq(S)
           /\ Len(RemoveAt(s, i)) = Len(s) - 1
           /\ \A j \in 1..(Len(s) - 1) : RemoveAt(s, i)[j] = IF j < i THEN s[j] ELSE s[j + 1]
<1> DEFINE l == SubSeq(s, 1, i - 1)
           r == SubSeq(s, i + 1, Len(s))
<1>1. l \in Seq(S) /\ Len(l) = i - 1 /\ \A j \in 1..(i - 1) : l[j] = s[j]
  BY SubSeqProperties
<1>2. r \in Seq(S) /\ Len(r) = Len(s) - i /\ \A j \in 1..(Len(s) - i) : r[j] = s[i + j]
  BY SubSeqProperties
<1>3. RemoveAt(s, i) = l \o r
  BY DEF RemoveAt
<1> HIDE DEF l, r
<1>4. l \o r \in Seq(S) /\ Len(l \o r) = Len(l) + Len(r)
  BY <1>1, <1>2, ConcatProperties
<1>6. Len(l \o r) = Len(s) - 1
  BY <1>1, <1>2, <1>4
<1>5. \A j \in 1..(Len(s) - 1) : (l \o r)[j] = IF j < i THEN s[j] ELSE s[j + 1]
  BY <1>1, <1>2, ConcatProperties
<1> QED BY <1>3, <1>4, <1>5, <1>6

LEMMA WorkersFinite == Cardinality(Workers) \in Nat
<1>1. IsFiniteSet({Main}) /\ IsFiniteSet({})
  BY FS_Singleton, FS_EmptySet
<1>2. IsFiniteSet(Workers)
  BY <1>1, SchedulerAssumption, FS_Union DEF Workers
<1> QED BY <1>2, FS_CardinalityType

-----------------------------------------------------------------------------
(* The inductive invariant.  ExactlyOneWakeUp speaks of five places a wake-up *)
(* can be in; the invariant says the same place by place, and adds what keeps *)
(* it true: who holds a fiber's mutex, and which tasks create their fiber.    *)

USE DEF queueVars, fiberVars, timerVars, eventVars, idleVars, mainVars

\* The locations between taking a task and retiring it, the last one apart.
Inside   == {"resume", "run", "park"}      \* with the fiber's mutex
Taken    == {"lock", "resume", "lambda"}   \* not resumed yet
Critical == Inside \cup Taken

\* Fiber::m_mutex is held exactly by the worker inside resume().
MutexInv ==
    /\ \A t \in Workers : pc[t] \in Inside => Running(t) \in Fibers /\ fmutex[Running(t)] = t
    /\ \A f \in Fibers : fmutex[f] # None =>
          fmutex[f] \in Workers /\ pc[fmutex[f]] \in Inside /\ Running(fmutex[f]) = f

\* The state of the fiber a worker resumes or runs.
StateInv ==
    /\ \A t \in Workers : pc[t] = "resume" => fstate[Running(t)] = "READY"
    /\ \A t \in Workers : pc[t] \in {"run", "park"} => fstate[Running(t)] = "RUNNING"

\* A callback task is for a fiber that is not created yet, every other task, timer
\* and event is for one that is.
QueueKind == \A i \in 1..Len(tasks) : tasks[i].kind = "cb" <=> fstate[tasks[i].fiber] = "CB"
HeldKind ==
    \A t \in Workers : pc[t] \in {"lock", "lambda"} =>
        /\ pc[t] = "lambda" <=> task[t].kind = "wake"
        /\ task[t].kind = "cb" <=> fstate[Running(t)] = "CB"
FreshKind ==
    \A f \in Fibers : fstate[f] = "CB" =>
        /\ f \notin timers /\ f \notin events /\ fmutex[f] = None
        /\ \A t \in Workers : f \notin cbs[t]
KindInv == QueueKind /\ HeldKind /\ FreshKind

\* One place of each sort.
QueueUnique == \A i, j \in 1..Len(tasks) : tasks[i].fiber = tasks[j].fiber => i = j
HeldUnique ==
    \A t, u \in Workers :
        pc[t] \in Taken /\ pc[u] \in Taken /\ task[t].fiber = task[u].fiber => t = u
ExpiredUnique == \A t, u \in Workers, f \in Fibers : f \in cbs[t] /\ f \in cbs[u] => t = u
UniqueInv == QueueUnique /\ HeldUnique /\ ExpiredUnique

Queued(f)  == \E i \in 1..Len(tasks) : tasks[i].fiber = f
Held(f)    == \E t \in Workers : Holds(t, f)
Expired(f) == \E t \in Workers : f \in cbs[t]
Timed(f)   == f \in timers
Waiting(f) == f \in events
Parking(f) == \E t \in Workers : On(t, f) /\ pc[t] = "park"

\* One sort of place, and only for a fiber that must run.
WakeOf(f) ==
    /\ Queued(f)  => ~Held(f) /\ ~Expired(f) /\ ~Timed(f) /\ ~Waiting(f)
    /\ Held(f)    => ~Expired(f) /\ ~Timed(f) /\ ~Waiting(f)
    /\ Expired(f) => ~Timed(f) /\ ~Waiting(f)
    /\ Timed(f)   => ~Waiting(f)
    /\ fstate[f] \in {"CB", "READY"} \/ Parking(f)
          <=> Queued(f) \/ Held(f) \/ Expired(f) \/ Timed(f) \/ Waiting(f)

WakeInv == \A f \in Fibers : WakeOf(f)

FiberInv == MutexInv /\ StateInv /\ KindInv /\ UniqueInv /\ WakeInv

IInv == TypeInv /\ FiberInv

-----------------------------------------------------------------------------
(* How a step moves a wake-up from place to place.                         *)

\* Worker t goes to location p, fiber f to state v, the mutex of f to holder m.
Moves(t, p)  == pc'[t] = p /\ \A u \in Workers \ {t} : pc'[u] = pc[u]
Becomes(f, v) == fstate'[f] = v /\ \A g \in Fibers \ {f} : fstate'[g] = fstate[g]
Passes(f, m) == fmutex'[f] = m /\ \A g \in Fibers \ {f} : fmutex'[g] = fmutex[g]

\* Nothing about fiber g changes.
Same(g) ==
    /\ Queued(g)' <=> Queued(g)
    /\ Held(g)' <=> Held(g)
    /\ Expired(g)' <=> Expired(g)
    /\ Timed(g)' <=> Timed(g)
    /\ Waiting(g)' <=> Waiting(g)
    /\ Parking(g)' <=> Parking(g)
    /\ fstate'[g] = fstate[g]

\* Pushing a task queues its fiber, if no other task is for it.
LEMMA Push ==
    ASSUME NEW x \in Task, tasks \in Seq(Task), tasks' = Append(tasks, x),
           KindInv, UniqueInv, ~Queued(x.fiber),
           x.kind = "cb" <=> fstate'[x.fiber] = "CB",
           \A g \in Fibers \ {x.fiber} : fstate'[g] = fstate[g]
    PROVE  /\ QueueKind'
           /\ QueueUnique'
           /\ \A f : Queued(f)' <=> Queued(f) \/ f = x.fiber
<1>1. /\ Len(tasks') = Len(tasks) + 1
      /\ \A i \in 1..Len(tasks) : tasks'[i] = tasks[i]
      /\ tasks'[Len(tasks) + 1] = x
  OBVIOUS
<1>2. \A i \in 1..Len(tasks) : tasks[i].fiber \in Fibers \ {x.fiber}
  <2> SUFFICES ASSUME NEW i \in 1..Len(tasks) PROVE tasks[i].fiber \in Fibers \ {x.fiber}
    OBVIOUS
  <2>1. tasks[i] \in Task
    OBVIOUS
  <2> QED BY <2>1 DEF Queued, Task
<1>3. QueueKind'
  BY <1>1, <1>2 DEF KindInv, QueueKind
<1>4. QueueUnique'
  BY <1>1, <1>2 DEF UniqueInv, QueueUnique
<1>5. \A f : Queued(f)' <=> Queued(f) \/ f = x.fiber
  BY <1>1 DEF Queued
<1> QED BY <1>3, <1>4, <1>5

\* Taking a task unqueues its fiber, which no other task is for.
LEMMA Pop ==
    ASSUME NEW i \in 1..Len(tasks), tasks \in Seq(Task), UniqueInv,
           tasks' = RemoveAt(tasks, i)
    PROVE  /\ tasks' \in Seq(Task)
           /\ \A j \in 1..Len(tasks') : \E k \in 1..Len(tasks) : k # i /\ tasks'[j] = tasks[k]
           /\ QueueUnique'
           /\ \A f : Queued(f)' <=> Queued(f) /\ f # tasks[i].fiber
<1>1. /\ tasks' \in Seq(Task)
      /\ Len(tasks') = Len(tasks) - 1
      /\ \A j \in 1..(Len(tasks) - 1) : tasks'[j] = IF j < i THEN tasks[j] ELSE tasks[j + 1]
  BY RemoveAtType
<1>2. \A j \in 1..Len(tasks') : \E k \in 1..Len(tasks) :
          k = (IF j < i THEN j ELSE j + 1) /\ k # i /\ tasks'[j] = tasks[k]
  BY <1>1
<1>3. QueueUnique'
  BY <1>1, <1>2 DEF UniqueInv, QueueUnique
<1>4. ASSUME NEW f, Queued(f)'
      PROVE  Queued(f) /\ f # tasks[i].fiber
  BY <1>2, <1>4 DEF Queued, UniqueInv, QueueUnique
<1>5. ASSUME NEW f, Queued(f), f # tasks[i].fiber
      PROVE  Queued(f)'
  <2>1. PICK k \in 1..Len(tasks) : tasks[k].fiber = f
    BY <1>5 DEF Queued
  <2>2. CASE k < i
    <3>1. k \in 1..Len(tasks') /\ tasks'[k] = tasks[k]
      BY <1>1, <2>2
    <3> QED BY <3>1, <2>1 DEF Queued
  <2>3. CASE k > i
    <3>1. k - 1 \in 1..Len(tasks') /\ tasks'[k - 1] = tasks[k]
      BY <1>1, <2>3
    <3> QED BY <3>1, <2>1 DEF Queued
  <2>4. k # i
    BY <1>5, <2>1
  <2> QED BY <2>2, <2>3, <2>4
<1> QED BY <1>1, <1>2, <1>3, <1>4, <1>5

-----------------------------------------------------------------------------
(* Types.                                                                  *)

LEMMA WorkersAreThreads == Workers \subseteq Threads \cup {Main}
BY DEF Workers

\* What is pushed is a task.
LEMMA TaskTypes ==
    ASSUME NEW f \in Fibers
    PROVE  FiberTask(f) \in Task /\ WakeTask(f) \in Task /\ CbTask(f) \in Task
BY SchedulerAssumption DEF FiberTask, WakeTask, CbTask, Task

\* What a worker executes is a task for a fiber.
LEMMA BusyTask ==
    ASSUME TypeInv, NEW t \in Workers, pc[t] \in Busy
    PROVE  task[t] \in Task /\ Running(t) \in Fibers
BY DEF TypeInv, LocalInv, Running, Task

LEMMA TypeInit == Init => TypeInv
<1> SUFFICES ASSUME Init PROVE TypeInv
  OBVIOUS
<1>1. tasks \in Seq(Task)
  BY DEF Init
<1>2. pc \in [Threads \cup {Main} -> WorkerPC \cup MainPC]
  BY DEF Init, WorkerPC, MainPC
<1>3. QueueOK /\ FiberOK /\ TimerOK
  BY <1>1, SchedulerAssumption DEF Init, QueueOK, FiberOK, TimerOK
<1>5. EventOK /\ IdleOK
  BY DEF Init, EventOK, IdleOK
<1>6. ThreadOK
  BY <1>2 DEF Init, ThreadOK
<1>4. LocalInv
  BY WorkersAreThreads DEF Init, LocalInv, Busy
<1> QED BY <1>3, <1>4, <1>5, <1>6 DEF TypeInv, TypeOK

\* Actions of run(), of a fiber's body and of the idle fiber keep the types.
LEMMA RunStepType ==
    ASSUME TypeInv, NEW t \in Workers, RunStep(t)
    PROVE  TypeInv'
<1>1. CASE Take(t)
  <2>1. PICK i \in 1..Len(tasks) :
          /\ tasks' = RemoveAt(tasks, i)
          /\ task' = [task EXCEPT ![t] = tasks[i]]
          /\ Goto(t, IF tasks[i].kind = "wake" THEN "lambda" ELSE "lock")
    BY <1>1 DEF Take
  <2>0. tasks \in Seq(Task)
    BY DEF TypeInv, TypeOK, QueueOK
  <2>2. tasks[i] \in Task /\ tasks' \in Seq(Task)
    BY <2>0, <2>1, RemoveAtType
  <2>3. QueueOK'
    BY <1>1, <2>1, <2>2, WorkersAreThreads
       DEF Take, TypeInv, TypeOK, At, Goto, Owe, Running, QueueOK, Task, Busy
  <2>4. FiberOK'
    BY <1>1, <2>1, <2>2, WorkersAreThreads, SchedulerAssumption
       DEF Take, TypeInv, TypeOK, At, Goto, Owe, Running, FiberOK, Busy
  <2>5. TimerOK'
    BY <1>1, <2>1, <2>2, WorkersAreThreads
       DEF Take, TypeInv, TypeOK, At, Goto, Owe, Running, TimerOK, Busy
  <2>6. EventOK'
    BY <1>1, <2>1, <2>2, WorkersAreThreads
       DEF Take, TypeInv, TypeOK, At, Goto, Owe, Running, EventOK, Busy
  <2>7. IdleOK'
    BY <1>1, <2>1, <2>2, WorkersAreThreads
       DEF Take, TypeInv, TypeOK, At, Goto, Owe, Running, IdleOK
  <2>8. ThreadOK'
    BY <1>1, <2>1, <2>2, WorkersAreThreads
       DEF Take, TypeInv, TypeOK, At, Goto, Owe, Running, WorkerPC, MainPC, ThreadOK
  <2>9. LocalInv'
    BY <1>1, <2>1, <2>2, WorkersAreThreads
       DEF Take, TypeInv, TypeOK, At, Goto, Owe, Running, LocalInv, Busy, QueueOK,
           IdleOK, ThreadOK
  <2> QED BY <2>3, <2>4, <2>5, <2>6, <2>7, <2>8, <2>9 DEF TypeInv, TypeOK
<1>2. CASE TakeNone(t)
  BY <1>2, WorkersAreThreads
   DEF TakeNone, TypeInv, TypeOK, QueueOK, FiberOK, TimerOK, EventOK, IdleOK,
       ThreadOK, LocalInv, Busy, At, Goto, Owe, Running, WorkerPC, MainPC
<1>3. CASE Create(t)
  BY <1>3, WorkersAreThreads
   DEF Create, TypeInv, TypeOK, QueueOK, FiberOK, TimerOK, EventOK, IdleOK,
       ThreadOK, LocalInv, Busy, At, Goto, Owe, Running, WorkerPC, MainPC
<1>4. CASE Lock(t)
  <2>1. \/ Goto(t, "retire") /\ UNCHANGED fmutex
        \/ Goto(t, "resume") /\ fmutex' = [fmutex EXCEPT ![Running(t)] = t]
    BY <1>4 DEF Lock
  <2>2. QueueOK'
    BY <1>4, <2>1, WorkersAreThreads
       DEF Lock, TypeInv, TypeOK, At, Goto, Owe, Running, QueueOK, Task, Busy
  <2>3. FiberOK'
    BY <1>4, <2>1, WorkersAreThreads, SchedulerAssumption
       DEF Lock, TypeInv, TypeOK, At, Goto, Owe, Running, FiberOK, Busy
  <2>4. TimerOK'
    BY <1>4, <2>1, WorkersAreThreads
       DEF Lock, TypeInv, TypeOK, At, Goto, Owe, Running, TimerOK, Busy
  <2>5. EventOK'
    BY <1>4, <2>1, WorkersAreThreads
       DEF Lock, TypeInv, TypeOK, At, Goto, Owe, Running, EventOK, Busy
  <2>6. IdleOK'
    BY <1>4, <2>1, WorkersAreThreads
       DEF Lock, TypeInv, TypeOK, At, Goto, Owe, Running, IdleOK
  <2>7. ThreadOK'
    BY <1>4, <2>1, WorkersAreThreads
       DEF Lock, TypeInv, TypeOK, At, Goto, Owe, Running, WorkerPC, MainPC, ThreadOK
  <2>8. LocalInv'
    BY <1>4, <2>1, WorkersAreThreads
       DEF Lock, TypeInv, TypeOK, At, Goto, Owe, Running, LocalInv, Busy, QueueOK,
           IdleOK, ThreadOK
  <2> QED BY <2>2, <2>3, <2>4, <2>5, <2>6, <2>7, <2>8 DEF TypeInv, TypeOK
<1>5. CASE Resume(t)
  BY <1>5, WorkersAreThreads
   DEF Resume, TypeInv, TypeOK, QueueOK, FiberOK, TimerOK, EventOK, IdleOK,
       ThreadOK, LocalInv, Busy, At, Goto, Owe, Running, WorkerPC, MainPC
<1>6. CASE Lambda(t)
  <2>1. QueueOK'
    BY <1>6, BusyTask, WorkersAreThreads
       DEF Lambda, TypeInv, TypeOK, At, Goto, Owe, Running,
           ScheduleLock, FiberTask, Task, QueueOK, Task, Busy
  <2>2. FiberOK'
    BY <1>6, BusyTask, WorkersAreThreads, SchedulerAssumption
       DEF Lambda, TypeInv, TypeOK, At, Goto, Owe, Running,
           ScheduleLock, FiberTask, Task, FiberOK, Busy
  <2>3. TimerOK'
    BY <1>6, BusyTask, WorkersAreThreads
       DEF Lambda, TypeInv, TypeOK, At, Goto, Owe, Running,
           ScheduleLock, FiberTask, Task, TimerOK, Busy
  <2>4. EventOK'
    BY <1>6, BusyTask, WorkersAreThreads
       DEF Lambda, TypeInv, TypeOK, At, Goto, Owe, Running,
           ScheduleLock, FiberTask, Task, EventOK, Busy
  <2>5. IdleOK'
    BY <1>6, BusyTask, WorkersAreThreads
       DEF Lambda, TypeInv, TypeOK, At, Goto, Owe, Running,
           ScheduleLock, FiberTask, Task, IdleOK
  <2>6. ThreadOK'
    BY <1>6, BusyTask, WorkersAreThreads
       DEF Lambda, TypeInv, TypeOK, At, Goto, Owe, Running, WorkerPC, MainPC,
           ScheduleLock, FiberTask, Task, ThreadOK
  <2>7. LocalInv'
    BY <1>6, BusyTask, WorkersAreThreads
       DEF Lambda, TypeInv, TypeOK, At, Goto, Owe, Running,
           ScheduleLock, FiberTask, Task, LocalInv, Busy, QueueOK, IdleOK, ThreadOK
  <2> QED BY <2>1, <2>2, <2>3, <2>4, <2>5, <2>6, <2>7 DEF TypeInv, TypeOK
<1>7. CASE Retire(t)
  <2>1. QueueOK'
    BY <1>7, BusyTask, WorkersAreThreads
       DEF Retire, TypeInv, TypeOK, At, Goto, Owe, Running, NoTask, QueueOK, Task,
           Busy
  <2>2. FiberOK'
    BY <1>7, BusyTask, WorkersAreThreads, SchedulerAssumption
       DEF Retire, TypeInv, TypeOK, At, Goto, Owe, Running, NoTask, FiberOK, Busy
  <2>3. TimerOK'
    BY <1>7, BusyTask, WorkersAreThreads
       DEF Retire, TypeInv, TypeOK, At, Goto, Owe, Running, NoTask, TimerOK, Busy
  <2>4. EventOK'
    BY <1>7, BusyTask, WorkersAreThreads
       DEF Retire, TypeInv, TypeOK, At, Goto, Owe, Running, NoTask, EventOK, Busy
  <2>5. IdleOK'
    BY <1>7, BusyTask, WorkersAreThreads
       DEF Retire, TypeInv, TypeOK, At, Goto, Owe, Running, NoTask, IdleOK
  <2>6. ThreadOK'
    BY <1>7, BusyTask, WorkersAreThreads
       DEF Retire, TypeInv, TypeOK, At, Goto, Owe, Running, WorkerPC, MainPC,
           NoTask, ThreadOK
  <2>7. LocalInv'
    BY <1>7, BusyTask, WorkersAreThreads
       DEF Retire, TypeInv, TypeOK, At, Goto, Owe, Running, NoTask, LocalInv, Busy,
           QueueOK, IdleOK, ThreadOK
  <2> QED BY <2>1, <2>2, <2>3, <2>4, <2>5, <2>6, <2>7 DEF TypeInv, TypeOK
<1> QED BY <1>1, <1>2, <1>3, <1>4, <1>5, <1>6, <1>7 DEF RunStep

LEMMA CheckStepType ==
    ASSUME TypeInv, NEW t \in Workers, CheckStep(t)
    PROVE  TypeInv'
<1>1. CASE GoIdle(t)
  <2>1. PICK p \in {"join", "exit", "stop1"} : Goto(t, p) /\ idle' \in {idle, idle + 1}
    BY <1>1 DEF GoIdle
  <2> QED
    BY <1>1, <2>1, WorkersAreThreads
     DEF GoIdle, TypeInv, TypeOK, QueueOK, FiberOK, TimerOK, EventOK, IdleOK,
         ThreadOK, LocalInv, Busy, At, Goto, Owe, Running, WorkerPC, MainPC
<1>2. CASE StoppingTimers(t)
  BY <1>2, WorkersAreThreads
   DEF StoppingTimers, TypeInv, TypeOK, QueueOK, FiberOK, TimerOK, EventOK, IdleOK,
       ThreadOK, LocalInv, Busy, At, Goto, Owe, Running, WorkerPC, MainPC
<1>3. CASE StoppingEvents(t)
  BY <1>3, WorkersAreThreads
   DEF StoppingEvents, TypeInv, TypeOK, QueueOK, FiberOK, TimerOK, EventOK, IdleOK,
       ThreadOK, LocalInv, Busy, At, Goto, Owe, Running, WorkerPC, MainPC
<1>4. CASE StoppingTasks(t)
  <2>1. PICK p \in {"leave", "wait"} : Goto(t, p) /\ idleDone' \subseteq Workers
    BY <1>4 DEF StoppingTasks, TypeInv, TypeOK, IdleOK
  <2> QED
    BY <1>4, <2>1, WorkersAreThreads
     DEF StoppingTasks, TypeInv, TypeOK, QueueOK, FiberOK, TimerOK, EventOK,
         IdleOK, ThreadOK, LocalInv, Busy, At, Goto, Owe, Running, WorkerPC, MainPC
<1>5. CASE LeaveIdle(t)
  BY <1>5, WorkersAreThreads
   DEF LeaveIdle, TypeInv, TypeOK, QueueOK, FiberOK, TimerOK, EventOK, IdleOK,
       ThreadOK, LocalInv, Busy, At, Goto, Owe, Running, WorkerPC, MainPC
<1> QED BY <1>1, <1>2, <1>3, <1>4, <1>5 DEF CheckStep

LEMMA PollStepType ==
    ASSUME TypeInv, NEW t \in Workers, PollStep(t)
    PROVE  TypeInv'
<1>1. CASE EpollReturns(t)
  BY <1>1, WorkersAreThreads
   DEF EpollReturns, TypeInv, TypeOK, QueueOK, FiberOK, TimerOK, EventOK, IdleOK,
       ThreadOK, LocalInv, Busy, At, Goto, Owe, Running, WorkerPC, MainPC
<1>2. CASE EpollTimeout(t)
  BY <1>2, WorkersAreThreads
   DEF EpollTimeout, TypeInv, TypeOK, QueueOK, FiberOK, TimerOK, EventOK, IdleOK,
       ThreadOK, LocalInv, Busy, At, Goto, Owe, Running, WorkerPC, MainPC
<1>3. CASE Expire(t)
  BY <1>3, WorkersAreThreads
   DEF Expire, TypeInv, TypeOK, QueueOK, FiberOK, TimerOK, EventOK, IdleOK,
       ThreadOK, LocalInv, Busy, At, Goto, Owe, Running, WorkerPC, MainPC
<1>4. CASE ScheduleCb(t)
  BY <1>4, WorkersAreThreads
   DEF ScheduleCb, TypeInv, TypeOK, QueueOK, FiberOK, TimerOK, EventOK, IdleOK,
       ThreadOK, LocalInv, Busy, At, Goto, Owe, Running, WorkerPC, MainPC,
       ScheduleLock, WakeTask, Task
<1>5. CASE CbsDone(t)
  BY <1>5, WorkersAreThreads
   DEF CbsDone, TypeInv, TypeOK, QueueOK, FiberOK, TimerOK, EventOK, IdleOK,
       ThreadOK, LocalInv, Busy, At, Goto, Owe, Running, WorkerPC, MainPC
<1>6. CASE Trigger(t)
  <2>1. PICK f \in evs[t] :
          /\ evs' = [evs EXCEPT ![t] = @ \ {f}]
          /\ IF f \in events
             THEN /\ Forget(f)
                  /\ fdlock' = [fdlock EXCEPT ![f] = t]
                  /\ ScheduleLock(t, FiberTask(f))
                  /\ Goto(t, "count")
             ELSE UNCHANGED <<events, ready, fdlock, tasks, owes, pc>>
    BY <1>6 DEF Trigger
  <2>2. f \in Fibers /\ evs' = [evs EXCEPT ![t] = @ \ {f}]
    BY <2>1 DEF TypeInv, TypeOK, IdleOK
  <2>3. CASE f \in events
    <3>1. QueueOK'
      BY <1>6, <2>1, <2>2, <2>3, WorkersAreThreads, TaskTypes
         DEF Trigger, TypeInv, TypeOK, At, Goto, Owe, Running, Forget,
             ScheduleLock, QueueOK
    <3>2. FiberOK'
      BY <1>6, <2>1, <2>2, <2>3, WorkersAreThreads, SchedulerAssumption
         DEF Trigger, TypeInv, TypeOK, At, Goto, Owe, Running, Forget,
             ScheduleLock, FiberTask, FiberOK, Busy
    <3>3. TimerOK'
      BY <1>6, <2>1, <2>2, <2>3, WorkersAreThreads
         DEF Trigger, TypeInv, TypeOK, At, Goto, Owe, Running, Forget,
             ScheduleLock, FiberTask, TimerOK, Busy
    <3>4. EventOK'
      BY <1>6, <2>1, <2>2, <2>3, WorkersAreThreads
         DEF Trigger, TypeInv, TypeOK, At, Goto, Owe, Running, Forget,
             ScheduleLock, FiberTask, EventOK, Busy
    <3>5. IdleOK'
      BY <1>6, <2>1, <2>2, <2>3, WorkersAreThreads
         DEF Trigger, TypeInv, TypeOK, At, Goto, Owe, Running, Forget,
             ScheduleLock, FiberTask, IdleOK
    <3>6. ThreadOK'
      BY <1>6, <2>1, <2>2, <2>3, WorkersAreThreads
         DEF Trigger, TypeInv, TypeOK, At, Goto, Owe, Running, WorkerPC, MainPC,
             Forget, ScheduleLock, FiberTask, ThreadOK
    <3>7. LocalInv'
      BY <1>6, <2>1, <2>2, <2>3, WorkersAreThreads
         DEF Trigger, TypeInv, TypeOK, At, Goto, Owe, Running, Forget,
             ScheduleLock, FiberTask, LocalInv, Busy, QueueOK, IdleOK, ThreadOK
    <3> QED BY <3>1, <3>2, <3>3, <3>4, <3>5, <3>6, <3>7 DEF TypeInv, TypeOK

  <2>4. CASE f \notin events
    BY <1>6, <2>1, <2>2, <2>4, WorkersAreThreads
       DEF Trigger, TypeInv, TypeOK, QueueOK, FiberOK, TimerOK, EventOK, IdleOK,
           ThreadOK, LocalInv, Busy, At, Goto, Owe, Running, WorkerPC, MainPC
  <2> QED BY <2>3, <2>4
<1>7. CASE CountDown(t)
  BY <1>7, WorkersAreThreads
   DEF CountDown, TypeInv, TypeOK, QueueOK, FiberOK, TimerOK, EventOK, IdleOK,
       ThreadOK, LocalInv, Busy, At, Goto, Owe, Running, WorkerPC, MainPC
<1>8. CASE EventsDone(t)
  BY <1>8, WorkersAreThreads
   DEF EventsDone, TypeInv, TypeOK, QueueOK, FiberOK, TimerOK, EventOK, IdleOK,
       ThreadOK, LocalInv, Busy, At, Goto, Owe, Running, WorkerPC, MainPC
<1> QED BY <1>1, <1>2, <1>3, <1>4, <1>5, <1>6, <1>7, <1>8 DEF PollStep

LEMMA SubmitType ==
    ASSUME TypeInv, NEW t \in Threads \cup {Main}, NEW f \in Fibers, Submit(t, f)
    PROVE  TypeInv'
<1>1. QueueOK'
  BY SchedulerAssumption, TaskTypes
     DEF Submit, TypeInv, TypeOK, Owe, ScheduleLock, QueueOK
<1>2. FiberOK'
  BY SchedulerAssumption
     DEF Submit, TypeInv, TypeOK, Owe, ScheduleLock, CbTask, FiberOK, Busy
<1>3. TimerOK'
  BY SchedulerAssumption
     DEF Submit, TypeInv, TypeOK, Owe, ScheduleLock, CbTask, TimerOK, Busy
<1>4. EventOK'
  BY SchedulerAssumption
     DEF Submit, TypeInv, TypeOK, Owe, ScheduleLock, CbTask, EventOK, Busy
<1>5. IdleOK'
  BY SchedulerAssumption
     DEF Submit, TypeInv, TypeOK, Owe, ScheduleLock, CbTask, IdleOK
<1>6. ThreadOK'
  BY SchedulerAssumption
     DEF Submit, TypeInv, TypeOK, Owe, ScheduleLock, CbTask, ThreadOK, WorkerPC,
         MainPC
<1>7. LocalInv'
  BY SchedulerAssumption
     DEF Submit, TypeInv, TypeOK, Owe, ScheduleLock, CbTask, LocalInv, Busy,
         QueueOK, IdleOK, ThreadOK
<1> QED BY <1>1, <1>2, <1>3, <1>4, <1>5, <1>6, <1>7 DEF TypeInv, TypeOK

LEMMA BodyStepType ==
    ASSUME TypeInv, NEW t \in Workers, BodyStep(t)
    PROVE  TypeInv'
<1>1. CASE Sleep(t)
  <2>1. QueueOK'
    BY <1>1, BusyTask, WorkersAreThreads
       DEF Sleep, TypeInv, TypeOK, At, Goto, Owe, Running, QueueOK, Busy
  <2>2. FiberOK'
    BY <1>1, BusyTask, WorkersAreThreads, SchedulerAssumption
       DEF Sleep, TypeInv, TypeOK, At, Goto, Owe, Running, FiberOK, Busy
  <2>3. TimerOK'
    BY <1>1, BusyTask, WorkersAreThreads
       DEF Sleep, TypeInv, TypeOK, At, Goto, Owe, Running, TimerOK, Busy
  <2>4. EventOK'
    BY <1>1, BusyTask, WorkersAreThreads
       DEF Sleep, TypeInv, TypeOK, At, Goto, Owe, Running, EventOK, Busy
  <2>5. IdleOK'
    BY <1>1, BusyTask, WorkersAreThreads
       DEF Sleep, TypeInv, TypeOK, At, Goto, Owe, Running, IdleOK
  <2>6. ThreadOK'
    BY <1>1, BusyTask, WorkersAreThreads
       DEF Sleep, TypeInv, TypeOK, At, Goto, Owe, Running, WorkerPC, MainPC,
           ThreadOK
  <2>7. LocalInv'
    BY <1>1, BusyTask, WorkersAreThreads
       DEF Sleep, TypeInv, TypeOK, At, Goto, Owe, Running, LocalInv, Busy, QueueOK,
           IdleOK, ThreadOK
  <2> QED BY <2>1, <2>2, <2>3, <2>4, <2>5, <2>6, <2>7 DEF TypeInv, TypeOK
<1>2. CASE Wait(t)
  <2>1. QueueOK'
    BY <1>2, BusyTask, WorkersAreThreads
       DEF Wait, TypeInv, TypeOK, At, Goto, Owe, Running, QueueOK, Busy
  <2>2. FiberOK'
    BY <1>2, BusyTask, WorkersAreThreads, SchedulerAssumption
       DEF Wait, TypeInv, TypeOK, At, Goto, Owe, Running, FiberOK, Busy
  <2>3. TimerOK'
    BY <1>2, BusyTask, WorkersAreThreads
       DEF Wait, TypeInv, TypeOK, At, Goto, Owe, Running, TimerOK, Busy
  <2>4. EventOK'
    BY <1>2, BusyTask, WorkersAreThreads
       DEF Wait, TypeInv, TypeOK, At, Goto, Owe, Running, EventOK, Busy
  <2>5. IdleOK'
    BY <1>2, BusyTask, WorkersAreThreads
       DEF Wait, TypeInv, TypeOK, At, Goto, Owe, Running, IdleOK
  <2>6. ThreadOK'
    BY <1>2, BusyTask, WorkersAreThreads
       DEF Wait, TypeInv, TypeOK, At, Goto, Owe, Running, WorkerPC, MainPC, ThreadOK
  <2>7. LocalInv'
    BY <1>2, BusyTask, WorkersAreThreads
       DEF Wait, TypeInv, TypeOK, At, Goto, Owe, Running, LocalInv, Busy, QueueOK,
           IdleOK, ThreadOK
  <2> QED BY <2>1, <2>2, <2>3, <2>4, <2>5, <2>6, <2>7 DEF TypeInv, TypeOK
<1>3. CASE Yield(t)
  BY <1>3, WorkersAreThreads
   DEF Yield, TypeInv, TypeOK, QueueOK, FiberOK, TimerOK, EventOK, IdleOK,
       ThreadOK, LocalInv, Busy, At, Goto, Owe, Running, WorkerPC, MainPC
<1>4. CASE Finish(t)
  BY <1>4, WorkersAreThreads
   DEF Finish, TypeInv, TypeOK, QueueOK, FiberOK, TimerOK, EventOK, IdleOK,
       ThreadOK, LocalInv, Busy, At, Goto, Owe, Running, WorkerPC, MainPC
<1>5. ASSUME NEW f \in Fibers, Spawn(t, f)
      PROVE  TypeInv'
  BY <1>5, SubmitType DEF Spawn, Workers
<1>6. ASSUME NEW f \in Fibers, Cancel(t, f)
      PROVE  TypeInv'
  BY <1>6, WorkersAreThreads
     DEF Cancel, TypeInv, TypeOK, QueueOK, FiberOK, TimerOK, EventOK, IdleOK,
         ThreadOK, LocalInv, Busy, At, Goto, Owe, Running, WorkerPC, MainPC,
         Forget, ScheduleLock, FiberTask, Task
<1> QED BY <1>1, <1>2, <1>3, <1>4, <1>5, <1>6 DEF BodyStep

LEMMA TypeStep == TypeInv /\ [Next]_vars => TypeInv'
<1> SUFFICES ASSUME TypeInv, [Next]_vars PROVE TypeInv'
  OBVIOUS
<1>1. ASSUME NEW t \in Workers, WorkerStep(t) PROVE TypeInv'
  BY <1>1, RunStepType, BodyStepType, CheckStepType, PollStepType DEF WorkerStep
<1>2. ASSUME NEW t \in Threads \cup {Main}, Tickle(t) PROVE TypeInv'
  BY <1>2
     DEF Tickle, TypeInv, TypeOK, QueueOK, FiberOK, TimerOK, EventOK, IdleOK,
         ThreadOK, LocalInv, Busy
<1>3. CASE MainStep
  <2>1. CASE Stop
    BY <2>1, WorkersFinite, SchedulerAssumption
       DEF Stop, TypeInv, TypeOK, QueueOK, FiberOK, TimerOK, EventOK, IdleOK,
           ThreadOK, LocalInv, Busy, At, Goto, WorkerPC, MainPC, Workers
  <2>2. CASE StopTickle
    BY <2>2
       DEF StopTickle, TypeInv, TypeOK, QueueOK, FiberOK, TimerOK, EventOK, IdleOK,
           ThreadOK, LocalInv, Busy
  <2>3. CASE StopRun
    BY <2>3, WorkersAreThreads
       DEF StopRun, TypeInv, TypeOK, QueueOK, FiberOK, TimerOK, EventOK, IdleOK,
           ThreadOK, LocalInv, Busy, At, Goto, WorkerPC, MainPC, Workers
  <2>4. CASE Join
    BY <2>4, WorkersAreThreads
       DEF Join, TypeInv, TypeOK, QueueOK, FiberOK, TimerOK, EventOK, IdleOK,
           ThreadOK, LocalInv, Busy, At, Goto, WorkerPC, MainPC, Workers
  <2>5. ASSUME NEW f \in Fibers, MainSubmit(f) PROVE TypeInv'
    BY <2>5, SubmitType DEF MainSubmit
  <2> QED BY <1>3, <2>1, <2>2, <2>3, <2>4, <2>5 DEF MainStep, StopStep
<1>4. ASSUME NEW f \in Fibers, Due(f) \/ Ready(f) PROVE TypeInv'
  BY <1>4
     DEF Due, Ready, TypeInv, TypeOK, QueueOK, FiberOK, TimerOK, EventOK, IdleOK,
         ThreadOK, LocalInv, Busy
<1>5. CASE UNCHANGED vars
  BY <1>5
     DEF vars, TypeInv, TypeOK, QueueOK, FiberOK, TimerOK, EventOK, IdleOK, ThreadOK,
         LocalInv, Busy
<1> QED BY <1>1, <1>2, <1>3, <1>4, <1>5 DEF Next, Terminated

\* Every reachable state is of its type (the state of the whole scheduler).
THEOREM TypeCorrect == Spec => []TypeOK
<1>1. TypeInv => TypeOK
  BY DEF TypeInv
<1> QED BY TypeInit, TypeStep, <1>1, PTL DEF Spec

-----------------------------------------------------------------------------
(* The fibers' invariant: no step breaks it.                               *)

LEMMA NoneIsNobody == None \notin Workers
BY SchedulerAssumption

\* A step that moves no fiber: no task, timer, event or callback changes hands,
\* and no worker enters or leaves the locations of a taken task.
LEMMA Unobserved ==
    ASSUME FiberInv,
           UNCHANGED <<tasks, fstate, fmutex, timers, events, cbs>>,
           \A u \in Workers : pc[u] \in Critical \/ pc'[u] \in Critical
                                => pc'[u] = pc[u] /\ task'[u] = task[u]
    PROVE  FiberInv'
<1>1. \A u \in Workers : \A f : (On(u, f)' <=> On(u, f)) /\ (Holds(u, f)' <=> Holds(u, f))
  BY DEF On, Holds, Critical, Inside, Taken
<1>2. MutexInv'
  BY DEF FiberInv, MutexInv, Critical, Inside, Running
<1>3. StateInv'
  BY DEF FiberInv, StateInv, Critical, Inside, Taken, Running
<1>4. KindInv'
  BY DEF FiberInv, KindInv, QueueKind, HeldKind, FreshKind, Critical, Taken, Running
<1>5. UniqueInv'
  BY DEF FiberInv, UniqueInv, QueueUnique, HeldUnique, ExpiredUnique, Critical, Taken
<1>6. \A f : (Parking(f)' <=> Parking(f)) /\ (Held(f)' <=> Held(f))
  BY <1>1 DEF Parking, Held, On, Critical, Inside
<1>7. \A f : (Queued(f)' <=> Queued(f)) /\ (Expired(f)' <=> Expired(f))
             /\ (Timed(f)' <=> Timed(f)) /\ (Waiting(f)' <=> Waiting(f))
  BY DEF Queued, Expired, Timed, Waiting
<1>8. WakeInv'
  BY <1>6, <1>7 DEF FiberInv, WakeInv, WakeOf
<1> QED BY <1>2, <1>3, <1>4, <1>5, <1>8 DEF FiberInv

\* What the invariant says of a worker t and its fiber.
LEMMA OfWorker ==
    ASSUME IInv, NEW t \in Workers
    PROVE  /\ pc[t] \in Critical => Running(t) \in Fibers /\ task[t] \in Task
           /\ pc[t] \in Inside => \A u \in Workers \ {t} :
                                     pc[u] \in Inside => Running(u) # Running(t)
           /\ pc[t] \in Taken => /\ Held(Running(t)) /\ WakeOf(Running(t))
                                 /\ \A u \in Workers \ {t} :
                                       pc[u] \in Taken => Running(u) # Running(t)
           /\ pc[t] = "run" => /\ fstate[Running(t)] = "RUNNING"
                               /\ ~Queued(Running(t)) /\ ~Held(Running(t))
                               /\ ~Expired(Running(t)) /\ ~Timed(Running(t))
                               /\ ~Waiting(Running(t)) /\ ~Parking(Running(t))
<1>1. pc[t] \in Critical => Running(t) \in Fibers /\ task[t] \in Task
  BY BusyTask DEF IInv, Critical, Inside, Taken, Busy
<1>2. pc[t] \in Inside => \A u \in Workers \ {t} : pc[u] \in Inside => Running(u) # Running(t)
  BY DEF IInv, FiberInv, MutexInv
<1>3. pc[t] \in Taken => /\ Held(Running(t)) /\ WakeOf(Running(t))
                         /\ \A u \in Workers \ {t} : pc[u] \in Taken => Running(u) # Running(t)
  BY <1>1
     DEF IInv, FiberInv, UniqueInv, HeldUnique, WakeInv, Held, Holds, Taken, Critical,
         Running
<1>4. pc[t] = "run" => fstate[Running(t)] = "RUNNING" /\ ~Parking(Running(t))
  BY <1>2 DEF IInv, FiberInv, StateInv, Parking, On, Inside, Running
<1>5. pc[t] = "run" => WakeOf(Running(t))
  BY <1>1 DEF IInv, FiberInv, WakeInv, Critical, Inside
<1> QED BY <1>1, <1>2, <1>3, <1>4, <1>5 DEF WakeOf

\* What the invariant says of a queued task.
LEMMA OfTask ==
    ASSUME IInv, NEW i \in 1..Len(tasks)
    PROVE  /\ tasks \in Seq(Task) /\ tasks[i] \in Task /\ tasks[i].fiber \in Fibers
           /\ Queued(tasks[i].fiber) /\ WakeOf(tasks[i].fiber)
<1>1. tasks \in Seq(Task)
  BY DEF IInv, TypeInv, TypeOK, QueueOK
<1>2. tasks[i] \in Task
  BY <1>1
<1>3. tasks[i].fiber \in Fibers
  BY <1>2 DEF Task
<1> QED BY <1>1, <1>2, <1>3 DEF IInv, FiberInv, WakeInv, Queued

\* A step that hands over no fiber's mutex, and lets nobody into resume() or out
\* of it.
LEMMA MutexKept ==
    ASSUME MutexInv, NEW t \in Workers, UNCHANGED fmutex,
           \A u \in Workers \ {t} : pc'[u] = pc[u] /\ task'[u] = task[u],
           pc'[t] \in Inside <=> pc[t] \in Inside,
           pc[t] \in Inside => task'[t] = task[t]
    PROVE  MutexInv'
BY DEF MutexInv, Running

\* If nothing changes about the other fibers, only f remains to be looked at.
LEMMA WakeKept ==
    ASSUME WakeInv, NEW f \in Fibers, \A g \in Fibers \ {f} : Same(g), WakeOf(f)'
    PROVE  WakeInv'
BY DEF WakeInv, WakeOf, Same

\* run() takes a task: its wake-up goes from the queue to the worker.
LEMMA TakeFiber ==
    ASSUME IInv, NEW t \in Workers, Take(t)
    PROVE  FiberInv'
<1>0. MutexInv /\ StateInv /\ KindInv /\ UniqueInv /\ WakeInv
  BY DEF IInv, FiberInv
<1>1. PICK i \in 1..Len(tasks) :
        /\ task' = [task EXCEPT ![t] = tasks[i]]
        /\ tasks' = RemoveAt(tasks, i)
        /\ Goto(t, IF tasks[i].kind = "wake" THEN "lambda" ELSE "lock")
  BY DEF Take
<1>2. PICK f \in Fibers : f = tasks[i].fiber
  BY OfTask
<1>3. /\ pc[t] = "take" /\ Moves(t, IF tasks[i].kind = "wake" THEN "lambda" ELSE "lock")
      /\ task'[t] = tasks[i] /\ \A u \in Workers \ {t} : task'[u] = task[u]
  BY <1>1, WorkersAreThreads DEF Take, At, Goto, Moves, IInv, TypeInv, TypeOK, ThreadOK
<1>4. UNCHANGED <<fstate, fmutex, timers, events, cbs>>
  BY DEF Take
<1>5. /\ Queued(f) /\ WakeOf(f)
      /\ \A j \in 1..Len(tasks') : \E k \in 1..Len(tasks) : k # i /\ tasks'[j] = tasks[k]
      /\ QueueUnique'
      /\ \A g : Queued(g)' <=> Queued(g) /\ g # f
  BY <1>0, <1>1, <1>2, OfTask, Pop
<1>6. pc'[t] \in {"lambda", "lock"} /\ (pc'[t] = "lambda" <=> tasks[i].kind = "wake")
  BY <1>3 DEF Moves
<1>7. MutexInv'
  BY <1>0, <1>3, <1>4, <1>6, MutexKept DEF Moves, Inside
<1>8. StateInv'
  BY <1>0, <1>3, <1>4, <1>6 DEF StateInv, Moves, Running
<1>9. KindInv'
  <2>1. QueueKind'
    BY <1>0, <1>4, <1>5 DEF KindInv, QueueKind
  <2>2. HeldKind'
    BY <1>0, <1>2, <1>3, <1>4, <1>6 DEF KindInv, QueueKind, HeldKind, Moves, Running
  <2>3. FreshKind'
    BY <1>0, <1>4 DEF KindInv, FreshKind
  <2> QED BY <2>1, <2>2, <2>3 DEF KindInv
<1>10. UniqueInv'
  <2>1. \A u \in Workers : pc[u] \in Taken => task[u].fiber # f
    BY <1>5 DEF WakeOf, Held, Holds, Taken
  <2>2. HeldUnique'
    BY <1>0, <1>2, <1>3, <2>1 DEF UniqueInv, HeldUnique, Moves
  <2>3. ExpiredUnique'
    BY <1>0, <1>4 DEF UniqueInv, ExpiredUnique
  <2> QED BY <1>5, <2>2, <2>3 DEF UniqueInv
<1>11. \A g \in Fibers : (Held(g)' <=> Held(g) \/ g = f) /\ (Parking(g)' <=> Parking(g))
  BY <1>2, <1>3, <1>6 DEF Held, Holds, Parking, On, Moves
<1>12. \A g \in Fibers : /\ Expired(g)' <=> Expired(g)
                         /\ Timed(g)' <=> Timed(g)
                         /\ Waiting(g)' <=> Waiting(g)
  BY <1>4 DEF Expired, Timed, Waiting
<1>13. WakeInv'
  BY <1>0, <1>4, <1>5, <1>11, <1>12 DEF WakeInv, WakeOf
<1> QED BY <1>7, <1>8, <1>9, <1>10, <1>13 DEF FiberInv

\* A callback becomes a fiber, locked by its creator.
LEMMA CreateFiber ==
    ASSUME IInv, NEW t \in Workers, Create(t)
    PROVE  FiberInv'
<1>0. MutexInv /\ StateInv /\ KindInv /\ UniqueInv /\ WakeInv
  BY DEF IInv, FiberInv
<1>1. PICK f \in Fibers : f = Running(t)
  BY OfWorker DEF Create, At, Critical, Taken
<1>2. pc[t] = "lock" /\ Moves(t, "resume") /\ task' = task
  BY WorkersAreThreads DEF Create, At, Goto, Moves, IInv, TypeInv, TypeOK, ThreadOK
<1>3. fstate[f] = "CB"
  BY <1>0, <1>1, <1>2 DEF Create, KindInv, HeldKind, Running
<1>4. fmutex[f] = None /\ ~Timed(f) /\ ~Waiting(f) /\ ~Expired(f)
  BY <1>0, <1>3 DEF KindInv, FreshKind, Timed, Waiting, Expired
<1>5. Becomes(f, "READY") /\ Passes(f, t)
  BY <1>1 DEF Create, Becomes, Passes, IInv, TypeInv, TypeOK, FiberOK
<1>6. UNCHANGED <<tasks, timers, events, cbs>>
  BY DEF Create
<1>7. /\ Held(f) /\ ~Queued(f)
      /\ \A u \in Workers \ {t} : pc[u] \in Taken => Running(u) # f
  BY <1>1, <1>2, OfWorker DEF Taken, WakeOf
<1>8. MutexInv'
  BY <1>0, <1>1, <1>2, <1>4, <1>5, NoneIsNobody
     DEF MutexInv, Moves, Passes, Inside, Running
<1>9. StateInv'
  BY <1>0, <1>1, <1>2, <1>4, <1>5, NoneIsNobody
     DEF MutexInv, StateInv, Moves, Becomes, Inside, Running
<1>10. KindInv'
  <2>1. QueueKind'
    BY <1>0, <1>5, <1>6, <1>7, OfTask DEF KindInv, QueueKind, Becomes, Queued
  <2>2. HeldKind'
    BY <1>0, <1>2, <1>5, <1>7, OfWorker
       DEF KindInv, HeldKind, Moves, Becomes, Critical, Taken, Running
  <2>3. FreshKind'
    BY <1>0, <1>5, <1>6 DEF KindInv, FreshKind, Becomes, Passes
  <2> QED BY <2>1, <2>2, <2>3 DEF KindInv
<1>11. UniqueInv'
  BY <1>0, <1>2, <1>6
     DEF UniqueInv, QueueUnique, HeldUnique, ExpiredUnique, Moves, Taken
<1>12. \A g \in Fibers \ {f} : Same(g)
  BY <1>1, <1>2, <1>5, <1>6
     DEF Same, Moves, Becomes, Queued, Held, Holds, Expired, Timed, Waiting, Parking,
         On, Running
<1>13. WakeOf(f)'
  BY <1>1, <1>2, <1>4, <1>5, <1>6, <1>7
     DEF WakeOf, Moves, Becomes, Queued, Held, Holds, Expired, Timed, Waiting,
         Parking, On, Running
<1> QED BY <1>0, <1>8, <1>9, <1>10, <1>11, <1>12, <1>13, WakeKept DEF FiberInv

\* A taken fiber that is not created is READY once its mutex is free.
LEMMA LockFiber ==
    ASSUME IInv, NEW t \in Workers, Lock(t)
    PROVE  FiberInv'
<1>0. MutexInv /\ StateInv /\ KindInv /\ UniqueInv /\ WakeInv
  BY DEF IInv, FiberInv
<1>1. PICK f \in Fibers : f = Running(t)
  BY OfWorker DEF Lock, At, Critical, Taken
<1>2. pc[t] = "lock" /\ fmutex[f] = None /\ fstate[f] # "CB"
  BY <1>0, <1>1 DEF Lock, At, MutexFree, KindInv, HeldKind, Running
<1>3. /\ Held(f) /\ WakeOf(f)
      /\ \A u \in Workers \ {t} : pc[u] \in Taken => Running(u) # f
  BY <1>1, <1>2, OfWorker DEF Taken
<1>4. ~Parking(f)
  BY <1>0, <1>2, NoneIsNobody DEF MutexInv, Parking, On, Inside, Running
<1>5. fstate[f] = "READY"
  BY <1>2, <1>3, <1>4 DEF WakeOf
<1>6. Moves(t, "resume") /\ task' = task
  BY <1>1, <1>5, WorkersAreThreads
     DEF Lock, Goto, Moves, IInv, TypeInv, TypeOK, ThreadOK
<1>7. Passes(f, t)
  BY <1>1, <1>5 DEF Lock, Passes, IInv, TypeInv, TypeOK, FiberOK
<1>8. UNCHANGED <<tasks, fstate, timers, events, cbs>>
  BY DEF Lock
<1>9. MutexInv'
  BY <1>0, <1>1, <1>2, <1>6, <1>7, NoneIsNobody
     DEF MutexInv, Moves, Passes, Inside, Running
<1>10. StateInv'
  BY <1>0, <1>1, <1>5, <1>6, <1>8 DEF StateInv, Moves, Running
<1>11. KindInv'
  <2>1. QueueKind'
    BY <1>0, <1>8 DEF KindInv, QueueKind
  <2>2. HeldKind'
    BY <1>0, <1>6, <1>8 DEF KindInv, HeldKind, Moves, Running
  <2>3. FreshKind'
    BY <1>0, <1>5, <1>7, <1>8 DEF KindInv, FreshKind, Passes
  <2> QED BY <2>1, <2>2, <2>3 DEF KindInv
<1>12. UniqueInv'
  BY <1>0, <1>2, <1>6, <1>8
     DEF UniqueInv, QueueUnique, HeldUnique, ExpiredUnique, Moves, Taken
<1>13. \A g \in Fibers : Same(g)
  BY <1>2, <1>6, <1>8
     DEF Same, Moves, Queued, Held, Holds, Expired, Timed, Waiting, Parking, On
<1>14. WakeInv'
  BY <1>0, <1>13 DEF WakeInv, WakeOf, Same
<1> QED BY <1>9, <1>10, <1>11, <1>12, <1>14 DEF FiberInv

\* Resuming the fiber consumes its wake-up.
LEMMA ResumeFiber ==
    ASSUME IInv, NEW t \in Workers, Resume(t)
    PROVE  FiberInv'
<1>0. MutexInv /\ StateInv /\ KindInv /\ UniqueInv /\ WakeInv
  BY DEF IInv, FiberInv
<1>1. PICK f \in Fibers : f = Running(t)
  BY OfWorker DEF Resume, At, Critical, Taken
<1>2. pc[t] = "resume" /\ Moves(t, "run") /\ task' = task
  BY WorkersAreThreads DEF Resume, At, Goto, Moves, IInv, TypeInv, TypeOK, ThreadOK
<1>3. fstate[f] = "READY" /\ Becomes(f, "RUNNING")
  BY <1>0, <1>1, <1>2 DEF Resume, StateInv, Becomes, IInv, TypeInv, TypeOK, FiberOK
<1>4. UNCHANGED <<tasks, fmutex, timers, events, cbs>>
  BY DEF Resume
<1>5. /\ Held(f) /\ WakeOf(f)
      /\ \A u \in Workers \ {t} : pc[u] \in Taken => Running(u) # f
      /\ \A u \in Workers \ {t} : pc[u] \in Inside => Running(u) # f
  BY <1>1, <1>2, OfWorker DEF Taken, Inside
<1>6. MutexInv'
  BY <1>0, <1>2, <1>4, MutexKept DEF Moves, Inside
<1>7. StateInv'
  <2>1. ASSUME NEW u \in Workers \ {t}, pc[u] \in Inside
        PROVE  Running(u) \in Fibers \ {f}
    BY <1>5, <2>1, OfWorker DEF Critical
  <2>2. \A u \in Workers \ {t} : pc[u] \in Inside => fstate'[Running(u)] = fstate[Running(u)]
    BY <1>3, <2>1 DEF Becomes
  <2> QED BY <1>0, <1>1, <1>2, <1>3, <2>2 DEF StateInv, Moves, Becomes, Inside, Running
<1>8. KindInv'
  <2>1. QueueKind'
    BY <1>0, <1>3, <1>4, <1>5, OfTask DEF KindInv, QueueKind, Becomes, WakeOf
  <2>2. HeldKind'
    BY <1>0, <1>2, <1>3, <1>5, OfWorker
       DEF KindInv, HeldKind, Moves, Becomes, Critical, Taken, Running
  <2>3. FreshKind'
    BY <1>0, <1>3, <1>4 DEF KindInv, FreshKind, Becomes
  <2> QED BY <2>1, <2>2, <2>3 DEF KindInv
<1>9. UniqueInv'
  BY <1>0, <1>2, <1>4
     DEF UniqueInv, QueueUnique, HeldUnique, ExpiredUnique, Moves, Taken
<1>10. \A g \in Fibers \ {f} : Same(g)
  BY <1>1, <1>2, <1>3, <1>4
     DEF Same, Moves, Becomes, Queued, Held, Holds, Expired, Timed, Waiting, Parking,
         On, Running
<1>11. ~Held(f)' /\ ~Parking(f)'
  BY <1>1, <1>2, <1>5 DEF Held, Holds, Parking, On, Moves, Taken, Inside, Running
<1>12. WakeOf(f)'
  BY <1>3, <1>4, <1>5, <1>11 DEF WakeOf, Becomes, Queued, Expired, Timed, Waiting
<1> QED BY <1>0, <1>6, <1>7, <1>8, <1>9, <1>10, <1>12, WakeKept DEF FiberInv

\* The lambda of a sleep timer: the wake-up goes from the worker to the queue.
LEMMA LambdaFiber ==
    ASSUME IInv, NEW t \in Workers, Lambda(t)
    PROVE  FiberInv'
<1>0. MutexInv /\ StateInv /\ KindInv /\ UniqueInv /\ WakeInv
  BY DEF IInv, FiberInv
<1>1. PICK f \in Fibers : f = Running(t)
  BY OfWorker DEF Lambda, At, Critical, Taken
<1>2. pc[t] = "lambda" /\ Moves(t, "retire") /\ task' = task
  BY WorkersAreThreads DEF Lambda, At, Goto, Moves, IInv, TypeInv, TypeOK, ThreadOK
<1>3. fstate[f] # "CB"
  BY <1>0, <1>1, <1>2 DEF KindInv, HeldKind, Running
<1>4. UNCHANGED <<fstate, fmutex, timers, events, cbs>>
  BY DEF Lambda
<1>5. /\ Held(f) /\ WakeOf(f) /\ ~Queued(f)
      /\ \A u \in Workers \ {t} : pc[u] \in Taken => Running(u) # f
  BY <1>1, <1>2, OfWorker DEF Taken, WakeOf
<1>6. QueueKind' /\ QueueUnique' /\ \A g : Queued(g)' <=> Queued(g) \/ g = f
  <2>1. tasks' = Append(tasks, FiberTask(f)) /\ tasks \in Seq(Task)
    BY <1>1 DEF Lambda, ScheduleLock, IInv, TypeInv, TypeOK, QueueOK
  <2>2. FiberTask(f) \in Task /\ FiberTask(f).fiber = f /\ FiberTask(f).kind # "cb"
    BY TaskTypes DEF FiberTask
  <2> QED BY <1>0, <1>3, <1>4, <1>5, <2>1, <2>2, Push
<1>7. MutexInv'
  BY <1>0, <1>2, <1>4, MutexKept DEF Moves, Inside
<1>8. StateInv'
  BY <1>0, <1>2, <1>4 DEF StateInv, Moves, Running
<1>9. KindInv'
  BY <1>0, <1>2, <1>4, <1>6 DEF KindInv, HeldKind, FreshKind, Moves, Running
<1>10. UniqueInv'
  BY <1>0, <1>2, <1>4, <1>6 DEF UniqueInv, HeldUnique, ExpiredUnique, Moves, Taken
<1>11. \A g \in Fibers \ {f} : Same(g)
  BY <1>1, <1>2, <1>4, <1>6
     DEF Same, Moves, Held, Holds, Expired, Timed, Waiting, Parking, On, Running
<1>12. ~Held(f)' /\ (Parking(f)' <=> Parking(f))
  BY <1>1, <1>2, <1>5 DEF Held, Holds, Parking, On, Moves, Taken, Running
<1>13. WakeOf(f)'
  BY <1>4, <1>5, <1>6, <1>12 DEF WakeOf, Expired, Timed, Waiting
<1> QED BY <1>0, <1>7, <1>8, <1>9, <1>10, <1>11, <1>13, WakeKept DEF FiberInv

\* A callback is scheduled, by a worker or by the owner.
LEMMA SubmitFiber ==
    ASSUME IInv, NEW t \in Threads \cup {Main}, NEW f \in Fibers, Submit(t, f)
    PROVE  FiberInv'
<1>0. MutexInv /\ StateInv /\ KindInv /\ UniqueInv /\ WakeInv /\ WakeOf(f)
  BY DEF IInv, FiberInv, WakeInv
<1>1. fstate[f] = "NONE" /\ Becomes(f, "CB")
  BY DEF Submit, Becomes, IInv, TypeInv, TypeOK, FiberOK
<1>2. UNCHANGED <<pc, task, fmutex, timers, events, cbs>>
  BY DEF Submit
<1>3. \A u \in Workers : pc[u] \in Inside => Running(u) # f
  BY <1>0, <1>1 DEF StateInv, Inside
<1>4. ~Parking(f) /\ fmutex[f] = None
  BY <1>0, <1>3 DEF MutexInv, Parking, On, Inside, Running
<1>5. ~Queued(f) /\ ~Held(f) /\ ~Expired(f) /\ ~Timed(f) /\ ~Waiting(f)
  BY <1>0, <1>1, <1>4 DEF WakeOf
<1>6. QueueKind' /\ QueueUnique' /\ \A g : Queued(g)' <=> Queued(g) \/ g = f
  <2>1. tasks' = Append(tasks, CbTask(f)) /\ tasks \in Seq(Task)
    BY DEF Submit, ScheduleLock, IInv, TypeInv, TypeOK, QueueOK
  <2>2. CbTask(f) \in Task /\ CbTask(f).fiber = f /\ CbTask(f).kind = "cb"
    BY TaskTypes DEF CbTask
  <2> QED BY <1>0, <1>1, <1>5, <2>1, <2>2, Push DEF Becomes
<1>7. MutexInv'
  BY <1>0, <1>2 DEF MutexInv, Running
<1>8. StateInv'
  <2>1. ASSUME NEW u \in Workers, pc[u] \in Inside
        PROVE  Running(u) \in Fibers \ {f}
    BY <1>3, <2>1, OfWorker DEF Critical
  <2> QED BY <1>0, <1>1, <1>2, <2>1 DEF StateInv, Becomes, Inside, Running
<1>9. KindInv'
  <2>1. \A u \in Workers : pc[u] \in {"lock", "lambda"} => Running(u) \in Fibers \ {f}
    BY <1>5, OfWorker DEF Held, Holds, Critical, Taken, Running
  <2>2. HeldKind'
    BY <1>0, <1>1, <1>2, <2>1 DEF KindInv, HeldKind, Becomes, Running
  <2>3. FreshKind'
    BY <1>0, <1>1, <1>2, <1>4, <1>5
       DEF KindInv, FreshKind, Becomes, Expired, Timed, Waiting
  <2> QED BY <1>6, <2>2, <2>3 DEF KindInv
<1>10. UniqueInv'
  BY <1>0, <1>2, <1>6 DEF UniqueInv, HeldUnique, ExpiredUnique
<1>11. \A g \in Fibers \ {f} : Same(g)
  BY <1>1, <1>2, <1>6
     DEF Same, Becomes, Held, Holds, Expired, Timed, Waiting, Parking, On
<1>12. WakeOf(f)'
  BY <1>1, <1>2, <1>4, <1>5, <1>6
     DEF WakeOf, Becomes, Held, Holds, Expired, Timed, Waiting, Parking, On
<1> QED BY <1>0, <1>7, <1>8, <1>9, <1>10, <1>11, <1>12, WakeKept DEF FiberInv

\* A running fiber registers its timer or its event, and is about to yield.
LEMMA RegisterFiber ==
    ASSUME IInv, NEW t \in Workers, NEW f \in Fibers, f = Running(t),
           pc[t] = "run", Moves(t, "park"),
           UNCHANGED <<tasks, task, fstate, fmutex, cbs>>,
           \/ timers' = timers \cup {f} /\ UNCHANGED events
           \/ events' = events \cup {f} /\ UNCHANGED timers
    PROVE  FiberInv'
<1>0. MutexInv /\ StateInv /\ KindInv /\ UniqueInv /\ WakeInv
  BY DEF IInv, FiberInv
<1>1. /\ fstate[f] = "RUNNING"
      /\ ~Queued(f) /\ ~Held(f) /\ ~Expired(f) /\ ~Timed(f) /\ ~Waiting(f)
  BY OfWorker
<1>2. MutexInv'
  BY <1>0, MutexKept DEF Moves, Inside
<1>3. StateInv'
  BY <1>0, <1>1 DEF StateInv, Moves, Running
<1>4. KindInv'
  BY <1>0, <1>1 DEF KindInv, QueueKind, HeldKind, FreshKind, Moves, Running
<1>5. UniqueInv'
  BY <1>0 DEF UniqueInv, QueueUnique, HeldUnique, ExpiredUnique, Moves, Taken
<1>6. \A g \in Fibers \ {f} : Same(g)
  BY DEF Same, Moves, Queued, Held, Holds, Expired, Timed, Waiting, Parking, On, Running
<1>7. Parking(f)' /\ ~Queued(f)' /\ ~Held(f)' /\ ~Expired(f)'
  BY <1>1 DEF Moves, Queued, Held, Holds, Expired, Parking, On, Running
<1>8. WakeOf(f)'
  BY <1>1, <1>7 DEF WakeOf, Timed, Waiting
<1> QED BY <1>0, <1>2, <1>3, <1>4, <1>5, <1>6, <1>8, WakeKept DEF FiberInv

LEMMA SleepFiber ==
    ASSUME IInv, NEW t \in Workers, Sleep(t)
    PROVE  FiberInv'
<1>1. pc[t] = "run" /\ Running(t) \in Fibers
  BY OfWorker DEF Sleep, At, Critical, Inside
<1>2. Moves(t, "park")
  BY WorkersAreThreads DEF Sleep, Goto, Moves, IInv, TypeInv, TypeOK, ThreadOK
<1> QED BY <1>1, <1>2, RegisterFiber DEF Sleep

LEMMA WaitFiber ==
    ASSUME IInv, NEW t \in Workers, Wait(t)
    PROVE  FiberInv'
<1>1. pc[t] = "run" /\ Running(t) \in Fibers
  BY OfWorker DEF Wait, At, Critical, Inside
<1>2. Moves(t, "park")
  BY WorkersAreThreads DEF Wait, Goto, Moves, IInv, TypeInv, TypeOK, ThreadOK
<1> QED BY <1>1, <1>2, RegisterFiber DEF Wait

\* A wake-up that an event or an expired callback held goes to the queue.
LEMMA QueuedFiber ==
    ASSUME IInv, NEW f \in Fibers, Expired(f) \/ Waiting(f),
           NEW x \in {FiberTask(f), WakeTask(f)}, tasks' = Append(tasks, x),
           UNCHANGED <<task, fstate, fmutex, timers>>,
           \A u \in Workers : pc[u] \in Critical \/ pc'[u] \in Critical => pc'[u] = pc[u],
           events' \subseteq events, \A u \in Workers : cbs'[u] \subseteq cbs[u],
           ~Expired(f)', ~Waiting(f)',
           \A g \in Fibers \ {f} : (Expired(g)' <=> Expired(g)) /\ (Waiting(g)' <=> Waiting(g))
    PROVE  FiberInv'
<1>0. MutexInv /\ StateInv /\ KindInv /\ UniqueInv /\ WakeInv /\ WakeOf(f)
  BY DEF IInv, FiberInv, WakeInv
<1>1. fstate[f] # "CB"
  BY <1>0 DEF KindInv, FreshKind, Expired, Waiting
<1>2. ~Queued(f) /\ ~Held(f) /\ ~Timed(f)
  BY <1>0 DEF WakeOf
<1>3. QueueKind' /\ QueueUnique' /\ \A g : Queued(g)' <=> Queued(g) \/ g = f
  <2>1. tasks \in Seq(Task)
    BY DEF IInv, TypeInv, TypeOK, QueueOK
  <2>2. x \in Task
    BY TaskTypes
  <2>3. x.fiber = f /\ x.kind # "cb"
    BY DEF FiberTask, WakeTask
  <2> QED BY <1>0, <1>1, <1>2, <2>1, <2>2, <2>3, Push
<1>4. MutexInv'
  BY <1>0 DEF MutexInv, Critical, Inside, Running
<1>5. StateInv'
  BY <1>0 DEF StateInv, Critical, Inside, Taken, Running
<1>6. KindInv'
  BY <1>0, <1>3 DEF KindInv, HeldKind, FreshKind, Critical, Taken, Running
<1>7. UniqueInv'
  BY <1>0, <1>3 DEF UniqueInv, HeldUnique, ExpiredUnique, Critical, Taken
<1>8. \A g : (Held(g)' <=> Held(g)) /\ (Parking(g)' <=> Parking(g))
  BY DEF Held, Holds, Parking, On, Critical, Inside, Taken
<1>9. \A g \in Fibers \ {f} : Same(g)
  BY <1>3, <1>8 DEF Same, Timed
<1>10. WakeOf(f)'
  BY <1>0, <1>2, <1>3, <1>8 DEF WakeOf, Timed
<1> QED BY <1>0, <1>4, <1>5, <1>6, <1>7, <1>9, <1>10, WakeKept DEF FiberInv

\* cancelEvent and the handling of an event remove it and schedule its fiber.
LEMMA WokenFiber ==
    ASSUME IInv, NEW f \in events, events' = events \ {f}, tasks' = Append(tasks, FiberTask(f)),
           UNCHANGED <<task, fstate, fmutex, timers, cbs>>,
           \A u \in Workers : pc[u] \in Critical \/ pc'[u] \in Critical => pc'[u] = pc[u]
    PROVE  FiberInv'
<1>1. f \in Fibers
  BY DEF IInv, TypeInv, TypeOK, EventOK
<1>2. Waiting(f) /\ ~Expired(f)
  BY <1>1 DEF IInv, FiberInv, WakeInv, WakeOf, Waiting
<1>3. ~Expired(f)' /\ ~Waiting(f)'
  BY <1>2 DEF Expired, Waiting
<1>4. \A g \in Fibers \ {f} : (Expired(g)' <=> Expired(g)) /\ (Waiting(g)' <=> Waiting(g))
  BY DEF Expired, Waiting
<1> QED BY <1>1, <1>2, <1>3, <1>4, QueuedFiber

LEMMA CancelFiber ==
    ASSUME IInv, NEW t \in Workers, NEW f \in Fibers, Cancel(t, f)
    PROVE  FiberInv'
BY WokenFiber DEF Cancel, Forget, ScheduleLock

\* An event that was cancelled since epoll_wait returned is skipped.
LEMMA TriggerFiber ==
    ASSUME IInv, NEW t \in Workers, Trigger(t)
    PROVE  FiberInv'
<1>1. UNCHANGED <<task, fstate, fmutex, timers, cbs>> /\ pc[t] = "events"
  BY DEF Trigger, At
<1>2. PICK f \in evs[t] :
        IF f \in events
        THEN events' = events \ {f} /\ tasks' = Append(tasks, FiberTask(f)) /\ Goto(t, "count")
        ELSE UNCHANGED <<events, tasks, pc>>
  BY DEF Trigger, Forget, ScheduleLock
<1>3. CASE f \in events
  <2>1. Moves(t, "count")
    BY <1>2, <1>3, WorkersAreThreads DEF Goto, Moves, IInv, TypeInv, TypeOK, ThreadOK
  <2>2. \A u \in Workers : pc[u] \in Critical \/ pc'[u] \in Critical => pc'[u] = pc[u]
    BY <1>1, <2>1 DEF Moves, Critical, Inside, Taken
  <2> QED BY <1>1, <1>2, <1>3, <2>2, WokenFiber
<1>4. CASE f \notin events
  BY <1>1, <1>2, <1>4, Unobserved DEF IInv
<1> QED BY <1>3, <1>4

\* An expired callback is scheduled.
LEMMA ScheduleCbFiber ==
    ASSUME IInv, NEW t \in Workers, ScheduleCb(t)
    PROVE  FiberInv'
<1>1. PICK f \in cbs[t] : cbs' = [cbs EXCEPT ![t] = @ \ {f}] /\ tasks' = Append(tasks, WakeTask(f))
  BY DEF ScheduleCb, ScheduleLock
<1>2. UNCHANGED <<pc, task, fstate, fmutex, timers, events>>
  BY DEF ScheduleCb
<1>3. cbs'[t] = cbs[t] \ {f} /\ \A u \in Workers \ {t} : cbs'[u] = cbs[u]
  BY <1>1 DEF IInv, TypeInv, TypeOK, IdleOK
<1>4. f \in Fibers
  BY DEF IInv, TypeInv, TypeOK, IdleOK
<1>5. Expired(f) /\ ~Waiting(f)
  BY <1>4 DEF IInv, FiberInv, WakeInv, WakeOf, Expired
<1>6. \A u \in Workers \ {t} : f \notin cbs[u]
  BY <1>4 DEF IInv, FiberInv, UniqueInv, ExpiredUnique
<1>7. ~Expired(f)' /\ ~Waiting(f)'
  BY <1>2, <1>3, <1>5, <1>6 DEF Expired, Waiting
<1>8. \A g \in Fibers \ {f} : (Expired(g)' <=> Expired(g)) /\ (Waiting(g)' <=> Waiting(g))
  BY <1>2, <1>3 DEF Expired, Waiting
<1>9. \A u \in Workers : cbs'[u] \subseteq cbs[u]
  BY <1>3
<1> QED BY <1>1, <1>2, <1>4, <1>5, <1>7, <1>8, <1>9, QueuedFiber

\* The deadlines that passed: their timers become expired callbacks.
LEMMA ExpireFiber ==
    ASSUME IInv, NEW t \in Workers, Expire(t)
    PROVE  FiberInv'
<1>0. MutexInv /\ StateInv /\ KindInv /\ UniqueInv /\ WakeInv
  BY DEF IInv, FiberInv
<1>1. pc[t] = "expire" /\ Moves(t, "sched")
  BY WorkersAreThreads DEF Expire, At, Goto, Moves, IInv, TypeInv, TypeOK, ThreadOK
<1>2. UNCHANGED <<tasks, task, fstate, fmutex, events>>
  BY DEF Expire
<1>3. cbs[t] = {}
  BY <1>1 DEF IInv, TypeInv, LocalInv
<1>4. /\ cbs'[t] = due /\ \A u \in Workers \ {t} : cbs'[u] = cbs[u]
      /\ timers' = timers \ due /\ due \subseteq timers
  BY DEF Expire, IInv, TypeInv, TypeOK, IdleOK, TimerOK
<1>5. \A f \in due : f \in timers /\ \A u \in Workers : f \notin cbs[u]
  BY <1>0, <1>4 DEF WakeInv, WakeOf, Expired, Timed, IInv, TypeInv, TypeOK, TimerOK
<1>6. \A u \in Workers : pc[u] \in Critical \/ pc'[u] \in Critical => pc'[u] = pc[u]
  BY <1>1 DEF Moves, Critical, Inside, Taken
<1>7. MutexInv'
  BY <1>0, <1>2, <1>6 DEF MutexInv, Critical, Inside, Running
<1>8. StateInv'
  BY <1>0, <1>2, <1>6 DEF StateInv, Critical, Inside, Taken, Running
<1>9. KindInv'
  <2>1. QueueKind' /\ HeldKind'
    BY <1>0, <1>2, <1>6 DEF KindInv, QueueKind, HeldKind, Critical, Taken, Running
  <2>2. FreshKind'
    BY <1>0, <1>2, <1>4 DEF KindInv, FreshKind
  <2> QED BY <2>1, <2>2 DEF KindInv
<1>10. UniqueInv'
  <2>1. QueueUnique' /\ HeldUnique'
    BY <1>0, <1>2, <1>6 DEF UniqueInv, QueueUnique, HeldUnique, Critical, Taken
  <2>2. ExpiredUnique'
    BY <1>0, <1>4, <1>5 DEF UniqueInv, ExpiredUnique
  <2> QED BY <2>1, <2>2 DEF UniqueInv
<1>11. \A f : /\ Queued(f)' <=> Queued(f)
              /\ Held(f)' <=> Held(f)
              /\ Waiting(f)' <=> Waiting(f)
              /\ Parking(f)' <=> Parking(f)
  BY <1>2, <1>6 DEF Queued, Held, Holds, Waiting, Parking, On, Critical, Inside, Taken
<1>12. ASSUME NEW f \in Fibers, f \notin due
       PROVE  Same(f)
  BY <1>2, <1>3, <1>4, <1>11, <1>12 DEF Same, Expired, Timed
<1>13. ASSUME NEW f \in due
       PROVE  Timed(f) /\ Expired(f)' /\ ~Timed(f)'
  BY <1>4 DEF Timed, Expired
<1>14. WakeInv'
  <2> SUFFICES ASSUME NEW f \in Fibers PROVE WakeOf(f)'
    BY DEF WakeInv
  <2>1. WakeOf(f)
    BY <1>0 DEF WakeInv
  <2>2. CASE f \in due
    BY <1>2, <1>11, <1>13, <2>1, <2>2 DEF WakeOf
  <2>3. CASE f \notin due
    BY <1>12, <2>1, <2>3 DEF WakeOf, Same
  <2> QED BY <2>2, <2>3
<1> QED BY <1>7, <1>8, <1>9, <1>10, <1>14 DEF FiberInv

\* The fiber leaves its thread, parked or finished, and its mutex is released.
LEMMA LeaveFiber ==
    ASSUME IInv, NEW t \in Workers, NEW f \in Fibers, f = Running(t),
           Moves(t, "retire"), Passes(f, None),
           UNCHANGED <<tasks, task, timers, events, cbs>>,
           \/ pc[t] = "park" /\ Becomes(f, "READY")
           \/ pc[t] = "run" /\ Becomes(f, "TERM")
    PROVE  FiberInv'
<1>0. MutexInv /\ StateInv /\ KindInv /\ UniqueInv /\ WakeInv /\ WakeOf(f)
  BY DEF IInv, FiberInv, WakeInv
<1>1. fstate[f] = "RUNNING"
  BY <1>0 DEF StateInv, Running
<1>2. \A u \in Workers \ {t} : pc[u] \in Inside => Running(u) # f
  BY OfWorker DEF Inside
<1>3. MutexInv'
  BY <1>0, <1>2, NoneIsNobody DEF MutexInv, Moves, Passes, Inside, Running
<1>4. StateInv'
  <2>1. ASSUME NEW u \in Workers \ {t}, pc[u] \in Inside
        PROVE  Running(u) \in Fibers \ {f}
    BY <1>2, <2>1, OfWorker DEF Critical
  <2> QED BY <1>0, <2>1 DEF StateInv, Moves, Becomes, Inside, Running
<1>5. KindInv'
  <2>1. QueueKind'
    BY <1>0, <1>1, OfTask DEF KindInv, QueueKind, Becomes
  <2>2. HeldKind'
    BY <1>0, <1>1, OfWorker
       DEF KindInv, HeldKind, Moves, Becomes, Critical, Taken, Running
  <2>3. FreshKind'
    BY <1>0, <1>1 DEF KindInv, FreshKind, Becomes, Passes
  <2> QED BY <2>1, <2>2, <2>3 DEF KindInv
<1>6. UniqueInv'
  BY <1>0 DEF UniqueInv, QueueUnique, HeldUnique, ExpiredUnique, Moves, Taken
<1>7. \A g \in Fibers \ {f} : Same(g)
  BY
     DEF Same, Moves, Becomes, Queued, Held, Holds, Expired, Timed, Waiting, Parking,
         On, Running
<1>8. /\ ~Parking(f)' /\ (Parking(f) <=> pc[t] = "park")
      /\ Queued(f)' <=> Queued(f)
      /\ Held(f)' <=> Held(f)
      /\ Expired(f)' <=> Expired(f)
      /\ Timed(f)' <=> Timed(f)
      /\ Waiting(f)' <=> Waiting(f)
  BY <1>2
     DEF Moves, Queued, Held, Holds, Expired, Timed, Waiting, Parking, On, Inside,
         Running
<1>9. WakeOf(f)'
  BY <1>0, <1>1, <1>8 DEF WakeOf, Becomes
<1> QED BY <1>0, <1>3, <1>4, <1>5, <1>6, <1>7, <1>9, WakeKept DEF FiberInv

LEMMA YieldFiber ==
    ASSUME IInv, NEW t \in Workers, Yield(t)
    PROVE  FiberInv'
<1>1. pc[t] = "park" /\ Running(t) \in Fibers
  BY OfWorker DEF Yield, At, Critical, Inside
<1>2. Moves(t, "retire")
  BY WorkersAreThreads DEF Yield, Goto, Moves, IInv, TypeInv, TypeOK, ThreadOK
<1>3. Becomes(Running(t), "READY") /\ Passes(Running(t), None)
  BY <1>1 DEF Yield, Becomes, Passes, IInv, TypeInv, TypeOK, FiberOK
<1> QED BY <1>1, <1>2, <1>3, LeaveFiber DEF Yield

LEMMA FinishFiber ==
    ASSUME IInv, NEW t \in Workers, Finish(t)
    PROVE  FiberInv'
<1>1. pc[t] = "run" /\ Running(t) \in Fibers
  BY OfWorker DEF Finish, At, Critical, Inside
<1>2. Moves(t, "retire")
  BY WorkersAreThreads DEF Finish, Goto, Moves, IInv, TypeInv, TypeOK, ThreadOK
<1>3. Becomes(Running(t), "TERM") /\ Passes(Running(t), None)
  BY <1>1 DEF Finish, Becomes, Passes, IInv, TypeInv, TypeOK, FiberOK
<1> QED BY <1>1, <1>2, <1>3, LeaveFiber DEF Finish

\* Between tasks a worker moves no fiber.
LEMMA QuietMove ==
    ASSUME IInv, NEW t \in Threads \cup {Main}, NEW p,
           pc[t] \notin Critical, p \notin Critical, Goto(t, p),
           UNCHANGED <<tasks, fstate, fmutex, timers, events, cbs>>,
           \A u \in Workers \ {t} : task'[u] = task[u]
    PROVE  FiberInv'
<1>1. pc'[t] = p /\ \A u \in Workers \ {t} : pc'[u] = pc[u]
  BY WorkersAreThreads DEF Goto, IInv, TypeInv, TypeOK, ThreadOK
<1>2. \A u \in Workers : pc[u] \in Critical \/ pc'[u] \in Critical
                            => pc'[u] = pc[u] /\ task'[u] = task[u]
  BY <1>1
<1> QED BY <1>2, Unobserved DEF IInv

LEMMA RunStepFiber ==
    ASSUME IInv, NEW t \in Workers, RunStep(t)
    PROVE  FiberInv'
<1> USE WorkersAreThreads
<1>1. CASE TakeNone(t)
  BY <1>1, QuietMove DEF TakeNone, At, Critical, Inside, Taken
<1>2. CASE Retire(t)
  <2>1. \A u \in Workers \ {t} : task'[u] = task[u]
    BY <1>2 DEF Retire, IInv, TypeInv, TypeOK, ThreadOK
  <2> QED BY <1>2, <2>1, QuietMove DEF Retire, At, Critical, Inside, Taken
<1> QED
  BY <1>1, <1>2, TakeFiber, CreateFiber, LockFiber, ResumeFiber, LambdaFiber DEF RunStep

LEMMA BodyStepFiber ==
    ASSUME IInv, NEW t \in Workers, BodyStep(t)
    PROVE  FiberInv'
<1>1. ASSUME NEW f \in Fibers, Spawn(t, f) \/ Cancel(t, f)
      PROVE  FiberInv'
  BY <1>1, SubmitFiber, CancelFiber, WorkersAreThreads DEF Spawn
<1> QED BY <1>1, SleepFiber, WaitFiber, YieldFiber, FinishFiber DEF BodyStep

LEMMA CheckStepFiber ==
    ASSUME IInv, NEW t \in Workers, CheckStep(t)
    PROVE  FiberInv'
<1> USE WorkersAreThreads DEF At, Critical, Inside, Taken
<1>1. CASE GoIdle(t)
  BY <1>1, QuietMove DEF GoIdle
<1>2. CASE StoppingTimers(t)
  BY <1>2, QuietMove DEF StoppingTimers
<1>3. CASE StoppingEvents(t)
  BY <1>3, QuietMove DEF StoppingEvents
<1>4. CASE StoppingTasks(t)
  BY <1>4, QuietMove DEF StoppingTasks
<1>5. CASE LeaveIdle(t)
  BY <1>5, QuietMove DEF LeaveIdle
<1> QED BY <1>1, <1>2, <1>3, <1>4, <1>5 DEF CheckStep

LEMMA PollStepFiber ==
    ASSUME IInv, NEW t \in Workers, PollStep(t)
    PROVE  FiberInv'
<1> USE WorkersAreThreads DEF At, Critical, Inside, Taken
<1>1. CASE EpollReturns(t)
  BY <1>1, QuietMove DEF EpollReturns
<1>2. CASE EpollTimeout(t)
  BY <1>2, QuietMove DEF EpollTimeout
<1>3. CASE CbsDone(t)
  BY <1>3, QuietMove DEF CbsDone
<1>4. CASE CountDown(t)
  BY <1>4, QuietMove DEF CountDown
<1>5. CASE EventsDone(t)
  BY <1>5, QuietMove DEF EventsDone
<1> QED
  BY <1>1, <1>2, <1>3, <1>4, <1>5, ExpireFiber, ScheduleCbFiber, TriggerFiber
     DEF PollStep

LEMMA MainStepFiber ==
    ASSUME IInv, MainStep
    PROVE  FiberInv'
<1> USE DEF At, Critical, Inside, Taken
<1>1. CASE Stop
  BY <1>1, QuietMove DEF Stop
<1>2. CASE StopTickle
  BY <1>2, Unobserved DEF StopTickle, IInv
<1>3. CASE StopRun
  BY <1>3, QuietMove DEF StopRun
<1>4. CASE Join
  BY <1>4, QuietMove DEF Join
<1>5. ASSUME NEW f \in Fibers, MainSubmit(f)
      PROVE  FiberInv'
  BY <1>5, SubmitFiber DEF MainSubmit
<1> QED BY <1>1, <1>2, <1>3, <1>4, <1>5 DEF MainStep, StopStep

LEMMA FiberStep == IInv /\ [Next]_vars => FiberInv'
<1> SUFFICES ASSUME IInv, [Next]_vars PROVE FiberInv'
  OBVIOUS
<1>1. ASSUME NEW t \in Workers, WorkerStep(t)
      PROVE  FiberInv'
  BY <1>1, RunStepFiber, BodyStepFiber, CheckStepFiber, PollStepFiber DEF WorkerStep
<1>2. CASE MainStep
  BY <1>2, MainStepFiber
<1>3. CASE UNCHANGED <<tasks, fstate, fmutex, timers, events, cbs, pc, task>>
  BY <1>3, Unobserved DEF IInv
<1>4. ASSUME NEW t \in Threads \cup {Main}, Tickle(t)
      PROVE  FiberInv'
  BY <1>3, <1>4 DEF Tickle
<1>5. ASSUME NEW f \in Fibers, Due(f) \/ Ready(f)
      PROVE  FiberInv'
  BY <1>3, <1>5 DEF Due, Ready
<1>6. CASE UNCHANGED vars
  BY <1>3, <1>6 DEF vars
<1> QED BY <1>1, <1>2, <1>4, <1>5, <1>6 DEF Next, Terminated

LEMMA FiberInit == Init => FiberInv
<1> SUFFICES ASSUME Init PROVE FiberInv
  OBVIOUS
<1>1. \A t \in Workers : pc[t] \notin Critical
  BY WorkersAreThreads DEF Init, Critical, Inside, Taken
<1>2. 1..Len(tasks) = {}
  BY DEF Init
<1>3. \A f : ~Queued(f) /\ ~Held(f) /\ ~Expired(f) /\ ~Timed(f) /\ ~Waiting(f) /\ ~Parking(f)
  BY <1>1, <1>2
     DEF Init, Queued, Held, Holds, Expired, Timed, Waiting, Parking, On, Critical,
              Inside, Taken
<1>4. MutexInv /\ StateInv
  BY <1>1 DEF Init, MutexInv, StateInv, Critical, Inside, Taken
<1>5. KindInv
  BY <1>1, <1>2 DEF Init, KindInv, QueueKind, HeldKind, FreshKind, Critical, Taken
<1>6. UniqueInv
  BY <1>1, <1>2 DEF Init, UniqueInv, QueueUnique, HeldUnique, ExpiredUnique, Critical
<1>7. WakeInv
  BY <1>3 DEF Init, WakeInv, WakeOf
<1> QED BY <1>4, <1>5, <1>6, <1>7 DEF FiberInv

\* The inductive invariant holds in every reachable state.
THEOREM Invariance == Spec => []IInv
<1>1. Init => IInv
  BY TypeInit, FiberInit DEF IInv
<1>2. IInv /\ [Next]_vars => IInv'
  BY TypeStep, FiberStep DEF IInv
<1> QED BY <1>1, <1>2, PTL DEF Spec

-----------------------------------------------------------------------------
(* What the invariant is for.                                              *)

\* A fiber is resumed and run by one worker at a time: whoever is inside resume()
\* holds the fiber's mutex.
THEOREM OneThreadPerFiber == Spec => []RunsOnOneThread
<1>1. IInv => RunsOnOneThread
  BY DEF IInv, FiberInv, MutexInv, RunsOnOneThread, Inside, Running
<1> QED BY <1>1, Invariance, PTL

\* The assertion of Fiber::resume never fails.
THEOREM ResumeAssertion == Spec => []ResumesReady
<1>1. IInv => ResumesReady
  BY DEF IInv, FiberInv, StateInv, ResumesReady
<1> QED BY <1>1, Invariance, PTL

\* A fiber that must run has exactly one wake-up on its way, no other fiber has one:
\* wake-ups are neither lost nor doubled.
THEOREM WakeUpOnce == Spec => []ExactlyOneWakeUp
<1>1. ASSUME IInv PROVE ExactlyOneWakeUp
  <2> SUFFICES ASSUME NEW f \in Fibers
               PROVE  IF MustRun(f) THEN \E w \in WakeUps(f) : WakeUps(f) = {w}
                                    ELSE WakeUps(f) = {}
    BY DEF ExactlyOneWakeUp
  <2> DEFINE Q == {<<"task", i>>   : i \in {j \in 1..Len(tasks) : tasks[j].fiber = f}}
             H == {<<"worker", t>> : t \in {u \in Workers : Holds(u, f)}}
             E == {<<"cb", t>>     : t \in {u \in Workers : f \in cbs[u]}}
             T == {<<"timer", g>>  : g \in timers \cap {f}}
             V == {<<"event", g>>  : g \in events \cap {f}}
  <2>1. WakeUps(f) = Q \cup H \cup E \cup T \cup V
    BY DEF WakeUps
  <2>2. WakeOf(f) /\ UniqueInv
    BY <1>1 DEF IInv, FiberInv, WakeInv
  <2>3. MustRun(f) <=> fstate[f] \in {"CB", "READY"} \/ Parking(f)
    BY DEF MustRun, Parking
  <2>4. (~Queued(f) => Q = {}) /\ (Queued(f) => \E w \in Q : Q = {w})
    <3>1. CASE ~Queued(f)
      BY <3>1 DEF Queued
    <3>2. CASE Queued(f)
      <4>1. PICK i \in 1..Len(tasks) : tasks[i].fiber = f
        BY <3>2 DEF Queued
      <4>2. {j \in 1..Len(tasks) : tasks[j].fiber = f} = {i}
        BY <2>2, <4>1 DEF UniqueInv, QueueUnique
      <4>3. Q = {<<"task", k>> : k \in {i}}
        BY <4>2
      <4>4. Q = {<<"task", i>>}
        BY <4>3
      <4> QED BY <3>2, <4>4
    <3> QED BY <3>1, <3>2
  <2>5. (~Held(f) => H = {}) /\ (Held(f) => \E w \in H : H = {w})
    <3>1. CASE ~Held(f)
      BY <3>1 DEF Held
    <3>2. CASE Held(f)
      <4>1. PICK t \in Workers : Holds(t, f)
        BY <3>2 DEF Held
      <4>2. {u \in Workers : Holds(u, f)} = {t}
        BY <2>2, <4>1 DEF UniqueInv, HeldUnique, Holds, Taken
      <4>3. H = {<<"worker", k>> : k \in {t}}
        BY <4>2
      <4>4. H = {<<"worker", t>>}
        BY <4>3
      <4> QED BY <3>2, <4>4
    <3> QED BY <3>1, <3>2
  <2>6. (~Expired(f) => E = {}) /\ (Expired(f) => \E w \in E : E = {w})
    <3>1. CASE ~Expired(f)
      BY <3>1 DEF Expired
    <3>2. CASE Expired(f)
      <4>1. PICK t \in Workers : f \in cbs[t]
        BY <3>2 DEF Expired
      <4>2. {u \in Workers : f \in cbs[u]} = {t}
        BY <2>2, <4>1 DEF UniqueInv, ExpiredUnique
      <4>3. E = {<<"cb", k>> : k \in {t}}
        BY <4>2
      <4>4. E = {<<"cb", t>>}
        BY <4>3
      <4> QED BY <3>2, <4>4
    <3> QED BY <3>1, <3>2
  <2>7. (~Timed(f) => T = {}) /\ (Timed(f) => \E w \in T : T = {w})
    BY DEF Timed
  <2>8. (~Waiting(f) => V = {}) /\ (Waiting(f) => \E w \in V : V = {w})
    BY DEF Waiting
  <2> HIDE DEF Q, H, E, T, V
  <2>9. CASE Queued(f)
    <3>1. WakeUps(f) = Q /\ MustRun(f)
      BY <2>1, <2>2, <2>3, <2>5, <2>6, <2>7, <2>8, <2>9 DEF WakeOf
    <3> QED BY <2>4, <2>9, <3>1
  <2>10. CASE Held(f)
    <3>1. WakeUps(f) = H /\ MustRun(f)
      BY <2>1, <2>2, <2>3, <2>4, <2>6, <2>7, <2>8, <2>10 DEF WakeOf
    <3> QED BY <2>5, <2>10, <3>1
  <2>11. CASE Expired(f)
    <3>1. WakeUps(f) = E /\ MustRun(f)
      BY <2>1, <2>2, <2>3, <2>4, <2>5, <2>7, <2>8, <2>11 DEF WakeOf
    <3> QED BY <2>6, <2>11, <3>1
  <2>12. CASE Timed(f)
    <3>1. WakeUps(f) = T /\ MustRun(f)
      BY <2>1, <2>2, <2>3, <2>4, <2>5, <2>6, <2>8, <2>12 DEF WakeOf
    <3> QED BY <2>7, <2>12, <3>1
  <2>13. CASE Waiting(f)
    <3>1. WakeUps(f) = V /\ MustRun(f)
      BY <2>1, <2>2, <2>3, <2>4, <2>5, <2>6, <2>7, <2>13 DEF WakeOf
    <3> QED BY <2>8, <2>13, <3>1
  <2>14. CASE ~(Queued(f) \/ Held(f) \/ Expired(f) \/ Timed(f) \/ Waiting(f))
    <3>1. WakeUps(f) = {}
      BY <2>1, <2>4, <2>5, <2>6, <2>7, <2>8, <2>14
    <3>2. ~MustRun(f)
      BY <2>2, <2>3, <2>14 DEF WakeOf
    <3> QED BY <3>1, <3>2
  <2> QED BY <2>9, <2>10, <2>11, <2>12, <2>13, <2>14
<1> QED BY <1>1, Invariance, PTL

-----------------------------------------------------------------------------
(***************************************************************************)
(* The end of the life of Scheduler, and what it promises its fibers: no   *)
(* task is left when the last worker has left run(), and the scheduler     *)
(* implements FiberPool.  Both hold for tasks that any worker may run: a   *)
(* task pinned to a worker that has left stays in m_tasks.  Nothing in the *)
(* repository pins a task.                                                 *)
(***************************************************************************)

\* Every callback is scheduled for any worker, or for the only one there is.
FreeOfPins == \A f \in Fibers, t \in Workers : Pin[f] \in {AnyThread, t}

Ended == {"exit", "join", "done"}

\* A worker that has left run(), or is about to: it found no task, and its idle
\* fiber is TERM.
Gone(t) == pc[t] \in Ended \/ (pc[t] = "goidle" /\ t \in idleDone)

\* m_activeThreadCount counts the workers that have a task.
BusyWorkers == {t \in Workers : pc[t] \in Busy}
CountInv == active = Cardinality(BusyWorkers)

\* Any worker may run any queued task.
FreeInv == \A i \in 1..Len(tasks), t \in Workers : MayRun(t, tasks[i])

\* A worker leaves after its idle fiber has ended, an idle fiber ends after stop()
\* was called, and the owner schedules nothing from then on.
StopInv == /\ \A t \in Workers : pc[t] \in Ended => t \in idleDone
           /\ idleDone # {} => stop
           /\ stop => pc[Main] # "submit"

\* The last worker to go found the queue empty.
LastInv == (\A t \in Workers : Gone(t)) => tasks = <<>>

\* stop() returns after every thread has been joined.
JoinedInv == pc[Main] = "done" => \A t \in Threads : pc[t] = "exit"

EndInv == CountInv /\ FreeInv /\ StopInv /\ LastInv /\ JoinedInv

-----------------------------------------------------------------------------
(* The count of executing workers.                                         *)

\* There are finitely many.
LEMMA BusyFinite == IsFiniteSet(BusyWorkers) /\ Cardinality(BusyWorkers) \in Nat
<1>1. IsFiniteSet({Main}) /\ IsFiniteSet({})
  BY FS_Singleton, FS_EmptySet
<1>2. IsFiniteSet(Workers)
  BY <1>1, SchedulerAssumption, FS_Union DEF Workers
<1> QED BY <1>2, FS_Subset, FS_CardinalityType DEF BusyWorkers

\* A step in which nobody takes or retires a task keeps the count right.
LEMMA CountKept ==
    ASSUME CountInv, UNCHANGED active,
           \A t \in Workers : pc'[t] \in Busy <=> pc[t] \in Busy
    PROVE  CountInv'
<1>1. BusyWorkers' = BusyWorkers
  BY DEF BusyWorkers
<1> QED BY <1>1 DEF CountInv

\* What Goto does to the locations.
LEMMA GotoMoves ==
    ASSUME IInv, NEW t \in Threads \cup {Main}, NEW p, Goto(t, p)
    PROVE  pc'[t] = p /\ \A u \in (Threads \cup {Main}) \ {t} : pc'[u] = pc[u]
BY DEF Goto, IInv, TypeInv, TypeOK, ThreadOK

\* Take counts the worker, Retire takes it off.
LEMMA CountStep == IInv /\ CountInv /\ [Next]_vars => CountInv'
<1> SUFFICES ASSUME IInv, CountInv, [Next]_vars PROVE CountInv'
  OBVIOUS
<1> USE WorkersAreThreads
<1>1. ASSUME NEW t \in Workers, Take(t)
      PROVE  CountInv'
  <2>1. PICK p \in {"lambda", "lock"} : Goto(t, p)
    BY <1>1 DEF Take
  <2>2. BusyWorkers' = BusyWorkers \cup {t} /\ t \notin BusyWorkers
    <3>1. pc'[t] = p /\ \A u \in Workers \ {t} : pc'[u] = pc[u]
      BY <2>1, GotoMoves
    <3>2. pc[t] = "take"
      BY <1>1 DEF Take, At
    <3> QED BY <3>1, <3>2 DEF BusyWorkers, Busy
  <2>3. Cardinality(BusyWorkers') = Cardinality(BusyWorkers) + 1
    BY <2>2, BusyFinite, FS_AddElement
  <2> QED BY <1>1, <2>3 DEF Take, CountInv
<1>2. ASSUME NEW t \in Workers, Retire(t)
      PROVE  CountInv'
  <2>1. Goto(t, "take")
    BY <1>2 DEF Retire
  <2>2. BusyWorkers' = BusyWorkers \ {t} /\ t \in BusyWorkers
    BY <1>2, <2>1, GotoMoves DEF BusyWorkers, Busy, Retire, At
  <2>3. Cardinality(BusyWorkers') = Cardinality(BusyWorkers) - 1
    BY <2>2, BusyFinite, FS_RemoveElement
  <2> QED BY <1>2, <2>3 DEF Retire, CountInv
<1>3. ASSUME NEW t \in Threads \cup {Main}, NEW p, Goto(t, p), UNCHANGED active, p \in Busy <=> pc[t] \in Busy
      PROVE  CountInv'
  BY <1>3, GotoMoves, CountKept
<1>4. ASSUME UNCHANGED <<active, pc>>
      PROVE  CountInv'
  BY <1>4, CountKept
<1>5. ASSUME NEW t \in Workers, RunStep(t)
      PROVE  CountInv'
  <2> USE DEF At, Busy
  <2>1. CASE TakeNone(t)
    BY <1>3, <2>1 DEF TakeNone
  <2>2. CASE Create(t)
    BY <1>3, <2>2 DEF Create
  <2>3. CASE Lock(t)
    BY <1>3, <2>3 DEF Lock
  <2>4. CASE Resume(t)
    BY <1>3, <2>4 DEF Resume
  <2>5. CASE Lambda(t)
    BY <1>3, <2>5 DEF Lambda
  <2> QED BY <1>1, <1>2, <1>5, <2>1, <2>2, <2>3, <2>4, <2>5 DEF RunStep
<1>6. ASSUME NEW t \in Workers, BodyStep(t)
      PROVE  CountInv'
  <2> USE DEF At, Busy
  <2>1. CASE Sleep(t)
    BY <1>3, <2>1 DEF Sleep
  <2>2. CASE Wait(t)
    BY <1>3, <2>2 DEF Wait
  <2>3. CASE Yield(t)
    BY <1>3, <2>3 DEF Yield
  <2>4. CASE Finish(t)
    BY <1>3, <2>4 DEF Finish
  <2>5. ASSUME NEW f \in Fibers, Spawn(t, f) \/ Cancel(t, f)
        PROVE  CountInv'
    BY <1>4, <2>5 DEF Spawn, Submit, Cancel
  <2> QED BY <1>6, <2>1, <2>2, <2>3, <2>4, <2>5 DEF BodyStep
<1>7. ASSUME NEW t \in Workers, CheckStep(t)
      PROVE  CountInv'
  <2> USE DEF At, Busy
  <2>1. CASE GoIdle(t)
    BY <1>3, <2>1 DEF GoIdle
  <2>2. CASE StoppingTimers(t)
    BY <1>3, <2>2 DEF StoppingTimers
  <2>3. CASE StoppingEvents(t)
    BY <1>3, <2>3 DEF StoppingEvents
  <2>4. CASE StoppingTasks(t)
    BY <1>3, <2>4 DEF StoppingTasks
  <2>5. CASE LeaveIdle(t)
    BY <1>3, <2>5 DEF LeaveIdle
  <2> QED BY <1>7, <2>1, <2>2, <2>3, <2>4, <2>5 DEF CheckStep
<1>8. ASSUME NEW t \in Workers, PollStep(t)
      PROVE  CountInv'
  <2> USE DEF At, Busy
  <2>1. CASE EpollReturns(t)
    BY <1>3, <2>1 DEF EpollReturns
  <2>2. CASE EpollTimeout(t)
    BY <1>3, <2>2 DEF EpollTimeout
  <2>3. CASE Expire(t)
    BY <1>3, <2>3 DEF Expire
  <2>4. CASE ScheduleCb(t)
    BY <1>4, <2>4 DEF ScheduleCb
  <2>5. CASE CbsDone(t)
    BY <1>3, <2>5 DEF CbsDone
  <2>6. CASE Trigger(t)
    BY <1>3, <1>4, <2>6 DEF Trigger
  <2>7. CASE CountDown(t)
    BY <1>3, <2>7 DEF CountDown
  <2>8. CASE EventsDone(t)
    BY <1>3, <2>8 DEF EventsDone
  <2> QED BY <1>8, <2>1, <2>2, <2>3, <2>4, <2>5, <2>6, <2>7, <2>8 DEF PollStep
<1>9. CASE MainStep
  <2> USE DEF At, Busy
  <2>1. CASE Stop
    BY <1>3, <2>1 DEF Stop
  <2>2. CASE StopRun
    BY <1>3, <2>2 DEF StopRun
  <2>3. CASE Join
    BY <1>3, <2>3 DEF Join
  <2>4. CASE StopTickle \/ \E f \in Fibers : MainSubmit(f)
    BY <1>4, <2>4 DEF StopTickle, MainSubmit, Submit
  <2> QED BY <1>9, <2>1, <2>2, <2>3, <2>4 DEF MainStep, StopStep
<1>10. ASSUME NEW t \in Threads \cup {Main}, Tickle(t)
       PROVE  CountInv'
  BY <1>4, <1>10 DEF Tickle
<1>11. ASSUME NEW f \in Fibers, Due(f) \/ Ready(f)
       PROVE  CountInv'
  BY <1>4, <1>11 DEF Due, Ready
<1>12. CASE UNCHANGED vars
  BY <1>4, <1>12 DEF vars
<1> QED
  BY <1>5, <1>6, <1>7, <1>8, <1>9, <1>10, <1>11, <1>12 DEF Next, WorkerStep, Terminated

-----------------------------------------------------------------------------
(* How a worker leaves.                                                    *)

\* Worker t stays, at some location of run(), of its fiber or of its idle fiber.
Stays(t) ==
    /\ pc'[t] \notin Ended \cup {"goidle", "submit"}
    /\ \A u \in (Threads \cup {Main}) \ {t} : pc'[u] = pc[u]
    /\ stop' = stop
    /\ idleDone' = idleDone \/ (stop /\ idleDone' = idleDone \cup {t})

\* Only a worker that finds no task, or whose idle fiber has ended, goes.
LEMMA WorkerStays ==
    ASSUME IInv, NEW t \in Workers, WorkerStep(t), ~TakeNone(t), ~GoIdle(t)
    PROVE  Stays(t)
<1> USE WorkersAreThreads
<1>1. ASSUME NEW p, Goto(t, p), p \notin Ended \cup {"goidle", "submit"}, stop' = stop,
             idleDone' = idleDone \/ (stop /\ idleDone' = idleDone \cup {t})
      PROVE  Stays(t)
  BY <1>1, GotoMoves DEF Stays
<1>2. ASSUME UNCHANGED <<pc, stop, idleDone>>, pc[t] \notin Ended \cup {"goidle", "submit"}
      PROVE  Stays(t)
  BY <1>2 DEF Stays
<1> USE DEF Ended, At
<1>3. CASE RunStep(t)
  <2>1. CASE Take(t)
    <3>1. PICK p \in {"lambda", "lock"} : Goto(t, p)
      BY <2>1 DEF Take
    <3> QED BY <1>1, <2>1, <3>1 DEF Take
  <2>2. CASE Create(t)
    BY <1>1, <2>2 DEF Create
  <2>3. CASE Lock(t)
    BY <1>1, <2>3 DEF Lock
  <2>4. CASE Resume(t)
    BY <1>1, <2>4 DEF Resume
  <2>5. CASE Lambda(t)
    BY <1>1, <2>5 DEF Lambda
  <2>6. CASE Retire(t)
    BY <1>1, <2>6 DEF Retire
  <2> QED BY <1>3, <2>1, <2>2, <2>3, <2>4, <2>5, <2>6 DEF RunStep
<1>4. CASE BodyStep(t)
  <2>1. CASE Sleep(t)
    BY <1>1, <2>1 DEF Sleep
  <2>2. CASE Wait(t)
    BY <1>1, <2>2 DEF Wait
  <2>3. CASE Yield(t)
    BY <1>1, <2>3 DEF Yield
  <2>4. CASE Finish(t)
    BY <1>1, <2>4 DEF Finish
  <2>5. ASSUME NEW f \in Fibers, Spawn(t, f) \/ Cancel(t, f)
        PROVE  Stays(t)
    BY <1>2, <2>5 DEF Spawn, Submit, Cancel
  <2> QED BY <1>4, <2>1, <2>2, <2>3, <2>4, <2>5 DEF BodyStep
<1>5. CASE CheckStep(t)
  <2>1. CASE StoppingTimers(t)
    BY <1>1, <2>1 DEF StoppingTimers
  <2>2. CASE StoppingEvents(t)
    BY <1>1, <2>2 DEF StoppingEvents
  <2>3. CASE StoppingTasks(t)
    BY <1>1, <2>3 DEF StoppingTasks, QueueDrained
  <2>4. CASE LeaveIdle(t)
    BY <1>1, <2>4 DEF LeaveIdle
  <2> QED BY <1>5, <2>1, <2>2, <2>3, <2>4 DEF CheckStep
<1>6. CASE PollStep(t)
  <2>1. CASE EpollReturns(t)
    BY <1>1, <2>1 DEF EpollReturns
  <2>2. CASE EpollTimeout(t)
    BY <1>1, <2>2 DEF EpollTimeout
  <2>3. CASE Expire(t)
    BY <1>1, <2>3 DEF Expire
  <2>4. CASE ScheduleCb(t)
    BY <1>2, <2>4 DEF ScheduleCb
  <2>5. CASE CbsDone(t)
    BY <1>1, <2>5 DEF CbsDone
  <2>6. CASE Trigger(t)
    BY <1>1, <1>2, <2>6 DEF Trigger
  <2>7. CASE CountDown(t)
    BY <1>1, <2>7 DEF CountDown
  <2>8. CASE EventsDone(t)
    BY <1>1, <2>8 DEF EventsDone
  <2> QED BY <1>6, <2>1, <2>2, <2>3, <2>4, <2>5, <2>6, <2>7, <2>8 DEF PollStep
<1> QED BY <1>3, <1>4, <1>5, <1>6 DEF WorkerStep

\* A worker that stays keeps the pool from having ended.
LEMMA StaysEnd ==
    ASSUME StopInv, LastInv, JoinedInv, NEW t \in Workers, Stays(t), pc[t] \notin Ended
    PROVE  StopInv' /\ LastInv' /\ JoinedInv'
<1> USE WorkersAreThreads
<1>1. ~Gone(t)'
  BY DEF Gone, Stays
<1>2. StopInv'
  <2>1. \A u \in Workers : pc'[u] \in Ended => u \in idleDone'
    BY DEF StopInv, Stays
  <2>2. idleDone' # {} => stop'
    BY DEF StopInv, Stays
  <2>3. stop' => pc'[Main] # "submit"
    BY DEF StopInv, Stays
  <2> QED BY <2>1, <2>2, <2>3 DEF StopInv
<1>3. LastInv'
  BY <1>1 DEF LastInv
<1>4. JoinedInv'
  BY DEF JoinedInv, Stays, Ended
<1> QED BY <1>2, <1>3, <1>4

\* The queue a worker finds empty for itself is empty for all.
LEMMA NothingToTake ==
    ASSUME FreeInv, IInv, NEW t \in Workers, TakeNone(t)
    PROVE  tasks = <<>>
<1>1. tasks \in Seq(Task)
  BY DEF IInv, TypeInv, TypeOK, QueueOK
<1>2. Len(tasks) \in Nat /\ 1..Len(tasks) = {}
  BY <1>1 DEF TakeNone, FreeInv
<1>3. Len(tasks) = 0
  BY <1>2
<1> QED BY <1>1, <1>3, EmptySeq

\* No step breaks the invariants of the end.
LEMMA EndStep == IInv /\ EndInv /\ [Next]_vars => StopInv' /\ LastInv' /\ JoinedInv'
<1> SUFFICES ASSUME IInv, EndInv, [Next]_vars PROVE StopInv' /\ LastInv' /\ JoinedInv'
  OBVIOUS
<1> USE WorkersAreThreads
<1>0. StopInv /\ LastInv /\ JoinedInv /\ FreeInv
  BY DEF EndInv
<1>1. ASSUME NEW t \in Workers, TakeNone(t)
      PROVE  StopInv' /\ LastInv' /\ JoinedInv'
  <2>1. /\ pc[t] = "take" /\ pc'[t] = "goidle" /\ tasks' = <<>>
        /\ \A u \in (Threads \cup {Main}) \ {t} : pc'[u] = pc[u]
        /\ UNCHANGED <<stop, idleDone>>
    BY <1>0, <1>1, NothingToTake, GotoMoves DEF TakeNone, At
  <2> QED BY <1>0, <2>1 DEF StopInv, LastInv, JoinedInv, Ended
<1>2. ASSUME NEW t \in Workers, GoIdle(t)
      PROVE  StopInv' /\ LastInv' /\ JoinedInv'
  <2>1. PICK p : /\ Goto(t, p)
                 /\ \/ t \in idleDone /\ p = IF t = Main THEN "join" ELSE "exit"
                    \/ t \notin idleDone /\ p = "stop1"
    BY <1>2 DEF GoIdle, IdleFiberEnded
  <2>2. /\ pc[t] = "goidle" /\ pc'[t] = p
        /\ \A u \in (Threads \cup {Main}) \ {t} : pc'[u] = pc[u]
        /\ UNCHANGED <<stop, idleDone, tasks>>
    BY <1>2, <2>1, GotoMoves DEF GoIdle, At
  <2>3. \A u \in Workers : Gone(u)' => Gone(u)
    BY <2>1, <2>2 DEF Gone, Ended
  <2>4. StopInv'
    BY <1>0, <2>1, <2>2 DEF StopInv, Ended
  <2>5. JoinedInv'
    BY <1>0, <2>1, <2>2 DEF JoinedInv
  <2> QED BY <1>0, <2>2, <2>3, <2>4, <2>5 DEF LastInv
<1>3. ASSUME NEW t \in Workers, WorkerStep(t), ~TakeNone(t), ~GoIdle(t)
      PROVE  StopInv' /\ LastInv' /\ JoinedInv'
  <2>1. pc[t] \notin Ended
    BY <1>3
       DEF Ended, At, WorkerStep, RunStep, BodyStep, CheckStep, PollStep, Take, Create,
           Lock, Resume, Lambda, Retire, Sleep, Wait, Yield, Finish, Spawn, Cancel,
           StoppingTimers, StoppingEvents, StoppingTasks, LeaveIdle, EpollReturns,
           EpollTimeout, Expire, ScheduleCb, CbsDone, Trigger, CountDown, EventsDone
  <2> QED BY <1>0, <1>3, <2>1, WorkerStays, StaysEnd
<1>4. ASSUME UNCHANGED <<pc, stop, idleDone, tasks>>
      PROVE  StopInv' /\ LastInv' /\ JoinedInv'
  <2>1. \A u \in Workers : Gone(u)' => Gone(u)
    BY <1>4 DEF Gone
  <2> QED BY <1>0, <1>4, <2>1 DEF StopInv, LastInv, JoinedInv
<1>5. ASSUME NEW t \in Threads \cup {Main}, Tickle(t)
      PROVE  StopInv' /\ LastInv' /\ JoinedInv'
  BY <1>4, <1>5 DEF Tickle
<1>6. ASSUME NEW f \in Fibers, Due(f) \/ Ready(f)
      PROVE  StopInv' /\ LastInv' /\ JoinedInv'
  BY <1>4, <1>6 DEF Due, Ready
<1>7. CASE MainStep
  <2>1. ASSUME NEW f \in Fibers, MainSubmit(f)
        PROVE  StopInv' /\ LastInv' /\ JoinedInv'
    <3>1. /\ pc[Main] = "submit" /\ UNCHANGED <<pc, stop, idleDone>>
      BY <2>1 DEF MainSubmit, Submit, At
    <3>2. idleDone = {} /\ \A u \in Workers : ~Gone(u)'
      BY <1>0, <3>1 DEF StopInv, Gone
    <3> QED BY <1>0, <3>1, <3>2, SchedulerAssumption DEF StopInv, LastInv, JoinedInv
  <2>2. CASE Stop
    <3>1. /\ pc[Main] = "submit" /\ pc'[Main] = "tickle" /\ stop'
          /\ \A u \in Threads : u # Main /\ pc'[u] = pc[u]
          /\ UNCHANGED <<idleDone, tasks>>
      BY <2>2, GotoMoves, SchedulerAssumption DEF Stop, At
    <3>2. \A u \in Workers : Gone(u)' => Gone(u)
      BY <3>1 DEF Gone, Ended, Workers
    <3> QED BY <1>0, <3>1, <3>2 DEF StopInv, LastInv, JoinedInv, Ended, Workers
  <2>3. CASE StopTickle
    BY <1>4, <2>3 DEF StopTickle
  <2>4. CASE StopRun
    <3>1. /\ pc[Main] = "tickle"
          /\ pc'[Main] = IF UseCaller THEN "take" ELSE "join"
          /\ \A u \in Threads : u # Main /\ pc'[u] = pc[u]
          /\ UNCHANGED <<stop, idleDone, tasks>>
      BY <2>4, GotoMoves, SchedulerAssumption DEF StopRun, At
    <3>2. \A u \in Workers : Gone(u)' => Gone(u)
      BY <3>1, SchedulerAssumption DEF Gone, Ended, Workers
    <3>3. StopInv'
      BY <1>0, <3>1, SchedulerAssumption DEF StopInv, Ended, Workers
    <3> QED BY <1>0, <3>1, <3>2, <3>3 DEF LastInv, JoinedInv
  <2>5. CASE Join
    <3>1. /\ pc[Main] = "join" /\ pc'[Main] = "done"
          /\ \A u \in Threads : u # Main /\ pc'[u] = pc[u] /\ pc[u] = "exit"
          /\ UNCHANGED <<stop, idleDone, tasks>>
      BY <2>5, GotoMoves, SchedulerAssumption DEF Join, At
    <3>2. \A u \in Workers : Gone(u)' => Gone(u)
      BY <3>1 DEF Gone, Ended, Workers
    <3> QED BY <1>0, <3>1, <3>2 DEF StopInv, LastInv, JoinedInv, Ended, Workers
  <2> QED BY <1>7, <2>1, <2>2, <2>3, <2>4, <2>5 DEF MainStep, StopStep
<1>8. CASE UNCHANGED vars
  BY <1>4, <1>8 DEF vars
<1> QED
  BY <1>1, <1>2, <1>3, <1>5, <1>6, <1>7, <1>8 DEF Next, Terminated

-----------------------------------------------------------------------------
(* No task is left.                                                        *)

\* Without pins, everything that is scheduled is for any worker.
LEMMA FreeTask ==
    ASSUME FreeOfPins, NEW f \in Fibers, NEW t \in Workers
    PROVE  MayRun(t, CbTask(f)) /\ MayRun(t, FiberTask(f)) /\ MayRun(t, WakeTask(f))
BY DEF FreeOfPins, MayRun, CbTask, FiberTask, WakeTask

\* What is pushed, any worker may run.
LEMMA FreePush ==
    ASSUME FreeOfPins, IInv, FreeInv, NEW f \in Fibers,
           NEW x \in {CbTask(f), FiberTask(f), WakeTask(f)}, tasks' = Append(tasks, x)
    PROVE  FreeInv'
<1>1. tasks \in Seq(Task) /\ x \in Task
  BY TaskTypes DEF IInv, TypeInv, TypeOK, QueueOK
<1>2. /\ Len(tasks') = Len(tasks) + 1
      /\ \A i \in 1..Len(tasks) : tasks'[i] = tasks[i]
      /\ tasks'[Len(tasks) + 1] = x
  BY <1>1
<1>3. \A t \in Workers : MayRun(t, x)
  BY FreeTask
<1>4. Len(tasks) \in Nat
  BY <1>1
<1> QED BY <1>2, <1>3, <1>4 DEF FreeInv

\* Every action pushes tasks for any worker, or takes one, or leaves the queue alone.
LEMMA FreeStep ==
    ASSUME FreeOfPins, IInv, FreeInv, [Next]_vars
    PROVE  FreeInv'
<1>1. ASSUME UNCHANGED tasks
      PROVE  FreeInv'
  BY <1>1 DEF FreeInv
<1>2. ASSUME NEW t \in Workers, RunStep(t)
      PROVE  FreeInv'
  <2>1. CASE Take(t)
    <3>1. PICK i \in 1..Len(tasks) : tasks' = RemoveAt(tasks, i)
      BY <2>1 DEF Take
    <3>2. \A j \in 1..Len(tasks') : \E k \in 1..Len(tasks) : k # i /\ tasks'[j] = tasks[k]
      BY <3>1, Pop DEF IInv, TypeInv, TypeOK, QueueOK, FiberInv
    <3> QED BY <3>2 DEF FreeInv
  <2>2. CASE Lambda(t)
    <3>1. PICK f \in Fibers : f = Running(t)
      BY <2>2, OfWorker DEF Lambda, At, Critical, Taken
    <3>2. tasks' = Append(tasks, FiberTask(f))
      BY <2>2, <3>1 DEF Lambda, ScheduleLock
    <3> QED BY <3>2, FreePush
  <2> QED BY <1>1, <1>2, <2>1, <2>2 DEF RunStep, TakeNone, Create, Lock, Resume, Retire
<1>3. ASSUME NEW t \in Threads \cup {Main}, NEW f \in Fibers, Submit(t, f)
      PROVE  FreeInv'
  BY <1>3, FreePush DEF Submit, ScheduleLock
<1>4. ASSUME NEW t \in Workers, BodyStep(t)
      PROVE  FreeInv'
  <2>1. ASSUME NEW f \in Fibers, Cancel(t, f)
        PROVE  FreeInv'
    BY <2>1, FreePush DEF Cancel, ScheduleLock
  <2>2. ASSUME NEW f \in Fibers, Spawn(t, f)
        PROVE  FreeInv'
    BY <1>3, <2>2, WorkersAreThreads DEF Spawn
  <2> QED BY <1>1, <1>4, <2>1, <2>2 DEF BodyStep, Sleep, Wait, Yield, Finish
<1>5. ASSUME NEW t \in Workers, PollStep(t)
      PROVE  FreeInv'
  <2>0. evs[t] \subseteq Fibers /\ cbs[t] \subseteq Fibers
    BY DEF IInv, TypeInv, TypeOK, IdleOK
  <2>1. CASE ScheduleCb(t)
    <3>1. PICK f \in cbs[t] : tasks' = Append(tasks, WakeTask(f))
      BY <2>1 DEF ScheduleCb, ScheduleLock
    <3> QED BY <2>0, <3>1, FreePush
  <2>2. CASE Trigger(t)
    <3>1. PICK f \in evs[t] : tasks' = Append(tasks, FiberTask(f)) \/ UNCHANGED tasks
      BY <2>2 DEF Trigger, ScheduleLock
    <3> QED BY <1>1, <2>0, <3>1, FreePush
  <2> QED
    BY <1>1, <1>5, <2>1, <2>2
       DEF PollStep, EpollReturns, EpollTimeout, Expire, CbsDone, CountDown, EventsDone
<1>6. ASSUME NEW t \in Workers, CheckStep(t)
      PROVE  FreeInv'
  BY <1>1, <1>6 DEF CheckStep, GoIdle, StoppingTimers, StoppingEvents, StoppingTasks, LeaveIdle
<1>7. CASE MainStep
  BY <1>1, <1>3, <1>7 DEF MainStep, StopStep, Stop, StopTickle, StopRun, Join, MainSubmit
<1>8. ASSUME NEW t \in Threads \cup {Main}, Tickle(t)
      PROVE  FreeInv'
  BY <1>1, <1>8 DEF Tickle
<1>9. ASSUME NEW f \in Fibers, Due(f) \/ Ready(f)
      PROVE  FreeInv'
  BY <1>1, <1>9 DEF Due, Ready
<1>10. CASE UNCHANGED vars
  BY <1>1, <1>10 DEF vars
<1> QED
  BY <1>2, <1>4, <1>5, <1>6, <1>7, <1>8, <1>9, <1>10 DEF Next, WorkerStep, Terminated

\* The invariants of the end before anybody runs.
LEMMA EndInit == Init => EndInv
<1> SUFFICES ASSUME Init PROVE EndInv
  OBVIOUS
<1>1. \A t \in Workers : pc[t] \in {"take", "submit"}
  BY WorkersAreThreads DEF Init
<1>2. BusyWorkers = {}
  BY <1>1 DEF BusyWorkers, Busy
<1>3. CountInv
  BY <1>2, FS_EmptySet DEF CountInv, Init
<1>4. FreeInv /\ LastInv
  BY DEF Init, FreeInv, LastInv
<1>5. StopInv
  BY <1>1 DEF Init, StopInv, Ended
<1>6. JoinedInv
  BY DEF Init, JoinedInv
<1> QED BY <1>3, <1>4, <1>5, <1>6 DEF EndInv

\* The invariant of the end holds in every reachable state.
THEOREM EndInvariance == ASSUME FreeOfPins PROVE Spec => [](IInv /\ EndInv)
<1>1. Init => IInv /\ EndInv
  BY TypeInit, FiberInit, EndInit DEF IInv
<1>2. IInv /\ EndInv /\ [Next]_vars => (IInv /\ EndInv)'
  BY TypeStep, FiberStep, CountStep, FreeStep, EndStep DEF IInv, EndInv
<1> QED BY <1>1, <1>2, PTL DEF Spec

\* If no task is pinned, the assertion of ~Scheduler (scheduler.cpp:53) holds, whoever
\* schedules a task while the workers leave: when the last worker has left run(),
\* m_tasks is empty and m_activeThreadCount is 0.
THEOREM DestructorAssertion == ASSUME FreeOfPins PROVE Spec => []SchedulerInv
<1>1. ASSUME IInv, EndInv
      PROVE  SchedulerInv
  <2>1. ASSUME AllLeft
        PROVE  tasks = <<>> /\ active = 0
    <3>1. \A t \in Workers : pc[t] \in Ended
      BY <2>1 DEF AllLeft, Ended
    <3>2. BusyWorkers = {}
      BY <3>1 DEF BusyWorkers, Busy, Ended
    <3>3. active = 0
      BY <1>1, <3>2, FS_EmptySet DEF EndInv, CountInv
    <3> QED BY <1>1, <3>1, <3>3 DEF EndInv, LastInv, Gone
  <2> QED BY <1>1, <2>1 DEF SchedulerInv, NoTaskLeft, IInv, TypeInv
<1> QED BY <1>1, EndInvariance, PTL

-----------------------------------------------------------------------------
(* The scheduler implements FiberPool.  A fiber's phase is a function of   *)
(* its state, of whether a task that resumes it is queued or taken, and of *)
(* whether it runs; its worker is unique because of the fiber's mutex.     *)

\* A queued or a taken task that will resume f, the timer lambda's apart; f runs.
CalledBy(t, f) == Holds(t, f) /\ task[t].kind # "wake"
CalledAt(i, f) == tasks[i].fiber = f /\ tasks[i].kind # "wake"
Called(f) == (\E i \in 1..Len(tasks) : CalledAt(i, f)) \/ \E t \in Workers : CalledBy(t, f)
RunsIn(f) == \E t \in Workers : On(t, f) /\ pc[t] = "run"
Resting == {"CB", "READY"}

\* The phase of a fiber, case by case.
LEMMA PhaseIs ==
    ASSUME NEW f
    PROVE  /\ fstate[f] = "NONE" => Phase(f) = "absent"
           /\ fstate[f] = "TERM" => Phase(f) = "done"
           /\ fstate[f] \in Resting /\ Called(f) => Phase(f) = "scheduled"
           /\ fstate[f] \in Resting /\ ~Called(f) => Phase(f) = "waiting"
           /\ fstate[f] = "RUNNING" /\ RunsIn(f) => Phase(f) = "running"
           /\ fstate[f] = "RUNNING" /\ ~RunsIn(f) /\ Called(f) => Phase(f) = "woken"
           /\ fstate[f] = "RUNNING" /\ ~RunsIn(f) /\ ~Called(f) => Phase(f) = "parking"
BY DEF Phase, Called, CalledBy, CalledAt, RunsIn, Resting

\* The same of the next state.
LEMMA PhaseNext ==
    ASSUME NEW f
    PROVE  /\ fstate'[f] = "NONE" => Phase(f)' = "absent"
           /\ fstate'[f] = "TERM" => Phase(f)' = "done"
           /\ fstate'[f] \in Resting /\ Called(f)' => Phase(f)' = "scheduled"
           /\ fstate'[f] \in Resting /\ ~Called(f)' => Phase(f)' = "waiting"
           /\ fstate'[f] = "RUNNING" /\ RunsIn(f)' => Phase(f)' = "running"
           /\ fstate'[f] = "RUNNING" /\ ~RunsIn(f)' /\ Called(f)' => Phase(f)' = "woken"
           /\ fstate'[f] = "RUNNING" /\ ~RunsIn(f)' /\ ~Called(f)' => Phase(f)' = "parking"
BY DEF Phase, Called, CalledBy, CalledAt, RunsIn, Resting

\* A fiber's worker is the one it is on, if there is one.
LEMMA RunnerIs ==
    ASSUME MutexInv, NEW f
    PROVE  /\ \A t \in Workers : On(t, f) => Runner(f) = t
           /\ (\A t \in Workers : ~On(t, f)) => Runner(f) = None
<1>1. \A t, u \in Workers : On(t, f) /\ On(u, f) => t = u
  BY DEF MutexInv, On, Inside, Running
<1> QED BY <1>1 DEF Runner

\* The same of the next state.
LEMMA RunnerNext ==
    ASSUME MutexInv', NEW f
    PROVE  /\ \A t \in Workers : On(t, f)' => Runner(f)' = t
           /\ (\A t \in Workers : ~On(t, f)') => Runner(f)' = None
<1>1. \A t, u \in Workers : On(t, f)' /\ On(u, f)' => t = u
  BY DEF MutexInv, On, Inside, Running
<1> QED BY <1>1 DEF Runner

\* The worker of a fiber that no worker resumes or leaves.
LEMMA RunnerKept ==
    ASSUME IInv, IInv', NEW f, \A t \in Workers : On(t, f)' <=> On(t, f)
    PROVE  Runner(f)' = Runner(f)
<1>1. MutexInv /\ MutexInv'
  BY DEF IInv, FiberInv
<1>2. CASE \E t \in Workers : On(t, f)
  BY <1>1, <1>2, RunnerIs, RunnerNext
<1>3. CASE \A t \in Workers : ~On(t, f)
  BY <1>1, <1>3, RunnerIs, RunnerNext
<1> QED BY <1>2, <1>3

\* A running fiber is on a worker.
RunningInv == \A f \in Fibers : fstate[f] = "RUNNING" => \E t \in Workers : On(t, f)

\* A step that does not touch fiber g.
Unmoved(g) ==
    /\ fstate'[g] = fstate[g] \/ (fstate[g] \in Resting /\ fstate'[g] \in Resting)
    /\ Called(g)' <=> Called(g)
    /\ RunsIn(g)' <=> RunsIn(g)
    /\ \A t \in Workers : On(t, g)' <=> On(t, g)

\* Such a step changes neither the phase nor the worker of the fiber.
LEMMA UnmovedPhase ==
    ASSUME IInv, IInv', NEW g \in Fibers, Unmoved(g)
    PROVE  Phase(g)' = Phase(g) /\ Runner(g)' = Runner(g)
<1>1. fstate[g] \in {"NONE", "TERM", "RUNNING"} \cup Resting
  BY DEF IInv, TypeInv, TypeOK, FiberOK, Resting
<1>2. Phase(g)' = Phase(g)
  BY <1>1, PhaseIs, PhaseNext DEF Unmoved, Resting
<1>3. Runner(g)' = Runner(g)
  BY RunnerKept DEF Unmoved
<1> QED BY <1>2, <1>3

\* The abstract state, function by function.
phaseOf == [f \in Fibers |-> Phase(f)]
onOf == [f \in Fibers |-> Runner(f)]

\* A step that moves one fiber only is a Move of the pool.
LEMMA MoveOne ==
    ASSUME NEW f \in Fibers, NEW p, NEW q, Phase(f) = p, Phase(f)' = q,
           \A g \in Fibers \ {f} : Phase(g)' = Phase(g)
    PROVE  Pool!Move(f, p, q)
<1>1. phaseOf' = [phaseOf EXCEPT ![f] = q] /\ phaseOf[f] = p
  BY DEF phaseOf
<1> QED BY <1>1 DEF Pool!Move, phaseOf

\* The workers the fibers run on, if one fiber's changes, or none's.
LEMMA OnOne ==
    ASSUME NEW f \in Fibers, NEW r, Runner(f)' = r,
           \A g \in Fibers \ {f} : Runner(g)' = Runner(g)
    PROVE  onOf' = [onOf EXCEPT ![f] = r]
BY DEF onOf

LEMMA OnSame ==
    ASSUME \A g \in Fibers : Runner(g)' = Runner(g)
    PROVE  onOf' = onOf
BY DEF onOf

\* A step that touches no fiber changes nothing the pool sees.
LEMMA Stutter ==
    ASSUME IInv, IInv', \A g \in Fibers : Unmoved(g)
    PROVE  phaseOf' = phaseOf /\ onOf' = onOf
BY UnmovedPhase DEF phaseOf, onOf

\* Only a task that resumes its fiber gets to resume().
ResumeInv == \A t \in Workers : pc[t] = "resume" => task[t].kind # "wake"

RunInv == RunningInv /\ ResumeInv

\* The pool is joined.
Closed == pc[Main] = "done"

\* A step of the scheduler is one of the pool or none.
Implemented == Pool!Next \/ UNCHANGED Pool!vars

\* A worker that has left run() takes no step in it.
LEMMA WorkerRuns ==
    ASSUME NEW t \in Workers, WorkerStep(t)
    PROVE  pc[t] \notin Ended
BY DEF Ended, At, WorkerStep, RunStep, BodyStep, CheckStep, PollStep, Take, TakeNone,
       Create, Lock, Resume, Lambda, Retire, Sleep, Wait, Yield, Finish, Spawn, Cancel,
       GoIdle, StoppingTimers, StoppingEvents, StoppingTasks, LeaveIdle, EpollReturns,
       EpollTimeout, Expire, ScheduleCb, CbsDone, Trigger, CountDown, EventsDone

\* Only Join joins.
LEMMA ClosedKept ==
    ASSUME IInv, [Next]_vars, ~Join
    PROVE  Closed' = Closed
<1> USE WorkersAreThreads
<1>1. ASSUME NEW t \in Threads \cup {Main}, NEW p, Goto(t, p), p # "done", pc[t] # "done"
      PROVE  Closed' = Closed
  BY <1>1, GotoMoves DEF Closed
<1>2. ASSUME UNCHANGED pc
      PROVE  Closed' = Closed
  BY <1>2 DEF Closed
<1>3. ASSUME NEW t \in Workers, WorkerStep(t)
      PROVE  Closed' = Closed
  <2>1. pc[t] \notin Ended
    BY <1>3, WorkerRuns
  <2>2. CASE TakeNone(t) \/ GoIdle(t)
    BY <1>1, <2>1, <2>2 DEF TakeNone, GoIdle, Ended
  <2>3. CASE Stays(t)
    BY <2>1, <2>3 DEF Stays, Closed, Ended
  <2> QED BY <1>3, <2>2, <2>3, WorkerStays
<1>4. CASE MainStep
  BY <1>1, <1>2, <1>4
     DEF MainStep, StopStep, Stop, StopTickle, StopRun, MainSubmit, Submit, At
<1>5. CASE (\E t \in Threads \cup {Main} : Tickle(t)) \/ \E f \in Fibers : Due(f) \/ Ready(f)
  BY <1>2, <1>5 DEF Tickle, Due, Ready
<1>6. CASE UNCHANGED vars
  BY <1>2, <1>6 DEF vars
<1> QED BY <1>3, <1>4, <1>5, <1>6 DEF Next, Terminated

\* A step that touches no fiber is none of the pool.
LEMMA NoStep ==
    ASSUME IInv, IInv', RunningInv, \A g \in Fibers : Unmoved(g), Closed' = Closed
    PROVE  RunningInv' /\ Implemented
<1>1. RunningInv'
  BY DEF RunningInv, Unmoved, Resting
<1>2. phaseOf' = phaseOf /\ onOf' = onOf
  BY Stutter
<1> QED BY <1>1, <1>2 DEF Implemented, Pool!vars, phaseOf, onOf, Closed

\* A step that touches fiber f.
LEMMA OthersRun ==
    ASSUME RunningInv, NEW f \in Fibers, \A g \in Fibers \ {f} : Unmoved(g),
           fstate'[f] = "RUNNING" => \E t \in Workers : On(t, f)'
    PROVE  RunningInv'
BY DEF RunningInv, Unmoved, Resting

\* A step that no worker with a taken task takes.
LEMMA QuietUnmoved ==
    ASSUME UNCHANGED <<tasks, fstate>>,
           \A u \in Workers : pc[u] \in Critical \/ pc'[u] \in Critical
                                => pc'[u] = pc[u] /\ task'[u] = task[u]
    PROVE  \A g \in Fibers : Unmoved(g)
<1> SUFFICES ASSUME NEW g \in Fibers PROVE Unmoved(g)
  OBVIOUS
<1>1. \A u \in Workers : (On(u, g)' <=> On(u, g)) /\ (CalledBy(u, g)' <=> CalledBy(u, g))
  BY DEF On, CalledBy, Holds, Critical, Inside, Taken
<1>2. RunsIn(g)' <=> RunsIn(g)
  BY DEF RunsIn, On, Critical, Inside
<1>3. Called(g)' <=> Called(g)
  BY <1>1 DEF Called, CalledAt
<1> QED BY <1>1, <1>2, <1>3 DEF Unmoved

\* Such a step is none of the pool.
LEMMA Quiet ==
    ASSUME IInv, IInv', RunInv, Closed' = Closed, UNCHANGED <<tasks, fstate>>,
           \A u \in Workers : pc[u] \in Critical \/ pc'[u] \in Critical
                                => pc'[u] = pc[u] /\ task'[u] = task[u]
    PROVE  RunInv' /\ Implemented
<1>1. ResumeInv'
  BY DEF RunInv, ResumeInv, Critical, Inside
<1> QED BY <1>1, QuietUnmoved, NoStep DEF RunInv

\* A worker between tasks, or the owner, goes from one location to another.
LEMMA QuietGoto ==
    ASSUME IInv, IInv', RunInv, Closed' = Closed, UNCHANGED <<tasks, fstate>>,
           NEW t \in Threads \cup {Main}, NEW p, Goto(t, p),
           pc[t] \notin Critical, p \notin Critical,
           \A u \in Workers \ {t} : task'[u] = task[u]
    PROVE  RunInv' /\ Implemented
<1>1. \A u \in Workers : pc[u] \in Critical \/ pc'[u] \in Critical
                            => pc'[u] = pc[u] /\ task'[u] = task[u]
  BY GotoMoves, WorkersAreThreads
<1> QED BY <1>1, Quiet

\* What pushing a task does to who is called.
LEMMA CalledPush ==
    ASSUME IInv, NEW x \in Task, tasks' = Append(tasks, x),
           \A u \in Workers : \A g : CalledBy(u, g)' <=> CalledBy(u, g)
    PROVE  \A g : Called(g)' <=> Called(g) \/ (g = x.fiber /\ x.kind # "wake")
<1>1. /\ Len(tasks) \in Nat /\ Len(tasks') = Len(tasks) + 1
      /\ \A i \in 1..Len(tasks) : tasks'[i] = tasks[i]
      /\ tasks'[Len(tasks) + 1] = x
  BY DEF IInv, TypeInv, TypeOK, QueueOK
<1>2. \A g : (\E i \in 1..Len(tasks') : CalledAt(i, g)')
                <=> (\E i \in 1..Len(tasks) : CalledAt(i, g)) \/ (g = x.fiber /\ x.kind # "wake")
  BY <1>1 DEF CalledAt
<1> QED BY <1>2 DEF Called

\* What a state and the invariants say, where no fiber is touched.
Before == IInv /\ RunInv /\ IInv' /\ Closed' = Closed

\* The idle fiber's checks are no steps of the pool.
LEMMA CheckQuiet ==
    ASSUME Before, NEW t \in Workers, CheckStep(t)
    PROVE  RunInv' /\ Implemented
<1> USE WorkersAreThreads DEF At, Critical, Inside, Taken, Before
<1>1. CASE GoIdle(t)
  BY <1>1, QuietGoto DEF GoIdle
<1>2. CASE StoppingTimers(t)
  BY <1>2, QuietGoto DEF StoppingTimers
<1>3. CASE StoppingEvents(t)
  BY <1>3, QuietGoto DEF StoppingEvents
<1>4. CASE StoppingTasks(t)
  BY <1>4, QuietGoto DEF StoppingTasks
<1>5. CASE LeaveIdle(t)
  BY <1>5, QuietGoto DEF LeaveIdle
<1> QED BY <1>1, <1>2, <1>3, <1>4, <1>5 DEF CheckStep

\* Nor are the owner's steps, submitting and joining apart.
LEMMA MainQuiet ==
    ASSUME Before, StopStep \/ Stop, ~Join
    PROVE  RunInv' /\ Implemented
<1> USE DEF At, Critical, Inside, Taken, Before
<1>1. CASE Stop
  BY <1>1, QuietGoto DEF Stop
<1>2. CASE StopTickle
  BY <1>2, Quiet DEF StopTickle
<1>3. CASE StopRun
  BY <1>3, QuietGoto DEF StopRun
<1> QED BY <1>1, <1>2, <1>3 DEF StopStep

\* Taking a task: the call goes from the queue to the worker.
LEMMA TakeMaps ==
    ASSUME Before, NEW t \in Workers, Take(t)
    PROVE  RunInv' /\ Implemented
<1>0. IInv /\ IInv' /\ RunInv /\ KindInv /\ UniqueInv /\ WakeInv /\ tasks \in Seq(Task)
  BY DEF Before, IInv, FiberInv, TypeInv, TypeOK, QueueOK
<1>1. PICK i \in 1..Len(tasks) :
        /\ task' = [task EXCEPT ![t] = tasks[i]]
        /\ tasks' = RemoveAt(tasks, i)
        /\ Goto(t, IF tasks[i].kind = "wake" THEN "lambda" ELSE "lock")
  BY DEF Take
<1>2. PICK f \in Fibers : f = tasks[i].fiber
  BY <1>0, OfTask
<1>3. /\ pc[t] = "take" /\ Moves(t, IF tasks[i].kind = "wake" THEN "lambda" ELSE "lock")
      /\ task'[t] = tasks[i] /\ \A u \in Workers \ {t} : task'[u] = task[u]
  BY <1>0, <1>1, WorkersAreThreads DEF Take, At, Goto, Moves, IInv, TypeInv, TypeOK, ThreadOK
<1>4. pc'[t] \in {"lambda", "lock"} /\ (pc'[t] = "lambda" <=> tasks[i].kind = "wake")
  BY <1>3 DEF Moves
<1>5. /\ \A j \in 1..Len(tasks') : \E k \in 1..Len(tasks) : k # i /\ tasks'[j] = tasks[k]
      /\ \A g : Queued(g)' <=> Queued(g) /\ g # f
  BY <1>0, <1>1, <1>2, Pop
<1>6. \A u \in Workers : \A g :
        /\ On(u, g)' <=> On(u, g)
        /\ (u # t => (CalledBy(u, g)' <=> CalledBy(u, g)))
  BY <1>3, <1>4 DEF On, CalledBy, Holds, Moves
<1>7. \A g : (CalledBy(t, g)' <=> g = f /\ tasks[i].kind # "wake") /\ ~CalledBy(t, g)
  BY <1>2, <1>3, <1>4 DEF CalledBy, Holds
<1>8. ASSUME NEW g \in Fibers
      PROVE  Called(g)' <=> Called(g)
  <2>1. CASE g = f
    <3>1. ~Queued(f)' /\ ~Held(f)
      BY <1>0, <1>2, <1>5, OfTask DEF WakeOf
    <3>2. \A k \in 1..Len(tasks) : tasks[k].fiber = f => k = i
      BY <1>0, <1>2 DEF UniqueInv, QueueUnique
    <3>3. Called(f) <=> tasks[i].kind # "wake"
      BY <1>2, <3>1, <3>2 DEF Called, CalledAt, CalledBy, Held
    <3>4. \A u \in Workers : ~CalledBy(u, f)
      BY <3>1 DEF CalledBy, Held
    <3>5. Called(f)' <=> tasks[i].kind # "wake"
      BY <1>6, <1>7, <3>1, <3>4 DEF Called, CalledAt, Queued
    <3> QED BY <2>1, <3>3, <3>5
  <2>2. CASE g # f
    <3>1. (\E u \in Workers : CalledBy(u, g))' <=> \E u \in Workers : CalledBy(u, g)
      BY <1>6, <1>7, <2>2
    <3>2. ASSUME NEW k \in 1..Len(tasks), CalledAt(k, g)
          PROVE  \E j \in 1..Len(tasks') : CalledAt(j, g)'
      <4>1. Queued(g)'
        BY <1>5, <2>2, <3>2 DEF Queued, CalledAt
      <4>2. PICK j \in 1..Len(tasks') : tasks'[j].fiber = g
        BY <4>1 DEF Queued
      <4>3. PICK l \in 1..Len(tasks) : tasks'[j] = tasks[l]
        BY <1>5
      <4>4. l = k
        BY <1>0, <3>2, <4>2, <4>3 DEF UniqueInv, QueueUnique, CalledAt
      <4> QED BY <3>2, <4>3, <4>4 DEF CalledAt
    <3>3. ASSUME NEW j \in 1..Len(tasks'), CalledAt(j, g)'
          PROVE  \E k \in 1..Len(tasks) : CalledAt(k, g)
      BY <1>5, <3>3 DEF CalledAt
    <3> QED BY <3>1, <3>2, <3>3 DEF Called
  <2> QED BY <2>1, <2>2
<1>9. \A g \in Fibers : RunsIn(g)' <=> RunsIn(g)
  BY <1>3, <1>4, <1>6 DEF RunsIn, Moves
<1>10. \A g \in Fibers : Unmoved(g)
  BY <1>6, <1>8, <1>9 DEF Unmoved, Take
<1>11. ResumeInv'
  BY <1>0, <1>3, <1>4 DEF RunInv, ResumeInv, Moves
<1> QED BY <1>0, <1>10, <1>11, NoStep DEF Before, RunInv

\* Creating or locking the fiber of a task.
LEMMA LockMaps ==
    ASSUME Before, NEW t \in Workers, pc[t] = "lock", Moves(t, "resume"),
           task[t].kind # "wake", UNCHANGED <<task, tasks>>,
           \A g \in Fibers : \/ fstate'[g] = fstate[g]
                             \/ fstate[g] \in Resting /\ fstate'[g] \in Resting
    PROVE  RunInv' /\ Implemented
<1>0. IInv /\ IInv' /\ RunInv
  BY DEF Before
<1>1. \A u \in Workers : \A g :
        (On(u, g)' <=> On(u, g)) /\ (CalledBy(u, g)' <=> CalledBy(u, g))
  BY DEF On, CalledBy, Holds, Moves
<1>2. \A g \in Fibers : Called(g)' <=> Called(g)
  BY <1>1 DEF Called, CalledAt
<1>3. \A g \in Fibers : RunsIn(g)' <=> RunsIn(g)
  BY <1>1 DEF RunsIn, Moves
<1>4. \A g \in Fibers : Unmoved(g)
  BY <1>1, <1>2, <1>3 DEF Unmoved
<1>5. ResumeInv'
  BY <1>0 DEF RunInv, ResumeInv, Moves
<1> QED BY <1>0, <1>4, <1>5, NoStep DEF Before, RunInv

\* A callback that becomes a fiber was called before and is called now.
LEMMA CreateMaps ==
    ASSUME Before, NEW t \in Workers, Create(t)
    PROVE  RunInv' /\ Implemented
<1>0. IInv
  BY DEF Before
<1>1. PICK f \in Fibers : f = Running(t)
  BY <1>0, OfWorker DEF Create, At, Critical, Taken
<1>2. pc[t] = "lock" /\ Moves(t, "resume")
  BY <1>0, WorkersAreThreads DEF Create, At, Goto, Moves, IInv, TypeInv, TypeOK, ThreadOK
<1>3. fstate[f] = "CB"
  BY <1>0, <1>1, <1>2 DEF Create, IInv, FiberInv, KindInv, HeldKind, Running
<1>4. \A g \in Fibers : \/ fstate'[g] = fstate[g]
                        \/ fstate[g] \in Resting /\ fstate'[g] \in Resting
  BY <1>0, <1>1, <1>3 DEF Create, IInv, TypeInv, TypeOK, FiberOK, Resting
<1> QED BY <1>2, <1>4, LockMaps DEF Create

\* A fiber whose mutex is taken is not TERM: it is called.
LEMMA LockedMaps ==
    ASSUME Before, NEW t \in Workers, Lock(t)
    PROVE  RunInv' /\ Implemented
<1>0. IInv /\ MutexInv
  BY DEF Before, IInv, FiberInv
<1>1. PICK f \in Fibers : f = Running(t)
  BY <1>0, OfWorker DEF Lock, At, Critical, Taken
<1>2. pc[t] = "lock" /\ fmutex[f] = None /\ WakeOf(f) /\ Held(f)
  BY <1>0, <1>1, OfWorker DEF Lock, At, MutexFree, Taken
<1>3. ~Parking(f)
  BY <1>0, <1>2, NoneIsNobody DEF MutexInv, Parking, On, Inside, Running
<1>4. fstate[f] # "TERM"
  BY <1>2, <1>3 DEF WakeOf
<1>5. Moves(t, "resume")
  BY <1>0, <1>1, <1>4, WorkersAreThreads
     DEF Lock, Goto, Moves, IInv, TypeInv, TypeOK, ThreadOK
<1> QED BY <1>2, <1>5, LockMaps DEF Lock

\* Resuming.
LEMMA ResumeMaps ==
    ASSUME Before, NEW t \in Workers, Resume(t)
    PROVE  RunInv' /\ Implemented
<1>0. IInv /\ IInv' /\ RunInv /\ MutexInv /\ MutexInv'
  BY DEF Before, IInv, FiberInv
<1>1. PICK f \in Fibers : f = Running(t)
  BY <1>0, OfWorker DEF Resume, At, Critical, Taken
<1>2. pc[t] = "resume" /\ Moves(t, "run") /\ UNCHANGED <<task, tasks>>
  BY <1>0, WorkersAreThreads DEF Resume, At, Goto, Moves, IInv, TypeInv, TypeOK, ThreadOK
<1>3. fstate[f] = "READY" /\ Becomes(f, "RUNNING")
  BY <1>0, <1>1, <1>2
     DEF Resume, StateInv, Becomes, IInv, FiberInv, TypeInv, TypeOK, FiberOK
<1>4. /\ ~Queued(f)
      /\ \A u \in Workers \ {t} : pc[u] \in Taken \cup Inside => Running(u) # f
  BY <1>0, <1>1, <1>2, OfWorker DEF Taken, Inside, WakeOf
<1>5. CalledBy(t, f)
  BY <1>0, <1>1, <1>2 DEF CalledBy, Holds, RunInv, ResumeInv, Running
<1>6. Phase(f) = "scheduled"
  BY <1>3, <1>5, PhaseIs DEF Called, Resting
<1>7. On(t, f)' /\ RunsIn(f)'
  BY <1>1, <1>2 DEF On, RunsIn, Moves, Running
<1>8. Phase(f)' = "running" /\ Runner(f)' = t
  BY <1>0, <1>3, <1>7, PhaseNext, RunnerNext DEF Becomes
<1>9. \A u \in Workers : ~On(u, f)
  BY <1>1, <1>2, <1>4 DEF On, Inside, Running
<1>10. \A g : ~On(t, g)
  BY <1>2 DEF On
<1>11. ASSUME NEW g \in Fibers \ {f}
       PROVE  Unmoved(g)
  <2>1. \A u \in Workers : (On(u, g)' <=> On(u, g)) /\ (CalledBy(u, g)' <=> CalledBy(u, g))
    BY <1>1, <1>2 DEF On, CalledBy, Holds, Moves, Running
  <2>2. Called(g)' <=> Called(g)
    BY <1>2, <2>1 DEF Called, CalledAt
  <2>3. RunsIn(g)' <=> RunsIn(g)
    BY <1>1, <1>2, <2>1 DEF RunsIn, Moves, On, Running
  <2> QED BY <1>3, <2>1, <2>2, <2>3 DEF Unmoved, Becomes
<1>12. RunningInv'
  BY <1>0, <1>7, <1>11, OthersRun DEF RunInv
<1>13. ResumeInv'
  BY <1>0, <1>2 DEF RunInv, ResumeInv, Moves
<1>14. Runner(f) = None /\ \A g \in Fibers : Runner(g) # t
  <2>1. \A g \in Fibers : (\E u \in Workers : On(u, g) /\ Runner(g) = u) \/ Runner(g) = None
    BY <1>0, RunnerIs
  <2> QED BY <1>0, <1>9, <1>10, <2>1, RunnerIs, NoneIsNobody
<1>15. \A g \in Fibers \ {f} : Phase(g)' = Phase(g) /\ Runner(g)' = Runner(g)
  BY <1>0, <1>11, UnmovedPhase
<1>16. Pool!Resume(f, t)
  <2>1. Pool!Move(f, "scheduled", "running")
    BY <1>6, <1>8, <1>15, MoveOne
  <2>2. onOf' = [onOf EXCEPT ![f] = t] /\ onOf[f] = None /\ \A g \in Fibers : onOf[g] # t
    BY <1>8, <1>14, <1>15 DEF onOf
  <2> QED BY <2>1, <2>2 DEF Pool!Resume, onOf, Before, Closed
<1> QED BY <1>12, <1>13, <1>16 DEF RunInv, Implemented, Pool!Next

\* Waking: a task for a fiber nobody called is pushed.
LEMMA WakeMaps ==
    ASSUME Before, NEW f \in Fibers, ~Called(f), fstate[f] \in Resting \/ Parking(f),
           tasks' = Append(tasks, FiberTask(f)), UNCHANGED fstate,
           \A u \in Workers : \A g : /\ On(u, g)' <=> On(u, g)
                                     /\ CalledBy(u, g)' <=> CalledBy(u, g),
           \A g : RunsIn(g)' <=> RunsIn(g),
           \A u \in Workers : pc'[u] = "resume" => pc[u] = "resume" /\ task'[u] = task[u]
    PROVE  RunInv' /\ Implemented
<1>0. IInv /\ IInv' /\ RunInv /\ MutexInv /\ StateInv
  BY DEF Before, IInv, FiberInv
<1>1. \A g : Called(g)' <=> Called(g) \/ g = f
  BY <1>0, CalledPush, TaskTypes DEF FiberTask
<1>2. \A g \in Fibers \ {f} : Unmoved(g)
  BY <1>1 DEF Unmoved
<1>3. \A g \in Fibers \ {f} : Phase(g)' = Phase(g) /\ Runner(g)' = Runner(g)
  BY <1>0, <1>2, UnmovedPhase
<1>4. \/ Phase(f) = "waiting" /\ Phase(f)' = "scheduled"
      \/ Phase(f) = "parking" /\ Phase(f)' = "woken"
  <2>1. CASE fstate[f] \in Resting
    BY <1>1, <2>1, PhaseIs, PhaseNext
  <2>2. CASE Parking(f)
    <3>1. PICK t \in Workers : On(t, f) /\ pc[t] = "park"
      BY <2>2 DEF Parking
    <3>2. fstate[f] = "RUNNING" /\ ~RunsIn(f)
      BY <1>0, <3>1 DEF MutexInv, StateInv, RunsIn, On, Inside, Running
    <3> QED BY <1>1, <3>2, PhaseIs, PhaseNext
  <2> QED BY <2>1, <2>2
<1>5. Runner(f)' = Runner(f)
  <2>1. \A u \in Workers : On(u, f)' <=> On(u, f)
    OBVIOUS
  <2> QED BY <1>0, <2>1, RunnerKept
<1>6. Pool!Wake(f)
  <2>1. Pool!Move(f, "parking", "woken") \/ Pool!Move(f, "waiting", "scheduled")
    BY <1>3, <1>4, MoveOne
  <2>2. onOf' = onOf
    BY <1>3, <1>5, OnSame
  <2> QED BY <2>1, <2>2 DEF Pool!Wake, onOf, Before, Closed
<1>7. RunningInv'
  <2>1. fstate'[f] = "RUNNING" => \E t \in Workers : On(t, f)'
    BY <1>0 DEF RunInv, RunningInv
  <2> QED BY <1>0, <1>2, <2>1, OthersRun DEF RunInv
<1>8. ResumeInv'
  BY <1>0 DEF RunInv, ResumeInv
<1> QED BY <1>6, <1>7, <1>8 DEF RunInv, Implemented, Pool!Next

\* The lambda of a sleep timer wakes its fiber.
LEMMA LambdaMaps ==
    ASSUME Before, NEW t \in Workers, Lambda(t)
    PROVE  RunInv' /\ Implemented
<1>0. IInv /\ KindInv
  BY DEF Before, IInv, FiberInv
<1>1. PICK f \in Fibers : f = Running(t)
  BY <1>0, OfWorker DEF Lambda, At, Critical, Taken
<1>2. pc[t] = "lambda" /\ Moves(t, "retire") /\ task' = task /\ UNCHANGED fstate
  BY <1>0, WorkersAreThreads DEF Lambda, At, Goto, Moves, IInv, TypeInv, TypeOK, ThreadOK
<1>3. /\ Held(f) /\ WakeOf(f) /\ ~Queued(f)
      /\ \A u \in Workers \ {t} : pc[u] \in Taken => Running(u) # f
  BY <1>0, <1>1, <1>2, OfWorker DEF Taken, WakeOf
<1>4. task[t].kind = "wake"
  BY <1>0, <1>2 DEF KindInv, HeldKind
<1>5. ~Called(f)
  BY <1>3, <1>4 DEF Called, CalledAt, CalledBy, Queued, Holds, Taken, Running
<1>6. fstate[f] \in Resting \/ Parking(f)
  BY <1>3 DEF WakeOf, Resting
<1>7. tasks' = Append(tasks, FiberTask(f))
  BY <1>1 DEF Lambda, ScheduleLock
<1>8. \A u \in Workers : \A g : /\ On(u, g)' <=> On(u, g)
                                /\ CalledBy(u, g)' <=> CalledBy(u, g)
  BY <1>2, <1>4 DEF On, CalledBy, Holds, Moves
<1>9. \A g : RunsIn(g)' <=> RunsIn(g)
  BY <1>2 DEF RunsIn, On, Moves
<1>10. \A u \in Workers : pc'[u] = "resume" => pc[u] = "resume" /\ task'[u] = task[u]
  BY <1>2 DEF Moves
<1> QED BY <1>2, <1>5, <1>6, <1>7, <1>8, <1>9, <1>10, WakeMaps

\* cancelEvent and the handling of an event wake the fiber that waits for it.
LEMMA EventMaps ==
    ASSUME Before, NEW f \in Fibers, f \in events, tasks' = Append(tasks, FiberTask(f)),
           UNCHANGED <<fstate, task>>,
           \A u \in Workers : pc[u] \in Critical \/ pc'[u] \in Critical => pc'[u] = pc[u]
    PROVE  RunInv' /\ Implemented
<1>1. Waiting(f) /\ WakeOf(f)
  BY DEF Before, IInv, FiberInv, WakeInv, Waiting
<1>2. ~Queued(f) /\ ~Held(f) /\ (fstate[f] \in Resting \/ Parking(f))
  BY <1>1 DEF WakeOf, Resting
<1>3. ~Called(f)
  BY <1>2 DEF Called, CalledAt, CalledBy, Queued, Held
<1>4. \A u \in Workers : \A g : /\ On(u, g)' <=> On(u, g)
                                /\ CalledBy(u, g)' <=> CalledBy(u, g)
  BY DEF On, CalledBy, Holds, Critical, Inside, Taken
<1>5. \A g : RunsIn(g)' <=> RunsIn(g)
  BY DEF RunsIn, On, Critical, Inside
<1>6. \A u \in Workers : pc'[u] = "resume" => pc[u] = "resume" /\ task'[u] = task[u]
  BY DEF Critical, Inside
<1> QED BY <1>2, <1>3, <1>4, <1>5, <1>6, WakeMaps

\* Handling an event: one that was cancelled meanwhile is skipped.
LEMMA TriggerMaps ==
    ASSUME Before, NEW t \in Workers, Trigger(t)
    PROVE  RunInv' /\ Implemented
<1>0. IInv
  BY DEF Before
<1>1. UNCHANGED <<fstate, task>> /\ pc[t] = "events"
  BY DEF Trigger, At
<1>2. PICK f \in evs[t] :
        IF f \in events
        THEN tasks' = Append(tasks, FiberTask(f)) /\ Goto(t, "count")
        ELSE UNCHANGED <<tasks, pc>>
  BY DEF Trigger, ScheduleLock
<1>3. f \in Fibers
  BY <1>0 DEF IInv, TypeInv, TypeOK, IdleOK
<1>4. CASE f \in events
  <2>1. \A u \in Workers : pc[u] \in Critical \/ pc'[u] \in Critical => pc'[u] = pc[u]
    BY <1>0, <1>1, <1>2, <1>4, GotoMoves, WorkersAreThreads DEF Critical, Inside, Taken
  <2> QED BY <1>1, <1>2, <1>3, <1>4, <2>1, EventMaps
<1>5. CASE f \notin events
  BY <1>1, <1>2, <1>5, Quiet DEF Before
<1> QED BY <1>4, <1>5

\* Cancelling an event wakes its fiber.
LEMMA CancelMaps ==
    ASSUME Before, NEW t \in Workers, NEW f \in Fibers, Cancel(t, f)
    PROVE  RunInv' /\ Implemented
BY EventMaps DEF Cancel, ScheduleLock

\* The lambda of an expired timer is queued: its fiber is not called yet.
LEMMA ScheduleCbMaps ==
    ASSUME Before, NEW t \in Workers, ScheduleCb(t)
    PROVE  RunInv' /\ Implemented
<1>0. IInv /\ IInv' /\ RunInv
  BY DEF Before
<1>1. UNCHANGED <<fstate, task, pc>>
  BY DEF ScheduleCb
<1>2. PICK f \in cbs[t] : tasks' = Append(tasks, WakeTask(f))
  BY DEF ScheduleCb, ScheduleLock
<1>3. f \in Fibers
  BY <1>0 DEF IInv, TypeInv, TypeOK, IdleOK
<1>4. \A u \in Workers : \A g : /\ On(u, g)' <=> On(u, g)
                                /\ CalledBy(u, g)' <=> CalledBy(u, g)
  BY <1>1 DEF On, CalledBy, Holds
<1>5. \A g : Called(g)' <=> Called(g)
  BY <1>0, <1>2, <1>3, <1>4, CalledPush, TaskTypes DEF WakeTask
<1>6. \A g : RunsIn(g)' <=> RunsIn(g)
  BY <1>1 DEF RunsIn, On
<1>7. \A g \in Fibers : Unmoved(g)
  BY <1>1, <1>4, <1>5, <1>6 DEF Unmoved
<1>8. ResumeInv'
  BY <1>0, <1>1 DEF RunInv, ResumeInv
<1> QED BY <1>0, <1>7, <1>8, NoStep DEF Before, RunInv

\* The rest of the idle fiber.
LEMMA PollMaps ==
    ASSUME Before, NEW t \in Workers, PollStep(t)
    PROVE  RunInv' /\ Implemented
<1> USE WorkersAreThreads DEF At, Critical, Inside, Taken, Before
<1>1. CASE EpollReturns(t)
  BY <1>1, QuietGoto DEF EpollReturns
<1>2. CASE EpollTimeout(t)
  BY <1>2, QuietGoto DEF EpollTimeout
<1>3. CASE Expire(t)
  BY <1>3, QuietGoto DEF Expire
<1>4. CASE CbsDone(t)
  BY <1>4, QuietGoto DEF CbsDone
<1>5. CASE CountDown(t)
  BY <1>5, QuietGoto DEF CountDown
<1>6. CASE EventsDone(t)
  BY <1>6, QuietGoto DEF EventsDone
<1> QED
  BY <1>1, <1>2, <1>3, <1>4, <1>5, <1>6, ScheduleCbMaps, TriggerMaps DEF PollStep

\* Scheduling a callback.
LEMMA SubmitMaps ==
    ASSUME Before, ~Closed, NEW t \in Threads \cup {Main}, NEW f \in Fibers, Submit(t, f)
    PROVE  RunInv' /\ Implemented
<1>0. IInv /\ IInv' /\ RunInv /\ StateInv /\ MutexInv /\ MutexInv'
  BY DEF Before, IInv, FiberInv
<1>1. fstate[f] = "NONE" /\ Becomes(f, "CB")
  BY <1>0 DEF Submit, Becomes, IInv, TypeInv, TypeOK, FiberOK
<1>2. UNCHANGED <<pc, task>> /\ tasks' = Append(tasks, CbTask(f))
  BY DEF Submit, ScheduleLock
<1>3. \A u \in Workers : \A g : /\ On(u, g)' <=> On(u, g)
                                /\ CalledBy(u, g)' <=> CalledBy(u, g)
  BY <1>2 DEF On, CalledBy, Holds
<1>4. \A g : Called(g)' <=> Called(g) \/ g = f
  BY <1>0, <1>2, <1>3, CalledPush, TaskTypes DEF CbTask
<1>5. \A g : RunsIn(g)' <=> RunsIn(g)
  BY <1>2 DEF RunsIn, On
<1>6. \A g \in Fibers \ {f} : Unmoved(g)
  BY <1>1, <1>3, <1>4, <1>5 DEF Unmoved, Becomes
<1>7. Phase(f) = "absent" /\ Phase(f)' = "scheduled"
  BY <1>1, <1>4, PhaseIs, PhaseNext DEF Becomes, Resting
<1>8. \A u \in Workers : On(u, f)' <=> On(u, f)
  BY <1>3
<1>9. Runner(f)' = Runner(f)
  BY <1>0, <1>8, RunnerKept
<1>10. \A g \in Fibers \ {f} : Phase(g)' = Phase(g) /\ Runner(g)' = Runner(g)
  BY <1>0, <1>6, UnmovedPhase
<1>11. Pool!Schedule(f)
  <2>1. Pool!Move(f, "absent", "scheduled")
    BY <1>7, <1>10, MoveOne
  <2>2. onOf' = onOf
    BY <1>9, <1>10, OnSame
  <2> QED BY <2>1, <2>2 DEF Pool!Schedule, onOf, Before, Closed
<1>12. RunningInv'
  BY <1>0, <1>1, <1>6, OthersRun DEF RunInv, Becomes
<1>13. ResumeInv'
  BY <1>0, <1>2 DEF RunInv, ResumeInv
<1> QED BY <1>11, <1>12, <1>13 DEF RunInv, Implemented, Pool!Next

\* Registering for a wake-up, before the fiber yields.
LEMMA ParkMaps ==
    ASSUME Before, NEW t \in Workers, pc[t] = "run", Moves(t, "park"),
           UNCHANGED <<tasks, task, fstate>>
    PROVE  RunInv' /\ Implemented
<1>0. IInv /\ IInv' /\ RunInv /\ MutexInv /\ MutexInv'
  BY DEF Before, IInv, FiberInv
<1>1. PICK f \in Fibers : f = Running(t)
  BY <1>0, OfWorker DEF Critical, Inside
<1>2. fstate[f] = "RUNNING" /\ ~Queued(f) /\ ~Held(f)
  BY <1>0, <1>1, OfWorker
<1>3. \A u \in Workers : \A g : /\ On(u, g)' <=> On(u, g)
                                /\ CalledBy(u, g)' <=> CalledBy(u, g)
  BY DEF On, CalledBy, Holds, Moves
<1>4. \A g : Called(g)' <=> Called(g)
  BY <1>3 DEF Called, CalledAt
<1>5. ~Called(f)
  BY <1>2 DEF Called, CalledAt, CalledBy, Queued, Held
<1>6. On(t, f) /\ RunsIn(f)
  BY <1>1 DEF On, RunsIn, Running
<1>7. ~RunsIn(f)'
  <2>1. \A u \in Workers : On(u, f) => u = t
    BY <1>0, <1>6 DEF MutexInv, On, Inside, Running
  <2> QED BY <1>3, <2>1 DEF RunsIn, Moves
<1>8. Phase(f) = "running" /\ Phase(f)' = "parking"
  BY <1>2, <1>4, <1>5, <1>6, <1>7, PhaseIs, PhaseNext
<1>9. ASSUME NEW g \in Fibers \ {f}
      PROVE  Unmoved(g)
  <2>1. RunsIn(g)' <=> RunsIn(g)
    BY <1>1, <1>3 DEF RunsIn, Moves, On, Running
  <2> QED BY <1>3, <1>4, <2>1 DEF Unmoved
<1>10. \A u \in Workers : On(u, f)' <=> On(u, f)
  BY <1>3
<1>11. Runner(f)' = Runner(f)
  BY <1>0, <1>10, RunnerKept
<1>12. \A g \in Fibers \ {f} : Phase(g)' = Phase(g) /\ Runner(g)' = Runner(g)
  BY <1>0, <1>9, UnmovedPhase
<1>13. Pool!Park(f)
  <2>1. Pool!Move(f, "running", "parking")
    BY <1>8, <1>12, MoveOne
  <2>2. onOf' = onOf
    BY <1>11, <1>12, OnSame
  <2> QED BY <2>1, <2>2 DEF Pool!Park, onOf, Before, Closed
<1>14. RunningInv'
  <2>1. On(t, f)'
    BY <1>6, <1>10
  <2> QED BY <1>0, <1>9, <2>1, OthersRun DEF RunInv
<1>15. ResumeInv'
  BY <1>0 DEF RunInv, ResumeInv, Moves
<1> QED BY <1>13, <1>14, <1>15 DEF RunInv, Implemented, Pool!Next

\* Leaving the worker, parked or finished.
LEMMA LeaveMaps ==
    ASSUME Before, NEW t \in Workers, NEW f \in Fibers, f = Running(t),
           Moves(t, "retire"), UNCHANGED <<tasks, task>>,
           \/ pc[t] = "park" /\ Becomes(f, "READY")
           \/ pc[t] = "run" /\ Becomes(f, "TERM")
    PROVE  RunInv' /\ Implemented
<1>0. IInv /\ IInv' /\ RunInv /\ MutexInv /\ MutexInv' /\ StateInv
  BY DEF Before, IInv, FiberInv
<1>1. fstate[f] = "RUNNING"
  BY <1>0 DEF StateInv, Running
<1>2. \A u \in Workers : On(u, f) => u = t
  BY <1>0 DEF MutexInv, On, Inside, Running
<1>3. \A u \in Workers : \A g : /\ CalledBy(u, g)' <=> CalledBy(u, g)
                                /\ g # f => (On(u, g)' <=> On(u, g))
  BY DEF On, CalledBy, Holds, Moves, Running
<1>4. \A g : Called(g)' <=> Called(g)
  BY <1>3 DEF Called, CalledAt
<1>5. \A u \in Workers : ~On(u, f)'
  BY <1>2 DEF On, Moves
<1>6. Runner(f)' = None
  BY <1>0, <1>5, RunnerNext
<1>7. ASSUME NEW g \in Fibers \ {f}
      PROVE  Unmoved(g)
  <2>1. RunsIn(g)' <=> RunsIn(g)
    BY <1>3 DEF RunsIn, Moves, On, Running
  <2> QED BY <1>3, <1>4, <2>1 DEF Unmoved, Becomes
<1>8. \A g \in Fibers \ {f} : Phase(g)' = Phase(g) /\ Runner(g)' = Runner(g)
  BY <1>0, <1>7, UnmovedPhase
<1>9. onOf' = [onOf EXCEPT ![f] = None]
  BY <1>6, <1>8, OnOne
<1>10. ASSUME pc[t] = "park" /\ Becomes(f, "READY")
       PROVE  Implemented
  <2>1. ~RunsIn(f)
    BY <1>2, <1>10 DEF RunsIn
  <2>2. \/ Phase(f) = "parking" /\ Phase(f)' = "waiting"
        \/ Phase(f) = "woken" /\ Phase(f)' = "scheduled"
    BY <1>1, <1>4, <1>10, <2>1, PhaseIs, PhaseNext DEF Becomes, Resting
  <2>3. Pool!Move(f, "parking", "waiting") \/ Pool!Move(f, "woken", "scheduled")
    BY <1>8, <2>2, MoveOne
  <2>4. Pool!Yield(f)
    BY <1>9, <2>3 DEF Pool!Yield, onOf, Before, Closed
  <2> QED BY <2>4 DEF Implemented, Pool!Next
<1>11. ASSUME pc[t] = "run" /\ Becomes(f, "TERM")
       PROVE  Implemented
  <2>1. RunsIn(f)
    BY <1>11 DEF RunsIn, On, Running
  <2>2. Phase(f) = "running" /\ Phase(f)' = "done"
    BY <1>1, <1>11, <2>1, PhaseIs, PhaseNext DEF Becomes
  <2>3. Pool!Move(f, "running", "done")
    BY <1>8, <2>2, MoveOne
  <2>4. Pool!Finish(f)
    BY <1>9, <2>3 DEF Pool!Finish, onOf, Before, Closed
  <2> QED BY <2>4 DEF Implemented, Pool!Next
<1>12. RunningInv'
  <2>1. fstate'[f] # "RUNNING"
    BY DEF Becomes
  <2> QED BY <1>0, <1>7, <2>1, OthersRun DEF RunInv
<1>13. ResumeInv'
  BY <1>0 DEF RunInv, ResumeInv, Moves
<1> QED BY <1>10, <1>11, <1>12, <1>13 DEF RunInv

\* A fiber's body; nobody schedules a callback once the pool is joined.
LEMMA BodyMaps ==
    ASSUME Before, JoinedInv, NEW t \in Workers, BodyStep(t)
    PROVE  RunInv' /\ Implemented
<1>0. IInv
  BY DEF Before
<1>1. ASSUME NEW p, Goto(t, p)
      PROVE  Moves(t, p)
  BY <1>0, <1>1, GotoMoves, WorkersAreThreads DEF Moves
<1>2. CASE Sleep(t)
  BY <1>1, <1>2, ParkMaps DEF Sleep, At
<1>3. CASE Wait(t)
  BY <1>1, <1>3, ParkMaps DEF Wait, At
<1>4. CASE Yield(t)
  <2>1. pc[t] = "park" /\ Running(t) \in Fibers
    BY <1>0, <1>4, OfWorker DEF Yield, At, Critical, Inside
  <2>2. Becomes(Running(t), "READY")
    BY <1>0, <1>4, <2>1 DEF Yield, Becomes, IInv, TypeInv, TypeOK, FiberOK
  <2> QED BY <1>1, <1>4, <2>1, <2>2, LeaveMaps DEF Yield
<1>5. CASE Finish(t)
  <2>1. pc[t] = "run" /\ Running(t) \in Fibers
    BY <1>0, <1>5, OfWorker DEF Finish, At, Critical, Inside
  <2>2. Becomes(Running(t), "TERM")
    BY <1>0, <1>5, <2>1 DEF Finish, Becomes, IInv, TypeInv, TypeOK, FiberOK
  <2> QED BY <1>1, <1>5, <2>1, <2>2, LeaveMaps DEF Finish
<1>6. ASSUME NEW f \in Fibers, Spawn(t, f)
      PROVE  RunInv' /\ Implemented
  <2>1. ~Closed
    BY <1>6 DEF Spawn, At, Closed, JoinedInv, Workers
  <2> QED BY <1>6, <2>1, SubmitMaps, WorkersAreThreads DEF Spawn
<1> QED BY <1>2, <1>3, <1>4, <1>5, <1>6, CancelMaps DEF BodyStep

\* The steps of run().
LEMMA RunMaps ==
    ASSUME Before, NEW t \in Workers, RunStep(t)
    PROVE  RunInv' /\ Implemented
<1> USE WorkersAreThreads
<1>1. CASE TakeNone(t)
  BY <1>1, QuietGoto DEF TakeNone, At, Critical, Inside, Taken, Before
<1>2. CASE Retire(t)
  <2>1. \A u \in Workers \ {t} : task'[u] = task[u]
    BY <1>2 DEF Retire, Before, IInv, TypeInv, TypeOK, ThreadOK
  <2> QED BY <1>2, <2>1, QuietGoto DEF Retire, At, Critical, Inside, Taken, Before
<1> QED
  BY <1>1, <1>2, TakeMaps, CreateMaps, LockedMaps, ResumeMaps, LambdaMaps DEF RunStep

\* Joining: no fiber runs or is called, because no worker and no task is left.
LEMMA JoinMaps ==
    ASSUME IInv, IInv', RunInv, EndInv, Join
    PROVE  RunInv' /\ Implemented
<1>0. RunningInv /\ ResumeInv /\ LastInv
  BY DEF RunInv, EndInv
<1>1. /\ pc[Main] = "join" /\ pc'[Main] = "done"
      /\ \A u \in Threads : u # Main /\ pc'[u] = pc[u] /\ pc[u] = "exit"
      /\ UNCHANGED <<tasks, task, fstate>>
  BY GotoMoves, SchedulerAssumption DEF Join, At
<1>2. \A u \in Workers : pc[u] \in Ended /\ pc'[u] \in Ended
  BY <1>1 DEF Workers, Ended
<1>3. \A u \in Workers : pc[u] \notin Critical /\ pc'[u] \notin Critical
  BY <1>2 DEF Ended, Critical, Inside, Taken
<1>4. \A g \in Fibers : Unmoved(g)
  BY <1>1, <1>3, QuietUnmoved
<1>5. ASSUME NEW f \in Fibers
      PROVE  Phase(f) \in {"absent", "waiting", "done"}
  <2>1. tasks = <<>> /\ 1..Len(tasks) = {}
    BY <1>0, <1>2 DEF LastInv, Gone
  <2>2. ~Called(f)
    BY <1>3, <2>1 DEF Called, CalledBy, Holds, Critical, Taken
  <2>3. fstate[f] # "RUNNING"
    BY <1>0, <1>3 DEF RunningInv, On, Critical, Inside
  <2>4. fstate[f] \in {"NONE", "TERM"} \cup Resting
    BY <2>3 DEF IInv, TypeInv, TypeOK, FiberOK, Resting
  <2> QED BY <2>2, <2>4, PhaseIs
<1>6. phaseOf' = phaseOf /\ onOf' = onOf /\ \A f \in Fibers : phaseOf[f] \in {"absent", "waiting", "done"}
  BY <1>4, <1>5, Stutter DEF phaseOf
<1>7. Pool!Close
  BY <1>1, <1>6 DEF Pool!Close, phaseOf, onOf
<1>8. RunningInv' /\ ResumeInv'
  <2>1. RunningInv'
    BY <1>0, <1>4 DEF RunningInv, Unmoved, Resting
  <2>2. ResumeInv'
    BY <1>2 DEF ResumeInv, Ended
  <2> QED BY <2>1, <2>2
<1> QED BY <1>7, <1>8 DEF RunInv, Implemented, Pool!Next

\* Every step is a step of the pool or none.
LEMMA MapStep ==
    ASSUME IInv, IInv', RunInv, EndInv, [Next]_vars
    PROVE  RunInv' /\ Implemented
<1>1. CASE ~Join
  <2>1. Before
    BY <1>1, ClosedKept DEF Before
  <2>2. ASSUME NEW t \in Workers, WorkerStep(t)
        PROVE  RunInv' /\ Implemented
    BY <2>1, <2>2, RunMaps, BodyMaps, CheckQuiet, PollMaps DEF WorkerStep, EndInv
  <2>3. CASE MainStep
    <3>1. ASSUME NEW f \in Fibers, MainSubmit(f)
          PROVE  RunInv' /\ Implemented
      BY <2>1, <3>1, SubmitMaps DEF MainSubmit, At, Closed
    <3> QED BY <1>1, <2>1, <2>3, <3>1, MainQuiet DEF MainStep
  <2>4. CASE UNCHANGED <<tasks, fstate, pc, task>>
    BY <2>1, <2>4, Quiet DEF Before
  <2>5. CASE (\E t \in Threads \cup {Main} : Tickle(t)) \/ \E f \in Fibers : Due(f) \/ Ready(f)
    BY <2>4, <2>5 DEF Tickle, Due, Ready
  <2>6. CASE UNCHANGED vars
    BY <2>4, <2>6 DEF vars
  <2> QED BY <2>2, <2>3, <2>5, <2>6 DEF Next, Terminated
<1>2. CASE Join
  BY <1>2, JoinMaps
<1> QED BY <1>1, <1>2

\* The initial states are initial states of the pool.
LEMMA MapInit == Init => RunInv /\ Pool!Init
<1> SUFFICES ASSUME Init PROVE RunInv /\ Pool!Init
  OBVIOUS
<1>1. \A t \in Workers : pc[t] \in {"take", "submit"}
  BY WorkersAreThreads DEF Init
<1>2. RunInv
  BY <1>1 DEF Init, RunInv, RunningInv, ResumeInv
<1>3. \A f \in Fibers : Phase(f) = "absent"
  BY PhaseIs DEF Init
<1>4. \A f \in Fibers : Runner(f) = None
  BY <1>1 DEF Runner, On
<1>5. pc[Main] = "submit"
  BY DEF Init
<1> QED BY <1>2, <1>3, <1>4, <1>5 DEF Pool!Init

\* If no task is pinned, the scheduler implements FiberPool: whatever the queue, the
\* timers, epoll and the idle fibers do, each step is one of the pool's or none.  A
\* fiber runs on one worker at a time and a worker runs one fiber, it is resumed once
\* for each wake-up, also one that overtakes its yield, and stop() does not return
\* while a fiber runs or is called.
THEOREM Implementation == ASSUME FreeOfPins PROVE Spec => ImplementsPool
<1> DEFINE I == IInv /\ EndInv /\ RunInv
<1>1. Init => I /\ Pool!Init
  BY TypeInit, FiberInit, EndInit, MapInit DEF IInv
<1>2. I /\ [Next]_vars => I' /\ [Pool!Next]_(Pool!vars)
  <2> SUFFICES ASSUME I, [Next]_vars PROVE I' /\ [Pool!Next]_(Pool!vars)
    OBVIOUS
  <2>1. IInv'
    BY TypeStep, FiberStep DEF IInv
  <2>2. EndInv'
    BY CountStep, FreeStep, EndStep DEF EndInv
  <2>3. RunInv' /\ Implemented
    BY <2>1, MapStep
  <2> QED BY <2>1, <2>2, <2>3 DEF Implemented
<1> QED BY <1>1, <1>2, PTL DEF Spec, ImplementsPool, Pool!Spec

-----------------------------------------------------------------------------
(* Nobody is abandoned by a pool of one worker.  m_pendingEventCount first,  *)
(* for any number of workers: it counts the registered events, and those     *)
(* that were triggered but are not yet taken off, whose FdContext is locked. *)

Locked == {f \in Fibers : fdlock[f] # None}

\* An FdContext is locked, between two steps, by the one worker about to count its
\* event off; until then the fiber cannot register another.
LockInv ==
    /\ \A f \in Fibers : fdlock[f] # None => pc[fdlock[f]] = "count" /\ f \notin events
    /\ \A t \in Workers : pc[t] = "count" => \E f \in Fibers : fdlock[f] = t
    /\ \A f, g \in Fibers : fdlock[f] # None /\ fdlock[f] = fdlock[g] => f = g

PendInv == pending = Cardinality(events \cup Locked)

WaitInv == LockInv /\ PendInv

\* There are finitely many.
LEMMA WaitFinite == IInv => IsFiniteSet(events \cup Locked) /\ Cardinality(events \cup Locked) \in Nat
<1> SUFFICES ASSUME IInv
             PROVE  IsFiniteSet(events \cup Locked) /\ Cardinality(events \cup Locked) \in Nat
  OBVIOUS
<1>1. events \cup Locked \subseteq Fibers
  BY DEF IInv, TypeInv, TypeOK, EventOK, Locked
<1> QED BY <1>1, SchedulerAssumption, FS_Subset, FS_CardinalityType

\* A step that registers, triggers and counts nothing keeps the count right.
LEMMA WaitKept ==
    ASSUME WaitInv, IInv, UNCHANGED <<events, fdlock, pending>>,
           \A t \in Workers : pc'[t] = "count" <=> pc[t] = "count"
    PROVE  WaitInv'
<1>1. fdlock \in [Fibers -> Workers \cup {None}]
  BY DEF IInv, TypeInv, TypeOK, EventOK
<1>2. LockInv'
  BY <1>1 DEF WaitInv, LockInv
<1>3. PendInv'
  BY DEF WaitInv, PendInv, Locked
<1> QED BY <1>2, <1>3 DEF WaitInv

\* addEvent adds the running fiber's event, which is not registered.
LEMMA WaitCounted ==
    ASSUME WaitInv, IInv, NEW t \in Workers, Wait(t)
    PROVE  WaitInv'
<1> DEFINE r == Running(t)
<1>1. fdlock \in [Fibers -> Workers \cup {None}] /\ pending \in Int
  BY DEF IInv, TypeInv, TypeOK, EventOK
<1>2. pc[t] = "run" /\ Goto(t, "park") /\ fdlock[r] = None /\ fdlock' = fdlock
      /\ events' = events \cup {r} /\ pending' = pending + 1
  BY DEF Wait, At
<1>3. r \in Fibers
  BY <1>2, OfWorker DEF Critical, Inside
<1>4. r \notin events
  <2>1. fstate[r] = "RUNNING"
    BY <1>2 DEF IInv, FiberInv, StateInv
  <2>2. ~Parking(r)
    BY <1>2, <1>3, OfWorker DEF Parking, On, Running, Inside
  <2> QED BY <1>3, <2>1, <2>2 DEF IInv, FiberInv, WakeInv, WakeOf, Waiting
<1>5. \A u \in Workers : pc'[u] = "count" <=> pc[u] = "count"
  BY <1>2, GotoMoves, WorkersAreThreads
<1>6. LockInv'
  BY <1>1, <1>2, <1>3, <1>5 DEF WaitInv, LockInv
<1>7. PendInv'
  <2>1. (events \cup Locked)' = (events \cup Locked) \cup {r} /\ r \notin events \cup Locked
    BY <1>2, <1>4 DEF Locked
  <2>2. Cardinality((events \cup Locked) \cup {r}) = Cardinality(events \cup Locked) + 1
    BY <2>1, WaitFinite, FS_AddElement
  <2> QED BY <1>2, <2>1, <2>2 DEF WaitInv, PendInv
<1> QED BY <1>6, <1>7 DEF WaitInv

\* cancelEvent takes a registered event off at once.
LEMMA CancelCounted ==
    ASSUME WaitInv, IInv, NEW t \in Workers, NEW f \in Fibers, Cancel(t, f)
    PROVE  WaitInv'
<1>1. fdlock \in [Fibers -> Workers \cup {None}] /\ pending \in Int
  BY DEF IInv, TypeInv, TypeOK, EventOK
<1>2. UNCHANGED <<pc, fdlock>> /\ f \in events /\ fdlock[f] = None
      /\ events' = events \ {f} /\ pending' = pending - 1
  BY DEF Cancel, Forget
<1>3. LockInv'
  BY <1>1, <1>2 DEF WaitInv, LockInv
<1>4. PendInv'
  <2>1. (events \cup Locked)' = (events \cup Locked) \ {f} /\ f \in events \cup Locked
    BY <1>2 DEF Locked
  <2>2. Cardinality((events \cup Locked) \ {f}) = Cardinality(events \cup Locked) - 1
    BY <2>1, WaitFinite, FS_RemoveElement
  <2> QED BY <1>2, <2>1, <2>2 DEF WaitInv, PendInv
<1> QED BY <1>3, <1>4 DEF WaitInv

\* A triggered event is still counted, as its FdContext is locked.
LEMMA TriggerCounted ==
    ASSUME WaitInv, IInv, NEW t \in Workers, Trigger(t)
    PROVE  WaitInv'
<1>1. fdlock \in [Fibers -> Workers \cup {None}] /\ evs[t] \subseteq Fibers
  BY DEF IInv, TypeInv, TypeOK, EventOK, IdleOK
<1>2. PICK f \in evs[t] :
        /\ fdlock[f] = None
        /\ IF f \in events
           THEN /\ Forget(f)
                /\ fdlock' = [fdlock EXCEPT ![f] = t]
                /\ Goto(t, "count")
           ELSE UNCHANGED <<events, fdlock, pc>>
  BY DEF Trigger
<1>3. pc[t] = "events" /\ pending' = pending
  BY DEF Trigger, At
<1>4. CASE f \notin events
  BY <1>2, <1>3, <1>4, WaitKept
<1>5. CASE f \in events
  <2>1. events' = events \ {f} /\ fdlock' = [fdlock EXCEPT ![f] = t] /\ Goto(t, "count")
    BY <1>2, <1>5 DEF Forget
  <2>2. pc'[t] = "count" /\ \A u \in Workers \ {t} : pc'[u] = pc[u]
    BY <2>1, GotoMoves, WorkersAreThreads
  <2>3. fdlock'[f] = t /\ \A g \in Fibers \ {f} : fdlock'[g] = fdlock[g] /\ fdlock[g] # t
    BY <1>1, <1>3, <2>1, NoneIsNobody DEF WaitInv, LockInv
  <2>4. LockInv'
    <3>1. \A g \in Fibers : fdlock'[g] # None => pc'[fdlock'[g]] = "count" /\ g \notin events'
      BY <1>1, <2>1, <2>2, <2>3 DEF WaitInv, LockInv
    <3>2. \A u \in Workers : pc'[u] = "count" => \E g \in Fibers : fdlock'[g] = u
      <4> SUFFICES ASSUME NEW u \in Workers, pc'[u] = "count", u # t
                   PROVE  \E g \in Fibers : fdlock'[g] = u
        BY <1>1, <2>3
      <4>1. PICK g \in Fibers : fdlock[g] = u
        BY <2>2 DEF WaitInv, LockInv
      <4>2. g # f
        BY <1>2, <4>1, NoneIsNobody
      <4> QED BY <2>3, <4>1, <4>2
    <3>3. \A g, h \in Fibers : fdlock'[g] # None /\ fdlock'[g] = fdlock'[h] => g = h
      BY <2>3 DEF WaitInv, LockInv
    <3> QED BY <3>1, <3>2, <3>3 DEF LockInv
  <2>5. PendInv'
    <3>1. Locked' = Locked \cup {f}
      BY <1>1, <2>3, NoneIsNobody DEF Locked
    <3>2. (events \cup Locked)' = events \cup Locked
      BY <1>5, <2>1, <3>1
    <3> QED BY <1>3, <3>2 DEF WaitInv, PendInv
  <2> QED BY <2>4, <2>5 DEF WaitInv
<1> QED BY <1>4, <1>5

\* It is counted off when the FdContext is released.
LEMMA CountDownCounted ==
    ASSUME WaitInv, IInv, NEW t \in Workers, CountDown(t)
    PROVE  WaitInv'
<1>1. fdlock \in [Fibers -> Workers \cup {None}]
  BY DEF IInv, TypeInv, TypeOK, EventOK
<1>2. pc[t] = "count" /\ Goto(t, "events") /\ events' = events /\ pending' = pending - 1
      /\ fdlock' = [f \in Fibers |-> IF fdlock[f] = t THEN None ELSE fdlock[f]]
  BY DEF CountDown, At
<1>3. PICK f \in Fibers : fdlock[f] = t
  BY <1>2 DEF WaitInv, LockInv
<1>4. f \notin events /\ \A g \in Fibers \ {f} : fdlock[g] # t
  BY <1>3, NoneIsNobody DEF WaitInv, LockInv
<1>5. fdlock'[f] = None /\ \A g \in Fibers \ {f} : fdlock'[g] = fdlock[g]
  BY <1>2, <1>3, <1>4
<1>6. pc'[t] = "events" /\ \A u \in Workers \ {t} : pc'[u] = pc[u]
  BY <1>2, GotoMoves, WorkersAreThreads
<1>7. LockInv'
  <2>1. \A g \in Fibers : fdlock'[g] # None => pc'[fdlock'[g]] = "count" /\ g \notin events'
    BY <1>1, <1>2, <1>4, <1>5, <1>6 DEF WaitInv, LockInv
  <2>2. \A u \in Workers : pc'[u] = "count" => \E g \in Fibers : fdlock'[g] = u
    BY <1>3, <1>5, <1>6 DEF WaitInv, LockInv
  <2>3. \A g, h \in Fibers : fdlock'[g] # None /\ fdlock'[g] = fdlock'[h] => g = h
    BY <1>5 DEF WaitInv, LockInv
  <2> QED BY <2>1, <2>2, <2>3 DEF LockInv
<1>8. PendInv'
  <2>1. (events \cup Locked)' = (events \cup Locked) \ {f} /\ f \in events \cup Locked
    BY <1>2, <1>3, <1>4, <1>5, NoneIsNobody DEF Locked
  <2>2. Cardinality((events \cup Locked) \ {f}) = Cardinality(events \cup Locked) - 1
    BY <2>1, WaitFinite, FS_RemoveElement
  <2> QED BY <1>2, <2>1, <2>2 DEF WaitInv, PendInv
<1> QED BY <1>7, <1>8 DEF WaitInv

\* No step gets the count of events wrong.
LEMMA WaitStep == IInv /\ WaitInv /\ [Next]_vars => WaitInv'
<1> SUFFICES ASSUME IInv, WaitInv, [Next]_vars PROVE WaitInv'
  OBVIOUS
<1> USE WorkersAreThreads
<1>1. ASSUME NEW t \in Threads \cup {Main}, NEW p, Goto(t, p), p # "count", pc[t] # "count",
             UNCHANGED <<events, fdlock, pending>>
      PROVE  WaitInv'
  BY <1>1, GotoMoves, WaitKept
<1>2. ASSUME UNCHANGED <<events, fdlock, pending, pc>>
      PROVE  WaitInv'
  BY <1>2, WaitKept
<1> USE DEF At
<1>3. ASSUME NEW t \in Workers, RunStep(t)
      PROVE  WaitInv'
  <2>1. CASE Take(t)
    <3>1. PICK p \in {"lambda", "lock"} : Goto(t, p)
      BY <2>1 DEF Take
    <3> QED BY <1>1, <2>1, <3>1 DEF Take
  <2>2. CASE TakeNone(t)
    BY <1>1, <2>2 DEF TakeNone
  <2>3. CASE Create(t)
    BY <1>1, <2>3 DEF Create
  <2>4. CASE Lock(t)
    BY <1>1, <2>4 DEF Lock
  <2>5. CASE Resume(t)
    BY <1>1, <2>5 DEF Resume
  <2>6. CASE Lambda(t)
    BY <1>1, <2>6 DEF Lambda
  <2>7. CASE Retire(t)
    BY <1>1, <2>7 DEF Retire
  <2> QED BY <1>3, <2>1, <2>2, <2>3, <2>4, <2>5, <2>6, <2>7 DEF RunStep
<1>4. ASSUME NEW t \in Workers, BodyStep(t)
      PROVE  WaitInv'
  <2>1. CASE Sleep(t)
    BY <1>1, <2>1 DEF Sleep
  <2>2. CASE Wait(t)
    BY <2>2, WaitCounted
  <2>3. CASE Yield(t)
    BY <1>1, <2>3 DEF Yield
  <2>4. CASE Finish(t)
    BY <1>1, <2>4 DEF Finish
  <2>5. ASSUME NEW f \in Fibers, Spawn(t, f)
        PROVE  WaitInv'
    BY <1>2, <2>5 DEF Spawn, Submit
  <2>6. ASSUME NEW f \in Fibers, Cancel(t, f)
        PROVE  WaitInv'
    BY <2>6, CancelCounted
  <2> QED BY <1>4, <2>1, <2>2, <2>3, <2>4, <2>5, <2>6 DEF BodyStep
<1>5. ASSUME NEW t \in Workers, CheckStep(t)
      PROVE  WaitInv'
  <2>1. CASE GoIdle(t)
    BY <1>1, <2>1 DEF GoIdle
  <2>2. CASE StoppingTimers(t)
    BY <1>1, <2>2 DEF StoppingTimers
  <2>3. CASE StoppingEvents(t)
    BY <1>1, <2>3 DEF StoppingEvents
  <2>4. CASE StoppingTasks(t)
    BY <1>1, <2>4 DEF StoppingTasks
  <2>5. CASE LeaveIdle(t)
    BY <1>1, <2>5 DEF LeaveIdle
  <2> QED BY <1>5, <2>1, <2>2, <2>3, <2>4, <2>5 DEF CheckStep
<1>6. ASSUME NEW t \in Workers, PollStep(t)
      PROVE  WaitInv'
  <2>1. CASE EpollReturns(t)
    BY <1>1, <2>1 DEF EpollReturns
  <2>2. CASE EpollTimeout(t)
    BY <1>1, <2>2 DEF EpollTimeout
  <2>3. CASE Expire(t)
    BY <1>1, <2>3 DEF Expire
  <2>4. CASE ScheduleCb(t)
    BY <1>2, <2>4 DEF ScheduleCb
  <2>5. CASE CbsDone(t)
    BY <1>1, <2>5 DEF CbsDone
  <2>6. CASE EventsDone(t)
    BY <1>1, <2>6 DEF EventsDone
  <2> QED
    BY <1>6, <2>1, <2>2, <2>3, <2>4, <2>5, <2>6, TriggerCounted, CountDownCounted DEF PollStep
<1>7. CASE MainStep
  <2>1. CASE Stop
    BY <1>1, <2>1 DEF Stop
  <2>2. CASE StopRun
    BY <1>1, <2>2 DEF StopRun
  <2>3. CASE Join
    BY <1>1, <2>3 DEF Join
  <2>4. CASE StopTickle \/ \E f \in Fibers : MainSubmit(f)
    BY <1>2, <2>4 DEF StopTickle, MainSubmit, Submit
  <2> QED BY <1>7, <2>1, <2>2, <2>3, <2>4 DEF MainStep, StopStep
<1>8. ASSUME NEW t \in Threads \cup {Main}, Tickle(t)
      PROVE  WaitInv'
  BY <1>2, <1>8 DEF Tickle
<1>9. ASSUME NEW f \in Fibers, Due(f) \/ Ready(f)
      PROVE  WaitInv'
  BY <1>2, <1>9 DEF Due, Ready
<1>10. CASE UNCHANGED vars
  BY <1>2, <1>10 DEF vars
<1> QED
  BY <1>3, <1>4, <1>5, <1>6, <1>7, <1>8, <1>9, <1>10 DEF Next, WorkerStep, Terminated

\* The count is right before anybody runs.
LEMMA WaitInit == Init => WaitInv
<1> SUFFICES ASSUME Init PROVE WaitInv
  OBVIOUS
<1>1. \A t \in Workers : pc[t] \in {"take", "submit"}
  BY WorkersAreThreads DEF Init
<1>2. LockInv
  BY <1>1 DEF Init, LockInv
<1>3. events \cup Locked = {}
  BY DEF Init, Locked
<1> QED BY <1>2, <1>3, FS_EmptySet DEF Init, WaitInv, PendInv

\* For any number of workers and whatever is pinned: m_pendingEventCount is the number
\* of registered events and of triggered ones whose FdContext is still locked, so that
\* IOManager::stopping, which finds it 0, finds no event (ioscheduler.cpp:347).
THEOREM PendingCounted == Spec => [](pending = Cardinality(events \cup Locked))
<1>1. Init => IInv /\ WaitInv
  BY TypeInit, FiberInit, WaitInit DEF IInv
<1>2. IInv /\ WaitInv /\ [Next]_vars => (IInv /\ WaitInv)'
  BY TypeStep, FiberStep, WaitStep DEF IInv
<1>3. WaitInv => pending = Cardinality(events \cup Locked)
  BY DEF WaitInv, PendInv
<1> QED BY <1>1, <1>2, <1>3, PTL DEF Spec

-----------------------------------------------------------------------------
(* With one worker the three reads of IOManager::stopping() are one: nobody *)
(* else registers a timer or an event between them.                         *)

\* What the only worker has read stays true while it reads on, and once its idle
\* fiber has ended.
OneInv(w) ==
    /\ pc[w] = "stop2" => timers = {}
    /\ pc[w] = "stop3" => timers = {} /\ pending = 0
    /\ w \in idleDone => /\ pc[w] \in {"leave", "take", "goidle"} \cup Ended
                         /\ tasks = <<>> /\ timers = {} /\ pending = 0

\* Where the idle fiber has not ended, nothing is promised but after a check.
LEMMA OneMoves ==
    ASSUME NEW w, w \notin idleDone', pc'[w] \notin {"stop2", "stop3"}
    PROVE  OneInv(w)'
BY DEF OneInv

\* A step of another thread, or of the environment.
LEMMA OneKept ==
    ASSUME NEW w, OneInv(w), UNCHANGED <<timers, pending, idleDone>>,
           w \in idleDone => UNCHANGED tasks,
           pc'[w] = pc[w]
    PROVE  OneInv(w)'
BY DEF OneInv

\* No step makes false what the only worker has read.
LEMMA OneStep ==
    ASSUME NEW w, Workers = {w}, IInv, EndInv, OneInv(w), [Next]_vars
    PROVE  OneInv(w)'
<1>1. w \in Threads \cup {Main} /\ w \in Workers
  BY WorkersAreThreads
<1>2. ASSUME NEW p, Goto(w, p)
      PROVE  pc'[w] = p
  BY <1>1, <1>2, GotoMoves
<1>3. w \in idleDone => pc[w] \in {"leave", "take", "goidle", "exit", "join", "done"}
                        /\ tasks = <<>> /\ timers = {} /\ pending = 0
  BY DEF OneInv, Ended
<1>4. ASSUME NEW p, Goto(w, p), p \notin {"stop2", "stop3"}, w \notin idleDone, UNCHANGED idleDone
      PROVE  OneInv(w)'
  BY <1>2, <1>4, OneMoves
<1>5. ASSUME pc[w] \notin {"stop2", "stop3"}, w \notin idleDone, UNCHANGED <<pc, idleDone>>
      PROVE  OneInv(w)'
  BY <1>5, OneMoves
<1> USE DEF At
<1>6. CASE RunStep(w)
  <2>1. CASE Take(w)
    <3>1. PICK p \in {"lambda", "lock"} : Goto(w, p)
      BY <2>1 DEF Take
    <3>2. tasks # <<>>
      BY <2>1 DEF Take
    <3> QED BY <1>3, <1>4, <2>1, <3>1, <3>2 DEF Take
  <2>2. CASE TakeNone(w)
    BY <1>2, <2>2 DEF TakeNone, OneInv
  <2>3. CASE Create(w)
    BY <1>3, <1>4, <2>3 DEF Create
  <2>4. CASE Lock(w)
    BY <1>3, <1>4, <2>4 DEF Lock
  <2>5. CASE Resume(w)
    BY <1>3, <1>4, <2>5 DEF Resume
  <2>6. CASE Lambda(w)
    BY <1>3, <1>4, <2>6 DEF Lambda
  <2>7. CASE Retire(w)
    BY <1>3, <1>4, <2>7 DEF Retire
  <2> QED BY <1>6, <2>1, <2>2, <2>3, <2>4, <2>5, <2>6, <2>7 DEF RunStep
<1>7. CASE BodyStep(w)
  <2>1. CASE Sleep(w)
    BY <1>3, <1>4, <2>1 DEF Sleep
  <2>2. CASE Wait(w)
    BY <1>3, <1>4, <2>2 DEF Wait
  <2>3. CASE Yield(w)
    BY <1>3, <1>4, <2>3 DEF Yield
  <2>4. CASE Finish(w)
    BY <1>3, <1>4, <2>4 DEF Finish
  <2>5. ASSUME NEW f \in Fibers, Spawn(w, f) \/ Cancel(w, f)
        PROVE  OneInv(w)'
    BY <1>3, <1>5, <2>5 DEF Spawn, Submit, Cancel
  <2> QED BY <1>7, <2>1, <2>2, <2>3, <2>4, <2>5 DEF BodyStep
<1>8. CASE CheckStep(w)
  <2>1. CASE GoIdle(w)
    <3>1. CASE w \in idleDone
      <4>1. pc'[w] \in Ended /\ UNCHANGED <<tasks, timers, pending, idleDone>>
        BY <1>2, <2>1, <3>1 DEF GoIdle, IdleFiberEnded, Ended
      <4> QED BY <1>3, <3>1, <4>1 DEF OneInv, Ended
    <3>2. CASE w \notin idleDone
      BY <1>4, <2>1, <3>2 DEF GoIdle, IdleFiberEnded
    <3> QED BY <3>1, <3>2
  <2>2. CASE StoppingTimers(w)
    <3>1. CASE timers = {}
      BY <1>2, <1>3, <2>2, <3>1 DEF StoppingTimers, OneInv
    <3>2. CASE timers # {}
      BY <1>3, <1>4, <2>2, <3>2 DEF StoppingTimers
    <3> QED BY <3>1, <3>2
  <2>3. CASE StoppingEvents(w)
    <3>1. CASE pending = 0
      BY <1>2, <1>3, <2>3, <3>1 DEF StoppingEvents, NoPending, OneInv
    <3>2. CASE pending # 0
      BY <1>3, <1>4, <2>3, <3>2 DEF StoppingEvents, NoPending
    <3> QED BY <3>1, <3>2
  <2>4. CASE StoppingTasks(w)
    <3>1. CASE QueueDrained
      BY <1>2, <2>4, <3>1 DEF StoppingTasks, QueueDrained, OneInv
    <3>2. CASE ~QueueDrained
      BY <1>3, <1>4, <2>4, <3>2 DEF StoppingTasks
    <3> QED BY <3>1, <3>2
  <2>5. CASE LeaveIdle(w)
    BY <1>2, <2>5 DEF LeaveIdle, OneInv
  <2> QED BY <1>8, <2>1, <2>2, <2>3, <2>4, <2>5 DEF CheckStep
<1>9. CASE PollStep(w)
  <2>1. CASE EpollReturns(w)
    BY <1>3, <1>4, <2>1 DEF EpollReturns
  <2>2. CASE EpollTimeout(w)
    BY <1>3, <1>4, <2>2 DEF EpollTimeout
  <2>3. CASE Expire(w)
    BY <1>3, <1>4, <2>3 DEF Expire
  <2>4. CASE ScheduleCb(w)
    BY <1>3, <1>5, <2>4 DEF ScheduleCb
  <2>5. CASE CbsDone(w)
    BY <1>3, <1>4, <2>5 DEF CbsDone
  <2>6. CASE Trigger(w)
    BY <1>3, <1>4, <1>5, <2>6 DEF Trigger
  <2>7. CASE CountDown(w)
    BY <1>3, <1>4, <2>7 DEF CountDown
  <2>8. CASE EventsDone(w)
    BY <1>3, <1>4, <2>8 DEF EventsDone
  <2> QED BY <1>9, <2>1, <2>2, <2>3, <2>4, <2>5, <2>6, <2>7, <2>8 DEF PollStep
<1>10. ASSUME NEW p, Goto(Main, p), UNCHANGED <<timers, pending, idleDone, tasks>>,
              Main = w => p \notin {"stop2", "stop3"} /\ (w \in idleDone => p \in Ended)
       PROVE  OneInv(w)'
  <2>1. pc'[Main] = p /\ (w # Main => pc'[w] = pc[w])
    BY <1>1, <1>10, GotoMoves
  <2>2. CASE w # Main
    BY <1>10, <2>1, <2>2, OneKept
  <2>3. CASE w = Main
    BY <1>10, <2>1, <2>3 DEF OneInv
  <2> QED BY <2>2, <2>3
<1>11. CASE MainStep
  <2>1. CASE Stop
    BY <1>3, <1>10, <2>1 DEF Stop
  <2>2. CASE StopTickle
    BY <2>2, OneKept DEF StopTickle
  <2>3. CASE StopRun
    <3>1. PICK p \in {"take", "join"} : Goto(Main, p)
      BY <2>3 DEF StopRun
    <3> QED BY <1>3, <1>10, <2>3, <3>1 DEF StopRun
  <2>4. CASE Join
    BY <1>10, <2>4 DEF Join, Ended
  <2>5. ASSUME NEW f \in Fibers, MainSubmit(f)
        PROVE  OneInv(w)'
    <3>1. w \notin idleDone
      BY <2>5 DEF MainSubmit, EndInv, StopInv
    <3> QED BY <2>5, <3>1, OneKept DEF MainSubmit, Submit
  <2> QED BY <1>11, <2>1, <2>2, <2>3, <2>4, <2>5 DEF MainStep, StopStep
<1>12. ASSUME NEW t \in Threads \cup {Main}, Tickle(t)
       PROVE  OneInv(w)'
  BY <1>12, OneKept DEF Tickle
<1>13. ASSUME NEW f \in Fibers, Due(f) \/ Ready(f)
       PROVE  OneInv(w)'
  BY <1>13, OneKept DEF Due, Ready
<1>14. CASE UNCHANGED vars
  BY <1>14, OneKept DEF vars
<1> QED
  BY <1>6, <1>7, <1>8, <1>9, <1>11, <1>12, <1>13, <1>14 DEF Next, WorkerStep, Terminated

\* When the only worker has left, nobody sleeps, waits or is to run.
LEMMA OneAbandonsNobody ==
    ASSUME NEW w, Workers = {w}, IInv, EndInv, RunInv, WaitInv, OneInv(w)
    PROVE  NobodyAbandoned
<1> SUFFICES ASSUME AllLeft
             PROVE  /\ timers = {} /\ events = {} /\ pending = 0
                    /\ \A f \in Fibers : fstate[f] \in {"NONE", "TERM"}
  BY DEF NobodyAbandoned
<1>1. pc[w] \in Ended
  BY DEF AllLeft, Ended
<1>2. w \in idleDone
  BY <1>1 DEF EndInv, StopInv
<1>3. tasks = <<>> /\ timers = {} /\ pending = 0
  BY <1>2 DEF OneInv
<1>4. events = {}
  BY <1>3, WaitFinite, FS_EmptySet DEF WaitInv, PendInv
<1>5. ASSUME NEW f \in Fibers
      PROVE  fstate[f] \in {"NONE", "TERM"}
  <2>1. ~Queued(f) /\ ~Timed(f) /\ ~Waiting(f)
    BY <1>3, <1>4 DEF Queued, Timed, Waiting
  <2>2. ~Held(f) /\ ~Expired(f)
    BY <1>1 DEF Held, Holds, Expired, Ended, IInv, TypeInv, LocalInv
  <2>3. fstate[f] \notin {"CB", "READY"}
    BY <2>1, <2>2 DEF IInv, FiberInv, WakeInv, WakeOf
  <2>4. fstate[f] # "RUNNING"
    BY <1>1 DEF RunInv, RunningInv, On, Ended
  <2> QED BY <2>3, <2>4 DEF IInv, TypeInv, TypeOK, FiberOK
<1> QED BY <1>3, <1>4, <1>5

\* A pool of one worker, the root thread or one it created, abandons nobody, whatever
\* is pinned to it (the comment at ioscheduler.cpp:346): when it has left run(), no
\* timer and no event is left, and each fiber has finished or was never scheduled.
THEOREM NobodyLeftBehind == ASSUME NEW w, Workers = {w} PROVE Spec => []NobodyAbandoned
<1> DEFINE I == IInv /\ EndInv /\ RunInv /\ WaitInv /\ OneInv(w)
<1>1. Init => I
  <2> SUFFICES ASSUME Init PROVE I
    OBVIOUS
  <2>1. IInv /\ EndInv /\ RunInv /\ WaitInv
    BY TypeInit, FiberInit, EndInit, MapInit, WaitInit DEF IInv
  <2>2. pc[w] \in {"take", "submit"} /\ w \notin idleDone
    BY WorkersAreThreads DEF Init
  <2> QED BY <2>1, <2>2 DEF OneInv
<1>2. I /\ [Next]_vars => I'
  <2> SUFFICES ASSUME I, [Next]_vars PROVE I'
    OBVIOUS
  <2>1. FreeOfPins
    BY SchedulerAssumption DEF FreeOfPins
  <2>2. IInv'
    BY TypeStep, FiberStep DEF IInv
  <2>3. EndInv'
    BY <2>1, CountStep, FreeStep, EndStep DEF EndInv
  <2>4. RunInv'
    BY <2>2, MapStep
  <2> QED BY <2>2, <2>3, <2>4, WaitStep, OneStep
<1>3. I => NobodyAbandoned
  BY OneAbandonsNobody
<1> QED BY <1>1, <1>2, <1>3, PTL DEF Spec

\* In a pool of several workers the tests of stopping() are three (ioscheduler.cpp:
\* 343-348), and a fiber may move from what one of them reads to what another does
\* between them.  What the last worker to leave can leave behind is a fiber that sleeps
\* or waits, and nothing else: no task, no expired callback that was not run, no fiber
\* amid its work; and m_pendingEventCount tells how many wait.
THEOREM OnlyWaitersLeft ==
    ASSUME FreeOfPins
    PROVE  Spec => [](AllLeft =>
             /\ pending = Cardinality(events)
             /\ \A f \in Fibers : \/ fstate[f] \in {"NONE", "TERM"}
                                  \/ fstate[f] = "READY" /\ f \in timers \cup events)
<1> DEFINE I == IInv /\ EndInv /\ RunInv /\ WaitInv
           Left == AllLeft =>
             /\ pending = Cardinality(events)
             /\ \A f \in Fibers : \/ fstate[f] \in {"NONE", "TERM"}
                                  \/ fstate[f] = "READY" /\ f \in timers \cup events
<1>1. Init => I
  BY TypeInit, FiberInit, EndInit, MapInit, WaitInit DEF IInv
<1>2. I /\ [Next]_vars => I'
  <2> SUFFICES ASSUME I, [Next]_vars PROVE I'
    OBVIOUS
  <2>1. IInv'
    BY TypeStep, FiberStep DEF IInv
  <2>2. EndInv'
    BY CountStep, FreeStep, EndStep DEF EndInv
  <2>3. RunInv'
    BY <2>1, MapStep
  <2> QED BY <2>1, <2>2, <2>3, WaitStep
<1>3. I => Left
  <2> SUFFICES ASSUME I, AllLeft PROVE Left
    OBVIOUS
  <2>1. \A t \in Workers : pc[t] \in Ended
    BY DEF AllLeft, Ended
  <2>2. tasks = <<>>
    BY <2>1 DEF EndInv, LastInv, Gone
  <2>3. pending = Cardinality(events)
    <3>1. fdlock \in [Fibers -> Workers \cup {None}]
      BY DEF IInv, TypeInv, TypeOK, EventOK
    <3>2. Locked = {}
      BY <2>1, <3>1 DEF Locked, WaitInv, LockInv, Ended
    <3>3. events \cup Locked = events
      BY <3>2
    <3> QED BY <3>3 DEF WaitInv, PendInv
  <2>4. ASSUME NEW f \in Fibers, fstate[f] \notin {"NONE", "TERM"}
        PROVE  fstate[f] = "READY" /\ f \in timers \cup events
    <3>1. ~Queued(f) /\ ~Held(f) /\ ~Expired(f)
      BY <2>1, <2>2 DEF Queued, Held, Holds, Expired, Ended, IInv, TypeInv, LocalInv
    <3>2. fstate[f] # "RUNNING"
      BY <2>1 DEF RunInv, RunningInv, On, Ended
    <3>3. fstate[f] \in {"CB", "READY"}
      BY <2>4, <3>2 DEF IInv, TypeInv, TypeOK, FiberOK
    <3>4. f \in timers \cup events
      BY <3>1, <3>3 DEF IInv, FiberInv, WakeInv, WakeOf, Timed, Waiting
    <3> QED BY <3>3, <3>4 DEF IInv, FiberInv, KindInv, FreshKind
  <2> QED BY <2>3, <2>4
<1> HIDE DEF I
<1>4. Spec => []Left
  BY <1>1, <1>2, <1>3, PTL DEF Spec
<1> QED BY <1>4
=============================================================================
