# A verification project for RPCCoroutineServiceFramework

The framework is an RPC system on stackful coroutines: a coroutine library
(`src/CoroutineLibrary`) that schedules fibers over a pool of threads, with an
epoll-driven IO manager, timers and hooked system calls; a TCP server and a
service registry on top of it (`src/server`); and the RPC provider and channel
(`src/RPC`). This directory holds TLA+ modules of its parts, the TLC
configurations that check them on small instances, and theorems about them that
TLAPS proves for every instance.

## Inventory

| Component | State | Operations | Talks to |
|---|---|---|---|
| **Scheduler** (`scheduler.*`) | `m_tasks`, `m_mutex`, `m_activeThreadCount`, `m_idleThreadCount`, `m_stopping`, per worker the local `task` and the idle fiber | `scheduleLock`, `run`, `start`, `stop`, `stopping` | resumes Fibers; calls the virtual `idle`, `tickle` |
| **Fiber** (`fiber.*`) | `m_state`, `m_mutex`, the context; thread-locals for the current and the scheduler fiber | `resume`, `yield`, `MainFunc`, `reset` | swaps context with the scheduler |
| **IOManager** (`ioscheduler.*`) | `m_fdContexts` (each with a mutex, registered events, one fiber or callback per event), `m_pendingEventCount`, the epoll descriptor, the tickle pipe | `addEvent`, `delEvent`, `cancelEvent`, `cancelAll`, `idle`, `tickle`, `stopping` | is the Scheduler and the TimerManager |
| **Timer** (`timer.*`) | the set `m_timers` ordered by deadline, `m_tickled`, `m_previouseTime` | `addTimer`, `addConditionTimer`, `cancel`, `refresh`, `reset`, `getNextTimer`, `listExpiredCb` | wakes the IOManager when the front changes |
| **Hook** (`hook.*`) | none of its own; `timer_info` per blocked call | `sleep` and kin, `do_io` (read, write, accept, ...), `connect`, `close`, `fcntl`, `setsockopt` | Timer, IOManager, FdManager |
| **FdManager** (`fd_manager.*`) | the vector of `FdCtx` (socket, non-blocking, timeouts) | `get`, `del` | Hook |
| **Thread, Semaphore** (`thread.*`) | the start handshake | constructor, `run`, `join` | Scheduler |
| **TcpServer** (`tcp_server.*`) | listening sockets, `m_isStop` | `bind`, `start`, `startAccept`, `stop`, `handleClient` | schedules an accept fiber per socket and a fiber per client |
| **RpcServer, rpc_conn** (`rpc_server.*`, `rpc_conn.*`) | the registry: services, their providers, the connections | register, look up, heartbeat | TcpServer |
| **RpcProvider** (`provider.*`) | registered services, one client socket and buffer | `NotifyService`, `OnMessage`, `SendRpcResponse` | TcpServer |
| **RpcChannel** (`channel.*`, `control.*`) | a socket to the provider, the controller's error | `CallMethod`, `newConnect` | provider, over TCP |
| **Programs** (`main.cpp`, `example/*`) | — | the registry, a provider with its heartbeat, a client with an address cache | all of the above |
| **Socket, SSLSocket** (`socket.*`) | a descriptor, a connected flag, cached addresses, the TLS session | `bind`, `listen`, `accept`, `connect`, `reconnect`, `close`, timeouts, `send`, `recv` | Hook, FdManager |
| **Address** (`address.*`, `endian.h`) | none | masks, text, `Lookup`, interfaces, comparison, Unix paths | Socket, TcpServer |

Left aside: `config.*`, `locker.h`, `noncopyable.h` (wrappers) and the generated
`*.pb.*`.

### What is hard

The scheduler is where the difficulty is. A fiber asks to be woken (`addTimer`,
`addEvent`) *before* it yields, so the wake-up can overtake the yield and
another thread can take the task while the fiber still runs. Workers decide to
sleep and to exit from counters and containers they read one after the other
and under different locks. Tickles are edge triggered, sent only if some worker
already counted itself idle, and shared by all workers. Above it, timeouts race
with answers (`do_io`) and a descriptor is closed and its number reused under a
waiter. The registry erases what an outdated copy of its table calls old; the
provider keeps one connection and one buffer for all its handlers; the accept
fibers wait inside `do_io`, which knows nothing of `stop()`. `PROJECT.json` lists
each hazard at its line.

### What makes each component correct

* Scheduler and Fiber: a fiber runs on one thread at a time; it is resumed only
  when READY; each wake-up it asked for reaches it exactly once; what is
  scheduled is run; workers leave only when nothing is left; `stop` returns.
* IOManager: an event triggers its fiber once, whether it happens, is cancelled
  or both; `m_pendingEventCount` counts the registered events.
* Timer: a timer fires once, not before its deadline, unless it was cancelled;
  `epoll_wait` never sleeps past a deadline that was inserted meanwhile.
* Hook: a blocked call returns when its descriptor is ready, timed out or closed,
  is woken once, and never keeps its thread; `connect` tells the truth.
* FdManager: a descriptor in use has a context, made for this use of its number.
* Socket, TcpServer: every descriptor has one owner; what a Socket says of its ends
  is so; `stop` brings the accept fibers back; a waiting connection is taken.
* Registry: an entry outlives its provider, and a provider its entry, for a bounded
  time; heartbeats outrun expiry; a client that asks finds a provider.
* RPC: a call ends, is executed at most once, and its answer is its own.
* Address: a computed address, text or order says what its definition says.

## Modules

| Module | Contents |
|---|---|
| `Scheduler` | The core: scheduler, fibers and the IO manager's idle loop. |
| `FiberPool` | What the scheduler promises its fibers, abstractly. |
| `Timer` | The timers, the calls of user threads, and idle workers that expire them. |
| `IOEvents` | The events of the IO manager against the kernel's epoll. |
| `HookIO` | The hooked system calls over FdManager, timers and events. |
| `Socket` | A Socket's descriptor, flag and cached addresses; the descriptors of a process. |
| `TcpServer` | Accept fibers, handlers and `stop`, over `Socket` (EXTENDS). |
| `RpcCall` | A call from `CallMethod` to `SendRpcResponse` and back, over TCP. |
| `Registry` | The registration centre, providers with heartbeats, clients with a cache. |
| `Address`, `SocketCalls` | Pure computations: addresses; timeouts and vectored TLS I/O. |
| `SchedulerProofs`, `TimerProofs`, `IOEventsProofs`, `HookIOProofs`, `TcpServerProofs`, `RpcCallProofs`, `RegistryProofs` | Theorems about the module of that name; `SchedulerProofs` also that it implements `FiberPool`. |
| `AddressProofs` | Theorems about `Address` and `SocketCalls`, and the invariants of `MCAddress`. |
| `MCScheduler`, `MCTimer`, `MCIOEvents`, `MCHookIO`, `MCTcpServer`, `MCRpcCall`, `MCRegistry`, `MCAddress` | Instances for TLC. |

The modules stack as the code does, each with the layers below it reduced to what
it relies on and what the module below shows: `Scheduler` has the wake-ups with
timers and events as flags, `Timer` and `IOEvents` have what stands behind the
flags; `HookIO` takes for granted that a fiber is resumed after it yielded
(`ResumesReady`) and that no edge is lost (`NoLostEdge`), and treats readiness as a
level; `TcpServer`, `RpcCall` and `Registry` take a hooked call as a step that waits.

### Scheduler

The state is the task queue (`tasks`, a sequence of callbacks, fibers and timer
lambdas, each with its thread argument), the counters, and for every thread a
location `pc` and the local variable `task` of `run()`. A worker cycles through

    take -> lock -> resume -> run ( -> park ) -> retire -> take     a task
    take -> lambda -> retire -> take                                a sleep timer's lambda
    take -> goidle -> stop1 -> stop2 -> stop3 -> wait -> expire -> sched
         -> events ( -> count -> events ) -> leave -> take          the idle fiber
    take -> goidle -> exit                                          its idle fiber is TERM

Each location is a point between two critical sections of the code: taking a
task is one step (it is under `m_mutex`), `resume()` is another (the fiber's own
mutex is held from "resume" through "park"), the three tests of `stopping()`
are three steps, and `m_idleThreadCount++` is a step of its own because it comes
after `m_mutex` was released. A thread that owes a `tickle()` (it is in `owes`)
can do nothing before it, but the others can: the tickle is a step that reads
`m_idleThreadCount` when it runs.

While a fiber runs it may schedule another callback (`Spawn`), sleep (`Sleep`),
wait for its descriptor (`Wait`), cancel the wait of another fiber (`Cancel`, a
timeout or a close) or end (`Finish`). `Sleep` and `Wait` register the wake-up
and go to "park"; `Yield` is the later step, so every wake-up can overtake it.

The tickle pipe is edge triggered: `edge` is one bit, and `EpollReturns` hands
it, and all ready events, to one worker. Whether a new timer is the earliest one
depends on deadlines the module leaves out, so `Sleep` may or may not tickle.
`Due` and `Ready` are the environment: a deadline passes, a descriptor is ready.

The owner submits callbacks (`MainSubmit`) and then runs `stop()`: it sets
`m_stopping`, tickles once per worker, runs `run()` itself if `use_caller`, and
joins the threads.

`FiberPool` is the promise: a fiber is absent, scheduled, running, parking,
woken (while parking), waiting or done, runs on at most one thread, and is
resumed exactly once for each wake-up; the pool never closes over a fiber that
is scheduled or running. `ImplementsPool` says that `Scheduler` implements it
under the refinement mapping at the end of the module. `Close` allows fibers
that wait, because the code does: see the known divergences below.

### Timer

Users call `addTimer` (`Construct`, then `Insert`), `cancel`, `refresh` and
`reset` (`ResetErase`, `ResetCompute`, `Insert`: only the first and the last
hold `m_mutex`); workers go round `idle()`: `GoIdle` and `Poll` are the two calls
of `getNextTimer`, `EpollReturns` is the wake-up and the clock read at the head
of `listExpiredCb`, `ListExpired` its critical section, `Fire` hands the
callbacks to the scheduler. `Advance` and `SetBack` are the clock.

The code adds to points of time and compares them, so the module keeps
distances: `ahead` is `m_next` minus now, `since` is now minus `m_previouseTime`,
`age` is how old a worker's reading of the clock is, `wakeIn` is what is left of
its timeout. A tick is much longer than the clock's resolution: two deadlines
within a tick are different, in either order, so whether a timer is inserted at
the front is open in a tie. Only with `Coincide` are they equal, and then the set
(ordered by `m_next` alone) keeps one of the two and finds one for the other.
Two recurring timers can be given one deadline by one `listExpiredCb`, so
instances without `Coincide` have at most one.

After a rollover the loop of `listExpiredCb` does not end if a recurring timer is
there: the worker is at "spin" and keeps `m_mutex`.

### IOEvents

`events` and `ctx` are the FdContexts, `pending` is `m_pendingEventCount`, and
`queued` counts how often a waiter (a fiber, or a callback) is in `m_tasks`. An
operation holds the FdContext's mutex throughout and is one step. Calls that fail
change nothing and are no step.

epoll is modelled from how the code uses it: `level` is what holds of a
descriptor, `interest` what is registered, and `rlist` the descriptors with an
edge to report. `EpollWait` gives all of these to one thread, as its `batch`,
which it handles one by one while others change what was reported. `Ctl` is
`epoll_ctl`: ADD and MOD report anew what holds already, DEL and the closing of
the descriptor forget it, and `CtlSucceeds` says when the operation the code
chooses is one the kernel accepts. "HUP" is `EPOLLERR` or `EPOLLHUP`.

`Close` and `CloseFd` are the two halves of the hooked `close()`. `Shared` says
whether others may add events between them. A failed assertion ends the program
(`aborted`).

### HookIO

A fiber that is not in a call is at "app"; `call` holds the arguments it is working
with, which is what `do_io` keeps on its stack across `yield()`. A call goes through

    get -> create                                socket, and accept once it has a descriptor
    try ( -> add ( -> grow ) -> register -> parked -> try )
                                                 recv, send, accept through do_io
    add ( -> grow ) -> register -> parked -> check
                                                 connect
    direct                                       what the hook passes on at once
    parked                                       sleep
    del -> close                                 close, after cancelAll
    blocked                                      a thread stuck in the kernel

`BeginWait` arms the timer and `AddEvent` registers afterwards, so the timer can fire in
between. A callback is scheduled (`due`), locks `timer_info` and sets `ETIMEDOUT`
(`RunCallback`), and only then calls `cancelEvent` (`CancelEvent`) for a number that
may by now be another connection's: `aiming` counts these. `nonblock` is the
kernel's flag, `ctx[d].user` the one `fcntl` shows, `asked` what the user last set,
and `cleared` has the descriptors whose flag the user's `ioctl(FIONBIO)` with 0 has taken
from the kernel: the next call on one keeps its thread, until the kernel's own timeout
gives it back (`Unblocks`). `fresh` says that a context was made for the present use of
a number.

`addEvent` looks the FdContext up under a shared lock and, when the vector is too short,
resizes it under an exclusive lock it took anew, without a second look (`LookUp`, `Grow`):
the vector may get shorter, and drops the FdContexts behind its end. `size` is its
length, `slot` says which FdContext a descriptor has in it, or gets with the next growth,
`held` the one a fiber in `addEvent` has found, `home` the one whose waiters epoll knows.
`shrunk` are the lengths it was cut to; `Cut(d)` says that it was once too short for `d`
in this way.

### Socket and TcpServer

`fds` is what the kernel knows of each descriptor, lowest number first; `user` is a
client Socket that any fiber connects, reconnects and closes, with the descriptor its
TLS session runs over (`tls`). `Dial` is `connect` with its failures: no descriptor left,
an address of another family (`Foreign`), which replaces the remote address and leaves
the Socket as it is otherwise, and one that closes the Socket. `Bind` is all of
`bind`, which empties `m_socks` when an address fails. An accept fiber is at "task",
"loop" (the test of `m_isStop`), "call" (`accept`, on the descriptor `do_io` was called
with), "arm" (`addEvent`) or "wait"; `StopCancel` and `StopClose` are the two halves of
the function `stop()` schedules. A handler reads until a read fails, which may be never.
Every program gives the server one `IOManager(1)` for both its workers (`Shared`): a
fiber that is at "loop", "call" or "arm" keeps the thread, so nothing else of the server
runs then (`AcceptRoom`, `HandlerRoom`).

### RpcCall

A request is two pieces of a stream, "head" and "tail"; a recv returns any of what has
arrived. `server`, `inbox`, `outbox` and `torn` are TCP as the code uses it: what was
not read when a socket is closed makes the kernel send a RST, an end of stream is 0
bytes, and the first send to a closed peer succeeds. The handlers of the provider share
`m_client` and `m_read_buf`, as the code does: a handler that begins sets `m_client` and
every handler reads and answers through it. The provider's programs run on one thread
(`exampleService.cpp:187`), so one handler at a time is between two `recv`s
(`ThreadFree`), and executing a request, the reset of the shared message and the answer
are one step (`OnMessage`). `spoiled` is a ghost: more than one user at a time, a fault,
a request in parts or an unknown method.

### Registry

Time passes in ticks of 15 seconds, the period of the heartbeat; a look for expired
entries is due every 2 and an entry expires after 4. `Look` is the copy and comparison
of `doHeartbeat`, `Erase` its second critical section. `Process` is a registration or
heartbeat as the centre reads it, `Beat` a turn of `doHeart` in the provider. A
connection is "half" when its far end has gone: the first send on it succeeds, the next
one ends the program. `stale`, `lost` and `absent` measure what the properties bound,
`listed` are the providers the centre has heard of. Clients keep the address
(`GetIpAndPort`) and drop it when a call fails.

### Address and SocketCalls

Words are sets of one bits and texts are sequences; each function is an operator, and
`MCAddress` draws one input after the other and compares the result with what it
should be, said without the code's shifts, pointers and byte orders.

## Runs

| Run | Instance | Checks |
|---|---|---|
| `sched_pool` | 2 threads, 2 fibers, 1 wait each, stop at any time, fair | `SchedulerInv` (types, no task left), `RunsOnOneThread`, `ResumesReady`, `ExactlyOneWakeUp`, refinement of `FiberPool`, `StopReturns`, `ScheduledFinishesUnlessStopped` |
| `sched_caller` | the root thread alone, 2 fibers, 2 waits each, fair | `CallerServes` (nobody abandoned, whoever is scheduled finishes) |
| `timer_ops` | 2 users, 2 workers, a one-shot and a recurring timer, 1 refresh or reset | `TimerInv` (types, no armed timer lost), `ResetOutsideHeap`, `NoOversleep`, `CancelledStaysSilent`, `ExpiriesRight` (nothing early, recurring timers stay) |
| `timer_live` | 1 user, 1 worker, 2 one-shot timers, the clock set back once, fair | `Fires` |
| `ioev_ops` | 1 descriptor, 3 waiters, 3 threads | `IOEventsInv` (types, `m_pendingEventCount`), `ContextsMatch`, `TriggeredOnce`, `KernelAgrees`, `NoLostEdge` |
| `ioev_assert` | the same with 2 threads | violates `TriggersRegistered` |
| `hook_io` | 2 fibers, 1 connection number and a listener, 1 callback at a time, fair | `HookInv` (types, woken once, waiters within reach), `ContextIsOwn`, `FlagsHonoured` (no thread blocked, the user's `O_NONBLOCK` kept), `ConnectTruthful`, `TimedWaitEnds` |
| `tcp_server` | 3 addresses (two taken by another process, one of these of another family), 3 descriptors, accept loop and handlers on 1 thread, a client Socket, fair | `ServerInv` (types, one owner per descriptor), `EndsTrue`, `StopQuiet`, `PendingTaken` |
| `rpc_call` | 2 clients, 2 connections, 1 thread, 1 crash or death, requests in parts, fair | `CallInv` (types, executed at most once), `SingleUserServed`, `CallEnds`, `ServerReleases` |
| `rpc_success` | the same with whole requests | violates `SuccessMeansAnswered` |
| `registry` | 2 providers, 1 client, a centre with 2 threads, 1 tick late, fair | `RegistryInv` (types, a renewed entry is back soon), `StaleBounded`, `NobodyServesUnlisted`, `HeartbeatsSuffice`, `ClientFinds` |
| `address` | every small input | `BitsRight`, `TextsRight`, `CallsExact` |

Bounds of the scheduler. Two workers are enough for every race listed as a hazard: one
worker acts between two steps of another. Two fibers give a running fiber another one to
schedule and to cancel, and the queue two tasks. `MaxWaits` bounds how often one fiber
sleeps or waits: with one wait, a fiber is scheduled, parked, woken and finished; with
two, a wake-up of the first wait could meet the second. Each fiber is scheduled as a
callback once. No other bound: the queue, the counters and the pipe are finite because
wake-ups are.

Bounds of the timers. Periods of 1 and 2 ticks make every order of two deadlines
happen, `MaxTimeout` of 3 ticks is longer than both, so a missed tickle shows.
`MaxLate` (1 tick) bounds how long a worker waits for `m_mutex` after it read the
clock, and is the most a deadline counts as passed; `Hour` is 1 tick and the
clock jumps by 2. `MaxOps` bounds refreshes and resets, which could go on for
ever. Construction and cancellation are bounded by the number of timers.
`NeverEarly` and `NoOversleep` say nothing once the clock was set back: a
rollover expires timers on purpose, and `refresh()` then brings a deadline
forward and tickles nobody.

Bounds of the events. Descriptors share nothing but the counter and the batches,
so one is enough; three waiters are two for its events and one that comes later;
three threads can hold a current and two outdated reports. Nothing else is bounded.

Bounds of the hook. One connection number is the hardest case: every new connection
takes the number of the last one, so whatever a callback, a context or a registration
keeps of a number meets its next use. Two fibers make one close what the other's late
callback aims at, and both wait at the listener. `InitSize` (4) leaves out both numbers,
the listener's 4 and the connection's 6, so two fibers can let the vector grow at once,
for 6 to nine FdContexts and for 4 to six, in either order: one order grows it twice,
the other cuts the waiter on 6 off. `MaxBusy` bounds the callbacks on their way at a
time, as threads do; one is enough to be late. `fcntl` and `ioctl(FIONBIO)` are called
with 0 and with `O_NONBLOCK`. 864,318 states.

Bounds of the server. Three descriptors are a listener, the user's and one accepted, so
they run out; the taken addresses make `bind` fail after a Socket is listening, and the
foreign one makes `connect` fail with and without a connection. `MaxArrivals` (1) bounds
connections from outside, besides the user's; what clients send is not bounded;
`MaxBacklog` is 1. 122,782 states.

Bounds of the call. Two clients and two connections: the second is opened while what is
left of the first is still around. One fault is the crash that can hit each point of a
call; each Channel makes its five attempts. `Room` lets a call begin when a number is
left for its connection, as there always is outside the model. 86,208 states.

Bounds of the registry. Two providers of one method replace each other's entry; clients
do not meet. No counter is cut: `age`, `stale`, `lost` and `absent` stop counting above
what they are compared with. 799,901 states.

Bounds of the computations. All prefixes 0 to 128 on five bit patterns, all 3^8 choices
of groups that are zero, small or large, all hosts of up to five characters of the two
kinds that matter, all paths of up to five of four kinds, all pairs of byte strings up
to three, timeouts from -2500 to 2500 ms. 16,847 states.

Fairness of the timers. Workers and users that began an operation run, and time
passes. Nobody is obliged to begin an operation.

Fairness of the scheduler. The kernel runs every thread (`WF` of each worker's step, of
a pending tickle and of `stop()`), deadlines pass, and the descriptor a fiber waits for
becomes ready. `epoll_wait` returns after at most `MAX_TIMEOUT` (5 s), which is
`EpollTimeout`. Nobody is obliged to schedule a callback or to call `stop()`. `WF` of
the whole worker step is enough: a worker is at one location.

Fairness of the hook. Threads run what is scheduled (`WF` of each fiber's step and of
each callback), time passes (`WF` of `TimerFires`) and epoll reports what is ready.
Nobody owes a call, data or a connection.

Fairness of the server. Accept fibers and the function of `stop()` wait for a
thread in a queue that is first in, first out: strong fairness, because others may hold
the thread in between. It obliges nobody while the accept loop spins on `EMFILE`, which
gives the thread to none. Nothing is assumed of the clients or the handlers: no read has
to end, and no handler has to go on. `PendingTaken` holds when the user leaves off opening
sockets.

Fairness of the call. `WF` of the steps of clients, which have a thread of their own,
and `SF` of those of handlers, for the same reason as above; nobody owes a restart of
the provider, and the receive timeout is not needed either.

Fairness of the registry. Time passes and heartbeats, looks and the centre's handlers
take place (`SF` of `Process` and `GetIpAndPort`, which a full or restarting centre can
delay again and again). Nobody owes a launch, a crash or a restart.

What the violation runs show:

* `TriggersRegistered` (`ioscheduler.cpp:41`, `assert(events & event)`). `idle()`
  triggers every event epoll reported if one of them is still registered. When
  both events of a descriptor were reported and one is cancelled, or handled by
  another thread, in between, the assertion fails.
* `SuccessMeansAnswered` (`exampleclient.cpp:108`). The provider goes away during a
  call: `recv` returns 0, an empty string parses as a response, and the call counts as
  a success.

### Known divergences

The properties hold with the exceptions they state. What the exceptions are, and what
was met on the way, each of it found with these models or read off the code:

* Scheduler. A worker that found no task counts itself idle after it released `m_mutex`
  (`scheduler.cpp:164`): a push in between tickles nobody, and waits for the timeout of
  `epoll_wait`. With several workers `stopping()` (`ioscheduler.cpp:347`) can be true
  three tests in a row while a fiber moves from one count to another: it is never
  resumed (`NobodyAbandoned`, which therefore is asked of `sched_caller` alone, in
  `CallerServes`, and proved for one worker). A task pinned to a thread that has left
  keeps the queue full (`scheduler.cpp:110`), but nothing in the repository pins one.
  `stop()` on the creating thread of a pool without `use_caller` meets an assertion
  (`scheduler.cpp:188`).
* Timer. Two recurring timers that expire in one call get one deadline, and `std::set`
  drops the second (`timer.cpp:171`; instances with `Coincide`). After a rollover a
  recurring timer keeps the loop going for ever, `m_mutex` held (`timer.cpp:160`).
* IOManager. A descriptor used by others while it is closed (`Shared`) can keep a
  registration that epoll has dropped (`hook.cpp:443`). `addEvent` resizes the vector of
  contexts without a second look at its size (`ioscheduler.cpp:137`): if a number grows
  it while another, at least half as large again, has just done so, the vector shrinks
  and the waiter on the larger number is out of the reach of `cancelEvent` and
  `cancelAll`, and of its timeout. `HookInv` and `TimedWaitEnds` except descriptors this
  has happened to (`Cut`).
* Hook. A timer that fires before `addEvent` leaves the call without a timeout
  (`hook.cpp:134`); a callback that set out to cancel an earlier call on the number
  wakes a `connect` that then returns 0 although it is still connecting (`hook.cpp:313`;
  `strayed`); `ioctl(FIONBIO)` with 0 makes the kernel's descriptor blocking, and the
  next hooked call keeps its thread (`hook.cpp:576`; `FlagsHonoured` excepts the
  descriptors that are `cleared`, until `fcntl`, `ioctl` or a new use of the number sets
  the flag again); a timeout of 0 is one that has passed at once.
* TcpServer. With two accept threads a fiber can pass the test of `m_isStop` and enter
  `accept` after the cancellation (`AcceptThreads` = 2 violates `StopQuiet`). Stopped
  and started again while an accept fiber is still there, the fiber spins on a Socket
  without descriptor (`AtRest` excludes it). Without descriptors the loop spins on
  `EMFILE` (`tcp_server.cc:70`) and never yields: on the one thread it shares with the
  handlers none of them can give a descriptor back. `PendingTaken` says that this is the
  only way a connection waits for ever at a running server.
* Socket. `connect` to an address of another family fails, but has replaced the remote
  address (`socket.cc:196`, `204`): a connected Socket goes on with a peer it does not
  have, and a closed one keeps the descriptor it opened. `close` followed by `connect`
  keeps the old local address (`reused`), and `SSLSocket` its session (`socket.cc:517`).
  A vector over TLS of which a later buffer fails returns the failure, not what was
  sent.
* RPC. Several users at a time get each other's answers, as the example says
  (`exampleService.cpp:21`). The programs run their handlers on one thread, and so does
  the module; several would write `m_client`, `m_read_buf` and the shared messages at
  the same time (`provider.cpp:27`, `106`). A request in parts can be executed without
  arguments or be rejected; a rejected one stays in `m_read_buf`. `send` to a client
  that has gone is a `SIGPIPE`. A zero byte ends a request (`provider.cpp:39`), and 1024
  bytes an answer (`channel.cpp:108`).
* Registry. With `MaxLate` = 2 heartbeats no longer outrun expiry. Messages are whole:
  `process` has no bound on the length it is told (`rpc_conn.cpp:94`), and `reset` clears
  32 bytes of a string object's own size (`rpc_conn.cpp:68`). A client whose connection
  to the centre is gone never opens another (`exampleclient.cpp:64`).
* Address. Prefix 0 of IPv4 shifts by 32, prefix 128 of IPv6 writes behind the address
  (`address.cc:440`); `networdAddress` keeps the host part (`address.cc:348`, `450`);
  "h:h:h" is looked up with a service that begins with a colon; an abstract Unix path
  reads back with the two characters `\0` in the place of its zero (`address.cc:523`),
  and the empty path as these two; an entry of `getifaddrs` without an address, which
  the system allows, is dereferenced (`address.cc:133`) and is not among the inputs
  here.

## Proofs

`SchedulerProofs` proves, for every choice of the constants that satisfies
`SchedulerAssumption` (finitely many threads and fibers, any pins and number of
waits; `None` and `AnyThread` are no threads):

| Theorem | Statement |
|---|---|
| `TypeCorrect` | `Spec => []TypeOK` |
| `Invariance` | `Spec => []IInv`, the inductive invariant |
| `OneThreadPerFiber` | `Spec => []RunsOnOneThread` |
| `ResumeAssertion` | `Spec => []ResumesReady` |
| `WakeUpOnce` | `Spec => []ExactlyOneWakeUp` |

`TypeOK` is not inductive alone: the steps of a worker use the fiber of its local
`task`, so `TypeInv` adds `LocalInv`, that a worker at a location between taking
and retiring has a task for a fiber, and that expired callbacks are held only
while they are scheduled. Its proof goes group by group of the next-state
relation (`RunStepType`, `BodyStepType`, ...), and part by part of `TypeOK`.

`ExactlyOneWakeUp` says that the set of a fiber's wake-ups has one element or
none. The inductive invariant `FiberInv` says the same place by place: at most
one queued task, one taken task and one expired callback per fiber (`UniqueInv`),
and of the five sorts of place at most one (`WakeInv`), and it adds what keeps
this true. `MutexInv`: a fiber's mutex is held exactly by the worker inside its
`resume()`; without it a second worker could resume a fiber that is about to
park, which `Lock` excludes because the mutex is free. `StateInv`: that fiber is
READY before and RUNNING after `resume`. `KindInv`: callback tasks are for fibers
not created yet, all other wake-ups for created ones; without it a taken task
could create a fiber again. Each action has a lemma (`TakeFiber`, `LockFiber`,
...) with one step per part of the invariant; actions that move no fiber share
the lemma `Unobserved`, and the three ways an event or an expired callback is
scheduled share `QueuedFiber`.

The other theorems follow from the invariant: two workers inside `resume()` of
one fiber would both hold its mutex.

Its second part, for any workers, fibers and waits, if every callback is scheduled for
any worker, or for the only one there is (`FreeOfPins`; nothing in the repository pins a
task to a thread, and one pinned to a worker that has left would stay in `m_tasks`):

| Theorem | Statement |
|---|---|
| `EndInvariance` | `Spec => [](IInv /\ EndInv)` |
| `DestructorAssertion` | `Spec => []SchedulerInv` |
| `Implementation` | `Spec => ImplementsPool` |
| `OnlyWaitersLeft` | `Spec => [](AllLeft => ...)`: what is left behind is fibers in wait, `pending` of them at an event |

and, whatever is pinned:

| Theorem | Statement |
|---|---|
| `PendingCounted` | `Spec => [](pending = Cardinality(events \cup Locked))` |
| `NobodyLeftBehind` | if `Workers = {w}`, `Spec => []NobodyAbandoned` |

A worker leaves on three tests made one after the other, so that a task can come
between them. `LastInv` is why none is left all the same: a worker that leaves has
ended its idle fiber and has then found the queue empty; the others are still there and
take what they schedule; after `stop()` the owner schedules nothing (`StopInv`).
`active` is the number of workers between taking and retiring (`CountInv`). The
refinement adds where a running fiber is (`RunInv`): each action maps to the step of
`FiberPool` its lemma names, or to none. What `FiberPool` promises therefore holds of
every instance; that a fiber in wait can be left behind is part of the promise, and
`OnlyWaitersLeft` says that nothing else can.

It cannot in a pool of one worker, the root thread of `use_caller` or one created
thread. `m_pendingEventCount` counts the registered events and the triggered ones whose
`FdContext` is still locked (`Locked`, `PendInv`), so that 0 means that no event is left.
Nobody but the worker itself registers a timer or an event between its three tests, nor
after the last one (`OneInv`); then no wake-up is left at all, and by `IInv` no fiber
that needs one.

`TimerProofs`, for any timers, users, workers and periods:

| Theorem | Statement |
|---|---|
| `Invariance` | `Spec => []IInv` |
| `CancelledSilent` | `Spec => CancelledStaysSilent` |
| `ResetOutside` | if deadlines do not coincide, `Spec => []ResetOutsideHeap` |
| `Soundness` | `Spec => []Sound` |
| `NoTimerLost` | if deadlines do not coincide, `Spec => []TimerInv` |
| `OnTime` | if deadlines do not coincide, `Spec => []NoOversleep` |
| `NothingEarly` | `Spec => NeverEarly` |
| `Expiries` | if deadlines do not coincide, `Spec => ExpiriesRight` |

`IInv` says that what is in the set, in a user's hands or cancelled has been
constructed (else `Construct` could arm a cancelled timer, or take one that is in
the set), that a cancelled timer has no callback, and that a timer in a user's
hands is out of the set and in no other hands. The last part is where coinciding
deadlines matter: `find` may then return another timer than the one `reset()`
erases, and two threads can have the same one in hand. They are excluded by
hypothesis, not by the model: with them the code does lose timers (see above).

`Sound` adds why no worker oversleeps. `Awake`: while `m_tickled` is set, so that a
new front tickles nobody, the pipe has an edge, a user is about to tickle, or a worker
is not in `epoll_wait`; this is what lets a user skip its tickle. `NoOversleep` is then
kept by each way a deadline comes to the front. `Punctual`: while the clock was not set
back no deadline is further away than its period, so that `refresh` and `reset` only
move one later or say so. There has to be a worker, and finitely many timers, for the
front of the set to exist.

`IOEventsProofs`, for any descriptors, waiters and threads:

| Theorem | Statement |
|---|---|
| `ContextsMatched` | `Spec => []ContextsMatch` |
| `Once` | `Spec => []TriggeredOnce` |
| `KernelAgreement` | if not `Shared`, `Spec => []KernelAgrees` |
| `EdgeKept` | if not `Shared`, `Spec => []NoLostEdge` |
| `Counts` | `Spec => []IOEventsInv` |

The first two rest on `Contexts`: `TriggeredOnce` place by place (`SlotInv`), which
`TriggerContexts` shows to survive `triggerEvent`: the number of events of one
descriptor with a given waiter is 0 or 1. The others need `ClosedInv`, that nothing
is registered for a descriptor that is closed or about to be: epoll and FdContext
then agree, `CtlSucceeds` holds whenever something is registered, and an edge that
is used up was seen by a thread that will trigger its event (`HandleEdge`), or
belongs to events that are gone (`SkipEdge`), or is reported anew by `epoll_ctl`
(`CtlEdge`). `Counts` takes the registered events as one set of pairs, whose size each
operation changes as it changes `m_pendingEventCount`: `cancelAll` by what it finds,
`triggerEvent` by one.

`RegistryProofs`, for any providers and clients, any number of threads and any
`MaxLate`:

| Theorem | Statement |
|---|---|
| `StaleBound` | `Spec => []StaleBounded` |
| `Unlisted` | `Spec => []NobodyServesUnlisted` |
| `Safety` | `Spec => []RegistryInv` |
| `HeartbeatsEnough` | if `MaxLate <= 1`, `Spec => HeartbeatsSuffice` |

Bounds on time are not inductive: what has passed so far may be followed by what is
still on a clock. Each part of `IInv` adds the two up. `GoneInv`: a provider that
is down can be entered once more by what it had on its way, then `age` runs to `Expiry`
and `look` to the round that erases it. `LostInv`: one heartbeat goes into a half-open
connection, the next one ends the program. `AbsentInv` and `AgeInv`: a listed provider
is on the line, and its next heartbeat is due or on its way. There is a lemma per
action, with a step per part.

`HookIOProofs`, for any fibers, descriptors and threads:

| Theorem | Statement |
|---|---|
| `Invariance` | `Spec => []IInv` |
| `OwnContext` | `Spec => []ContextIsOwn` |
| `WokenOnce` | `Spec => []OneWakeUp` |
| `Truthful` | `Spec => ConnectTruthful` |
| `HonouredFlags` | `Spec => []FlagsHonoured` |
| `WakeUps` | `Spec => []HookInv` |

`CallsInv` says which fiber may be at which point of which call, and that it holds the
descriptor of the call, or waits at the listener. `WakeInv`: a registered waiter is
parked in that call on that descriptor for that event, and has not been woken; a woken
fiber has no registration left, and a timer is armed only inside its own call. It makes
`triggerEvent`, `cancelEvent` and the sleep timer exclude each other, although a
callback may aim at a number that has since been opened anew. `CtxInv`: `close` drops
the context before the number is free, so a number that is opened has none, and the one
`create` makes is its own. `LinkInv`: nothing is ready on a connection that is not up,
so a `connect` that finds itself woken there was woken by a stray callback. 
`FlagInv`: a descriptor with a context has the kernel's flag, unless the user's `ioctl`
has taken it away, so no call on another keeps its thread. `VecInv`: as long as the vector
was not cut off below it, a descriptor has the FdContext it had from the start; who is in
`addEvent` has found that one, and who waits is in it and within `size`, where
`cancelEvent`, `cancelAll` and `close` find it.

`TcpServerProofs`, for any finite set of addresses, whichever are taken or foreign, any
number of descriptors, of accept threads and of connections, whether or not the workers
are shared:

| Theorem | Statement |
|---|---|
| `Invariance` | `Spec => []IInv` |
| `OneOwner` | `Spec => []ServerInv` |
| `EndsKnown` | `Spec => []EndsTrue` |
| `StopIsClean` | if `AcceptThreads = 1`, `Spec => []CleanStop` |

`FdsOwned` counts holders. `OwnInv` says who they are: the Socket of a listed address
has the listening descriptor of that address, a connected one belongs to a handler or to
the user but not to both, and an address that is not listed holds no number. So a closed
number is nobody's and may be given out again, however `bind` or `accept` failed.
`UserInv`: a Socket that is not connected remembers a local address only to use it again.

`CleanStop` is what `StopQuiet` needs apart from fairness: while accept fibers are left
after the function of `stop()` has run, nothing listens, and no fiber waits for an event
or is about to register one. The function cancels, then closes. The one accept thread is
its own from the first step to the second (`RoomForOne`), so no fiber registers between
them (`CloseInv`); before them every registered event is that of a listed descriptor
(`ServeInv`, `ArmedInv`), and so is cancelled; after them `accept` fails at once.

`RpcCallProofs`, for any callers, connections, faults, and cuts of the stream:

| Theorem | Statement |
|---|---|
| `Invariance` | `Spec => []IInv` |
| `ExecutedOnce` | `Spec => []CallInv` |
| `SingleUser` | `Spec => SingleUserServed` |

`RequestInv` says where the request of a call can be: on its connection, or at the front
of `m_read_buf`, never on both, its caller awaiting the answer and nothing executed yet.
A `recv` that overlays the buffer loses the request it covers, and doubles none
(`Parts`); a caller that ends takes its name off what is still on its way (`Orphans`),
which then is executed for nobody. `SingleUser` needs, while `spoiled` is false, that
one client has a connection (`OneUser`); that the handlers of earlier ones have nothing
to read and are past their beginning, so that they neither set `m_client` nor answer
(`QuietInv`); that `m_client` is the user's connection once its handler began
(`PointerInv`); and where its call is (`CallOnItsWay`). When all connections were given
back these hold whatever happened before (`AloneCall`). `PointerInv` rests on the one
thread (`ThreadFree`): a handler that began while another runs would have that one read
and answer on the new connection.

`AddressProofs`, for inputs of any length and, unless said, any value:

| Theorem | Statement |
|---|---|
| `Broadcast4`, `Broadcast6` | The broadcast address is the last of its network. |
| `SubnetMask4`, `SubnetMask6` | A mask has ones in its prefix, whose length `CountBytes` gives back. |
| `AddressOrder` | `==` is equality and `<` a strict total order. |
| `Insert4Bytes`, `Insert6Reads` | A printed address reads back, any eight groups of two bytes included. |
| `PathReadBack` | A Unix path reads back, an abstract one with its zero written `\0`, for any `PathMax`. |
| `LookupParts` | A host is taken apart into the node and the port it was made of. |
| `InterfacesOnce` | Each IP entry of an interface is found once, whatever the list (prefixes 1 to 32). |
| `LookupChooses` | Of any answer an address is chosen, an IP one if there is one. |
| `TimeoutKept`, `VectorMoves` | The same for `SocketCalls`: any integer, any vector of buffers. |
| `BitsHold`, `TextsHold`, `CallsHold` | `Spec => []BitsRight`, `[]TextsRight`, `[]CallsExact` |

Loops are recursive functions here. The library states induction with a predicate as a
parameter, which the provers cannot instantiate; but a set that is not all of `Nat` has a
least number outside (`Least`, from `NatLessThanWellFounded`), and so `SetInduction`
takes a set in the place of the predicate. `LoopExists` shows by it that a loop whose
turn `i` maps states to states has a function of its states, which is what the CHOOSE of
a recursive function asks for; `SeqInduction` is the same for sequences. A loop is then
proved as on paper, by what holds after `i` turns: for `IPv6Address::insert` that the
text is that of the groups so far, without the zeros at their end, or has "::" in the
place of a run of zeros (`Written`, kept by `NextGroupWrites`); for a vector that what
moved begins what was to move. `CountBytes` recurses over a set, and `CountsOnes` over
its size. Prefix 0 of IPv4 and 128 of IPv6 are excepted where the code is wrong or
undefined (see above). The last three theorems follow from the others, as each input is
one that was drawn (`Drawn`).

Only model-checked:

* the liveness properties (`StopReturns`, `ScheduledFinishesUnlessStopped`,
  `Fires`, `TimedWaitEnds`, `PendingTaken`, `CallEnds`, `ServerReleases`, `ClientFinds`,
  and `CallerServes` and `StopQuiet` but for their safety halves): fairness and
  `ENABLED` are out of the prover's reach;
* what the two violation runs show, which needs one behaviour and no proof.

## Not modelled

Stacks and `ucontext` switching, `Fiber::reset` (never called by the
scheduler), `Scheduler::idle` and `Scheduler::tickle` (overridden), failures of
system calls that the code answers with an assertion, a second or later `stop()` of a
scheduler, work submitted by its owner once `stop()` runs. Of the timers, the truncation
of timeouts to milliseconds and the weak condition of `addConditionTimer`, but for what
`HookIO` has of it; of epoll, its limit of 256 reports per call.

Thread and Semaphore: the constructor waits for `run()` to have begun while
`Scheduler::start` holds `m_mutex`, so nothing interleaves with it, and `Init` of
`Scheduler` is what it leaves. Protobuf: generated code; a message is a member of a
small set. Config: a file read once before any thread starts. `locker.h`: what a lock
protects is one step.

Of Socket: UDP, the Unix constructors, certificates, printing; of TcpServer, the TLS
handshake inside the accept loop; of Address, `networdAddress`, ports and the parsing
`inet_pton` does; of the programs, logging and resource limits; of the registry,
malformed or divided messages.
