-------------------------------- MODULE HookIO --------------------------------
(***************************************************************************)
(* The hooked system calls (hook.cpp) over FdManager and over what         *)
(* IOManager offers them: fibers that call recv, send, accept, connect,    *)
(* sleep, socket, close, fcntl, ioctl and setsockopt, the timers those     *)
(* calls arm and the callbacks of these timers, which run as tasks of      *)
(* their own, on any thread.                                               *)
(*                                                                         *)
(* A step is what happens between two places where another thread can see  *)
(* or change something.  That a fiber is resumed only after it has yielded *)
(* is shown in Scheduler, that no edge of epoll is lost in IOEvents; here  *)
(* addEvent and yield() are one step and readiness is a level.             *)
(***************************************************************************)
EXTENDS Integers, FiniteSets

CONSTANTS Fibers,      \* fibers, on hooked threads
          Conns,       \* the descriptor numbers connections get
          Listener,    \* a descriptor that listens all the time
          InitSize,    \* how many FdContexts the IOManager starts with
          MaxBusy,     \* how many callbacks can be running at a time: the threads
          IoOps,       \* what goes through do_io: recv, send, accept
          None

Fds == Conns \cup {Listener}
Events == {"READ", "WRITE"}

ASSUME HookAssumption ==
    /\ Fds \subseteq Nat \ {0, 1} /\ IsFiniteSet(Fds) /\ Listener \notin Conns
    /\ InitSize \in Nat /\ MaxBusy \in Nat /\ None \notin Fibers
    /\ None \notin [user : BOOLEAN, timed : SUBSET Events, fresh : BOOLEAN]
    /\ IoOps \subseteq {"recv", "send", "accept"}

VARIABLES
    open, nonblock,   \* kernel: open descriptors, those with O_NONBLOCK
    link,             \* kernel: "idle", "connecting", "up" or "refused"
    ready,            \* kernel: the events that are ready
    ctx,              \* FdManager::m_datas
    waiting,          \* FdContext: the fiber registered for an event
    size,             \* m_fdContexts.size()
    slot,             \* which FdContext of a descriptor m_fdContexts has, or gets next
    held,             \* the one a fiber in addEvent has found
    home,             \* the one whose waiters epoll knows
    shrunk,           \* the sizes to which a resize has shortened the vector
    armed,            \* fibers whose timer is in the heap
    due,              \* fibers for whose call the callback of a timer is scheduled
    aiming,           \* callbacks that are about to call cancelEvent
    queued,           \* how often a fiber is in m_tasks
    cancelled,        \* fibers whose timer_info has cancelled = ETIMEDOUT
    pc, call,         \* per fiber: where it is, and its call
    owner,            \* the fiber that opened a descriptor
    asked,            \* descriptors the user wants non-blocking
    cleared,          \* those whose O_NONBLOCK the user's ioctl has taken away
    strayed           \* fibers woken by a cancelEvent meant for another call

kernelVars == <<open, nonblock, link, ready>>
vectorVars == <<size, slot, held, home, shrunk>>
waitVars == <<waiting, queued, vectorVars>>
timerVars == <<armed, due, aiming, cancelled, strayed>>
fiberVars == <<pc, call>>
userVars == <<owner, asked, cleared>>
vars == <<kernelVars, ctx, waitVars, timerVars, fiberVars, userVars>>

NoCall == [op |-> "none", fd |-> Listener, timed |-> FALSE]
FreshCtx == [user |-> FALSE, timed |-> {}, fresh |-> TRUE]

\* FdCtx::setTimeout.
WithTimeout(c, e) == [c EXCEPT !.timed = @ \cup {e}]

\* The event a call waits for.
EventOf(op) == IF op \in {"recv", "accept"} THEN "READ" ELSE "WRITE"

Init ==
    /\ open = {Listener} /\ nonblock = {Listener}
    /\ link = [d \in Fds |-> "idle"]
    /\ ready = [d \in Fds |-> {}]
    /\ ctx = [d \in Fds |-> IF d = Listener THEN FreshCtx ELSE None]
    /\ waiting = [d \in Fds |-> [e \in Events |-> None]]
    /\ size = InitSize /\ shrunk = {}
    /\ slot = [d \in Fds |-> 0] /\ home = [d \in Fds |-> 0]
    /\ held = [f \in Fibers |-> 0]
    /\ armed = {} /\ due = {} /\ cancelled = {} /\ strayed = {}
    /\ aiming = [d \in Fds |-> [e \in Events |-> 0]]
    /\ queued = [f \in Fibers |-> 0]
    /\ pc = [f \in Fibers |-> "app"]
    /\ call = [f \in Fibers |-> NoCall]
    /\ owner = [d \in Fds |-> None]
    /\ asked = {} /\ cleared = {}

Goto(f, l) == pc' = [pc EXCEPT ![f] = l]

\* timer_info goes, and with it what callbacks of its timers would still do: they hold
\* it weakly.
DropInfo(f) == due' = due \ {f} /\ cancelled' = cancelled \ {f}

\* The call returns.
Return(f) ==
    /\ Goto(f, "app")
    /\ call' = [call EXCEPT ![f] = NoCall]
    /\ DropInfo(f)
    /\ strayed' = strayed \ {f}

\* cancelEvent, cancelAll and the loop of idle() schedule whom they find registered.
Waiter(d, es) == {waiting[d][e] : e \in es} \ {None}
Trigger(d, es) ==
    /\ waiting' = [waiting EXCEPT ![d] = [e \in Events |-> IF e \in es THEN None ELSE @[e]]]
    /\ queued' = [f \in Fibers |-> queued[f] + Cardinality({e \in es : waiting[d][e] = f})]

\* cancelEvent and cancelAll look the descriptor up in m_fdContexts.
Reaches(d) == d < size /\ home[d] = slot[d]

-----------------------------------------------------------------------------
(* socket and accept make a descriptor known to FdManager                  *)

\* The kernel takes the lowest free number.
Lowest(S) == CHOOSE d \in S : \A c \in S : d <= c

\* A new connection for f, with what an earlier one has left in m_datas.
Opened(f, op, l) ==
    LET d == Lowest(Conns \ open) IN
    /\ open' = open \cup {d}
    /\ nonblock' = nonblock \ {d}
    /\ link' = [link EXCEPT ![d] = l]
    /\ ctx' = IF ctx[d] = None THEN ctx ELSE [ctx EXCEPT ![d].fresh = FALSE]
    /\ owner' = [owner EXCEPT ![d] = f]
    /\ asked' = asked \ {d} /\ cleared' = cleared \ {d}
    /\ call' = [call EXCEPT ![f] = [op |-> op, fd |-> d, timed |-> FALSE]]
    /\ Goto(f, "get")

Socket(f) ==
    /\ pc[f] = "app" /\ Conns \ open # {}
    /\ Opened(f, "socket", "idle")
    /\ UNCHANGED <<ready, waitVars, timerVars>>

\* FdManager::get(fd, true): a look under the shared lock ...
GetLook(f) ==
    /\ pc[f] = "get"
    /\ \/ /\ ctx[call[f].fd] # None
          /\ Return(f)
       \/ /\ ctx[call[f].fd] = None
          /\ Goto(f, "create")
          /\ UNCHANGED <<call, due, cancelled, strayed>>
    /\ UNCHANGED <<kernelVars, ctx, waitVars, armed, aiming, userVars>>

\* FdCtx::init sets O_NONBLOCK.
InitCtx(d) == nonblock' = nonblock \cup {d}

\* ... and a new FdCtx under the exclusive one.
GetCreate(f) ==
    /\ pc[f] = "create"
    /\ ctx' = [ctx EXCEPT ![call[f].fd] = FreshCtx]
    /\ InitCtx(call[f].fd)
    /\ Return(f)
    /\ UNCHANGED <<open, link, ready, waitVars, armed, aiming, userVars>>

-----------------------------------------------------------------------------
(* do_io                                                                   *)

\* recv and send on one's own connection, accept on the listening descriptor.
Uses(f, op, d) == IF op = "accept" THEN d = Listener ELSE owner[d] = f /\ link[d] = "up"

\* Whether FdCtx has a timeout for the call.
GetTimeout(d, op) == EventOf(op) \in ctx[d].timed

EnterIo(f, op, d) ==
    /\ pc[f] = "app" /\ Uses(f, op, d)
    /\ \/ /\ ctx[d] = None \/ ctx[d].user
          /\ call' = [call EXCEPT ![f] = [op |-> op, fd |-> d, timed |-> FALSE]]
          /\ Goto(f, "direct")
       \/ /\ ctx[d] # None /\ ~ctx[d].user
          /\ call' = [call EXCEPT ![f] =
                        [op |-> op, fd |-> d, timed |-> GetTimeout(d, op)]]
          /\ Goto(f, "try")
    /\ UNCHANGED <<kernelVars, ctx, waitVars, timerVars, userVars>>

\* The original function succeeds: it takes what is ready, and do_io returns; accept goes
\* on to get().
Succeeds(f) ==
    LET d == call[f].fd IN
    /\ EventOf(call[f].op) \in ready[d]
    /\ ready' = [ready EXCEPT ![d] = @ \ {EventOf(call[f].op)}]
    /\ IF call[f].op = "accept"
       THEN Conns \ open # {} /\ Opened(f, "accept", "up")
            /\ DropInfo(f) /\ UNCHANGED strayed
       ELSE Return(f) /\ UNCHANGED <<open, nonblock, link, ctx, userVars>>
    /\ UNCHANGED <<waitVars, armed, aiming>>

\* It fails for another reason than EAGAIN: accept finds no free descriptor.
Fails(f) ==
    /\ call[f].op = "accept" /\ "READ" \in ready[Listener] /\ Conns \subseteq open
    /\ Return(f)
    /\ UNCHANGED <<kernelVars, ctx, waitVars, armed, aiming, userVars>>

NotReady(f) == EventOf(call[f].op) \notin ready[call[f].fd]

\* On a descriptor without O_NONBLOCK the call keeps its thread.
Blocks(f) ==
    /\ NotReady(f) /\ call[f].fd \notin nonblock
    /\ Goto(f, "blocked")
    /\ UNCHANGED <<kernelVars, ctx, waitVars, timerVars, call, userVars>>

\* The hook hands the call through, once.
Direct(f) ==
    /\ pc[f] = "direct"
    /\ \/ Succeeds(f)
       \/ Fails(f)
       \/ Blocks(f)
       \/ /\ NotReady(f) /\ call[f].fd \in nonblock
          /\ Return(f)
          /\ UNCHANGED <<kernelVars, ctx, waitVars, armed, aiming, userVars>>

\* On EAGAIN the timer is armed before the event is registered.
BeginWait(f) ==
    /\ armed' = armed \cup {g \in {f} : call[g].timed}
    /\ Goto(f, "add")
    /\ UNCHANGED <<kernelVars, ctx, waitVars, due, aiming, cancelled, strayed, call, userVars>>

\* The hook tries.
TryIo(f) ==
    /\ pc[f] = "try"
    /\ \/ Succeeds(f)
       \/ Fails(f)
       \/ Blocks(f)
       \/ NotReady(f) /\ call[f].fd \in nonblock /\ BeginWait(f)

\* A call that has kept its thread: it ends, or the kernel's own SO_RCVTIMEO or
\* SO_SNDTIMEO gives it back as if nothing were ready, and the hook goes on.
Unblocks(f) ==
    LET d == call[f].fd IN
    /\ pc[f] = "blocked"
    /\ \/ call[f].op # "connect" /\ (Succeeds(f) \/ Fails(f))
       \/ /\ call[f].op = "connect" /\ link[d] # "connecting"
          /\ Return(f)
          /\ UNCHANGED <<kernelVars, ctx, waitVars, armed, aiming, userVars>>
       \/ /\ IF call[f].op = "connect" THEN link[d] = "connecting" ELSE NotReady(f)
          /\ ctx[d] # None /\ ~ctx[d].user /\ GetTimeout(d, call[f].op)
          /\ BeginWait(f)

Grown(d) == (3 * d) \div 2         \* contextResize(fd * 1.5)

\* addEvent takes the FdContext out of the vector under the shared lock, or finds the
\* vector too short; either way it lets go of the lock.
LookUp(f) ==
    LET d == call[f].fd IN
    /\ pc[f] = "add"
    /\ \/ d < size /\ Goto(f, "register") /\ held' = [held EXCEPT ![f] = slot[d]]
       \/ d >= size /\ Goto(f, "grow") /\ UNCHANGED held
    /\ UNCHANGED <<kernelVars, ctx, waiting, queued, size, slot, home, shrunk, timerVars, call,
                   userVars>>

\* Under the exclusive lock it resizes, whatever the size is by now: a vector that gets
\* shorter drops the FdContexts behind its end, with whoever waits there.
Grow(f) ==
    LET d == call[f].fd IN
    /\ pc[f] = "grow"
    /\ size' = Grown(d)
    /\ slot' = [c \in Fds |-> IF c >= size' /\ c < size THEN slot[c] + 1 ELSE slot[c]]
    /\ shrunk' = shrunk \cup {s \in {size'} : s < size}
    /\ held' = [held EXCEPT ![f] = slot[d]]
    /\ Goto(f, "register")
    /\ UNCHANGED <<kernelVars, ctx, waiting, queued, home, timerVars, call, userVars>>

\* Somebody waits for the event already; or waits in an FdContext that was dropped, and
\* epoll refuses to add the descriptor a second time.
Refused(f) ==
    LET d == call[f].fd IN
    \/ waiting[d][EventOf(call[f].op)] # None
    \/ home[d] # held[f] /\ Waiter(d, Events) # {}

\* Under the lock of the FdContext: the event is registered and the fiber yields. If it
\* is refused, do_io gives up, and connect looks at the socket nevertheless.
AddEvent(f) ==
    LET d == call[f].fd IN
    /\ pc[f] = "register"
    /\ held' = [held EXCEPT ![f] = 0]
    /\ \/ /\ ~Refused(f)
          /\ waiting' = [waiting EXCEPT ![d][EventOf(call[f].op)] = f]
          /\ home' = [home EXCEPT ![d] = held[f]]
          /\ Goto(f, "parked")
          /\ UNCHANGED <<armed, due, cancelled, strayed, call>>
       \/ /\ Refused(f) /\ call[f].op \in IoOps
          /\ armed' = armed \ {f}
          /\ Return(f)
          /\ UNCHANGED <<waiting, home>>
       \/ /\ Refused(f) /\ call[f].op = "connect"
          /\ armed' = armed \ {f}
          /\ Goto(f, "check")
          /\ UNCHANGED <<waiting, home, due, cancelled, strayed, call>>
    /\ UNCHANGED <<kernelVars, ctx, size, slot, shrunk, queued, aiming, userVars>>

\* mutants: the timer stays in the heap; timer_info is not looked at after the wait
KeepTimer(f) == armed' = armed
ForgetsTimeout(f) == FALSE
CancelTimer(f) == armed' = armed \ {f}
TimedOut(f) == f \in cancelled

\* The fiber is resumed, cancels its timer and looks whether it was cancelled.
Resume(f) ==
    /\ pc[f] = "parked" /\ queued[f] > 0
    /\ queued' = [queued EXCEPT ![f] = @ - 1]
    /\ CancelTimer(f)
    /\ \/ /\ call[f].op = "sleep"
          /\ Return(f)
       \/ /\ call[f].op # "sleep" /\ TimedOut(f)
          /\ Return(f)
       \/ /\ call[f].op \in IoOps /\ ~TimedOut(f)
          /\ Goto(f, "try")
          /\ UNCHANGED <<call, due, cancelled, strayed>>
       \/ /\ call[f].op = "connect" /\ ~TimedOut(f)
          /\ Goto(f, "check")
          /\ UNCHANGED <<call, due, cancelled, strayed>>
    /\ UNCHANGED <<kernelVars, ctx, waiting, vectorVars, aiming, userVars>>

-----------------------------------------------------------------------------
(* connect_with_timeout and sleep                                          *)

\* connect_f answers at once, or EINPROGRESS; on a descriptor without O_NONBLOCK it
\* keeps its thread.
Connect(f, d, t) ==
    /\ pc[f] = "app" /\ owner[d] = f /\ link[d] = "idle"
    /\ call' = [call EXCEPT ![f] = [op |-> "connect", fd |-> d, timed |-> t]]
    /\ \/ /\ ctx[d] = None                       \* EBADF
          /\ Goto(f, "app")
          /\ UNCHANGED <<link, armed>>
       \/ /\ ctx[d] # None
          /\ \E l \in {"up", "refused"} : link' = [link EXCEPT ![d] = l]
          /\ Goto(f, "app")
          /\ UNCHANGED armed
       \/ /\ ctx[d] # None /\ ctx[d].user        \* EINPROGRESS goes to the user
          /\ link' = [link EXCEPT ![d] = "connecting"]
          /\ Goto(f, "app")
          /\ UNCHANGED armed
       \/ /\ ctx[d] # None /\ ~ctx[d].user
          /\ link' = [link EXCEPT ![d] = "connecting"]
          /\ IF d \in nonblock
             THEN Goto(f, "add") /\ armed' = armed \cup {g \in {f} : t}
             ELSE Goto(f, "blocked") /\ UNCHANGED armed
    /\ UNCHANGED <<open, nonblock, ready, ctx, waitVars, due, aiming, cancelled, strayed,
                   userVars>>

\* getsockopt(SO_ERROR): 0 also while the connection is being made.
CheckConnect(f) ==
    /\ pc[f] = "check"
    /\ Return(f)
    /\ UNCHANGED <<kernelVars, ctx, waitVars, armed, aiming, userVars>>

\* sleep, usleep and nanosleep: a timer that schedules the fiber, and yield().
Sleep(f) ==
    /\ pc[f] = "app"
    /\ call' = [call EXCEPT ![f] = [op |-> "sleep", fd |-> Listener, timed |-> TRUE]]
    /\ armed' = armed \cup {f}
    /\ Goto(f, "parked")
    /\ UNCHANGED <<kernelVars, ctx, waitVars, due, aiming, cancelled, strayed, userVars>>

-----------------------------------------------------------------------------
(* close                                                                   *)

\* cancelAll wakes whoever waits.
Close(f, d) ==
    /\ pc[f] = "app" /\ owner[d] = f
    /\ call' = [call EXCEPT ![f] = [op |-> "close", fd |-> d, timed |-> FALSE]]
    /\ IF ctx[d] = None
       THEN Goto(f, "close") /\ UNCHANGED <<waiting, queued>>
       ELSE /\ Goto(f, "del")
            /\ Trigger(d, IF Reaches(d) THEN Events ELSE {})
    /\ UNCHANGED <<kernelVars, ctx, vectorVars, timerVars, userVars>>

\* mutant: the number is free before FdManager forgets it
CloseFirst(f) ==
    /\ pc[f] \in {"del", "close"}
    /\ IF pc[f] = "del"
       THEN /\ open' = open \ {call[f].fd} /\ ready' = [ready EXCEPT ![call[f].fd] = {}]
            /\ owner' = [owner EXCEPT ![call[f].fd] = None]
            /\ Goto(f, "close") /\ UNCHANGED <<call, due, cancelled, strayed, ctx>>
       ELSE /\ ctx' = [ctx EXCEPT ![call[f].fd] = None]
            /\ Return(f) /\ UNCHANGED <<open, ready, owner>>
    /\ UNCHANGED <<nonblock, link, waitVars, armed, aiming, asked, cleared>>

\* FdManager::del.
Del(d) == ctx' = [ctx EXCEPT ![d] = None]

\* FdManager::del, then close_f.
CloseSteps(f) ==
    /\ pc[f] \in {"del", "close"}
    /\ IF pc[f] = "del"
       THEN /\ Del(call[f].fd)
            /\ Goto(f, "close") /\ UNCHANGED <<call, due, cancelled, strayed, open, ready, owner>>
       ELSE /\ open' = open \ {call[f].fd} /\ ready' = [ready EXCEPT ![call[f].fd] = {}]
            /\ owner' = [owner EXCEPT ![call[f].fd] = None]
            /\ Return(f) /\ UNCHANGED ctx
    /\ UNCHANGED <<nonblock, link, waitVars, armed, aiming, asked, cleared>>

-----------------------------------------------------------------------------
(* fcntl, ioctl and setsockopt                                             *)

\* mutant: the user's flag goes to the kernel
UserFlag(d, b) == IF b THEN nonblock \cup {d} ELSE nonblock \ {d}
\* F_SETFL keeps O_NONBLOCK for a socket the hook knows.
SysFlag(d, b) == IF ctx[d] # None \/ b THEN nonblock \cup {d} ELSE nonblock \ {d}

Noted(d, b) == IF ctx[d] = None THEN ctx ELSE [ctx EXCEPT ![d].user = b]

SetFl(f, d, b) ==
    /\ pc[f] = "app" /\ owner[d] = f
    /\ ctx' = Noted(d, b)
    /\ nonblock' = SysFlag(d, b)
    /\ asked' = IF b THEN asked \cup {d} ELSE asked \ {d}
    /\ cleared' = cleared \ {d}
    /\ UNCHANGED <<open, link, ready, waitVars, timerVars, fiberVars, owner>>

\* ioctl(FIONBIO) gives the kernel what the user gave.
Ioctl(f, d, b) ==
    /\ pc[f] = "app" /\ owner[d] = f
    /\ ctx' = Noted(d, b)
    /\ nonblock' = IF b THEN nonblock \cup {d} ELSE nonblock \ {d}
    /\ asked' = IF b THEN asked \cup {d} ELSE asked \ {d}
    /\ cleared' = IF b THEN cleared \ {d} ELSE cleared \cup {d}
    /\ UNCHANGED <<open, link, ready, waitVars, timerVars, fiberVars, owner>>

\* What F_GETFL shows of O_NONBLOCK.
GetFl(d) == IF ctx[d] = None THEN d \in nonblock ELSE ctx[d].user

\* SO_RCVTIMEO and SO_SNDTIMEO are kept in FdCtx.
SetTimeout(f, d, e) ==
    /\ pc[f] = "app" /\ owner[d] = f /\ ctx[d] # None
    /\ ctx' = [ctx EXCEPT ![d] = WithTimeout(@, e)]
    /\ UNCHANGED <<kernelVars, waitVars, timerVars, fiberVars, userVars>>

-----------------------------------------------------------------------------
(* Timers, and what comes from outside                                     *)

\* The timer expires: its callback is scheduled, or the sleeping fiber is.
TimerFires(f) ==
    /\ f \in armed
    /\ armed' = armed \ {f}
    /\ IF call[f].op = "sleep"
       THEN queued' = [queued EXCEPT ![f] = @ + 1] /\ due' = due
       ELSE due' = due \cup {f} /\ queued' = queued
    /\ UNCHANGED <<kernelVars, ctx, waiting, vectorVars, aiming, cancelled, strayed,
                   fiberVars, userVars>>

\* mutant: nobody is cancelled
AimedNever(f) == aiming
Aimed(f) ==
    IF f \in cancelled THEN aiming
    ELSE [aiming EXCEPT ![call[f].fd][EventOf(call[f].op)] = @ + 1]

\* The callbacks that run.
Busy == {r \in Fds \X Events \X (1 .. MaxBusy) : r[3] <= aiming[r[1]][r[2]]}

\* The callback locks timer_info, sets ETIMEDOUT ...
RunCallback(f) ==
    /\ f \in due /\ Cardinality(Busy) < MaxBusy
    /\ due' = due \ {f}
    /\ cancelled' = cancelled \cup {f}
    /\ aiming' = Aimed(f)
    /\ UNCHANGED <<kernelVars, ctx, waitVars, armed, strayed, fiberVars, userVars>>

\* ... and then calls cancelEvent, whoever is registered by now.
CancelEvent(d, e) ==
    /\ aiming[d][e] > 0
    /\ aiming' = [aiming EXCEPT ![d][e] = @ - 1]
    /\ Trigger(d, IF Reaches(d) THEN {e} ELSE {})
    /\ strayed' = strayed \cup (IF Reaches(d) THEN Waiter(d, {e}) \ cancelled ELSE {})
    /\ UNCHANGED <<kernelVars, ctx, vectorVars, armed, due, cancelled, fiberVars, userVars>>

\* idle() reports a ready descriptor, found through the pointer epoll keeps.
EventFires(d, e) ==
    /\ e \in ready[d] /\ waiting[d][e] # None
    /\ Trigger(d, {e})
    /\ UNCHANGED <<kernelVars, ctx, vectorVars, timerVars, fiberVars, userVars>>

\* The peer sends, makes room or connects.
Arrive(d, e) ==
    /\ e \notin ready[d]
    /\ (d = Listener /\ e = "READ") \/ (d \in open /\ d # Listener /\ link[d] = "up")
    /\ ready' = [ready EXCEPT ![d] = @ \cup {e}]
    /\ UNCHANGED <<open, nonblock, link, ctx, waitVars, timerVars, fiberVars, userVars>>

ConnectEnds(d, l) ==
    /\ d \in open /\ link[d] = "connecting"
    /\ link' = [link EXCEPT ![d] = l]
    /\ ready' = [ready EXCEPT ![d] = @ \cup {"WRITE"}]
    /\ UNCHANGED <<open, nonblock, ctx, waitVars, timerVars, fiberVars, userVars>>

-----------------------------------------------------------------------------
\* What a fiber does in a call, without waiting for anyone.
Runs(f) ==
    \/ GetLook(f) \/ GetCreate(f) \/ Direct(f) \/ TryIo(f) \/ Unblocks(f) \/ LookUp(f)
    \/ Grow(f) \/ AddEvent(f) \/ Resume(f) \/ CheckConnect(f) \/ CloseSteps(f)

\* The calls a fiber makes.
Calls(f) ==
    \/ Socket(f) \/ Sleep(f)
    \/ \E op \in IoOps, d \in Fds : EnterIo(f, op, d)
    \/ \E d \in Conns : \/ Close(f, d)
                        \/ \E t \in BOOLEAN : Connect(f, d, t) \/ SetFl(f, d, t) \/ Ioctl(f, d, t)
                        \/ \E op \in IoOps : SetTimeout(f, d, EventOf(op))

Next ==
    \/ \E f \in Fibers : Runs(f) \/ Calls(f) \/ TimerFires(f) \/ RunCallback(f)
    \/ \E d \in Fds, e \in Events : CancelEvent(d, e) \/ EventFires(d, e) \/ Arrive(d, e)
    \/ \E d \in Conns, l \in {"up", "refused"} : ConnectEnds(d, l)

Spec == Init /\ [][Next]_vars

\* Threads run what is scheduled, time passes and epoll reports what is ready.
FairSpec ==
    /\ Spec
    /\ \A f \in Fibers : WF_vars(Runs(f)) /\ WF_vars(TimerFires(f)) /\ WF_vars(RunCallback(f))
    /\ \A d \in Fds, e \in Events : WF_vars(CancelEvent(d, e)) /\ WF_vars(EventFires(d, e))

-----------------------------------------------------------------------------
(* Properties                                                              *)

Labels == {"app", "get", "create", "direct", "blocked", "try", "add", "grow", "register",
           "parked", "check", "del", "close"}

TypeOK ==
    /\ open \subseteq Fds /\ nonblock \subseteq Fds /\ asked \subseteq Fds
    /\ cleared \subseteq Conns
    /\ link \in [Fds -> {"idle", "connecting", "up", "refused"}]
    /\ ready \in [Fds -> SUBSET Events]
    /\ ctx \in [Fds -> [user : BOOLEAN, timed : SUBSET Events, fresh : BOOLEAN] \cup {None}]
    /\ waiting \in [Fds -> [Events -> Fibers \cup {None}]]
    /\ size \in Nat /\ shrunk \subseteq Nat
    /\ slot \in [Fds -> Nat] /\ home \in [Fds -> Nat] /\ held \in [Fibers -> Nat]
    /\ armed \subseteq Fibers /\ due \subseteq Fibers /\ cancelled \subseteq Fibers
    /\ strayed \subseteq Fibers /\ due \cup cancelled \subseteq {f \in Fibers : pc[f] # "app"}
    /\ aiming \in [Fds -> [Events -> 0 .. MaxBusy]]
    /\ queued \in [Fibers -> Nat]
    /\ pc \in [Fibers -> Labels]
    /\ call \in [Fibers -> [op : IoOps \cup {"none", "socket", "connect", "sleep", "close"},
                             fd : Fds, timed : BOOLEAN]]
    /\ owner \in [Fds -> Fibers \cup {None}]

\* Between the return of socket() or accept() and close(), a descriptor has an FdCtx
\* that was made for it and not for an earlier use of the number (fd_manager.cpp:116
\* hands out what is there): close() must forget it before the number is free.
ContextIsOwn ==
    \A d \in Conns :
        owner[d] # None /\ (call[owner[d]].fd # d \/ pc[owner[d]] \notin {"get", "create", "del", "close"})
        => ctx[d] # None /\ ctx[d].fresh

\* A hooked call of a fiber never keeps its thread in the kernel (hook.cpp:108 to 180),
\* whatever the user did with fcntl and ioctl before. The code does not keep it in one
\* case: ioctl(FIONBIO) with 0 (566 to 576) has taken away the kernel's flag, and neither
\* F_SETFL nor ioctl has set it again.
NeverBlocksThread == \A f \in Fibers : pc[f] = "blocked" => call[f].fd \in cleared

\* Whatever wakes a fiber (event, cancelEvent of its timer, cancelAll of close, the timer
\* of sleep), it is woken at most once per wait and only while it waits, and outside of a
\* call nothing is left that could wake it.
OneWakeUp ==
    \A f \in Fibers :
        LET slots == {s \in Fds \X Events : waiting[s[1]][s[2]] = f} IN
        /\ queued[f] + Cardinality(slots) <= 1
        /\ queued[f] + Cardinality(slots) > 0 => pc[f] = "parked"
        /\ f \in armed => pc[f] \in {"add", "grow", "register", "parked"}

\* The hook never makes the caller wait on a descriptor the user set to non-blocking,
\* and F_GETFL shows what the user set, although the kernel's flag is always set.
HonoursUser ==
    \A d \in Conns :
        /\ owner[d] # None /\ ctx[d] # None /\ ctx[d].fresh => (GetFl(d) <=> d \in asked)
        /\ d \in asked => \A e \in Events : waiting[d][e] = None

\* O_NONBLOCK of the kernel is the hook's, that of the user is the FdCtx's.
FlagsHonoured == NeverBlocksThread /\ HonoursUser

\* A resize has cut the vector off below a descriptor.
Cut(d) == \E s \in shrunk : s <= d

\* Who waits can be found again by cancelEvent and cancelAll (hook.cpp:147, 443), in the
\* FdContext that m_fdContexts has for the descriptor. The code does not keep it for the
\* descriptors behind the end of a vector that has been made shorter: two fibers find it
\* too short, and the second resize is the smaller one (ioscheduler.cpp:137).
WaitersReachable ==
    \A d \in Fds : Waiter(d, Events) # {} => Reaches(d) \/ Cut(d)

\* The type invariant, and that whoever waits can be woken, once.
HookInv == TypeOK /\ OneWakeUp /\ WaitersReachable

\* connect() returns 0 only if the connection stands, or if it was woken by a callback
\* that had set out to cancel an earlier call on the same number (hook.cpp:312 to 358).
ConnectTruthful ==
    [][\A f \in Fibers :
         call[f].op = "connect" /\ pc[f] = "check" /\ pc'[f] = "app"
         => link[call[f].fd] # "connecting" \/ f \in strayed]_vars

\* A wait with a timeout ends, whether or not anything arrives, unless a callback of one
\* of the call's timers had its turn before the event was registered (hook.cpp:137 to
\* 151), or a resize has cut off the FdContext where cancelEvent would find the fiber.
TimedWaitEnds ==
    \A f \in Fibers :
        pc[f] = "parked" /\ f \in armed \cup due /\ f \notin cancelled
        ~> pc[f] # "parked" \/ Cut(call[f].fd)
=============================================================================
