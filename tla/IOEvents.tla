------------------------------- MODULE IOEvents -------------------------------
(***************************************************************************)
(* The events of IOManager: what is registered per descriptor, what epoll  *)
(* (edge triggered) knows of it, and the threads that add, delete, cancel  *)
(* and handle events.                                                      *)
(*                                                                         *)
(* Every operation works on one FdContext under its mutex and is one step; *)
(* the loop of idle() takes that mutex anew for each event epoll_wait gave *)
(* it, so what it handles may be outdated (batch).  Descriptors are closed *)
(* and opened again under the same number, with the same FdContext.        *)
(***************************************************************************)
EXTENDS Integers, FiniteSets

CONSTANTS Fds,       \* descriptors
          Waiters,   \* fibers and callbacks to be triggered
          Threads,   \* threads in idle()
          Shared,    \* whether fibers use a descriptor that another one is closing
          None       \* an empty EventContext

Events == {"READ", "WRITE"}
Conditions == Events \cup {"HUP"}    \* HUP: EPOLLERR or EPOLLHUP

ASSUME IOAssumption == None \notin Waiters /\ Shared \in BOOLEAN /\ IsFiniteSet(Fds)

VARIABLES
    events,    \* FdContext::events
    ctx,       \* FdContext::read and write
    pending,   \* m_pendingEventCount
    queued,    \* how often a waiter is in m_tasks
    open,      \* open descriptors
    closing,   \* descriptors in close() between cancelAll and close_f
    interest,  \* epoll: the registered events, {} if the descriptor is not registered
    rlist,     \* epoll: descriptors with an edge nobody was told of
    level,     \* conditions that hold of a descriptor
    batch,     \* per thread, what epoll_wait returned and is not handled yet
    aborted    \* an assertion has failed

ioVars == <<events, ctx, pending, queued>>
kernelVars == <<open, interest, rlist, level>>
vars == <<ioVars, kernelVars, closing, batch, aborted>>

Init ==
    /\ events = [f \in Fds |-> {}]
    /\ ctx = [f \in Fds |-> [e \in Events |-> None]]
    /\ pending = 0
    /\ queued = [w \in Waiters |-> 0]
    /\ open = Fds /\ closing = {}
    /\ interest = [f \in Fds |-> {}]
    /\ rlist = {}
    /\ level = [f \in Fds |-> {}]
    /\ batch = [k \in Threads |-> [f \in Fds |-> {}]]
    /\ aborted = FALSE

\* Where a waiter is registered.
Slots(w) == {s \in Fds \X Events : ctx[s[1]][s[2]] = w}

-----------------------------------------------------------------------------
(* epoll                                                                   *)

\* ADD needs a descriptor that is not registered, MOD and DEL one that is; the
\* code derives which to use from FdContext::events.
CtlSucceeds(f) == f \in open /\ (interest[f] = {} <=> events[f] = {})

\* ADD and MOD look at the conditions anew, DEL forgets the edge.
Ctl(f, new) ==
    /\ interest' = [interest EXCEPT ![f] = new]
    /\ rlist' = IF new = {} THEN rlist \ {f}
                ELSE rlist \cup {g \in {f} : level[g] \cap (new \cup {"HUP"}) # {}}
    /\ UNCHANGED <<open, level>>

\* A condition arises, or arises again: an edge if it is waited for.
Arrive(f, c) ==
    /\ ~aborted /\ f \in open
    /\ level' = [level EXCEPT ![f] = @ \cup {c}]
    /\ rlist' = rlist \cup {g \in {f} : interest[g] # {} /\ c \in interest[g] \cup {"HUP"}}
    /\ UNCHANGED <<ioVars, open, interest, closing, batch, aborted>>

\* Somebody reads all there is, or fills the send buffer.
Consume(f, e) ==
    /\ ~aborted /\ e \in level[f]
    /\ level' = [level EXCEPT ![f] = @ \ {e}]
    /\ UNCHANGED <<ioVars, open, interest, rlist, closing, batch, aborted>>

Open(f) ==
    /\ ~aborted /\ f \notin open
    /\ open' = open \cup {f}
    /\ UNCHANGED <<ioVars, interest, rlist, level, closing, batch, aborted>>

-----------------------------------------------------------------------------
(* The operations.  A call that returns -1 or false changes nothing.       *)

\* mutant: the event stays registered
TriggerKeepsEvent(f, es) ==
    /\ events' = events
    /\ ctx' = [ctx EXCEPT ![f] = [e \in Events |-> IF e \in es THEN None ELSE @[e]]]
    /\ queued' = [w \in Waiters |-> queued[w] + Cardinality({e \in es : ctx[f][e] = w})]

\* mutant: the context is not reset
TriggerKeepsContext(f, es) ==
    /\ events' = [events EXCEPT ![f] = @ \ es]
    /\ ctx' = ctx
    /\ queued' = [w \in Waiters |-> queued[w] + Cardinality({e \in es : ctx[f][e] = w})]

\* triggerEvent for the events es: their waiters are scheduled.
Trigger(f, es) ==
    /\ events' = [events EXCEPT ![f] = @ \ es]
    /\ ctx' = [ctx EXCEPT ![f] = [e \in Events |-> IF e \in es THEN None ELSE @[e]]]
    /\ queued' = [w \in Waiters |-> queued[w] + Cardinality({e \in es : ctx[f][e] = w})]

PendingKept(n) == pending                     \* mutant: cancelling does not count down
PendingLess(n) == pending - n

\* addEvent, called by a fiber, or for a callback, that waits for nothing else.
AddEvent(w, f, e) ==
    /\ ~aborted /\ Slots(w) = {} /\ queued[w] = 0
    /\ Shared \/ f \notin closing
    /\ e \notin events[f] /\ CtlSucceeds(f)
    /\ Ctl(f, events[f] \cup {e})
    /\ pending' = pending + 1
    /\ events' = [events EXCEPT ![f] = @ \cup {e}]
    /\ ctx' = [ctx EXCEPT ![f][e] = w]
    /\ UNCHANGED <<queued, closing, batch, aborted>>

DelEvent(f, e) ==
    /\ ~aborted /\ e \in events[f] /\ CtlSucceeds(f)
    /\ Ctl(f, events[f] \ {e})
    /\ pending' = PendingLess(1)
    /\ events' = [events EXCEPT ![f] = @ \ {e}]
    /\ ctx' = [ctx EXCEPT ![f][e] = None]
    /\ UNCHANGED <<queued, closing, batch, aborted>>

CancelEvent(f, e) ==
    /\ ~aborted /\ e \in events[f] /\ CtlSucceeds(f)
    /\ Ctl(f, events[f] \ {e})
    /\ pending' = PendingLess(1)
    /\ Trigger(f, {e})
    /\ UNCHANGED <<closing, batch, aborted>>

CloseNow(f) == UNCHANGED <<ioVars, kernelVars>>      \* mutant: close without cancelAll

CancelAll(f) ==
    IF events[f] # {} /\ CtlSucceeds(f)
    THEN Ctl(f, {}) /\ Trigger(f, events[f]) /\ pending' = PendingLess(Cardinality(events[f]))
    ELSE UNCHANGED <<ioVars, kernelVars>>

\* close(): cancelAll, and then the descriptor; epoll drops what it knows of it.
Close(f) ==
    /\ ~aborted /\ f \in open \ closing
    /\ CancelAll(f)
    /\ closing' = closing \cup {f}
    /\ UNCHANGED <<batch, aborted>>

CloseFd(f) ==
    /\ ~aborted /\ f \in closing
    /\ closing' = closing \ {f}
    /\ open' = open \ {f}
    /\ interest' = [interest EXCEPT ![f] = {}]
    /\ rlist' = rlist \ {f}
    /\ level' = [level EXCEPT ![f] = {}]
    /\ UNCHANGED <<ioVars, batch, aborted>>

\* A scheduled waiter is executed.
Run(w) ==
    /\ ~aborted /\ queued[w] > 0
    /\ queued' = [queued EXCEPT ![w] = @ - 1]
    /\ UNCHANGED <<events, ctx, pending, kernelVars, closing, batch, aborted>>

-----------------------------------------------------------------------------
(* idle(): epoll_wait, and the loop over what it returned.                 *)

EpollWait(k) ==
    /\ ~aborted /\ rlist # {} /\ \A f \in Fds : batch[k][f] = {}
    /\ batch' = [batch EXCEPT ![k] =
                    [f \in Fds |-> {c \in level[f] : f \in rlist /\ c \in interest[f] \cup {"HUP"}}]]
    /\ rlist' = {}
    /\ UNCHANGED <<ioVars, open, interest, level, closing, aborted>>

\* real_events: a hang-up stands for whatever is registered.
Real(k, f) ==
    IF "HUP" \in batch[k][f] THEN (batch[k][f] \ {"HUP"}) \cup events[f] ELSE batch[k][f]

Told(k, f) == ~aborted /\ batch[k][f] # {}

Handled(k, f) == Told(k, f) /\ batch' = [batch EXCEPT ![k][f] = {}]

ForgetLeft(k, f) == {}                        \* mutant: the other event is not put back
Left(k, f) == events[f] \ Real(k, f)

\* Nothing of it is registered any more, or epoll_ctl fails.
HandleNothing(k, f) ==
    /\ Handled(k, f)
    /\ events[f] \cap Real(k, f) = {} \/ ~CtlSucceeds(f)
    /\ UNCHANGED <<ioVars, kernelVars, closing, aborted>>

HandleEvents(k, f) ==
    /\ Handled(k, f)
    /\ events[f] \cap Real(k, f) # {} /\ CtlSucceeds(f)
    /\ Real(k, f) \subseteq events[f]
    /\ Ctl(f, Left(k, f))
    /\ Trigger(f, Real(k, f))
    /\ pending' = PendingLess(Cardinality(Real(k, f)))
    /\ UNCHANGED <<closing, aborted>>

\* real_events has an event besides the registered ones: triggerEvent asserts.
HandleAborts(k, f) ==
    /\ Told(k, f)
    /\ events[f] \cap Real(k, f) # {} /\ CtlSucceeds(f)
    /\ ~(Real(k, f) \subseteq events[f])
    /\ aborted' = TRUE
    /\ UNCHANGED <<ioVars, kernelVars, closing, batch>>

FdStep(f) ==
    \/ \E c \in Conditions : Arrive(f, c)
    \/ \E e \in Events : Consume(f, e) \/ DelEvent(f, e) \/ CancelEvent(f, e)
    \/ \E e \in Events, w \in Waiters : AddEvent(w, f, e)
    \/ Open(f) \/ Close(f) \/ CloseFd(f)

IdleStep(k) ==
    \/ EpollWait(k)
    \/ \E f \in Fds : HandleNothing(k, f) \/ HandleEvents(k, f) \/ HandleAborts(k, f)

Next == \/ \E f \in Fds : FdStep(f)
        \/ \E k \in Threads : IdleStep(k)
        \/ \E w \in Waiters : Run(w)

Spec == Init /\ [][Next]_vars

-----------------------------------------------------------------------------
(* Correctness.                                                            *)

\* Type invariant of the state above.
TypeOK ==
    /\ events \in [Fds -> SUBSET Events] /\ interest \in [Fds -> SUBSET Events]
    /\ ctx \in [Fds -> [Events -> Waiters \cup {None}]]
    /\ pending \in Nat
    /\ queued \in [Waiters -> Nat]
    /\ open \subseteq Fds /\ closing \subseteq open /\ rlist \subseteq open
    /\ level \in [Fds -> SUBSET Conditions]
    /\ batch \in [Threads -> [Fds -> SUBSET Conditions]]
    /\ aborted \in BOOLEAN

\* The assertion at ioscheduler.cpp:169: the context of an event that is not
\* registered is empty; and that of a registered event is not.
ContextsMatch == \A f \in Fds, e \in Events : ctx[f][e] = None <=> e \notin events[f]

\* Whatever happens first, the event, its cancellation or the closing of the
\* descriptor, a waiter is scheduled once: it is in one context or once in m_tasks.
TriggeredOnce == \A w \in Waiters : Cardinality(Slots(w)) + queued[w] <= 1

\* stopping() takes m_pendingEventCount for the number of registered events.
PendingCounts == pending = Cardinality({s \in Fds \X Events : s[2] \in events[s[1]]})

\* The type invariant, and the count stopping() relies on.
IOEventsInv == TypeOK /\ PendingCounts

\* epoll knows what FdContext::events says; ADD, MOD and DEL are chosen by it.
KernelAgrees == interest = events

\* No wake-up is lost: if what a waiter waits for holds, the descriptor has an edge
\* to be reported, or a thread of idle() was told and has still to handle it.
NoLostEdge ==
    \A f \in Fds, e \in Events :
        e \in events[f] /\ level[f] \cap {e, "HUP"} # {}
            => \/ f \in rlist
               \/ \E k \in Threads : batch[k][f] \cap {e, "HUP"} # {}

\* The assertion at ioscheduler.cpp:41: an event that is triggered is registered.
TriggersRegistered == ~aborted
=============================================================================
