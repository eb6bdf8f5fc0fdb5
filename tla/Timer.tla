-------------------------------- MODULE Timer --------------------------------
(***************************************************************************)
(* TimerManager and Timer: the set m_timers ordered by deadline, the calls *)
(* of user threads (addTimer, cancel, refresh, reset) and the worker loop  *)
(* of IOManager::idle as far as timers are concerned: getNextTimer twice,  *)
(* epoll_wait with the timeout that came out, listExpiredCb.               *)
(*                                                                         *)
(* Comparator orders timers by m_next alone.  So the set holds at most one *)
(* timer per deadline: inserting a second one does nothing, and looking a  *)
(* timer up finds whichever has its deadline.                              *)
(*                                                                         *)
(* Every step is a critical section of m_mutex or a step of one thread on  *)
(* its own data; Timer::reset is three, because it computes the new        *)
(* deadline between two of them.                                           *)
(*                                                                         *)
(* The code only adds to points of time and compares them, so the module   *)
(* keeps distances: a deadline is how far ahead of the clock it is, in     *)
(* ticks much coarser than the clock.  Two deadlines within a tick differ, *)
(* in either order, unless Coincide.  Two recurring timers that expire in  *)
(* one listExpiredCb do get equal deadlines: they need Coincide.           *)
(***************************************************************************)
EXTENDS Integers, FiniteSetsExt

CONSTANTS Timers,       \* the timers of the program
          Recurring,    \* those with m_recurring
          Users,        \* threads that call the timers' operations
          Workers,      \* threads of the IOManager
          Periods,      \* values of m_ms
          MaxTimeout,   \* MAX_TIMEOUT of epoll_wait
          Hour,         \* a clock set back by more than this is a rollover
          Coincide,     \* whether two timers may have the same deadline
          None,         \* no timer
          MaxLate,      \* bound: how late a thread or a timer is
          MaxOps,       \* bound: how often timers are refreshed or reset
          Jumps         \* the distances the clock is set back by, once

ASSUME TimerAssumption ==
    /\ IsFiniteSet(Timers) /\ Recurring \subseteq Timers
    /\ None \notin Timers
    /\ Workers # {}
    /\ Periods \subseteq Nat \ {0}
    /\ Jumps \subseteq Nat /\ IsFiniteSet(Jumps)
    /\ Coincide \in BOOLEAN /\ (Coincide \/ Cardinality(Recurring) <= 1)
    /\ {MaxTimeout, Hour, MaxLate, MaxOps} \subseteq Nat

VARIABLES
    heap,       \* m_timers
    ahead,      \* Timer::m_next - now
    ms,         \* Timer::m_ms; 0: not constructed
    armed,      \* timers whose m_cb is not null
    cancelled,  \* timers for which cancel() has returned true
    tickled,    \* m_tickled
    since,      \* now - m_sinceeTime
    op,         \* what each user is in the middle of
    mine,       \* the timer it does that to
    pc,         \* where each worker is in idle()
    age,        \* how long ago listExpiredCb read the clock, per worker
    wakeIn,     \* when epoll_wait times out, per worker
    expired,    \* the callbacks in idle()'s local vector, per worker
    edge,       \* the tickle pipe is ready
    opsLeft, jumped

timerVars  == <<heap, ahead, ms, armed, cancelled, tickled, since>>
userVars   == <<op, mine, opsLeft>>
workerVars == <<pc, age, wakeIn, expired>>
vars == <<timerVars, userVars, workerVars, edge, jumped>>

Init ==
    /\ heap = {} /\ armed = {} /\ cancelled = {}
    /\ ahead = [t \in Timers |-> 0]
    /\ ms = [t \in Timers |-> 0]
    /\ tickled = FALSE /\ since = 0 /\ jumped = FALSE
    /\ op = [u \in Users |-> "none"] /\ mine = [u \in Users |-> None] /\ opsLeft = MaxOps
    /\ pc = [w \in Workers |-> "work"]
    /\ age = [w \in Workers |-> 0]
    /\ wakeIn = [w \in Workers |-> 0]
    /\ expired = [w \in Workers |-> {}]
    /\ edge = FALSE

\* A worker that never leaves the loop of listExpiredCb keeps m_mutex.
Unlocked == \A w \in Workers : pc[w] # "spin"

\* A timer is in somebody's hands between its construction or erasure and its
\* insertion.
InHandOf(u) == op[u] \in {"add", "compute", "insert"}
InHand(t) == \E u \in Users : InHandOf(u) /\ mine[u] = t

\* Timers whose deadline is still looked at.
Live == {t \in Timers : t \in armed \cup heap \/ InHand(t)}

\* m_timers.find(t): the timer in the set with t's deadline.
Found(t) == {h \in heap : h = t \/ (Coincide /\ ahead[h] = ahead[t])}

NotErased(t) == heap                          \* mutant: erase is missing
Erased(t) == heap \ Found(t)

Expires(t, d) == ahead' = [ahead EXCEPT ![t] = d]

-----------------------------------------------------------------------------
(* The operations of a user thread.                                        *)

Starts(u, t, o) == op[u] = "none" /\ op' = [op EXCEPT ![u] = o] /\ mine' = [mine EXCEPT ![u] = t]

Continues(u, o, p) ==
    /\ op[u] = o
    /\ op' = [op EXCEPT ![u] = p]
    /\ mine' = [mine EXCEPT ![u] = IF p = "none" THEN None ELSE @]

\* A timer other threads may hold a pointer to: addTimer has inserted it.
Known(t) == ms[t] # 0 /\ \A u \in Users : ~(op[u] = "add" /\ mine[u] = t)

\* addTimer: the constructor reads the clock before the lock is taken.
Construct(u, t) ==
    /\ ms[t] = 0
    /\ Starts(u, t, "add")
    /\ \E m \in Periods : Expires(t, m) /\ ms' = [ms EXCEPT ![t] = m]
    /\ armed' = armed \cup {t}
    /\ UNCHANGED <<heap, cancelled, tickled, since, opsLeft, workerVars, edge, jumped>>

\* addTimer(timer): insert, and decide whether epoll_wait has to be woken.
\* Whether t, or what keeps it out, is the first: open for a tie within a tick.
AtBegin(t) == {\A h \in heap : ahead[t] <= ahead[h],
               \A h \in heap \ Found(t) : ahead[t] < ahead[h]}

Insert(u) ==
    LET t == mine[u]
    IN  /\ Unlocked /\ op[u] \in {"add", "insert"}
        /\ heap' = IF Found(t) = {} THEN heap \cup {t} ELSE heap
        /\ \E first \in AtBegin(t) :
            /\ Continues(u, op[u], IF first /\ ~tickled THEN "tickle" ELSE "none")
            /\ tickled' = (tickled \/ first)
        /\ UNCHANGED <<ahead, ms, armed, cancelled, since, opsLeft, workerVars, edge, jumped>>

\* onTimerInsertedAtFront: IOManager::tickle.
Tickle(u) ==
    /\ Continues(u, "tickle", "none")
    /\ edge' = (edge \/ \E w \in Workers : pc[w] # "work")
    /\ UNCHANGED <<timerVars, opsLeft, workerVars, jumped>>

KeepCb(t) == armed                            \* mutant: cancel only erases
ClearCb(t) == armed \ {t}

\* cancel: m_cb = nullptr, and erase what find returns.
Cancel(u, t) ==
    /\ op[u] = "none" /\ Unlocked
    /\ Known(t) /\ t \in armed
    /\ armed' = ClearCb(t)
    /\ heap' = Erased(t)
    /\ cancelled' = cancelled \cup {t}
    /\ UNCHANGED <<ahead, ms, tickled, since, userVars, workerVars, edge, jumped>>

\* What find returned is erased, and t inserted again, further back: no tickle.
DropsOut(t) == Erased(t)                      \* mutant: not inserted again
Refreshed(t) == Erased(t) \cup {h \in {t} : ~Coincide \/ \A g \in Erased(t) : ahead[g] # ms[t]}

Refresh(u, t) ==
    /\ op[u] = "none" /\ Unlocked /\ opsLeft > 0
    /\ Known(t) /\ t \in armed /\ Found(t) # {}
    /\ Expires(t, ms[t])
    /\ heap' = Refreshed(t)
    /\ opsLeft' = opsLeft - 1
    /\ UNCHANGED <<ms, armed, cancelled, tickled, since, op, mine, workerVars, edge, jumped>>

\* reset: erase under the lock ...
ResetErase(u, t) ==
    /\ Unlocked /\ opsLeft > 0
    /\ Known(t) /\ t \in armed /\ Found(t) # {}
    /\ Starts(u, t, "compute")
    /\ heap' = Erased(t)
    /\ opsLeft' = opsLeft - 1
    /\ UNCHANGED <<ahead, ms, armed, cancelled, tickled, since, workerVars, edge, jumped>>

\* ... compute without it, from now or from the old start, and then Insert.
ResetCompute(u) ==
    LET t == mine[u]
    IN  /\ Continues(u, "compute", "insert")
        /\ \E m \in Periods, fromNow \in BOOLEAN :
            /\ m # ms[t] \/ fromNow
            /\ Expires(t, IF fromNow THEN m ELSE ahead[t] - ms[t] + m)
            /\ ms' = [ms EXCEPT ![t] = m]
        /\ UNCHANGED <<heap, armed, cancelled, tickled, since, opsLeft, workerVars, edge, jumped>>

-----------------------------------------------------------------------------
(* The idle fiber of a worker.                                             *)

Goto(w, p) == pc' = [pc EXCEPT ![w] = p]

\* getNextTimer resets m_tickled: the next insertion at the front tickles again.
TickledStays == tickled                       \* mutant: never reset
TickledReset == FALSE

\* The worker is idle; stopping() calls getNextTimer and finds work to wait for.
GoIdle(w) ==
    /\ pc[w] = "work" /\ Unlocked
    /\ tickled' = TickledReset
    /\ Goto(w, "poll")
    /\ UNCHANGED <<heap, ahead, ms, armed, cancelled, since, userVars, age, wakeIn, expired, edge, jumped>>


\* getNextTimer: how long until the first deadline.
NextTimer == IF heap = {} THEN MaxTimeout ELSE Max({0, Min({ahead[h] : h \in heap})})

\* getNextTimer again, for the timeout of epoll_wait.
Poll(w) ==
    /\ pc[w] = "poll" /\ Unlocked
    /\ tickled' = TickledReset
    /\ wakeIn' = [wakeIn EXCEPT ![w] = Min({NextTimer, MaxTimeout})]
    /\ Goto(w, "wait")
    /\ UNCHANGED <<heap, ahead, ms, armed, cancelled, since, userVars, age, expired, edge, jumped>>

\* epoll_wait returns, woken by the pipe or timed out, and listExpiredCb reads the
\* clock before it takes the lock.
EpollReturns(w) ==
    /\ pc[w] = "wait"
    /\ edge \/ wakeIn[w] = 0
    /\ edge' = FALSE
    /\ age' = [age EXCEPT ![w] = 0]
    /\ wakeIn' = [wakeIn EXCEPT ![w] = 0]
    /\ Goto(w, "list")
    /\ UNCHANGED <<timerVars, userVars, expired, jumped>>

\* detectClockRollover.
RolloverInverted == since > -Hour             \* mutant: the comparison turned round
Rollover == since < -Hour

\* The timers the loop pops: all of them after a rollover.
Popped(w) == {h \in heap : Rollover \/ ahead[h] + age[w] <= 0}

NotReinserted(w) == {}                        \* mutant: nothing is inserted again

\* Of the recurring ones, re-inserted in the order of their old deadlines, those
\* that find their new deadline taken are gone.
Reinserted(w) ==
    LET again == Popped(w) \cap Recurring
    IN  {r \in again :
            Coincide => /\ \A h \in heap \ Popped(w) : ahead[h] # ms[r] - age[w]
                        /\ \A q \in again : ms[q] = ms[r] => ahead[r] <= ahead[q]}

\* listExpiredCb.  After a rollover the loop runs until the set is empty, which a
\* recurring timer prevents.
ListExpired(w) ==
    /\ pc[w] = "list" /\ Unlocked
    /\ since' = 0
    /\ age' = [age EXCEPT ![w] = 0]
    /\ IF Rollover /\ heap \cap Recurring # {}
       THEN Goto(w, "spin") /\ UNCHANGED <<heap, ahead, armed, expired>>
       ELSE /\ expired' = [expired EXCEPT ![w] = Popped(w) \cap armed]
            /\ heap' = (heap \ Popped(w)) \cup Reinserted(w)
            /\ ahead' = [t \in Timers |-> IF t \in Popped(w) \cap Recurring
                                          THEN ms[t] - age[w] ELSE ahead[t]]
            /\ armed' = armed \ (Popped(w) \ Recurring)
            /\ Goto(w, "fire")
    /\ UNCHANGED <<ms, cancelled, tickled, userVars, wakeIn, edge, jumped>>

\* The callbacks are scheduled; the idle fiber yields and tasks are executed.
Fire(w) ==
    /\ pc[w] = "fire"
    /\ expired' = [expired EXCEPT ![w] = {}]
    /\ Goto(w, "work")
    /\ UNCHANGED <<timerVars, userVars, age, wakeIn, edge, jumped>>

-----------------------------------------------------------------------------
(* The clock.  A deadline counts as passed by MaxLate at most, and a worker  *)
(* takes the lock of listExpiredCb MaxLate after it read the clock at most.  *)
(* A distance since the last listExpiredCb that no jump can turn into a      *)
(* rollover needs no counting.                                               *)

Advance ==
    /\ \A w \in Workers : age[w] < MaxLate
    /\ ahead' = [t \in Timers |-> IF t \in Live THEN Max({-MaxLate, ahead[t] - 1}) ELSE 0]
    /\ wakeIn' = [w \in Workers |-> Max({0, wakeIn[w] - 1})]
    /\ age' = [w \in Workers |-> IF pc[w] = "list" THEN age[w] + 1 ELSE 0]
    /\ since' = Min({since + 1, Max(Jumps \cup {0})})
    /\ UNCHANGED <<heap, ms, armed, cancelled, tickled, userVars, pc, expired, edge, jumped>>

\* The system clock is set back; epoll_wait does not notice.
SetBack ==
    /\ ~jumped /\ jumped' = TRUE
    /\ \E k \in Jumps :
        /\ ahead' = [t \in Timers |-> IF t \in Live THEN ahead[t] + k ELSE 0]
        /\ age' = [w \in Workers |-> IF pc[w] = "list" THEN age[w] - k ELSE 0]
        /\ since' = since - k
    /\ UNCHANGED <<heap, ms, armed, cancelled, tickled, userVars, pc, wakeIn, expired, edge>>

UserStep(u) ==
    \/ Insert(u) \/ Tickle(u) \/ ResetCompute(u)
    \/ \E t \in Timers : Construct(u, t) \/ Cancel(u, t) \/ Refresh(u, t) \/ ResetErase(u, t)

WorkerStep(w) == GoIdle(w) \/ Poll(w) \/ EpollReturns(w) \/ ListExpired(w) \/ Fire(w)

Next == \/ \E u \in Users : UserStep(u)
        \/ \E w \in Workers : WorkerStep(w)
        \/ Advance \/ SetBack

Spec == Init /\ [][Next]_vars

\* Threads run, and time passes.  No user is obliged to start an operation.
FairSpec ==
    /\ Spec
    /\ \A w \in Workers : WF_vars(WorkerStep(w))
    /\ \A u \in Users : WF_vars(Insert(u) \/ Tickle(u) \/ ResetCompute(u))
    /\ WF_vars(Advance)

-----------------------------------------------------------------------------
(* Correctness.                                                            *)

\* Type invariant of the state above.
TypeOK ==
    /\ heap \subseteq Timers /\ armed \subseteq Timers /\ cancelled \subseteq Timers
    /\ ahead \in [Timers -> Int] /\ ms \in [Timers -> Periods \cup {0}]
    /\ tickled \in BOOLEAN /\ edge \in BOOLEAN /\ jumped \in BOOLEAN
    /\ since \in Int /\ opsLeft \in 0..MaxOps
    /\ op \in [Users -> {"none", "add", "insert", "tickle", "compute"}]
    /\ mine \in [Users -> Timers \cup {None}]
    /\ \A u \in Users : mine[u] = None <=> op[u] = "none"
    /\ pc \in [Workers -> {"work", "poll", "wait", "list", "fire", "spin"}]
    /\ age \in [Workers -> Int] /\ wakeIn \in [Workers -> 0..MaxTimeout]
    /\ expired \in [Workers -> SUBSET Timers]
    /\ \A w \in Workers : expired[w] # {} => pc[w] = "fire"

\* reset() writes m_next, which the order of the set is made of, without the
\* lock: only ever for a timer that is out of the set, and one thread at a time.
ResetOutsideHeap ==
    \A u \in Users : InHandOf(u) =>
        mine[u] \notin heap /\ \A v \in Users \ {u} : InHandOf(v) => mine[v] # mine[u]

\* A timer that has neither fired nor been cancelled is in the set, or in the
\* hands of a thread that will insert it: no operation on another timer, and no
\* expiry, drops it.  It is what std::set denies two timers with one deadline.
ArmedInHeap == \A t \in armed : t \in heap \/ InHand(t)

\* The type invariant, and no timer lost.
TimerInv == TypeOK /\ ArmedInHeap

\* Once cancel() has returned true no expiry hands out the callback, although
\* reset() may put the timer back into the set after that.
CancelledStaysSilent == [][\A w \in Workers : (expired'[w] \ expired[w]) \cap cancelled = {}]_vars

\* Unless the clock was set back, an expired timer's deadline has passed.
NeverEarly == [][~jumped => \A w \in Workers : \A t \in expired'[w] \ expired[w] : ahead[t] <= 0]_vars

\* The workers do not all sleep past a deadline inserted meanwhile: one wakes by
\* then, the pipe is ready, or a tickle is due (m_tickled admits only one).  refresh()
\* after the clock was set back would do that: it tickles nobody.
NoOversleep ==
    (~jumped /\ \A w \in Workers : pc[w] = "wait") =>
        \/ edge \/ \E u \in Users : op[u] = "tickle"
        \/ \A h \in heap : \E w \in Workers : wakeIn[w] <= Max({0, ahead[h]})

\* The comment at timer.cpp:169 says that an expired recurring timer is added to the
\* heap again: it is, unless its new deadline is taken (Coincide).
RecurringStays ==
    [][\A t \in Recurring : (\E w \in Workers : t \in expired'[w] \ expired[w]) => t \in heap']_vars

\* What listExpiredCb hands out: nothing before its time, and the recurring timers of it
\* stay in the heap (timer.cpp:151 to 180).
ExpiriesRight == NeverEarly /\ RecurringStays

\* Every armed one-shot timer fires or is cancelled in the end.
Fires == \A t \in Timers \ Recurring : t \in armed ~> t \notin armed
=============================================================================
