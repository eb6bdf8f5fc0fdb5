---------------------------- MODULE IOEventsProofs ----------------------------
(***************************************************************************)
(* Theorems about IOEvents, for any descriptors, waiters and threads.      *)
(*                                                                         *)
(* SlotInv is TriggeredOnce place by place: a waiter is in one context at  *)
(* most, and then not in m_tasks.  ClosedInv holds when nobody uses a      *)
(* descriptor that is being closed: nothing is registered for it then, and *)
(* epoll_ctl never fails.  Counted relates m_pendingEventCount to the      *)
(* registered events, as a set of pairs whose size is counted.             *)
(***************************************************************************)
EXTENDS IOEvents, FiniteSetTheorems, TLAPS

Shape ==
    /\ events \in [Fds -> SUBSET Events] /\ interest \in [Fds -> SUBSET Events]
    /\ ctx \in [Fds -> [Events -> Waiters \cup {None}]]
    /\ queued \in [Waiters -> Nat]
    /\ closing \subseteq open /\ open \subseteq Fds
    /\ batch \in [Threads -> [Fds -> SUBSET Conditions]]
    /\ level \in [Fds -> SUBSET Conditions]

SlotInv ==
    /\ \A f, g \in Fds, d, e \in Events :
          ctx[f][d] # None /\ ctx[f][d] = ctx[g][e] => f = g /\ d = e
    /\ \A w \in Waiters : queued[w] <= 1
    /\ \A w \in Waiters, f \in Fds, e \in Events : ctx[f][e] = w => queued[w] = 0

ClosedInv == KernelAgrees /\ \A f \in Fds : f \in closing \/ f \notin open => events[f] = {}

\* The parts that hold whatever fibers do with a descriptor that is being closed.
Contexts == Shape /\ ContextsMatch /\ SlotInv

\* triggerEvent for registered events keeps the contexts right: each waiter leaves
\* its only context, and enters m_tasks, where it was not.
LEMMA TriggerContexts ==
    ASSUME Contexts, NEW f \in Fds, NEW es \in SUBSET events[f], Trigger(f, es)
    PROVE  /\ events' \in [Fds -> SUBSET Events]
           /\ ctx' \in [Fds -> [Events -> Waiters \cup {None}]]
           /\ queued' \in [Waiters -> Nat]
           /\ ContextsMatch' /\ SlotInv'
<1> USE IOAssumption DEF Contexts, Shape, ContextsMatch, SlotInv
<1> DEFINE Here(w) == {e \in es : ctx[f][e] = w}
<1>1. es \subseteq Events
  OBVIOUS
<1>2. /\ events' = [events EXCEPT ![f] = @ \ es]
      /\ ctx' = [ctx EXCEPT ![f] = [e \in Events |-> IF e \in es THEN None ELSE @[e]]]
      /\ queued' = [w \in Waiters |-> queued[w] + Cardinality(Here(w))]
  BY DEF Trigger
<1>3. \A g \in Fds, e \in Events :
          ctx'[g][e] = IF g = f /\ e \in es THEN None ELSE ctx[g][e]
  BY <1>2
<1>4. /\ events' \in [Fds -> SUBSET Events]
      /\ ctx' \in [Fds -> [Events -> Waiters \cup {None}]]
  <2>1. [e \in Events |-> IF e \in es THEN None ELSE ctx[f][e]] \in [Events -> Waiters \cup {None}]
    OBVIOUS
  <2> QED
    BY <1>2, <2>1
<1>5. ContextsMatch'
  BY <1>1, <1>2, <1>3
<1>6. ASSUME NEW w \in Waiters
      PROVE  \/ /\ queued'[w] = queued[w]
                /\ \A e \in es : ctx[f][e] # w
             \/ /\ queued[w] = 0 /\ queued'[w] = 1
                /\ \E e \in es : ctx[f][e] = w
  <2>1. queued'[w] = queued[w] + Cardinality(Here(w)) /\ queued[w] \in Nat
    BY <1>2
  <2>2. CASE \A e \in es : ctx[f][e] # w
    <3>1. Here(w) = {}
      BY <2>2
    <3>2. Cardinality(Here(w)) = 0
      BY <3>1, FS_EmptySet
    <3> QED
      BY <2>1, <2>2, <3>2
  <2>3. ASSUME NEW e \in es, ctx[f][e] = w
        PROVE  queued[w] = 0 /\ queued'[w] = 1
    <3>1. \A d \in es : ctx[f][d] = w => d = e
      BY <1>1, <2>3
    <3>2. Here(w) = {e}
      BY <2>3, <3>1
    <3>3. Cardinality({e}) = 1
      BY FS_Singleton
    <3>4. queued[w] = 0
      BY <1>1, <2>3
    <3> HIDE DEF Here
    <3> QED
      BY <2>1, <3>2, <3>3, <3>4
  <2> QED
    BY <2>2, <2>3
<1>7. queued' \in [Waiters -> Nat]
  <2>1. \A w \in Waiters : queued'[w] \in Nat
    BY <1>6
  <2> QED
    BY <1>2, <2>1
<1>8. SlotInv'
  <2>1. \A w \in Waiters : queued'[w] <= 1
    BY <1>6
  <2>2. \A g, h \in Fds, d, e \in Events :
            ctx'[g][d] # None /\ ctx'[g][d] = ctx'[h][e] => g = h /\ d = e
    BY <1>3
  <2>3. ASSUME NEW w \in Waiters, NEW g \in Fds, NEW e \in Events, ctx'[g][e] = w
        PROVE  queued'[w] = 0
    <3>1. ctx[g][e] = w /\ ~(g = f /\ e \in es)
      BY <1>3, <2>3
    <3>2. \A d \in es : ctx[f][d] # w
      BY <1>1, <3>1
    <3>3. queued[w] = 0
      BY <3>1
    <3> QED
      BY <1>6, <3>2, <3>3
  <2> QED
    BY <2>1, <2>2, <2>3
<1> QED
  BY <1>4, <1>5, <1>7, <1>8

\* epoll_ctl keeps the type of its interest list.
LEMMA CtlInterest ==
    ASSUME Shape, NEW f \in Fds, NEW new \in SUBSET Events, Ctl(f, new)
    PROVE  interest' \in [Fds -> SUBSET Events] /\ UNCHANGED <<open, level>>
BY DEF Shape, Ctl

\* What idle() takes for the events of a descriptor are events.
LEMMA RealEvents ==
    ASSUME Shape, NEW k \in Threads, NEW f \in Fds
    PROVE  Real(k, f) \subseteq Events /\ Left(k, f) \subseteq Events
BY DEF Shape, Real, Left, Conditions

\* There is nothing registered at first.
LEMMA InitContexts == Init => Contexts /\ ClosedInv /\ NoLostEdge
BY IOAssumption DEF Init, Contexts, Shape, ContextsMatch, SlotInv, ClosedInv, KernelAgrees,
                    NoLostEdge

\* addEvent puts a waiter that was nowhere into an empty context.
LEMMA AddContexts ==
    ASSUME Contexts, NEW w \in Waiters, NEW f \in Fds, NEW e \in Events, AddEvent(w, f, e)
    PROVE  Contexts'
<1> USE IOAssumption DEF Contexts, Shape, ContextsMatch, SlotInv
<1>1. /\ events' = [events EXCEPT ![f] = @ \cup {e}]
      /\ ctx' = [ctx EXCEPT ![f][e] = w]
      /\ Ctl(f, events[f] \cup {e})
      /\ queued[w] = 0 /\ UNCHANGED <<queued, closing, batch>>
  BY DEF AddEvent
<1>2. interest' \in [Fds -> SUBSET Events] /\ UNCHANGED <<open, level>>
  BY <1>1, CtlInterest
<1>3. \A g \in Fds, d \in Events :
          ctx'[g][d] = IF g = f /\ d = e THEN w ELSE ctx[g][d]
  BY <1>1
<1>4. \A g \in Fds, d \in Events : ctx[g][d] # w
  <2>1. ASSUME NEW g \in Fds, NEW d \in Events, ctx[g][d] = w
        PROVE  <<g, d>> \in Slots(w)
    BY <2>1 DEF Slots
  <2> QED
    BY <2>1 DEF AddEvent
<1>5. Shape'
  BY <1>1, <1>2
<1>6. ContextsMatch'
  BY <1>1, <1>3
<1>7. SlotInv'
  BY <1>1, <1>3, <1>4
<1> QED
  BY <1>5, <1>6, <1>7

\* delEvent empties a context, and its waiter is nowhere then.
LEMMA DelContexts ==
    ASSUME Contexts, NEW f \in Fds, NEW e \in Events, DelEvent(f, e)
    PROVE  Contexts'
<1> USE IOAssumption DEF Contexts, Shape, ContextsMatch, SlotInv
<1>1. /\ events' = [events EXCEPT ![f] = @ \ {e}]
      /\ ctx' = [ctx EXCEPT ![f][e] = None]
      /\ Ctl(f, events[f] \ {e})
      /\ UNCHANGED <<queued, closing, batch>>
  BY DEF DelEvent
<1>2. interest' \in [Fds -> SUBSET Events] /\ UNCHANGED <<open, level>>
  BY <1>1, CtlInterest
<1>3. \A g \in Fds, d \in Events :
          ctx'[g][d] = IF g = f /\ d = e THEN None ELSE ctx[g][d]
  BY <1>1
<1>4. Shape'
  BY <1>1, <1>2
<1>5. ContextsMatch'
  BY <1>1, <1>3
<1>6. SlotInv'
  BY <1>1, <1>3
<1> QED
  BY <1>4, <1>5, <1>6

\* The three ways to trigger events.
LEMMA TriggeringContexts ==
    ASSUME Contexts, NEW f \in Fds, NEW new \in SUBSET Events, NEW es \in SUBSET events[f],
           Ctl(f, new), Trigger(f, es), closing' \subseteq open,
           batch' \in [Threads -> [Fds -> SUBSET Conditions]]
    PROVE  Contexts'
BY TriggerContexts, CtlInterest DEF Contexts, Shape

\* The steps that touch neither events nor contexts.
LEMMA OtherContexts ==
    ASSUME Contexts, UNCHANGED <<events, ctx>>,
           \/ queued' = queued
           \/ \E w \in Waiters : queued[w] > 0 /\ queued' = [queued EXCEPT ![w] = @ - 1],
           interest' \in [Fds -> SUBSET Events], level' \in [Fds -> SUBSET Conditions],
           closing' \subseteq open' /\ open' \subseteq Fds,
           batch' \in [Threads -> [Fds -> SUBSET Conditions]]
    PROVE  Contexts'
<1>1. \A w \in Waiters : queued'[w] \in Nat /\ queued'[w] <= queued[w]
  BY DEF Contexts, Shape
<1>2. queued' \in [Waiters -> Nat]
  BY <1>1 DEF Contexts, Shape
<1>3. SlotInv'
  <2>1. \A w \in Waiters : queued[w] \in Nat
    BY DEF Contexts, Shape
  <2> QED
    BY <1>1, <2>1 DEF Contexts, SlotInv
<1> QED
  BY <1>2, <1>3 DEF Contexts, Shape, ContextsMatch

\* Every step keeps Contexts.
LEMMA NextContexts == Contexts /\ [Next]_vars => Contexts'
<1> SUFFICES ASSUME Contexts, [Next]_vars
             PROVE  Contexts'
  OBVIOUS
<1> USE DEF ioVars, kernelVars
<1>1. Shape
  BY DEF Contexts
<1>2. ASSUME NEW f \in Fds, \/ \E c \in Conditions : Arrive(f, c)
                            \/ \E e \in Events : Consume(f, e)
                            \/ Open(f) \/ CloseFd(f)
      PROVE  Contexts'
  <2>1. UNCHANGED <<events, ctx, queued, batch>>
    BY <1>2 DEF Arrive, Consume, Open, CloseFd
  <2>2. interest' \in [Fds -> SUBSET Events]
    BY <1>1, <1>2 DEF Arrive, Consume, Open, CloseFd, Shape
  <2>3. closing' \subseteq open' /\ open' \subseteq Fds
    BY <1>1, <1>2 DEF Arrive, Consume, Open, CloseFd, Shape
  <2>4. level' \in [Fds -> SUBSET Conditions]
    BY <1>1, <1>2 DEF Arrive, Consume, Open, CloseFd, Shape
  <2> QED
    BY <1>1, <2>1, <2>2, <2>3, <2>4, OtherContexts DEF Shape
<1>3. ASSUME NEW f \in Fds, NEW e \in Events, CancelEvent(f, e)
      PROVE  Contexts'
  <2>1. /\ events[f] \ {e} \in SUBSET Events /\ {e} \in SUBSET events[f]
        /\ Ctl(f, events[f] \ {e}) /\ Trigger(f, {e}) /\ UNCHANGED <<closing, batch>>
    BY <1>1, <1>3 DEF CancelEvent, Shape
  <2> QED
    BY <1>1, <2>1, TriggeringContexts DEF Shape
<1>4. ASSUME NEW f \in Fds, Close(f)
      PROVE  Contexts'
  <2>1. f \in open /\ closing' = closing \cup {f} /\ UNCHANGED batch
    BY <1>4 DEF Close
  <2>2. CASE Ctl(f, {}) /\ Trigger(f, events[f])
    BY <1>1, <2>1, <2>2, TriggeringContexts DEF Shape
  <2>3. CASE UNCHANGED <<ioVars, kernelVars>>
    BY <1>1, <2>1, <2>3, OtherContexts DEF Shape
  <2> QED
    BY <1>4, <2>2, <2>3 DEF Close, CancelAll
<1>5. ASSUME NEW w \in Waiters, Run(w)
      PROVE  Contexts'
  BY <1>1, <1>5, OtherContexts DEF Run, Shape
<1>6. ASSUME NEW k \in Threads, EpollWait(k)
      PROVE  Contexts'
  <2>1. batch' \in [Threads -> [Fds -> SUBSET Conditions]]
    <3>1. Events \subseteq Conditions /\ "HUP" \in Conditions
      BY DEF Conditions
    <3>2. \A f \in Fds : {c \in level[f] : f \in rlist /\ c \in interest[f] \cup {"HUP"}}
                             \in SUBSET Conditions
      BY <1>1, <3>1 DEF Shape
    <3> QED
      BY <1>1, <1>6, <3>2 DEF EpollWait, Shape
  <2> QED
    BY <1>1, <1>6, <2>1, OtherContexts DEF EpollWait, Shape
<1>7. ASSUME NEW k \in Threads, NEW f \in Fds,
             HandleNothing(k, f) \/ HandleEvents(k, f) \/ HandleAborts(k, f)
      PROVE  Contexts'
  <2>1. batch' \in [Threads -> [Fds -> SUBSET Conditions]]
    <3>1. batch' = batch \/ batch' = [batch EXCEPT ![k] = [batch[k] EXCEPT ![f] = {}]]
      BY <1>7 DEF HandleNothing, HandleEvents, HandleAborts, Handled
    <3>2. [batch[k] EXCEPT ![f] = {}] \in [Fds -> SUBSET Conditions]
      BY <1>1 DEF Shape
    <3> QED
      BY <1>1, <3>1, <3>2 DEF Shape
  <2>2. CASE HandleNothing(k, f) \/ HandleAborts(k, f)
    BY <1>1, <2>1, <2>2, OtherContexts DEF HandleNothing, HandleAborts, Shape
  <2>3. CASE HandleEvents(k, f)
    <3>1. Left(k, f) \in SUBSET Events /\ Real(k, f) \in SUBSET events[f]
      BY <1>1, <2>3, RealEvents DEF HandleEvents
    <3> QED
      BY <1>1, <2>1, <2>3, <3>1, TriggeringContexts DEF HandleEvents, Shape
  <2> QED
    BY <1>7, <2>2, <2>3
<1>8. CASE UNCHANGED vars
  BY <1>1, <1>8, OtherContexts DEF vars, Shape
<1> QED
  BY <1>2, <1>3, <1>4, <1>5, <1>6, <1>7, <1>8, AddContexts, DelContexts
     DEF Next, FdStep, IdleStep

\* In every reachable state a context is empty exactly if its event is not
\* registered: the assertion of addEvent at ioscheduler.cpp:169 never fails.
THEOREM ContextsMatched == Spec => []ContextsMatch
<1>1. Contexts => ContextsMatch
  BY DEF Contexts
<1> QED
  BY <1>1, InitContexts, NextContexts, PTL DEF Spec

\* A waiter is in one context, or once in m_tasks, or in neither: whatever races, an
\* event, cancelEvent, cancelAll or close, it is triggered once.
THEOREM Once == Spec => []TriggeredOnce
<1>1. ASSUME Contexts
      PROVE  TriggeredOnce
  <2> SUFFICES ASSUME NEW w \in Waiters
               PROVE  Cardinality(Slots(w)) + queued[w] <= 1
    BY DEF TriggeredOnce
  <2>1. queued[w] \in Nat /\ queued[w] <= 1
    BY <1>1 DEF Contexts, Shape, SlotInv
  <2>2. CASE Slots(w) = {}
    <3>1. Cardinality(Slots(w)) = 0
      BY <2>2, FS_EmptySet
    <3> QED
      BY <2>1, <3>1
  <2>3. ASSUME NEW s \in Slots(w)
        PROVE  Cardinality(Slots(w)) + queued[w] <= 1
    <3>1. \A t \in Slots(w) : t \in Fds \X Events /\ ctx[t[1]][t[2]] = w
      BY DEF Slots
    <3>2. \A t \in Slots(w) : t[1] = s[1] /\ t[2] = s[2]
      BY <1>1, <2>3, <3>1, IOAssumption DEF Contexts, SlotInv
    <3>3. Slots(w) = {s}
      <4>1. \A t \in Slots(w) : t = <<t[1], t[2]>>
        BY <3>1
      <4> QED
        BY <2>3, <3>2, <4>1
    <3>4. queued[w] = 0
      BY <1>1, <2>3, <3>1 DEF Contexts, SlotInv
    <3>5. Cardinality({s}) = 1
      BY FS_Singleton
    <3> QED
      BY <3>3, <3>4, <3>5
  <2> QED
    BY <2>2, <2>3
<1> QED
  BY <1>1, InitContexts, NextContexts, PTL DEF Spec

-----------------------------------------------------------------------------
(* When nobody uses a descriptor that is being closed.                       *)

\* An operation whose epoll_ctl registers what events becomes keeps ClosedInv.
LEMMA CtlClosed ==
    ASSUME Shape, ClosedInv, NEW f \in Fds, NEW new \in SUBSET Events,
           f \notin closing \/ new = {}, f \in open,
           Ctl(f, new), events' = [events EXCEPT ![f] = new],
           closing' = closing \/ (new = {} /\ closing' = closing \cup {f})
    PROVE  ClosedInv'
BY DEF Shape, ClosedInv, KernelAgrees, Ctl

\* Every step keeps ClosedInv.
LEMMA NextClosed ==
    ASSUME ~Shared, Contexts, ClosedInv, [Next]_vars
    PROVE  ClosedInv'
<1> USE DEF ioVars, kernelVars
<1>1. Shape /\ KernelAgrees
  BY DEF Contexts, ClosedInv
<1>2. \A f \in Fds : events[f] # {} => f \in open /\ f \notin closing /\ CtlSucceeds(f)
  BY DEF ClosedInv, KernelAgrees, CtlSucceeds
<1>3. ASSUME NEW f \in Fds, NEW w \in Waiters, NEW e \in Events, AddEvent(w, f, e)
      PROVE  ClosedInv'
  <2>1. events[f] \cup {e} \in SUBSET Events
    BY <1>1 DEF Shape
  <2> QED
    BY <1>1, <1>3, <2>1, CtlClosed DEF AddEvent, CtlSucceeds
<1>4. ASSUME NEW f \in Fds, NEW e \in Events, DelEvent(f, e) \/ CancelEvent(f, e)
      PROVE  ClosedInv'
  <2>1. events[f] \ {e} \in SUBSET Events
    BY <1>1 DEF Shape
  <2> QED
    BY <1>1, <1>2, <1>4, <2>1, CtlClosed DEF DelEvent, CancelEvent, Trigger
<1>5. ASSUME NEW f \in Fds, Close(f)
      PROVE  ClosedInv'
  <2>1. CASE events[f] # {}
    <3>1. Ctl(f, {}) /\ Trigger(f, events[f]) /\ closing' = closing \cup {f} /\ f \in open
      BY <1>2, <1>5, <2>1 DEF Close, CancelAll
    <3>2. events' = [events EXCEPT ![f] = {}]
      BY <3>1 DEF Trigger
    <3> QED
      BY <1>1, <3>1, <3>2, CtlClosed
  <2>2. CASE events[f] = {}
    BY <1>5, <2>2 DEF Close, CancelAll, ClosedInv, KernelAgrees
  <2> QED
    BY <2>1, <2>2
<1>6. ASSUME NEW f \in Fds, CloseFd(f)
      PROVE  ClosedInv'
  BY <1>1, <1>6 DEF CloseFd, Shape, ClosedInv, KernelAgrees
<1>7. ASSUME NEW k \in Threads, NEW f \in Fds, HandleEvents(k, f)
      PROVE  ClosedInv'
  <2>1. /\ Ctl(f, Left(k, f)) /\ Left(k, f) \in SUBSET Events /\ closing' = closing
        /\ f \in open /\ f \notin closing
    BY <1>1, <1>2, <1>7, RealEvents DEF HandleEvents
  <2>2. events' = [events EXCEPT ![f] = Left(k, f)]
    BY <1>7 DEF HandleEvents, Trigger, Left
  <2> QED
    BY <1>1, <2>1, <2>2, CtlClosed
<1>8. ASSUME UNCHANGED <<events, interest>>, closing' = closing,
             open' = open \/ \E f \in Fds : open' = open \cup {f}
      PROVE  ClosedInv'
  BY <1>8 DEF ClosedInv, KernelAgrees
<1>9. ASSUME NEW f \in Fds, \/ \E c \in Conditions : Arrive(f, c)
                            \/ \E e \in Events : Consume(f, e)
                            \/ Open(f)
      PROVE  ClosedInv'
  BY <1>8, <1>9 DEF Arrive, Consume, Open
<1>10. ASSUME NEW w \in Waiters, Run(w)
       PROVE  ClosedInv'
  BY <1>8, <1>10 DEF Run
<1>11. ASSUME NEW k \in Threads, \/ EpollWait(k)
                                 \/ \E f \in Fds : HandleNothing(k, f) \/ HandleAborts(k, f)
       PROVE  ClosedInv'
  BY <1>8, <1>11 DEF EpollWait, HandleNothing, HandleAborts
<1>12. CASE UNCHANGED vars
  BY <1>8, <1>12 DEF vars
<1> QED
  BY <1>3, <1>4, <1>5, <1>6, <1>7, <1>9, <1>10, <1>11, <1>12 DEF Next, FdStep, IdleStep

\* epoll_ctl changes what epoll knows of one descriptor, and reports it if one of
\* the registered events holds.
LEMMA CtlEdge ==
    ASSUME Shape, NoLostEdge, NEW f \in Fds, NEW new \in SUBSET Events, Ctl(f, new),
           events' = [events EXCEPT ![f] = new], batch' = batch
    PROVE  NoLostEdge'
<1>1. level' = level
  BY DEF Ctl
<1>2. \A g \in Fds \ {f} : events'[g] = events[g] /\ (g \in rlist => g \in rlist')
  BY DEF Shape, Ctl
<1>3. ASSUME NEW e \in new, level[f] \cap {e, "HUP"} # {}
      PROVE  f \in rlist'
  BY <1>3 DEF Ctl
<1>4. events'[f] = new
  BY DEF Shape
<1> QED
  BY <1>1, <1>2, <1>3, <1>4 DEF NoLostEdge

\* The same when a thread has handled what it was told of the descriptor.
LEMMA HandleEdge ==
    ASSUME Shape, NoLostEdge, NEW k \in Threads, NEW f \in Fds, Handled(k, f),
           HandleEvents(k, f)
    PROVE  NoLostEdge'
<1>1. Ctl(f, Left(k, f)) /\ level' = level
  BY DEF HandleEvents, Ctl
<1>2. events' = [events EXCEPT ![f] = Left(k, f)]
  BY DEF HandleEvents, Trigger, Left
<1>3. \A g \in Fds \ {f} : events'[g] = events[g] /\ (g \in rlist => g \in rlist')
  BY <1>1, <1>2 DEF Shape, Ctl
<1>4. \A j \in Threads, g \in Fds \ {f} : batch'[j][g] = batch[j][g]
  BY DEF Shape, Handled
<1>5. ASSUME NEW e \in Left(k, f), level[f] \cap {e, "HUP"} # {}
      PROVE  f \in rlist'
  BY <1>1, <1>5 DEF Ctl
<1>6. events'[f] = Left(k, f)
  BY <1>2 DEF Shape
<1> QED
  BY <1>1, <1>3, <1>4, <1>5, <1>6 DEF NoLostEdge

\* What a thread skips, it was told of events that are not registered any more.
LEMMA SkipEdge ==
    ASSUME Contexts, ClosedInv, NoLostEdge, NEW k \in Threads, NEW f \in Fds,
           HandleNothing(k, f)
    PROVE  NoLostEdge'
<1>1. UNCHANGED <<events, level, rlist>>
  BY DEF HandleNothing, ioVars, kernelVars
<1>2. events[f] \cap Real(k, f) = {}
  BY DEF HandleNothing, ClosedInv, KernelAgrees, CtlSucceeds
<1>3. \A e \in events[f] : batch[k][f] \cap {e, "HUP"} = {}
  BY <1>2 DEF Real, Contexts, Shape, Events
<1>4. \A j \in Threads, g \in Fds : j # k \/ g # f => batch'[j][g] = batch[j][g]
  BY DEF HandleNothing, Handled, Contexts, Shape
<1> QED
  BY <1>1, <1>3, <1>4 DEF NoLostEdge

\* epoll_wait moves every edge to the thread that called it.
LEMMA WaitEdge ==
    ASSUME Contexts, ClosedInv, NoLostEdge, NEW k \in Threads, EpollWait(k)
    PROVE  NoLostEdge'
<1>1. UNCHANGED <<events, level>>
  BY DEF EpollWait, ioVars
<1>2. \A f \in Fds : batch[k][f] = {}
  BY DEF EpollWait
<1>3. \A j \in Threads, f \in Fds : batch[j][f] \subseteq batch'[j][f]
  BY <1>2 DEF EpollWait, Contexts, Shape
<1>4. ASSUME NEW f \in rlist, f \in Fds, NEW e \in events[f], level[f] \cap {e, "HUP"} # {}
      PROVE  batch'[k][f] \cap {e, "HUP"} # {}
  <2>1. batch'[k][f] = {c \in level[f] : c \in interest[f] \cup {"HUP"}}
    BY <1>4 DEF EpollWait, Contexts, Shape
  <2>2. e \in interest[f]
    BY <1>4 DEF ClosedInv, KernelAgrees
  <2> QED
    BY <1>4, <2>1, <2>2
<1> QED
  BY <1>1, <1>3, <1>4 DEF NoLostEdge

\* Every step keeps NoLostEdge.
LEMMA NextEdge ==
    ASSUME ~Shared, Contexts, ClosedInv, NoLostEdge, [Next]_vars
    PROVE  NoLostEdge'
<1> USE DEF ioVars, kernelVars
<1>1. Shape /\ KernelAgrees
  BY DEF Contexts, ClosedInv
<1>2. ASSUME NEW f \in Fds, NEW c \in Conditions, Arrive(f, c)
      PROVE  NoLostEdge'
  <2>1. UNCHANGED <<events, batch>> /\ \A g \in Fds : g \in rlist => g \in rlist'
    BY <1>2 DEF Arrive
  <2>2. \A g \in Fds : level'[g] = IF g = f THEN level[g] \cup {c} ELSE level[g]
    BY <1>1, <1>2 DEF Arrive, Shape
  <2>3. ASSUME NEW e \in events[f], c \in {e, "HUP"}
        PROVE  f \in rlist'
    BY <1>1, <1>2, <2>3 DEF Arrive, KernelAgrees
  <2> QED
    BY <2>1, <2>2, <2>3 DEF NoLostEdge
<1>3. ASSUME NEW f \in Fds, NEW e \in Events, Consume(f, e)
      PROVE  NoLostEdge'
  <2>1. UNCHANGED <<events, batch, rlist>> /\ \A g \in Fds : level'[g] \subseteq level[g]
    BY <1>3 DEF Consume
  <2> QED
    BY <2>1 DEF NoLostEdge
<1>4. ASSUME NEW f \in Fds, NEW w \in Waiters, NEW e \in Events, AddEvent(w, f, e)
      PROVE  NoLostEdge'
  <2>1. events[f] \cup {e} \in SUBSET Events
    BY <1>1 DEF Shape
  <2> QED
    BY <1>1, <1>4, <2>1, CtlEdge DEF AddEvent
<1>5. ASSUME NEW f \in Fds, NEW e \in Events, DelEvent(f, e) \/ CancelEvent(f, e)
      PROVE  NoLostEdge'
  <2>1. events[f] \ {e} \in SUBSET Events
    BY <1>1 DEF Shape
  <2> QED
    BY <1>1, <1>5, <2>1, CtlEdge DEF DelEvent, CancelEvent, Trigger
<1>6. ASSUME NEW f \in Fds, Close(f)
      PROVE  NoLostEdge'
  <2>1. CASE Ctl(f, {}) /\ Trigger(f, events[f])
    <3>1. events' = [events EXCEPT ![f] = {}] /\ batch' = batch
      BY <1>6, <2>1 DEF Trigger, Close
    <3> QED
      BY <1>1, <2>1, <3>1, CtlEdge
  <2>2. CASE UNCHANGED <<ioVars, kernelVars>>
    BY <1>6, <2>2 DEF Close, NoLostEdge
  <2> QED
    BY <1>6, <2>1, <2>2 DEF Close, CancelAll
<1>7. ASSUME NEW f \in Fds, CloseFd(f)
      PROVE  NoLostEdge'
  <2>1. events[f] = {} /\ UNCHANGED <<events, batch>>
    BY <1>7 DEF CloseFd, ClosedInv
  <2>2. \A g \in Fds \ {f} : level'[g] = level[g] /\ (g \in rlist => g \in rlist')
    BY <1>7 DEF CloseFd
  <2> QED
    BY <2>1, <2>2 DEF NoLostEdge
<1>8. ASSUME NEW k \in Threads, NEW f \in Fds, HandleEvents(k, f)
      PROVE  NoLostEdge'
  BY <1>1, <1>8, HandleEdge DEF HandleEvents
<1>9. ASSUME UNCHANGED <<events, level, rlist, batch>>
      PROVE  NoLostEdge'
  BY <1>9 DEF NoLostEdge
<1>10. ASSUME NEW k \in Threads, NEW f \in Fds, HandleAborts(k, f)
       PROVE  NoLostEdge'
  BY <1>9, <1>10 DEF HandleAborts
<1>11. CASE (\E f \in Fds : Open(f)) \/ (\E w \in Waiters : Run(w)) \/ UNCHANGED vars
  BY <1>9, <1>11 DEF Open, Run, vars
<1> QED
  BY <1>2, <1>3, <1>4, <1>5, <1>6, <1>7, <1>8, <1>10, <1>11, SkipEdge, WaitEdge
     DEF Next, FdStep, IdleStep

\* Unless a descriptor is used while it is closed, epoll and FdContext agree on what
\* is registered, so every epoll_ctl is the right one and succeeds.
THEOREM KernelAgreement == ASSUME ~Shared PROVE Spec => []KernelAgrees
<1>1. Contexts /\ ClosedInv /\ [Next]_vars => (Contexts /\ ClosedInv)'
  BY NextContexts, NextClosed
<1>2. ClosedInv => KernelAgrees
  BY DEF ClosedInv
<1> QED
  BY <1>1, <1>2, InitContexts, PTL DEF Spec

\* Unless a descriptor is used while it is closed, no wake-up is lost: an event that
\* holds and is registered will be reported, or a thread was told of it.
THEOREM EdgeKept == ASSUME ~Shared PROVE Spec => []NoLostEdge
<1> DEFINE I == Contexts /\ ClosedInv /\ NoLostEdge
<1>1. I /\ [Next]_vars => I'
  BY NextContexts, NextClosed, NextEdge
<1>2. Init => I
  BY InitContexts
<1> QED
  BY <1>1, <1>2, PTL DEF Spec

-----------------------------------------------------------------------------
(* The count of registered events.                                         *)

\* The registered events, with their descriptors.
Pairs == {s \in Fds \X Events : s[2] \in events[s[1]]}

\* There are finitely many of them.
LEMMA PairsFinite == IsFiniteSet(Pairs) /\ Cardinality(Pairs) \in Nat
<1>1. IsFiniteSet({"READ"}) /\ IsFiniteSet({"READ"} \cup {"WRITE"})
  BY FS_Singleton, FS_Union
<1>2. Events = {"READ"} \cup {"WRITE"}
  BY DEF Events
<1>3. IsFiniteSet(Fds \X Events)
  BY <1>1, <1>2, IOAssumption, FS_Product
<1>4. Pairs \in SUBSET (Fds \X Events)
  BY DEF Pairs
<1> HIDE DEF Pairs
<1> QED BY <1>3, <1>4, FS_Subset, FS_CardinalityType

\* Taking some of one descriptor's events away takes as many pairs away.
LEMMA PairsLess ==
    ASSUME Shape, NEW f \in Fds, NEW es \in SUBSET events[f],
           events' = [events EXCEPT ![f] = @ \ es]
    PROVE  Cardinality(Pairs') = Cardinality(Pairs) - Cardinality(es)
<1> DEFINE Gone == {f} \X es
<1>1. Pairs' = Pairs \ Gone
  BY DEF Shape, Pairs
<1>2. Gone \subseteq Pairs
  BY DEF Shape, Pairs
<1>3. IsFiniteSet(es)
  <2>1. IsFiniteSet({"READ"}) /\ IsFiniteSet({"READ"} \cup {"WRITE"})
    BY FS_Singleton, FS_Union
  <2>2. es \in SUBSET ({"READ"} \cup {"WRITE"})
    BY DEF Shape, Events
  <2> QED BY <2>1, <2>2, FS_Subset
<1>4. Cardinality(Gone) = 1 * Cardinality(es)
  <2>1. IsFiniteSet({f}) /\ Cardinality({f}) = 1
    BY FS_Singleton
  <2> QED BY <1>3, <2>1, FS_Product
<1>5. Cardinality(es) \in Nat
  BY <1>3, FS_CardinalityType
<1> HIDE DEF Gone
<1>6. Pairs \cap Gone = Gone
  BY <1>2
<1>7. Cardinality(Pairs \ Gone) = Cardinality(Pairs) - Cardinality(Gone)
  BY <1>6, PairsFinite, FS_Difference
<1> QED BY <1>1, <1>4, <1>5, <1>7

\* Registering one more event adds one pair.
LEMMA PairsMore ==
    ASSUME Shape, NEW f \in Fds, NEW e \in Events, e \notin events[f],
           events' = [events EXCEPT ![f] = @ \cup {e}]
    PROVE  Cardinality(Pairs') = Cardinality(Pairs) + 1
<1>1. Pairs' = Pairs \cup {<<f, e>>} /\ <<f, e>> \notin Pairs
  BY DEF Shape, Pairs
<1> QED BY <1>1, PairsFinite, FS_AddElement

\* What epoll has to report is of open descriptors.
Listed == rlist \subseteq open

\* The invariant of the count; ~Shared is not needed.
Counted == Shape /\ aborted \in BOOLEAN /\ Listed /\ PendingCounts

\* epoll_ctl lists an open descriptor only.
LEMMA CtlListed ==
    ASSUME Listed, NEW f \in open, NEW new, Ctl(f, new)
    PROVE  Listed'
BY DEF Ctl, Listed

\* Triggering events and counting them off keeps the count right.
LEMMA TriggerCounts ==
    ASSUME Shape, PendingCounts, NEW f \in Fds, NEW es \in SUBSET events[f],
           Trigger(f, es), pending' = PendingLess(Cardinality(es))
    PROVE  PendingCounts'
BY PairsLess, PairsFinite DEF Trigger, PendingCounts, PendingLess, Pairs

\* The count and the ready list before any event is added.
LEMMA CountedInit == Init => Listed /\ aborted \in BOOLEAN /\ PendingCounts
<1> SUFFICES ASSUME Init PROVE Listed /\ aborted \in BOOLEAN /\ PendingCounts
  OBVIOUS
<1>1. Pairs = {}
  BY DEF Init, Pairs
<1>2. PendingCounts
  BY <1>1, FS_EmptySet DEF Init, PendingCounts, Pairs
<1> QED BY <1>2 DEF Init, Listed

\* Every change of the registered events changes the count as much.
LEMMA CountedStep == Counted /\ [Next]_vars => (Listed /\ aborted \in BOOLEAN /\ PendingCounts)'
<1> SUFFICES ASSUME Counted, [Next]_vars
             PROVE  Listed' /\ aborted' \in BOOLEAN /\ PendingCounts'
  OBVIOUS
<1>0. Shape /\ Listed /\ PendingCounts /\ aborted \in BOOLEAN
  BY DEF Counted
<1>1. ASSUME NEW f \in Fds, NEW e \in Events, NEW w \in Waiters, AddEvent(w, f, e)
      PROVE  Listed' /\ aborted' \in BOOLEAN /\ PendingCounts'
  <2>1. Listed'
    BY <1>0, <1>1, CtlListed DEF AddEvent, CtlSucceeds
  <2>2. Cardinality(Pairs') = Cardinality(Pairs) + 1
    BY <1>0, <1>1, PairsMore DEF AddEvent
  <2>3. PendingCounts'
    BY <1>0, <1>1, <2>2 DEF AddEvent, PendingCounts, Pairs
  <2> QED BY <1>0, <1>1, <2>1, <2>3 DEF AddEvent
<1>2. ASSUME NEW f \in Fds, NEW e \in Events, DelEvent(f, e)
      PROVE  Listed' /\ aborted' \in BOOLEAN /\ PendingCounts'
  <2>1. Listed'
    BY <1>0, <1>2, CtlListed DEF DelEvent, CtlSucceeds
  <2>2. Cardinality(Pairs') = Cardinality(Pairs) - Cardinality({e})
    BY <1>0, <1>2, PairsLess DEF DelEvent
  <2>3. PendingCounts'
    BY <1>0, <1>2, <2>2, FS_Singleton, PairsFinite DEF DelEvent, PendingCounts, Pairs, PendingLess
  <2> QED BY <1>0, <1>2, <2>1, <2>3 DEF DelEvent
<1>3. ASSUME NEW f \in Fds, NEW e \in Events, CancelEvent(f, e)
      PROVE  Listed' /\ aborted' \in BOOLEAN /\ PendingCounts'
  <2>1. Listed'
    BY <1>0, <1>3, CtlListed DEF CancelEvent, CtlSucceeds
  <2>2. {e} \in SUBSET events[f] /\ Trigger(f, {e}) /\ pending' = PendingLess(Cardinality({e}))
    BY <1>3, FS_Singleton DEF CancelEvent
  <2>3. PendingCounts'
    BY <1>0, <2>2, TriggerCounts
  <2> QED BY <1>0, <1>3, <2>1, <2>3 DEF CancelEvent
<1>4. ASSUME NEW f \in Fds, Close(f)
      PROVE  Listed' /\ aborted' \in BOOLEAN /\ PendingCounts'
  <2>1. CASE UNCHANGED <<ioVars, kernelVars>>
    BY <1>0, <1>4, <2>1 DEF Close, Listed, PendingCounts, ioVars, kernelVars
  <2>2. CASE ~UNCHANGED <<ioVars, kernelVars>>
    <3>1. /\ Ctl(f, {}) /\ CtlSucceeds(f)
          /\ Trigger(f, events[f]) /\ pending' = PendingLess(Cardinality(events[f]))
      BY <1>4, <2>2 DEF Close, CancelAll
    <3>2. PendingCounts'
      BY <1>0, <3>1, TriggerCounts
    <3>3. Listed'
      BY <1>0, <3>1, CtlListed DEF CtlSucceeds
    <3> QED BY <1>0, <1>4, <3>2, <3>3 DEF Close
  <2> QED BY <2>1, <2>2
<1>5. ASSUME NEW k \in Threads, NEW f \in Fds, HandleEvents(k, f)
      PROVE  Listed' /\ aborted' \in BOOLEAN /\ PendingCounts'
  <2>1. /\ Ctl(f, Left(k, f)) /\ CtlSucceeds(f) /\ Real(k, f) \in SUBSET events[f]
        /\ Trigger(f, Real(k, f)) /\ pending' = PendingLess(Cardinality(Real(k, f)))
    BY <1>5 DEF HandleEvents
  <2>2. PendingCounts'
    BY <1>0, <2>1, TriggerCounts
  <2>3. Listed'
    BY <1>0, <2>1, CtlListed DEF CtlSucceeds
  <2> QED BY <1>0, <1>5, <2>2, <2>3 DEF HandleEvents
<1>6. ASSUME UNCHANGED <<events, pending>>, Listed', aborted' \in BOOLEAN
      PROVE  Listed' /\ aborted' \in BOOLEAN /\ PendingCounts'
  BY <1>0, <1>6 DEF PendingCounts
<1>7. ASSUME NEW f \in Fds, \/ \E c \in Conditions : Arrive(f, c)
                            \/ \E e \in Events : Consume(f, e)
                            \/ Open(f) \/ CloseFd(f)
      PROVE  UNCHANGED <<events, pending>> /\ Listed' /\ aborted' \in BOOLEAN
  BY <1>0, <1>7 DEF Arrive, Consume, Open, CloseFd, Listed, ioVars
<1>8. ASSUME NEW w \in Waiters, Run(w)
      PROVE  UNCHANGED <<events, pending>> /\ Listed' /\ aborted' \in BOOLEAN
  BY <1>0, <1>8 DEF Run, Listed, kernelVars
<1>9. ASSUME NEW k \in Threads, EpollWait(k)
      PROVE  UNCHANGED <<events, pending>> /\ Listed' /\ aborted' \in BOOLEAN
  BY <1>0, <1>9 DEF EpollWait, Listed, ioVars
<1>10. ASSUME NEW k \in Threads, NEW f \in Fds, HandleNothing(k, f) \/ HandleAborts(k, f)
      PROVE  UNCHANGED <<events, pending>> /\ Listed' /\ aborted' \in BOOLEAN
  BY <1>0, <1>10 DEF HandleNothing, HandleAborts, Listed, ioVars, kernelVars
<1>11. CASE UNCHANGED vars
  BY <1>0, <1>6, <1>11 DEF vars, Listed, ioVars, kernelVars
<1> QED
  BY <1>1, <1>2, <1>3, <1>4, <1>5, <1>6, <1>7, <1>8, <1>9, <1>10, <1>11
     DEF Next, FdStep, IdleStep

\* m_pendingEventCount, which IOManager::stopping() reads, is the number of events
\* registered in the FdContexts: addEvent, delEvent, cancelEvent, cancelAll and idle()
\* count each event once, whatever fibers do with a descriptor that is being closed.
THEOREM Counts == Spec => []IOEventsInv
<1>1. Init => Contexts /\ Counted
  BY InitContexts, CountedInit DEF Counted, Contexts
<1>2. Contexts /\ Counted /\ [Next]_vars => (Contexts /\ Counted)'
  BY NextContexts, CountedStep DEF Counted, Contexts
<1>3. ASSUME Counted
      PROVE  IOEventsInv
  <2>1. pending = Cardinality(Pairs)
    BY <1>3 DEF Counted, PendingCounts, Pairs
  <2>2. pending \in Nat
    BY <2>1, PairsFinite
  <2> QED BY <1>3, <2>2 DEF Counted, IOEventsInv, TypeOK, Shape, Listed
<1> QED BY <1>1, <1>2, <1>3, PTL DEF Spec
=============================================================================
