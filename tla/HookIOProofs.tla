----------------------------- MODULE HookIOProofs -----------------------------
(***************************************************************************)
(* Theorems about the hooked calls, for any fibers, descriptors and number *)
(* of threads.                                                             *)
(*                                                                         *)
(* The properties of HookIO are not inductive: that a fiber is woken once  *)
(* rests on where it is in which call (CallsInv) and on who may still wake *)
(* it (WakeInv); that the FdCtx is the descriptor's own on what close has  *)
(* done before the number is free (CtxInv); that connect tells the truth   *)
(* on what can be ready on a connection that does not stand (LinkInv);     *)
(* that the flags are honoured on which descriptors have the kernel's      *)
(* flag (FlagInv), and that waiters are found on which FdContext a         *)
(* descriptor has in m_fdContexts (VecInv).                                *)
(***************************************************************************)
EXTENDS HookIO, FiniteSetTheorems, NaturalsInduction, WellFoundedInduction, TLAPS

\* The types of what addEvent keeps.
VecOK == /\ size \in Nat /\ shrunk \subseteq Nat
         /\ slot \in [Fds -> Nat] /\ home \in [Fds -> Nat] /\ held \in [Fibers -> Nat]

USE DEF kernelVars, vectorVars, waitVars, timerVars, fiberVars, userVars, VecOK

\* The descriptor of the call is the fiber's own, or the listening one in accept.
Held(f) == \/ call[f].fd \in Conns /\ owner[call[f].fd] = f
           \/ call[f].fd = Listener /\ call[f].op = "accept"
Waits(f) == call[f].op \in IoOps \cup {"connect"}

\* Where a fiber can be in which call.
CallInv(f) ==
    /\ pc[f] \in {"get", "create", "del", "close"} =>
          call[f].fd \in Conns /\ owner[call[f].fd] = f
    /\ pc[f] \in {"direct", "try"} => call[f].op \in IoOps /\ Held(f)
    /\ pc[f] = "blocked" => Waits(f) /\ Held(f)
    /\ pc[f] \in {"add", "grow", "register"} => Waits(f) /\ Held(f)
    /\ pc[f] = "parked" => call[f].op = "sleep" \/ (Waits(f) /\ Held(f))
    /\ pc[f] = "check" => call[f].op = "connect" /\ Held(f)
    /\ pc[f] \in {"try", "add", "grow", "register", "parked"} /\ call[f].op # "sleep"
          => call[f].fd \notin asked \cap Conns
    /\ pc[f] \in {"get", "create"} => call[f].fd \notin asked
CallsInv == \A f \in Fibers : CallInv(f)

\* What can wake a fiber.
WakeInv ==
    /\ \A d \in Fds, e \in Events, f \in Fibers :
          waiting[d][e] = f => /\ pc[f] = "parked" /\ call[f].fd = d /\ queued[f] = 0
                               /\ call[f].op # "sleep" /\ EventOf(call[f].op) = e
    /\ \A f \in Fibers : queued[f] = 0 \/ (queued[f] = 1 /\ pc[f] = "parked")
    /\ \A f \in armed : /\ pc[f] \in {"add", "grow", "register", "parked"}
                        /\ call[f].op = "sleep" => pc[f] = "parked" /\ queued[f] = 0

\* The FdCtx of a descriptor is there exactly while the descriptor is open and known.
CtxInv ==
    /\ Listener \in open /\ ctx[Listener] # None
    /\ owner[Listener] = None
    /\ \A d \in Conns : /\ d \in open <=> owner[d] # None
                        /\ d \notin open => ctx[d] = None
    /\ \A d \in Conns, f \in Fibers : owner[d] = f =>
          IF call[f].fd = d /\ pc[f] \in {"get", "create", "close"} THEN ctx[d] = None
          ELSE ctx[d] # None /\ ctx[d].fresh
    /\ \A d \in Conns : ctx[d] # None => (ctx[d].user <=> d \in asked)

\* A connection that does not stand has nothing to write to.
LinkInv ==
    /\ \A d \in Conns : d \notin open \/ link[d] \in {"idle", "connecting"} => ready[d] = {}
    /\ \A f \in Fibers :
          /\ call[f].op = "connect"
          /\ pc[f] = "check" \/ (pc[f] = "parked" /\ queued[f] > 0 /\ f \notin cancelled)
          => link[call[f].fd] # "connecting" \/ f \in strayed

\* The inductive invariant.
IInv == TypeOK /\ CallsInv /\ WakeInv /\ CtxInv /\ LinkInv

\* Who has an FdCtx has the kernel's flag, unless the user's ioctl has taken it away,
\* so no other call keeps its thread.
Flagged == \A d \in Fds : ctx[d] # None /\ d \notin cleared => d \in nonblock
FlagInv == Flagged /\ NeverBlocksThread

\* Unless the vector has been cut off below it, a descriptor has the FdContext it had from
\* the start, whoever is in addEvent has found that one, and whoever waits is in it.
VecInv ==
    /\ \A d \in Fds : ~Cut(d) => /\ slot[d] = 0 /\ home[d] = 0
                                 /\ Waiter(d, Events) # {} => d < size
    /\ \A f \in Fibers : pc[f] = "register" /\ ~Cut(call[f].fd)
                         => held[f] = 0 /\ call[f].fd < size

-----------------------------------------------------------------------------
(* The lowest free descriptor.                                             *)

\* A set of numbers that is not empty has a least element.
LEMMA Least ==
    ASSUME NEW S \in SUBSET Nat, S # {}
    PROVE  \E x \in S : \A y \in S : x <= y
<1> DEFINE R == OpToRel(<, Nat)
<1>1. IsWellFoundedOn(R, Nat)
  BY Zenon, NatLessThanWellFounded
<1>2. PICK x \in S : \A y \in S : <<y, x>> \notin R
  <2> HIDE DEF R
  <2> QED BY <1>1, WFMin
<1>3. \A y \in S : ~ (y < x)
  BY <1>2 DEF OpToRel
<1> QED BY <1>3

\* The kernel gives a free number.
LEMMA LowestFree == Conns \ open # {} => Lowest(Conns \ open) \in Conns \ open
<1> SUFFICES ASSUME Conns \ open # {} PROVE Lowest(Conns \ open) \in Conns \ open
  OBVIOUS
<1>1. Conns \ open \in SUBSET Nat
  BY HookAssumption DEF Fds
<1>2. \E x \in Conns \ open : \A y \in Conns \ open : x <= y
  BY <1>1, Least
<1> QED BY <1>2 DEF Lowest

-----------------------------------------------------------------------------
(* One fiber goes on.                                                      *)

\* The records an FdCtx and a call are.
CtxRecords == [user : BOOLEAN, timed : SUBSET Events, fresh : BOOLEAN]
CallRecords == [op : IoOps \cup {"none", "socket", "connect", "sleep", "close"},
                fd : Fds, timed : BOOLEAN]

\* One fiber goes on.
LEMMA Moves ==
    ASSUME TypeOK, NEW f \in Fibers, NEW l \in Labels, Goto(f, l)
    PROVE  /\ pc' \in [Fibers -> Labels]
           /\ \A g \in Fibers : pc'[g] = IF g = f THEN l ELSE pc[g]
BY DEF TypeOK, Goto

\* One fiber comes out of its call.
LEMMA Returns ==
    ASSUME TypeOK, NEW f \in Fibers, Return(f)
    PROVE  /\ pc' \in [Fibers -> Labels] /\ call' \in [Fibers -> CallRecords]
           /\ \A g \in Fibers : /\ pc'[g] = IF g = f THEN "app" ELSE pc[g]
                                /\ call'[g] = IF g = f THEN NoCall ELSE call[g]
                                /\ g \in due' <=> g # f /\ g \in due
                                /\ g \in cancelled' <=> g # f /\ g \in cancelled
                                /\ g \in strayed' <=> g # f /\ g \in strayed
           /\ due' \subseteq Fibers /\ cancelled' \subseteq Fibers /\ strayed' \subseteq Fibers
<1>1. NoCall \in CallRecords
  BY DEF NoCall, CallRecords, Fds
<1>2. "app" \in Labels
  BY DEF Labels
<1>3. call' \in [Fibers -> CallRecords]
      /\ \A g \in Fibers : call'[g] = IF g = f THEN NoCall ELSE call[g]
  BY <1>1 DEF Return, TypeOK, CallRecords
<1> QED BY <1>2, <1>3, Moves DEF Return, DropInfo, TypeOK

\* A fiber that nothing can wake goes on, with nothing else changed than its call, its
\* timer, the size of m_fdContexts and, in connect, the link of a connection of its own.
LEMMA LocalStep ==
    ASSUME IInv, NEW f \in Fibers, pc[f] # "parked",
           pc' \in [Fibers -> Labels], call' \in [Fibers -> CallRecords],
           armed' \subseteq Fibers, due' \subseteq Fibers, cancelled' \subseteq Fibers,
           strayed' \subseteq Fibers, VecOK',
           link' \in [Fds -> {"idle", "connecting", "up", "refused"}],
           ready' \in [Fds -> SUBSET Events], \A d \in Fds : ready'[d] \subseteq ready[d],
           UNCHANGED <<open, nonblock, ctx, waiting, queued, aiming, userVars>>,
           \A g \in Fibers \ {f} : /\ pc'[g] = pc[g] /\ call'[g] = call[g]
                                   /\ g \in armed' <=> g \in armed
                                   /\ g \in due' <=> g \in due
                                   /\ g \in cancelled' <=> g \in cancelled
                                   /\ g \in strayed' <=> g \in strayed,
           \A d \in Conns : link'[d] = link[d]
                            \/ (owner[d] = f /\ link[d] = "idle"),
           f \in due' \cup cancelled' => pc'[f] # "app",
           f \in armed' => /\ pc'[f] \in {"add", "grow", "register", "parked"}
                           /\ call'[f].op = "sleep" => pc'[f] = "parked",
           call'[f].op = "connect" /\ pc'[f] = "check" =>
              link'[call'[f].fd] # "connecting" \/ f \in strayed',
           \A d \in Conns : owner[d] = f =>
              (call[f].fd = d /\ pc[f] \in {"get", "create", "close"}) <=>
              (call'[f].fd = d /\ pc'[f] \in {"get", "create", "close"}),
           CallInv(f)'
    PROVE  IInv'
<1>0. TypeOK /\ CallsInv /\ WakeInv /\ CtxInv /\ LinkInv
  BY DEF IInv
<1>1. queued[f] = 0 /\ \A d \in Fds, e \in Events : waiting[d][e] # f
  BY <1>0 DEF WakeInv
<1>2. \A g \in Fibers : g # f => CallInv(g)'
  BY <1>0 DEF CallsInv, CallInv, Held, Waits
<1>3. TypeOK'
  <2>1. due' \cup cancelled' \subseteq {g \in Fibers : pc'[g] # "app"}
    <3>1. \A g \in Fibers : g \in due \cup cancelled => pc[g] # "app"
      BY <1>0 DEF TypeOK
    <3>2. \A g \in Fibers : g \in due' \cup cancelled' => pc'[g] # "app"
      BY <3>1
    <3> QED BY <3>2
  <2> QED BY <1>0, <2>1 DEF TypeOK, CallRecords
<1>4. CallsInv'
  BY <1>2 DEF CallsInv
<1>5. WakeInv'
  <2>1. \A d \in Fds, e \in Events, g \in Fibers :
          waiting[d][e] = g => /\ pc'[g] = "parked" /\ call'[g].fd = d /\ queued[g] = 0
                               /\ call'[g].op # "sleep" /\ EventOf(call'[g].op) = e
    BY <1>0, <1>1 DEF WakeInv
  <2>2. \A g \in Fibers : queued[g] = 0 \/ (queued[g] = 1 /\ pc'[g] = "parked")
    BY <1>0, <1>1 DEF WakeInv
  <2>3. \A g \in armed' : /\ pc'[g] \in {"add", "grow", "register", "parked"}
                          /\ call'[g].op = "sleep" => pc'[g] = "parked" /\ queued[g] = 0
    BY <1>0, <1>1 DEF WakeInv
  <2> QED BY <2>1, <2>2, <2>3 DEF WakeInv
<1>6. CtxInv'
  <2>1. \A d \in Conns, g \in Fibers : owner[d] = g =>
          IF call'[g].fd = d /\ pc'[g] \in {"get", "create", "close"} THEN ctx[d] = None
          ELSE ctx[d] # None /\ ctx[d].fresh
    BY <1>0 DEF CtxInv
  <2> QED BY <1>0, <2>1 DEF CtxInv
<1>7. LinkInv'
  <2>1. \A d \in Conns : d \notin open \/ link'[d] \in {"idle", "connecting"} => ready'[d] = {}
    BY <1>0 DEF LinkInv, Fds
  <2>2. \A g \in Fibers \ {f} :
          /\ call'[g].op = "connect"
          /\ pc'[g] = "check" \/ (pc'[g] = "parked" /\ queued[g] > 0 /\ g \notin cancelled')
          => link'[call'[g].fd] # "connecting" \/ g \in strayed'
    <3> SUFFICES ASSUME NEW g \in Fibers \ {f}, call'[g].op = "connect",
                        pc'[g] = "check" \/ (pc'[g] = "parked" /\ queued[g] > 0 /\ g \notin cancelled')
                 PROVE  link'[call'[g].fd] # "connecting" \/ g \in strayed'
      OBVIOUS
    <3>1. link[call[g].fd] # "connecting" \/ g \in strayed
      BY <1>0 DEF LinkInv
    <3>2. Held(g) /\ call[g].op # "accept"
      BY <1>0 DEF CallsInv, CallInv
    <3>3. call[g].fd \in Conns /\ owner[call[g].fd] = g
      BY <3>2 DEF Held
    <3> QED BY <3>1, <3>3
  <2> QED BY <1>1, <2>1, <2>2 DEF LinkInv
<1> QED BY <1>3, <1>4, <1>5, <1>6, <1>7 DEF IInv

\* A resize leaves numbers.
LEMMA Grows ==
    ASSUME TypeOK, NEW f \in Fibers, Grow(f)
    PROVE  VecOK' /\ call[f].fd < size'
<1>1. call[f].fd \in Nat \ {0, 1}
  BY HookAssumption DEF TypeOK
<1>2. size' \in Nat /\ call[f].fd < size'
  BY <1>1 DEF Grow, Grown
<1>3. /\ slot \in [Fds -> Nat] /\ held \in [Fibers -> Nat] /\ call[f].fd \in Fds
      /\ home' \in [Fds -> Nat] /\ shrunk \subseteq Nat
  BY DEF TypeOK, Grow
<1>4. slot' = [c \in Fds |-> IF c >= size' /\ c < size THEN slot[c] + 1 ELSE slot[c]]
      /\ held' = [held EXCEPT ![f] = slot[call[f].fd]]
      /\ shrunk' = shrunk \cup {s \in {size'} : s < size}
  BY DEF Grow
<1>5. slot' \in [Fds -> Nat]
  BY ONLY <1>3, <1>4
<1>6. held' \in [Fibers -> Nat]
  BY ONLY <1>3, <1>4
<1>7. shrunk' \subseteq Nat
  BY <1>2, <1>3, <1>4
<1> QED BY <1>2, <1>3, <1>5, <1>6, <1>7

\* get() looks the descriptor up; addEvent finds its FdContext, or the vector too short,
\* and resizes it.
LEMMA GetStep ==
    ASSUME IInv, NEW f \in Fibers, GetLook(f) \/ LookUp(f) \/ Grow(f)
    PROVE  IInv'
<1>0. TypeOK /\ CallInv(f) /\ CtxInv /\ WakeInv
  BY DEF IInv, CallsInv
<1>1. PICK l \in {"create", "grow", "register"} :
        /\ Goto(f, l) /\ UNCHANGED call
        /\ l = "create" => pc[f] = "get"
        /\ l # "create" => pc[f] \in {"add", "grow"} /\ UNCHANGED ctx
  <2>1. CASE GetLook(f)
    BY <1>0, <2>1 DEF GetLook, CtxInv, CallInv
  <2>2. CASE LookUp(f)
    BY <2>2 DEF LookUp
  <2>3. CASE Grow(f)
    BY <2>3 DEF Grow
  <2> QED BY <2>1, <2>2, <2>3
<1>2. l \in Labels
  BY DEF Labels
<1>3. pc' \in [Fibers -> Labels] /\ \A g \in Fibers : pc'[g] = IF g = f THEN l ELSE pc[g]
  BY ONLY <1>0, <1>1, <1>2, Moves, f \in Fibers
<1>4. /\ UNCHANGED <<open, nonblock, ready, link, ctx, waiting, queued, aiming, userVars,
                     armed, due, cancelled, strayed, call>>
      /\ VecOK'
  <2>1. CASE GetLook(f)
    BY <1>0, <2>1 DEF GetLook, TypeOK, CtxInv, CallInv
  <2>2. CASE LookUp(f)
    <3>1. \/ held' = held \/ held' = [held EXCEPT ![f] = slot[call[f].fd]]
      BY <2>2 DEF LookUp
    <3>2. slot[call[f].fd] \in Nat /\ held \in [Fibers -> Nat]
      BY <1>0 DEF TypeOK
    <3>3. held' \in [Fibers -> Nat]
      BY ONLY <3>1, <3>2
    <3> QED BY <1>0, <2>2, <3>3 DEF LookUp, TypeOK
  <2>3. CASE Grow(f)
    BY <1>0, <2>3, Grows DEF Grow
  <2> QED BY <2>1, <2>2, <2>3
<1>5. CallInv(f)'
  BY <1>0, <1>1, <1>3, <1>4 DEF CallInv, Held, Waits
<1>6. pc[f] # "parked" /\ pc[f] # "app"
  BY <1>1
<1>7. call' \in [Fibers -> CallRecords] /\ armed' \subseteq Fibers
      /\ due' \subseteq Fibers /\ cancelled' \subseteq Fibers /\ strayed' \subseteq Fibers
      /\ link' \in [Fds -> {"idle", "connecting", "up", "refused"}]
      /\ ready' \in [Fds -> SUBSET Events]
  BY <1>0, <1>4 DEF TypeOK, CallRecords
<1>8. /\ f \in armed' => /\ pc'[f] \in {"add", "grow", "register", "parked"}
                         /\ call'[f].op = "sleep" => pc'[f] = "parked"
      /\ pc'[f] # "check" /\ pc'[f] # "app"
  BY <1>0, <1>1, <1>3, <1>4 DEF WakeInv
<1>9. \A d \in Conns : owner[d] = f =>
         (call[f].fd = d /\ pc[f] \in {"get", "create", "close"}) <=>
         (call'[f].fd = d /\ pc'[f] \in {"get", "create", "close"})
  BY <1>1, <1>3, <1>4
<1> QED BY ONLY IInv, f \in Fibers, <1>3, <1>4, <1>5, <1>6, <1>7, <1>8, <1>9, LocalStep

\* The call returns, with no more than readiness used up.
LEMMA ReturnStep ==
    ASSUME IInv, NEW f \in Fibers, Return(f),
           pc[f] \in {"direct", "try", "blocked", "register", "check"},
           UNCHANGED <<open, nonblock, link, ctx, waiting, queued, aiming, userVars>>,
           UNCHANGED vectorVars \/ (UNCHANGED <<size, slot, home, shrunk>>
                                    /\ held' = [held EXCEPT ![f] = 0]),
           \/ UNCHANGED ready
           \/ ready' = [ready EXCEPT ![call[f].fd] = @ \ {EventOf(call[f].op)}],
           armed' = armed \/ armed' = armed \ {f},
           f \notin armed'
    PROVE  IInv'
<1>0. TypeOK
  BY DEF IInv
<1>1. /\ pc' \in [Fibers -> Labels] /\ call' \in [Fibers -> CallRecords]
      /\ \A g \in Fibers : /\ pc'[g] = IF g = f THEN "app" ELSE pc[g]
                           /\ call'[g] = IF g = f THEN NoCall ELSE call[g]
                           /\ g \in due' <=> g # f /\ g \in due
                           /\ g \in cancelled' <=> g # f /\ g \in cancelled
                           /\ g \in strayed' <=> g # f /\ g \in strayed
      /\ due' \subseteq Fibers /\ cancelled' \subseteq Fibers /\ strayed' \subseteq Fibers
  BY <1>0, Returns
<1>2. CallInv(f)'
  BY <1>1 DEF CallInv
<1>3. ready' \in [Fds -> SUBSET Events] /\ \A d \in Fds : ready'[d] \subseteq ready[d]
  <2>1. ready \in [Fds -> SUBSET Events]
    BY <1>0 DEF TypeOK
  <2>2. PICK c, S : /\ S \subseteq ready[c]
                    /\ ready' = ready \/ ready' = [ready EXCEPT ![c] = S]
    OBVIOUS
  <2> QED BY ONLY <2>1, <2>2
<1>4. /\ VecOK' /\ armed' \subseteq Fibers
      /\ link' \in [Fds -> {"idle", "connecting", "up", "refused"}]
      /\ UNCHANGED <<link, open, nonblock, ctx, waiting, queued, aiming, userVars>>
  <2>1. VecOK /\ armed \subseteq Fibers
        /\ link \in [Fds -> {"idle", "connecting", "up", "refused"}]
    BY <1>0 DEF TypeOK
  <2>2. VecOK'
    <3>1. UNCHANGED <<size, slot, home, shrunk>>
      OBVIOUS
    <3>2. held' = held \/ held' = [held EXCEPT ![f] = 0]
      OBVIOUS
    <3>3. held' \in [Fibers -> Nat]
      BY ONLY <2>1, <3>2 DEF VecOK
    <3> QED BY <2>1, <3>1, <3>3
  <2> QED BY <2>1, <2>2
<1>5. /\ pc[f] # "parked" /\ pc'[f] = "app" /\ f \notin due' \cup cancelled'
      /\ \A d \in Conns : owner[d] = f =>
           (call[f].fd = d /\ pc[f] \in {"get", "create", "close"}) <=>
           (call'[f].fd = d /\ pc'[f] \in {"get", "create", "close"})
  BY <1>1
<1>6. \A g \in Fibers \ {f} : g \in armed' <=> g \in armed
  OBVIOUS
<1> QED BY ONLY IInv, f \in Fibers, f \notin armed', <1>1, <1>2, <1>3, <1>4, <1>5, <1>6, LocalStep

-----------------------------------------------------------------------------
(* Calls begin.                                                            *)

\* A call begins.
LEMMA BeginStep ==
    ASSUME IInv, NEW f \in Fibers, NEW r \in CallRecords,
           NEW l \in {"app", "direct", "try", "add", "blocked", "parked", "del", "close"},
           pc[f] = "app", Goto(f, l), call' = [call EXCEPT ![f] = r],
           armed' = armed \/ (l \in {"add", "parked"} /\ armed' = armed \cup {f}),
           r.op = "sleep" => l = "parked",
           l \in {"direct", "try"} => r.op \in IoOps,
           l \in {"add", "blocked"} => r.op = "connect",
           l = "parked" => r.op = "sleep",
           l = "close" => FALSE,
           l \in {"direct", "try", "add", "blocked"} => \/ r.fd \in Conns /\ owner[r.fd] = f
                                                        \/ r.fd = Listener /\ r.op = "accept",
           l = "del" => r.fd \in Conns /\ owner[r.fd] = f,
           l \in {"try", "add"} => r.fd \notin asked \cap Conns,
           UNCHANGED <<open, nonblock, ready, ctx, waitVars, due, aiming, cancelled, strayed,
                       userVars>>,
           \/ UNCHANGED link
           \/ /\ r.fd \in Conns /\ owner[r.fd] = f /\ link[r.fd] = "idle"
              /\ \E k \in {"connecting", "up", "refused"} : link' = [link EXCEPT ![r.fd] = k]
    PROVE  IInv'
<1>0. TypeOK /\ WakeInv
  BY DEF IInv
<1>1. l \in Labels
  BY DEF Labels
<1>2. pc' \in [Fibers -> Labels] /\ \A g \in Fibers : pc'[g] = IF g = f THEN l ELSE pc[g]
  BY ONLY <1>0, <1>1, Moves, f \in Fibers, Goto(f, l)
<1>3. /\ call' \in [Fibers -> CallRecords]
      /\ \A g \in Fibers : call'[g] = IF g = f THEN r ELSE call[g]
  BY <1>0 DEF TypeOK, CallRecords
<1>4. CallInv(f)'
  BY <1>2, <1>3 DEF CallInv, Held, Waits
<1>5. /\ link' \in [Fds -> {"idle", "connecting", "up", "refused"}]
      /\ \A d \in Conns : link'[d] = link[d]
                          \/ (owner[d] = f /\ link[d] = "idle")
  <2>1. link \in [Fds -> {"idle", "connecting", "up", "refused"}]
    BY <1>0 DEF TypeOK
  <2>2. PICK c : c = r.fd
    OBVIOUS
  <2>3. \/ UNCHANGED link
        \/ /\ owner[c] = f /\ link[c] = "idle"
           /\ \E k \in {"connecting", "up", "refused"} : link' = [link EXCEPT ![c] = k]
    BY <2>2
  <2> QED BY ONLY <2>1, <2>3 DEF Fds
<1>6. f \notin armed /\ f \notin due \cup cancelled
  BY <1>0 DEF WakeInv, TypeOK
<1>7. /\ VecOK' /\ armed' \subseteq Fibers
      /\ due' \subseteq Fibers /\ cancelled' \subseteq Fibers /\ strayed' \subseteq Fibers
      /\ ready' \in [Fds -> SUBSET Events] /\ \A d \in Fds : ready'[d] \subseteq ready[d]
  BY <1>0 DEF TypeOK
<1>8. /\ f \notin due' \cup cancelled' /\ pc[f] # "parked" /\ pc'[f] # "check"
      /\ f \in armed' => /\ pc'[f] \in {"add", "grow", "register", "parked"}
                         /\ call'[f].op = "sleep" => pc'[f] = "parked"
  BY <1>2, <1>3, <1>6
<1>9. \A d \in Conns : owner[d] = f =>
        (call[f].fd = d /\ pc[f] \in {"get", "create", "close"}) <=>
        (call'[f].fd = d /\ pc'[f] \in {"get", "create", "close"})
  BY <1>2
<1>10. \A g \in Fibers \ {f} : /\ pc'[g] = pc[g] /\ call'[g] = call[g]
                               /\ g \in armed' <=> g \in armed
                               /\ g \in due' <=> g \in due
                               /\ g \in cancelled' <=> g \in cancelled
                               /\ g \in strayed' <=> g \in strayed
  BY <1>2, <1>3
<1>11. UNCHANGED <<open, nonblock, ctx, waiting, queued, aiming, userVars>>
  OBVIOUS
<1> QED
  BY ONLY IInv, f \in Fibers, <1>2, <1>3, <1>4, <1>5, <1>7, <1>8, <1>9, <1>10, <1>11, LocalStep

\* The descriptors a fiber is not busy with have the FdCtx of their own.
LEMMA KnownCtx ==
    ASSUME IInv, NEW f \in Fibers, pc[f] = "app", NEW d \in Conns, owner[d] = f
    PROVE  /\ ctx[d] # None /\ ctx[d].fresh /\ (ctx[d].user <=> d \in asked)
           /\ \A e \in Events : waiting[d][e] = None
<1>0. TypeOK /\ CtxInv /\ WakeInv /\ CallsInv
  BY DEF IInv
<1>1. ctx[d] # None /\ ctx[d].fresh /\ (ctx[d].user <=> d \in asked)
  BY <1>0 DEF CtxInv
<1>2. ASSUME NEW e \in Events, NEW g \in Fibers, waiting[d][e] = g
      PROVE  FALSE
  <2>1. pc[g] = "parked" /\ call[g].fd = d /\ call[g].op # "sleep"
    BY <1>0, <1>2 DEF WakeInv, Fds
  <2>2. Held(g)
    BY <1>0, <2>1 DEF CallsInv, CallInv
  <2>3. owner[d] = g
    BY <2>1, <2>2, HookAssumption DEF Held
  <2> QED BY <2>1, <2>3
<1>3. \A e \in Events : waiting[d][e] \in Fibers \cup {None}
  BY <1>0 DEF TypeOK, Fds
<1> QED BY <1>1, <1>2, <1>3

\* recv, send and accept go through do_io, to the kernel or to a first try.
LEMMA EnterIoStep ==
    ASSUME IInv, NEW f \in Fibers, NEW op \in IoOps, NEW d \in Fds, EnterIo(f, op, d)
    PROVE  IInv'
<1>0. TypeOK
  BY DEF IInv
<1>1. /\ pc[f] = "app" /\ owner \in [Fds -> Fibers \cup {None}]
      /\ owner[Listener] # f
  BY <1>0, HookAssumption DEF EnterIo, TypeOK, IInv, CtxInv
<1>2. (d \in Conns /\ owner[d] = f) \/ (d = Listener /\ op = "accept")
  BY <1>1 DEF EnterIo, Uses, Fds
<1>3. d \in Conns => (ctx[d] # None /\ (ctx[d].user <=> d \in asked)) \/ d = Listener
  BY <1>1, <1>2, KnownCtx
<1>4. PICK l \in {"direct", "try"}, t \in BOOLEAN :
        /\ Goto(f, l) /\ call' = [call EXCEPT ![f] = [op |-> op, fd |-> d, timed |-> t]]
        /\ l = "try" => ctx[d] # None /\ ~ctx[d].user
  <2>1. \E b \in BOOLEAN : b = (EventOf(op) \in ctx[d].timed)
    <3>1. CASE EventOf(op) \in ctx[d].timed
      <4>1. (EventOf(op) \in ctx[d].timed) = TRUE
        BY <3>1
      <4> QED BY <4>1
    <3>2. CASE EventOf(op) \notin ctx[d].timed
      <4>1. (EventOf(op) \in ctx[d].timed) = FALSE
        BY <3>2
      <4> QED BY <4>1
    <3> QED BY <3>1, <3>2
  <2> PICK b \in BOOLEAN : b = (EventOf(op) \in ctx[d].timed)
    BY <2>1
  <2>2. CASE ctx[d] = None \/ ctx[d].user
    BY <2>2 DEF EnterIo
  <2>3. CASE ~(ctx[d] = None \/ ctx[d].user)
    <3>1. Goto(f, "try") /\ call' = [call EXCEPT ![f] = [op |-> op, fd |-> d, timed |-> b]]
      BY <2>3 DEF EnterIo, GetTimeout
    <3> QED BY <2>3, <3>1
  <2> QED BY <2>2, <2>3
<1>5. PICK r : r = [op |-> op, fd |-> d, timed |-> t]
  OBVIOUS
<1>6. r \in CallRecords /\ r.op = op /\ r.fd = d
  BY <1>5 DEF CallRecords
<1>7. op # "sleep"
  BY HookAssumption
<1>8. l = "try" => d \notin asked \cap Conns
  BY <1>3, <1>4, HookAssumption
<1>9. UNCHANGED <<kernelVars, ctx, waitVars, timerVars, userVars>>
  BY DEF EnterIo
<1>10. call' = [call EXCEPT ![f] = r]
  BY <1>4, <1>5
<1>11. /\ (r.fd \in Conns /\ owner[r.fd] = f) \/ (r.fd = Listener /\ r.op = "accept")
       /\ r.op \in IoOps /\ r.op # "sleep" /\ (l = "try" => r.fd \notin asked \cap Conns)
       /\ l \in {"app", "direct", "try", "add", "blocked", "parked", "del", "close"}
       /\ l # "add" /\ l # "blocked" /\ l # "parked" /\ l # "close" /\ l # "del"
  BY <1>2, <1>6, <1>7, <1>8
<1> HIDE DEF kernelVars, waitVars, timerVars, userVars
<1>12. UNCHANGED <<open, nonblock, ready, link, ctx, waitVars, armed, due, aiming, cancelled,
                   strayed, userVars>>
  BY <1>9 DEF kernelVars, timerVars
<1>13. Goto(f, l)
  BY <1>4
<1> QED BY ONLY IInv, f \in Fibers, <1>1, <1>6, <1>10, <1>11, <1>12, <1>13, BeginStep

\* connect starts, and waits unless the user wants to do so.
LEMMA ConnectStep ==
    ASSUME IInv, NEW f \in Fibers, NEW d \in Conns, NEW t \in BOOLEAN, Connect(f, d, t)
    PROVE  IInv'
<1>1. pc[f] = "app" /\ owner[d] = f /\ link[d] = "idle"
  BY DEF Connect
<1>2. ctx[d] # None /\ (ctx[d].user <=> d \in asked)
  BY <1>1, KnownCtx
<1>3. PICK r : r = [op |-> "connect", fd |-> d, timed |-> t]
  OBVIOUS
<1>4. r \in CallRecords /\ r.op = "connect" /\ r.fd = d
  BY <1>3 DEF CallRecords, Fds
<1>5. /\ call' = [call EXCEPT ![f] = r]
      /\ \E k \in {"connecting", "up", "refused"} : link' = [link EXCEPT ![d] = k]
      /\ UNCHANGED <<open, nonblock, ready, ctx, waitVars, due, aiming, cancelled, strayed,
                     userVars>>
  BY <1>2, <1>3 DEF Connect
<1>6. PICK l \in {"app", "add", "blocked"} :
        /\ Goto(f, l) /\ (l = "add" => d \notin asked)
        /\ UNCHANGED armed \/ (l = "add" /\ armed' = armed \cup {f})
  <2>1. {g \in {f} : t} \in {{}, {f}}
    OBVIOUS
  <2> QED BY <1>2, <2>1 DEF Connect
<1> QED BY <1>1, <1>4, <1>5, <1>6, BeginStep

\* sleep arms a timer and yields.
LEMMA SleepStep ==
    ASSUME IInv, NEW f \in Fibers, Sleep(f)
    PROVE  IInv'
<1>1. PICK r : r = [op |-> "sleep", fd |-> Listener, timed |-> TRUE]
  OBVIOUS
<1>2. r \in CallRecords /\ r.op = "sleep" /\ r.fd = Listener
  BY <1>1 DEF CallRecords, Fds
<1>3. /\ pc[f] = "app" /\ call' = [call EXCEPT ![f] = r] /\ Goto(f, "parked")
      /\ armed' = armed \cup {f}
      /\ UNCHANGED <<kernelVars, ctx, waitVars, due, aiming, cancelled, strayed, userVars>>
  BY <1>1 DEF Sleep
<1> QED BY <1>2, <1>3, BeginStep

\* Nobody to wake.
LEMMA TriggerNone ==
    ASSUME TypeOK, NEW d \in Fds, NEW es \in SUBSET Events,
           \A e \in Events : waiting[d][e] = None, Trigger(d, es)
    PROVE  UNCHANGED <<waiting, queued>>
<1>1. \A f \in Fibers : {e \in es : waiting[d][e] = f} = {}
  BY HookAssumption
<1>2. \A f \in Fibers : queued[f] + Cardinality({e \in es : waiting[d][e] = f}) = queued[f]
  <2>1. Cardinality({}) = 0
    BY FS_EmptySet
  <2>2. \A f \in Fibers : queued[f] \in Nat
    BY DEF TypeOK
  <2> QED BY <1>1, <2>1, <2>2
<1>3. queued' = queued
  BY <1>2 DEF Trigger, TypeOK
<1>4. waiting[d] \in [Events -> Fibers \cup {None}]
  BY DEF TypeOK
<1>5. [e \in Events |-> IF e \in es THEN None ELSE waiting[d][e]] = waiting[d]
  BY <1>4
<1>6. waiting' = waiting
  BY <1>5 DEF Trigger, TypeOK
<1> QED BY <1>3, <1>6

\* close finds nobody waiting: the fiber that could wait is the one that closes.
LEMMA CloseStep ==
    ASSUME IInv, NEW f \in Fibers, NEW d \in Conns, Close(f, d)
    PROVE  IInv'
<1>0. TypeOK
  BY DEF IInv
<1>1. pc[f] = "app" /\ owner[d] = f
  BY DEF Close
<1>2. ctx[d] # None /\ \A e \in Events : waiting[d][e] = None
  BY <1>1, KnownCtx
<1>3. PICK r : r = [op |-> "close", fd |-> d, timed |-> FALSE]
  OBVIOUS
<1>4. r \in CallRecords /\ r.op = "close" /\ r.fd = d
  BY <1>3 DEF CallRecords, Fds
<1>5. PICK es \in SUBSET Events : Trigger(d, es)
  BY <1>2 DEF Close
<1>6. UNCHANGED <<waiting, queued>>
  BY <1>0, <1>2, <1>5, TriggerNone DEF Fds
<1>7. /\ call' = [call EXCEPT ![f] = r] /\ Goto(f, "del")
      /\ UNCHANGED <<kernelVars, ctx, vectorVars, timerVars, userVars>>
  BY <1>2, <1>3 DEF Close
<1> QED BY <1>1, <1>4, <1>6, <1>7, BeginStep

-----------------------------------------------------------------------------
(* The steps of do_io and of connect.                                      *)

\* do_io comes back without having waited.
LEMMA IoReturns ==
    ASSUME IInv, NEW f \in Fibers, pc[f] \in {"direct", "try", "blocked"},
           \/ Succeeds(f) /\ call[f].op # "accept"
           \/ Fails(f)
           \/ /\ Return(f)
              /\ UNCHANGED <<kernelVars, ctx, waitVars, armed, aiming, userVars>>
    PROVE  IInv'
<1>1. f \notin armed
  BY DEF IInv, WakeInv
<1>2. /\ Return(f)
      /\ UNCHANGED <<open, nonblock, link, ctx, waitVars, armed, aiming, userVars>>
      /\ \/ UNCHANGED ready
         \/ ready' = [ready EXCEPT ![call[f].fd] = @ \ {EventOf(call[f].op)}]
  BY DEF Succeeds, Fails
<1> QED BY <1>1, <1>2, ReturnStep

\* The thread stays in the kernel.
LEMMA BlocksStep ==
    ASSUME IInv, NEW f \in Fibers, pc[f] \in {"direct", "try"}, Blocks(f)
    PROVE  IInv'
<1>0. TypeOK /\ WakeInv
  BY DEF IInv
<1>1. Goto(f, "blocked") /\ "blocked" \in Labels
      /\ UNCHANGED <<kernelVars, ctx, waitVars, timerVars, call, userVars>>
  BY DEF Blocks, Labels
<1>2. /\ pc' \in [Fibers -> Labels]
      /\ \A g \in Fibers : pc'[g] = IF g = f THEN "blocked" ELSE pc[g]
  BY ONLY <1>0, <1>1, Moves, f \in Fibers
<1>3. CallInv(f)'
  <2>1. CallInv(f)
    BY DEF IInv, CallsInv
  <2> QED BY <1>1, <1>2, <2>1 DEF CallInv, Held, Waits
<1>4. f \notin armed
  BY <1>0 DEF WakeInv
<1>5. /\ VecOK' /\ armed' \subseteq Fibers
      /\ due' \subseteq Fibers /\ cancelled' \subseteq Fibers /\ strayed' \subseteq Fibers
      /\ ready' \in [Fds -> SUBSET Events] /\ call' \in [Fibers -> CallRecords]
      /\ link' \in [Fds -> {"idle", "connecting", "up", "refused"}]
  BY <1>0, <1>1 DEF TypeOK, CallRecords
<1>6. /\ pc[f] # "parked" /\ pc'[f] # "app" /\ pc'[f] # "check" /\ f \notin armed'
      /\ \A d \in Conns : owner[d] = f =>
           (call[f].fd = d /\ pc[f] \in {"get", "create", "close"}) <=>
           (call'[f].fd = d /\ pc'[f] \in {"get", "create", "close"})
  BY <1>1, <1>2, <1>4
<1> QED BY ONLY IInv, f \in Fibers, <1>1, <1>2, <1>3, <1>5, <1>6, LocalStep

\* EAGAIN: the timer is armed.
LEMMA WaitBegins ==
    ASSUME IInv, NEW f \in Fibers, pc[f] \in {"try", "blocked"},
           call[f].fd \notin asked \cap Conns, BeginWait(f)
    PROVE  IInv'
<1>0. TypeOK /\ WakeInv /\ CallInv(f)
  BY DEF IInv, CallsInv
<1>1. "add" \in Labels
  BY DEF Labels
<1>2. /\ pc' \in [Fibers -> Labels]
      /\ \A g \in Fibers : pc'[g] = IF g = f THEN "add" ELSE pc[g]
  <2>1. Goto(f, "add")
    BY DEF BeginWait
  <2> QED BY ONLY <1>0, <1>1, <2>1, Moves, f \in Fibers
<1>3. Waits(f) /\ Held(f) /\ call[f].op # "sleep"
  BY <1>0, HookAssumption DEF CallInv, Waits
<1>4. CallInv(f)'
  BY <1>0, <1>2, <1>3 DEF BeginWait, CallInv, Held, Waits
<1>5. /\ VecOK' /\ armed' \subseteq Fibers
      /\ due' \subseteq Fibers /\ cancelled' \subseteq Fibers /\ strayed' \subseteq Fibers
      /\ ready' \in [Fds -> SUBSET Events] /\ call' \in [Fibers -> CallRecords]
      /\ link' \in [Fds -> {"idle", "connecting", "up", "refused"}]
  BY <1>0 DEF BeginWait, TypeOK, CallRecords
<1>6. /\ pc[f] # "parked" /\ pc'[f] = "add" /\ call'[f].op # "sleep"
      /\ \A d \in Conns : owner[d] = f =>
           (call[f].fd = d /\ pc[f] \in {"get", "create", "close"}) <=>
           (call'[f].fd = d /\ pc'[f] \in {"get", "create", "close"})
  BY <1>2, <1>3 DEF BeginWait
<1>7. \A g \in Fibers \ {f} : /\ pc'[g] = pc[g] /\ call'[g] = call[g]
                              /\ g \in armed' <=> g \in armed
                              /\ g \in due' <=> g \in due
                              /\ g \in cancelled' <=> g \in cancelled
                              /\ g \in strayed' <=> g \in strayed
  BY <1>2 DEF BeginWait
<1>8. UNCHANGED <<open, nonblock, ready, link, ctx, waiting, queued, aiming, userVars>>
  BY DEF BeginWait
<1> QED BY ONLY IInv, f \in Fibers, <1>2, <1>4, <1>5, <1>6, <1>7, <1>8, LocalStep

\* connect looks at the socket.
LEMMA CheckStep ==
    ASSUME IInv, NEW f \in Fibers, CheckConnect(f)
    PROVE  IInv'
<1>1. pc[f] = "check" /\ f \notin armed
  BY DEF IInv, WakeInv, CheckConnect
<1> QED BY <1>1, ReturnStep DEF CheckConnect

\* Who is registered for a connection is its owner.
LEMMA WaiterOwns ==
    ASSUME IInv, NEW d \in Conns, NEW e \in Events, NEW g \in Fibers, waiting[d][e] = g
    PROVE  owner[d] = g /\ pc[g] = "parked" /\ d \notin asked
<1>0. WakeInv /\ CallsInv
  BY DEF IInv
<1>1. pc[g] = "parked" /\ call[g].fd = d /\ call[g].op # "sleep"
  BY <1>0 DEF WakeInv, Fds
<1>2. Held(g) /\ d \notin asked
  BY <1>0, <1>1 DEF CallsInv, CallInv
<1> QED BY <1>1, <1>2, HookAssumption DEF Held

\* addEvent finds somebody registered: do_io gives up; connect never meets that case.
LEMMA AddRefused ==
    ASSUME IInv, NEW f \in Fibers, AddEvent(f), Refused(f)
    PROVE  IInv'
<1>0. TypeOK /\ WakeInv /\ CallInv(f)
  BY DEF IInv, CallsInv
<1>1. pc[f] = "register" /\ Held(f)
  BY <1>0 DEF AddEvent, CallInv
<1>2. call[f].op # "connect"
  <2>1. ASSUME call[f].op = "connect" PROVE FALSE
    <3>1. PICK d : d = call[f].fd
      OBVIOUS
    <3>2. d \in Conns /\ owner[d] = f /\ d \in Fds
      BY <1>1, <2>1, <3>1 DEF Held, Fds
    <3>3. PICK e \in Events : waiting[d][e] # None
      <4>1. EventOf(call[f].op) \in Events
        BY DEF EventOf, Events
      <4> QED BY <3>1, <4>1 DEF Refused, Waiter
    <3>4. waiting[d][e] \in Fibers
      BY <1>0, <3>2, <3>3 DEF TypeOK
    <3>5. owner[d] = waiting[d][e] /\ pc[waiting[d][e]] = "parked"
      BY ONLY IInv, <3>2, <3>3, <3>4, WaiterOwns
    <3> QED BY <1>1, <3>2, <3>5
  <2> QED BY <2>1
<1>3. /\ Return(f) /\ armed' = armed \ {f} /\ UNCHANGED <<waiting, home>>
      /\ held' = [held EXCEPT ![f] = 0]
      /\ UNCHANGED <<kernelVars, ctx, size, slot, shrunk, queued, aiming, userVars>>
  BY <1>2 DEF AddEvent
<1> QED BY <1>1, <1>3, ReturnStep

-----------------------------------------------------------------------------
(* Descriptors come and go.                                                *)

\* The kernel gives a number that nobody uses, waits for or knows.
LEMMA OpenStep ==
    ASSUME IInv, NEW f \in Fibers, pc[f] \in {"app", "direct", "try", "blocked"},
           NEW op, op = "socket" \/ (op = "accept" /\ op \in IoOps), NEW l \in {"idle", "up"},
           Conns \ open # {}, Opened(f, op, l),
           ready' \in [Fds -> SUBSET Events], \A d \in Fds : ready'[d] \subseteq ready[d],
           (due' = due /\ cancelled' = cancelled) \/ DropInfo(f),
           UNCHANGED <<waitVars, armed, aiming, strayed>>
    PROVE  IInv'
<1>0. TypeOK /\ CallsInv /\ WakeInv /\ CtxInv /\ LinkInv
  BY DEF IInv
<1>1. PICK d : d = Lowest(Conns \ open)
  OBVIOUS
<1>2. d \in Conns /\ d \notin open /\ d \in Fds
  BY <1>1, LowestFree DEF Fds
<1>3. ctx[d] = None /\ owner[d] = None /\ ready[d] = {}
  BY <1>0, <1>2 DEF CtxInv, LinkInv
<1>4. PICK r : r = [op |-> op, fd |-> d, timed |-> FALSE]
  OBVIOUS
<1>5. r \in CallRecords /\ r.fd = d /\ r.op # "connect" /\ r.op # "sleep"
  BY <1>2, <1>4 DEF CallRecords
<1>6. /\ open' = open \cup {d} /\ nonblock' = nonblock \ {d} /\ asked' = asked \ {d}
      /\ cleared' = cleared \ {d}
      /\ link' = [link EXCEPT ![d] = l] /\ owner' = [owner EXCEPT ![d] = f]
      /\ call' = [call EXCEPT ![f] = r] /\ Goto(f, "get") /\ ctx' = ctx
  BY <1>1, <1>3, <1>4 DEF Opened
<1>7. "get" \in Labels /\ l \in {"idle", "connecting", "up", "refused"}
  BY DEF Labels
<1>8. /\ pc' \in [Fibers -> Labels]
      /\ \A g \in Fibers : pc'[g] = IF g = f THEN "get" ELSE pc[g]
  BY ONLY <1>0, <1>6, <1>7, Moves, f \in Fibers
<1>9. /\ call' \in [Fibers -> CallRecords]
      /\ \A g \in Fibers : call'[g] = IF g = f THEN r ELSE call[g]
  BY ONLY <1>0, <1>5, <1>6 DEF TypeOK, CallRecords
<1>10. /\ owner' \in [Fds -> Fibers \cup {None}]
       /\ \A c \in Fds : owner'[c] = IF c = d THEN f ELSE owner[c]
  BY ONLY <1>0, <1>2, <1>6, f \in Fibers DEF TypeOK
<1>11. /\ link' \in [Fds -> {"idle", "connecting", "up", "refused"}]
       /\ \A c \in Fds : link'[c] = IF c = d THEN l ELSE link[c]
  BY ONLY <1>0, <1>2, <1>6, <1>7 DEF TypeOK
<1>12. /\ due' \subseteq due /\ cancelled' \subseteq cancelled
       /\ \A g \in Fibers \ {f} : g \in cancelled <=> g \in cancelled'
  BY DEF DropInfo
<1>13. f \notin armed /\ queued[f] = 0 /\ \A c \in Fds, e \in Events : waiting[c][e] # f
  BY <1>0 DEF WakeInv
<1>14. Conns \subseteq Fds /\ Listener \notin Conns /\ Listener \in Fds /\ None \notin Fibers
  BY HookAssumption DEF Fds
<1>15. TypeOK'
  <2>1. due' \cup cancelled' \subseteq {g \in Fibers : pc'[g] # "app"}
    BY <1>0, <1>8, <1>12 DEF TypeOK
  <2>2. \A g \in Fibers : g \in due' \cup cancelled' => g \in Fibers
    BY <2>1
  <2> QED BY <1>0, <1>2, <1>6, <1>8, <1>9, <1>10, <1>11, <1>12, <2>1 DEF TypeOK, CallRecords
<1>16. CallsInv'
  <2>1. CallInv(f)'
    BY <1>2, <1>5, <1>6, <1>8, <1>9, <1>10 DEF CallInv, Held, Waits
  <2>2. ASSUME NEW g \in Fibers \ {f} PROVE CallInv(g)'
    <3>1. CallInv(g)
      BY <1>0 DEF CallsInv
    <3>2. Held(g) => Held(g)'
      BY <1>3, <1>9, <1>10, <1>14 DEF Held
    <3>3. pc'[g] = pc[g] /\ call'[g] = call[g] /\ asked' \subseteq asked
          /\ \A c \in Conns : owner[c] = g => owner'[c] = g
      BY <1>3, <1>6, <1>8, <1>9, <1>10, <1>14
    <3> QED BY <3>1, <3>2, <3>3 DEF CallInv, Waits
  <2> QED BY <2>1, <2>2 DEF CallsInv
<1>17. WakeInv'
  <2>1. \A c \in Fds, e \in Events, g \in Fibers :
          waiting[c][e] = g => /\ pc'[g] = "parked" /\ call'[g].fd = c /\ queued[g] = 0
                               /\ call'[g].op # "sleep" /\ EventOf(call'[g].op) = e
    BY <1>0, <1>8, <1>9, <1>13 DEF WakeInv
  <2>2. \A g \in Fibers : queued[g] = 0 \/ (queued[g] = 1 /\ pc'[g] = "parked")
    BY <1>0, <1>8, <1>13 DEF WakeInv
  <2>3. armed \subseteq Fibers
    BY <1>0 DEF TypeOK
  <2>4. \A g \in armed : /\ pc'[g] \in {"add", "grow", "register", "parked"}
                         /\ call'[g].op = "sleep" => pc'[g] = "parked" /\ queued[g] = 0
    BY <1>0, <1>8, <1>9, <1>13, <2>3 DEF WakeInv
  <2> QED BY <2>1, <2>2, <2>4 DEF WakeInv
<1>18. CtxInv'
  <2>1. \A c \in Conns, g \in Fibers : owner'[c] = g =>
          IF call'[g].fd = c /\ pc'[g] \in {"get", "create", "close"} THEN ctx[c] = None
          ELSE ctx[c] # None /\ ctx[c].fresh
    <3> SUFFICES ASSUME NEW c \in Conns, NEW g \in Fibers, owner'[c] = g
                 PROVE  IF call'[g].fd = c /\ pc'[g] \in {"get", "create", "close"}
                        THEN ctx[c] = None ELSE ctx[c] # None /\ ctx[c].fresh
      OBVIOUS
    <3>1. CASE c = d
      <4>1. g = f
        BY <1>2, <1>10, <3>1
      <4> QED BY <1>3, <1>5, <1>8, <1>9, <3>1, <4>1
    <3>2. CASE c # d
      <4>1. owner[c] = g
        BY <1>10, <1>14, <3>2
      <4>2. IF call[g].fd = c /\ pc[g] \in {"get", "create", "close"} THEN ctx[c] = None
            ELSE ctx[c] # None /\ ctx[c].fresh
        BY <1>0, <4>1 DEF CtxInv
      <4> QED BY <1>5, <1>8, <1>9, <3>2, <4>2
    <3> QED BY <3>1, <3>2
  <2>2. \A c \in Conns : /\ c \in open' <=> owner'[c] # None
                         /\ c \notin open' => ctx[c] = None
    BY <1>0, <1>2, <1>6, <1>10, <1>14 DEF CtxInv
  <2>3. \A c \in Conns : ctx[c] # None => (ctx[c].user <=> c \in asked')
    BY <1>0, <1>3, <1>6 DEF CtxInv
  <2>4. Listener \in open' /\ ctx[Listener] # None /\ owner'[Listener] = None
    BY <1>0, <1>2, <1>6, <1>10, <1>14 DEF CtxInv
  <2> QED BY <1>6, <2>1, <2>2, <2>3, <2>4 DEF CtxInv
<1>19. LinkInv'
  <2>1. \A c \in Conns : c \notin open' \/ link'[c] \in {"idle", "connecting"} => ready'[c] = {}
    BY <1>0, <1>3, <1>6, <1>11, <1>14 DEF LinkInv
  <2>2. \A g \in Fibers \ {f} :
          /\ call'[g].op = "connect"
          /\ pc'[g] = "check" \/ (pc'[g] = "parked" /\ queued[g] > 0 /\ g \notin cancelled')
          => link'[call'[g].fd] # "connecting" \/ g \in strayed'
    <3> SUFFICES ASSUME NEW g \in Fibers \ {f}, call'[g].op = "connect",
                        pc'[g] = "check" \/ (pc'[g] = "parked" /\ queued[g] > 0 /\ g \notin cancelled')
                 PROVE  link'[call'[g].fd] # "connecting" \/ g \in strayed'
      OBVIOUS
    <3>1. link[call[g].fd] # "connecting" \/ g \in strayed
      BY <1>0, <1>8, <1>9, <1>12 DEF LinkInv
    <3>2. Held(g) /\ call[g].op # "accept"
      BY <1>0, <1>8, <1>9 DEF CallsInv, CallInv
    <3>3. call[g].fd \in Conns /\ owner[call[g].fd] = g
      BY <3>2 DEF Held
    <3>4. call[g].fd # d
      BY <1>3, <1>14, <3>3
    <3> QED BY <1>9, <1>11, <1>14, <3>1, <3>3, <3>4
  <2> QED BY <1>5, <1>9, <2>1, <2>2 DEF LinkInv
<1> QED BY <1>15, <1>16, <1>17, <1>18, <1>19 DEF IInv

\* socket() brings a descriptor.
LEMMA SocketStep ==
    ASSUME IInv, NEW f \in Fibers, Socket(f)
    PROVE  IInv'
<1>1. ready' = ready /\ ready \in [Fds -> SUBSET Events]
  BY DEF Socket, IInv, TypeOK
<1> QED BY <1>1, OpenStep DEF Socket

\* accept() brings a connection.
LEMMA AcceptStep ==
    ASSUME IInv, NEW f \in Fibers, pc[f] \in {"direct", "try", "blocked"}, Succeeds(f),
           call[f].op = "accept"
    PROVE  IInv'
<1>1. ready \in [Fds -> SUBSET Events] /\ "accept" \in IoOps
  BY DEF IInv, TypeOK, CallsInv, CallInv, Waits
<1>2. PICK c, S : /\ S \subseteq ready[c]
                  /\ ready' = [ready EXCEPT ![c] = S]
  BY DEF Succeeds
<1>3. ready' \in [Fds -> SUBSET Events] /\ \A d \in Fds : ready'[d] \subseteq ready[d]
  BY ONLY <1>1, <1>2
<1>4. /\ Conns \ open # {} /\ Opened(f, "accept", "up") /\ DropInfo(f)
      /\ UNCHANGED <<waitVars, armed, aiming, strayed>>
  BY DEF Succeeds
<1> QED
  BY ONLY IInv, f \in Fibers, pc[f] \in {"direct", "try", "blocked"}, <1>1, <1>3, <1>4, OpenStep

\* A call that has kept its thread ends, or goes on as if nothing were ready.
LEMMA UnblocksStep ==
    ASSUME IInv, NEW f \in Fibers, Unblocks(f)
    PROVE  IInv'
<1>0. TypeOK /\ CallInv(f) /\ CtxInv
  BY DEF IInv, CallsInv
<1>1. pc[f] = "blocked" /\ Held(f)
  BY <1>0 DEF Unblocks, CallInv
<1>2. CASE BeginWait(f) /\ ctx[call[f].fd] # None /\ ~ctx[call[f].fd].user
  <2>1. call[f].fd \notin asked \cap Conns
    BY <1>0, <1>2 DEF CtxInv
  <2> QED BY <1>1, <1>2, <2>1, WaitBegins
<1>3. CASE Succeeds(f) \/ Fails(f)
  BY <1>1, <1>3, AcceptStep, IoReturns
<1>4. CASE Return(f) /\ UNCHANGED <<kernelVars, ctx, waitVars, armed, aiming, userVars>>
  BY <1>1, <1>4, IoReturns
<1> QED BY <1>2, <1>3, <1>4 DEF Unblocks

\* A fiber changes what is known about a connection of its own, or closes it.
LEMMA OwnStep ==
    ASSUME IInv, NEW f \in Fibers, NEW d \in Conns, owner[d] = f,
           pc[f] \in {"app", "create", "del", "close"}, pc'[f] \in {"app", "close"},
           pc[f] = "app" \/ call[f].fd = d, pc'[f] = "app" \/ call'[f].fd = d,
           call'[f].op # "connect" \/ call'[f] = call[f],
           pc' \in [Fibers -> Labels], call' \in [Fibers -> CallRecords],
           due' \subseteq Fibers, cancelled' \subseteq Fibers, strayed' \subseteq Fibers,
           f \in due' \cup cancelled' => pc'[f] # "app",
           \A g \in Fibers \ {f} : /\ pc'[g] = pc[g] /\ call'[g] = call[g]
                                   /\ g \in due' <=> g \in due
                                   /\ g \in cancelled' <=> g \in cancelled
                                   /\ g \in strayed' <=> g \in strayed,
           ctx' \in [Fds -> [user : BOOLEAN, timed : SUBSET Events, fresh : BOOLEAN] \cup {None}],
           nonblock' \subseteq Fds, asked' \subseteq Fds, cleared' \subseteq Conns,
           \A c \in Fds \ {d} : ctx'[c] = ctx[c] /\ (c \in asked' <=> c \in asked),
           UNCHANGED <<link, waitVars, armed, aiming>>,
           \/ /\ UNCHANGED <<open, ready, owner>>
              /\ IF pc'[f] = "close" THEN ctx'[d] = None
                 ELSE ctx'[d] # None /\ ctx'[d].fresh /\ (ctx'[d].user <=> d \in asked')
           \/ /\ open' = open \ {d} /\ ready' = [ready EXCEPT ![d] = {}]
              /\ owner' = [owner EXCEPT ![d] = None] /\ ctx'[d] = None /\ pc'[f] = "app",
           CallInv(f)'
    PROVE  IInv'
<1>0. TypeOK /\ CallsInv /\ WakeInv /\ CtxInv /\ LinkInv
  BY DEF IInv
<1>1. Conns \subseteq Fds /\ Listener \notin Conns /\ Listener \in Fds /\ None \notin Fibers
  BY HookAssumption DEF Fds
<1>2. /\ owner' \in [Fds -> Fibers \cup {None}] /\ ready' \in [Fds -> SUBSET Events]
      /\ open' \subseteq Fds
      /\ \A c \in Fds \ {d} : owner'[c] = owner[c] /\ ready'[c] = ready[c]
                              /\ (c \in open' <=> c \in open)
  <2>1. owner \in [Fds -> Fibers \cup {None}] /\ ready \in [Fds -> SUBSET Events]
        /\ open \subseteq Fds
    BY <1>0 DEF TypeOK
  <2>2. \/ UNCHANGED <<open, ready, owner>>
        \/ /\ open' = open \ {d} /\ ready' = [ready EXCEPT ![d] = {}]
           /\ owner' = [owner EXCEPT ![d] = None]
    OBVIOUS
  <2> QED BY ONLY <2>1, <2>2
<1>3. \/ owner'[d] = f /\ d \in open' /\ ready'[d] = ready[d]
      \/ owner'[d] = None /\ d \notin open' /\ ready'[d] = {} /\ ctx'[d] = None
  <2>1. owner \in [Fds -> Fibers \cup {None}] /\ ready \in [Fds -> SUBSET Events]
    BY <1>0 DEF TypeOK
  <2>2. d \in open
    BY <1>0, <1>1 DEF CtxInv
  <2>3. \/ UNCHANGED <<open, ready, owner>>
        \/ /\ open' = open \ {d} /\ ready' = [ready EXCEPT ![d] = {}]
           /\ owner' = [owner EXCEPT ![d] = None] /\ ctx'[d] = None
    OBVIOUS
  <2>4. owner[d] = f /\ d \in Fds
    BY <1>1
  <2> QED BY ONLY <2>1, <2>2, <2>3, <2>4
<1>4. f \notin armed /\ queued[f] = 0 /\ \A c \in Fds, e \in Events : waiting[c][e] # f
  BY <1>0 DEF WakeInv
<1>5. TypeOK'
  <2>1. \A g \in Fibers : g \in due \cup cancelled => pc[g] # "app"
    BY <1>0 DEF TypeOK
  <2>2. due' \cup cancelled' \subseteq {g \in Fibers : pc'[g] # "app"}
    BY <2>1
  <2> QED BY <1>0, <1>2, <2>2 DEF TypeOK, CallRecords
<1>6. CallsInv'
  <2>1. ASSUME NEW g \in Fibers \ {f} PROVE CallInv(g)'
    <3>1. CallInv(g) /\ pc'[g] = pc[g] /\ call'[g] = call[g]
      BY <1>0 DEF CallsInv
    <3>2. \A c \in Conns : owner[c] = g => owner'[c] = g
      BY <1>1, <1>2
    <3>3. Held(g) => Held(g)'
      BY <1>1, <3>1, <3>2 DEF Held
    <3>4. Held(g) \/ owner[call[g].fd] = g => call[g].fd # d
      BY <1>1 DEF Held
    <3>5. call[g].fd \in Fds
      BY <1>0 DEF TypeOK
    <3> QED BY <1>1, <3>1, <3>2, <3>3, <3>4, <3>5 DEF CallInv, Waits
  <2> QED BY <2>1 DEF CallsInv
<1>7. WakeInv'
  <2>1. \A c \in Fds, e \in Events, g \in Fibers :
          waiting[c][e] = g => /\ pc'[g] = "parked" /\ call'[g].fd = c /\ queued[g] = 0
                               /\ call'[g].op # "sleep" /\ EventOf(call'[g].op) = e
    BY <1>0, <1>4 DEF WakeInv
  <2>2. \A g \in Fibers : queued[g] = 0 \/ (queued[g] = 1 /\ pc'[g] = "parked")
    BY <1>0, <1>4 DEF WakeInv
  <2>3. armed \subseteq Fibers
    BY <1>0 DEF TypeOK
  <2>4. \A g \in armed : /\ pc'[g] \in {"add", "grow", "register", "parked"}
                         /\ call'[g].op = "sleep" => pc'[g] = "parked" /\ queued[g] = 0
    BY <1>0, <1>4, <2>3 DEF WakeInv
  <2> QED BY <2>1, <2>2, <2>4 DEF WakeInv
<1>8. CtxInv'
  <2>1. ASSUME NEW c \in Conns, NEW g \in Fibers, owner'[c] = g
        PROVE  IF call'[g].fd = c /\ pc'[g] \in {"get", "create", "close"} THEN ctx'[c] = None
               ELSE ctx'[c] # None /\ ctx'[c].fresh
    <3>1. CASE c = d
      <4>1. g = f
        BY <1>1, <1>3, <2>1, <3>1
      <4>2. UNCHANGED owner
        BY <1>1, <1>3, <2>1, <3>1
      <4>3. IF pc'[f] = "close" THEN ctx'[d] = None ELSE ctx'[d] # None /\ ctx'[d].fresh
        BY <1>1, <1>3, <2>1, <3>1
      <4> QED BY <3>1, <4>1, <4>3
    <3>2. CASE c # d
      <4>1. owner[c] = g /\ ctx'[c] = ctx[c]
        BY <1>1, <1>2, <2>1, <3>2
      <4>2. IF call[g].fd = c /\ pc[g] \in {"get", "create", "close"} THEN ctx[c] = None
            ELSE ctx[c] # None /\ ctx[c].fresh
        BY <1>0, <4>1 DEF CtxInv
      <4>3. (call'[g].fd = c /\ pc'[g] \in {"get", "create", "close"})
            <=> (call[g].fd = c /\ pc[g] \in {"get", "create", "close"})
        BY <3>2
      <4> QED BY <4>1, <4>2, <4>3
    <3> QED BY <3>1, <3>2
  <2>2. \A c \in Conns : /\ c \in open' <=> owner'[c] # None
                         /\ c \notin open' => ctx'[c] = None
    <3>1. \A c \in Conns : /\ c \in open <=> owner[c] # None
                           /\ c \notin open => ctx[c] = None
      BY <1>0 DEF CtxInv
    <3> QED BY <1>1, <1>2, <1>3, <3>1
  <2>3. \A c \in Conns : ctx'[c] # None => (ctx'[c].user <=> c \in asked')
    <3>1. \A c \in Conns : ctx[c] # None => (ctx[c].user <=> c \in asked)
      BY <1>0 DEF CtxInv
    <3>2. ctx'[d] # None => (ctx'[d].user <=> d \in asked')
      OBVIOUS
    <3> QED BY <1>1, <3>1, <3>2
  <2>4. Listener \in open' /\ ctx'[Listener] # None /\ owner'[Listener] = None
    BY <1>0, <1>1, <1>2 DEF CtxInv
  <2> QED BY <2>1, <2>2, <2>3, <2>4 DEF CtxInv
<1>9. LinkInv'
  <2>1. \A c \in Conns : c \notin open' \/ link'[c] \in {"idle", "connecting"} => ready'[c] = {}
    <3>1. \A c \in Conns : c \notin open \/ link[c] \in {"idle", "connecting"} => ready[c] = {}
      BY <1>0 DEF LinkInv
    <3>2. d \in open
      BY <1>0, <1>1 DEF CtxInv
    <3> QED BY <1>1, <1>2, <1>3, <3>1, <3>2
  <2>2. \A g \in Fibers :
          /\ call'[g].op = "connect"
          /\ pc'[g] = "check" \/ (pc'[g] = "parked" /\ queued[g] > 0 /\ g \notin cancelled')
          => link'[call'[g].fd] # "connecting" \/ g \in strayed'
    BY <1>0 DEF LinkInv
  <2> QED BY <2>1, <2>2 DEF LinkInv
<1> QED BY <1>5, <1>6, <1>7, <1>8, <1>9 DEF IInv

\* FdManager::get makes an FdCtx.
LEMMA GetCreateStep ==
    ASSUME IInv, NEW f \in Fibers, GetCreate(f)
    PROVE  IInv'
<1>0. TypeOK
  BY DEF IInv
<1>1. PICK d : d = call[f].fd
  OBVIOUS
<1>2. d \in Conns /\ owner[d] = f /\ d \notin asked /\ d \in Fds /\ pc[f] = "create"
  BY <1>1 DEF GetCreate, IInv, CallsInv, CallInv, Fds
<1>3. FreshCtx \in CtxRecords /\ FreshCtx.fresh /\ ~FreshCtx.user /\ FreshCtx # None
  <2>1. FreshCtx \in CtxRecords /\ FreshCtx.fresh /\ ~FreshCtx.user
    BY DEF FreshCtx, CtxRecords
  <2>2. None \notin CtxRecords
    BY HookAssumption DEF CtxRecords
  <2> QED BY <2>1, <2>2
<1>4. ctx' = [ctx EXCEPT ![d] = FreshCtx] /\ nonblock' = nonblock \cup {d} /\ Return(f)
      /\ UNCHANGED <<open, link, ready, waitVars, armed, aiming, userVars>>
  BY <1>1 DEF GetCreate, InitCtx
<1>5. /\ ctx' \in [Fds -> CtxRecords \cup {None}] /\ ctx'[d] = FreshCtx
      /\ \A c \in Fds \ {d} : ctx'[c] = ctx[c]
  BY ONLY <1>0, <1>2, <1>3, <1>4 DEF TypeOK, CtxRecords
<1>6. /\ pc' \in [Fibers -> Labels] /\ call' \in [Fibers -> CallRecords]
      /\ \A g \in Fibers : /\ pc'[g] = IF g = f THEN "app" ELSE pc[g]
                           /\ call'[g] = IF g = f THEN NoCall ELSE call[g]
                           /\ g \in due' <=> g # f /\ g \in due
                           /\ g \in cancelled' <=> g # f /\ g \in cancelled
                           /\ g \in strayed' <=> g # f /\ g \in strayed
      /\ due' \subseteq Fibers /\ cancelled' \subseteq Fibers /\ strayed' \subseteq Fibers
  BY ONLY <1>0, <1>4, Returns, f \in Fibers
<1>7. CallInv(f)' /\ pc'[f] = "app" /\ call'[f].op # "connect"
  BY <1>6 DEF CallInv, NoCall
<1>8. nonblock' \subseteq Fds /\ asked' \subseteq Fds /\ cleared' \subseteq Conns
  BY <1>0, <1>2, <1>4 DEF TypeOK
<1>9. /\ UNCHANGED <<open, ready, owner>>
      /\ ctx'[d] # None /\ ctx'[d].fresh /\ (ctx'[d].user <=> d \in asked')
  BY <1>2, <1>3, <1>4, <1>5
<1>10. call[f].fd = d /\ \A c \in Fds \ {d} : c \in asked' <=> c \in asked
  BY <1>1, <1>4
<1>11. UNCHANGED <<link, waitVars, armed, aiming>>
  BY <1>4
<1> QED
  BY ONLY IInv, f \in Fibers, <1>2, <1>5, <1>6, <1>7, <1>8, <1>9, <1>10, <1>11, OwnStep
     DEF CtxRecords

\* close: FdManager forgets the descriptor, then its number is free.
LEMMA CloseStepsStep ==
    ASSUME IInv, NEW f \in Fibers, CloseSteps(f)
    PROVE  IInv'
<1>0. TypeOK
  BY DEF IInv
<1>1. PICK d : d = call[f].fd
  OBVIOUS
<1>2. d \in Conns /\ owner[d] = f /\ d \in Fds /\ pc[f] \in {"del", "close"} /\ CallInv(f)
  BY <1>1 DEF CloseSteps, IInv, CallsInv, CallInv, Fds
<1>3. CASE pc[f] = "del"
  <2>1. ctx' = [ctx EXCEPT ![d] = None] /\ Goto(f, "close") /\ UNCHANGED call
        /\ UNCHANGED <<kernelVars, waitVars, timerVars, userVars>>
    BY <1>1, <1>3 DEF CloseSteps, Del
  <2>2. "close" \in Labels
    BY DEF Labels
  <2>3. /\ pc' \in [Fibers -> Labels]
        /\ \A g \in Fibers : pc'[g] = IF g = f THEN "close" ELSE pc[g]
    BY ONLY <1>0, <2>1, <2>2, Moves, f \in Fibers
  <2>4. /\ ctx' \in [Fds -> CtxRecords \cup {None}] /\ ctx'[d] = None
        /\ \A c \in Fds \ {d} : ctx'[c] = ctx[c]
    BY ONLY <1>0, <1>2, <2>1 DEF TypeOK, CtxRecords
  <2>5. CallInv(f)'
    BY <1>1, <1>2, <1>3, <2>1, <2>3 DEF CallInv
  <2>6. /\ call' \in [Fibers -> CallRecords] /\ due' \subseteq Fibers
        /\ cancelled' \subseteq Fibers /\ strayed' \subseteq Fibers
        /\ nonblock' \subseteq Fds /\ asked' \subseteq Fds /\ cleared' \subseteq Conns
    BY <1>0, <2>1 DEF TypeOK, CallRecords
  <2>7. /\ pc'[f] = "close" /\ call'[f] = call[f] /\ call'[f].fd = d /\ call[f].fd = d
        /\ \A c \in Fds \ {d} : c \in asked' <=> c \in asked
    BY <1>1, <2>1, <2>3
  <2>8. \A g \in Fibers \ {f} : /\ pc'[g] = pc[g] /\ call'[g] = call[g]
                                /\ g \in due' <=> g \in due
                                /\ g \in cancelled' <=> g \in cancelled
                                /\ g \in strayed' <=> g \in strayed
    BY <2>1, <2>3
  <2>9. UNCHANGED <<link, open, ready, owner, waitVars, armed, aiming>>
    BY <2>1
  <2> QED
    BY ONLY IInv, f \in Fibers, <1>2, <2>3, <2>4, <2>5, <2>6, <2>7, <2>8, <2>9, OwnStep
       DEF CtxRecords
<1>4. CASE pc[f] = "close"
  <2>1. /\ Return(f) /\ UNCHANGED <<ctx, nonblock, link, waitVars, armed, aiming, asked,
                                   cleared>>
        /\ open' = open \ {d} /\ ready' = [ready EXCEPT ![d] = {}]
        /\ owner' = [owner EXCEPT ![d] = None]
    BY <1>1, <1>4 DEF CloseSteps
  <2>2. /\ pc' \in [Fibers -> Labels] /\ call' \in [Fibers -> CallRecords]
        /\ \A g \in Fibers : /\ pc'[g] = IF g = f THEN "app" ELSE pc[g]
                             /\ call'[g] = IF g = f THEN NoCall ELSE call[g]
                             /\ g \in due' <=> g # f /\ g \in due
                             /\ g \in cancelled' <=> g # f /\ g \in cancelled
                             /\ g \in strayed' <=> g # f /\ g \in strayed
        /\ due' \subseteq Fibers /\ cancelled' \subseteq Fibers /\ strayed' \subseteq Fibers
    BY ONLY <1>0, <2>1, Returns, f \in Fibers
  <2>3. CallInv(f)' /\ pc'[f] = "app" /\ call'[f].op # "connect"
    BY <2>2 DEF CallInv, NoCall
  <2>4. ctx[d] = None
    BY <1>1, <1>2, <1>4 DEF IInv, CtxInv
  <2>5. /\ ctx' \in [Fds -> CtxRecords \cup {None}] /\ nonblock' \subseteq Fds
        /\ asked' \subseteq Fds /\ cleared' \subseteq Conns /\ ctx'[d] = None
    BY <1>0, <2>1, <2>4 DEF TypeOK, CtxRecords
  <2>6. /\ \A c \in Fds \ {d} : ctx'[c] = ctx[c] /\ (c \in asked' <=> c \in asked)
        /\ call[f].fd = d
    BY <1>1, <2>1
  <2> QED
    BY ONLY IInv, f \in Fibers, <1>2, <1>4, <2>1, <2>2, <2>3, <2>5, <2>6, OwnStep
       DEF CtxRecords
<1> QED BY <1>2, <1>3, <1>4

\* A call that only changes what FdManager or the kernel knows of the flags.
LEMMA FlagStep ==
    ASSUME IInv, NEW f \in Fibers, pc[f] = "app", NEW d \in Conns, owner[d] = f,
           NEW r \in CtxRecords, r.fresh, ctx' = [ctx EXCEPT ![d] = r],
           nonblock' \subseteq Fds, asked' = asked \cup {d} \/ asked' = asked \ {d},
           cleared' \subseteq Conns,
           r.user <=> d \in asked',
           UNCHANGED <<open, link, ready, waitVars, timerVars, fiberVars, owner>>
    PROVE  IInv'
<1>0. TypeOK /\ CallInv(f)
  BY DEF IInv, CallsInv
<1>1. d \in Fds /\ r # None
  BY HookAssumption DEF Fds, CtxRecords
<1>2. /\ ctx' \in [Fds -> CtxRecords \cup {None}] /\ ctx'[d] = r
      /\ \A c \in Fds \ {d} : ctx'[c] = ctx[c]
  BY <1>0, <1>1 DEF TypeOK, CtxRecords
<1>3. /\ asked' \subseteq Fds /\ pc' \in [Fibers -> Labels] /\ call' \in [Fibers -> CallRecords]
      /\ due' \subseteq Fibers /\ cancelled' \subseteq Fibers /\ strayed' \subseteq Fibers
      /\ f \notin due' \cup cancelled'
      /\ \A c \in Fds \ {d} : c \in asked' <=> c \in asked
  BY <1>0, <1>1 DEF TypeOK, CallRecords
<1>4. CallInv(f)'
  BY DEF CallInv
<1>5. /\ pc'[f] = "app" /\ call'[f] = call[f]
      /\ \A g \in Fibers \ {f} : /\ pc'[g] = pc[g] /\ call'[g] = call[g]
                                 /\ g \in due' <=> g \in due
                                 /\ g \in cancelled' <=> g \in cancelled
                                 /\ g \in strayed' <=> g \in strayed
  OBVIOUS
<1>6. ctx'[d] # None /\ ctx'[d].fresh /\ (ctx'[d].user <=> d \in asked')
  BY <1>1, <1>2
<1>7. UNCHANGED <<open, ready, owner, link, waitVars, armed, aiming>>
  OBVIOUS
<1>8. /\ d \in Conns /\ owner[d] = f /\ pc[f] = "app"
      /\ nonblock' \subseteq Fds /\ cleared' \subseteq Conns
  OBVIOUS
<1> QED
  BY ONLY IInv, f \in Fibers, <1>2, <1>3, <1>4, <1>5, <1>6, <1>7, <1>8, OwnStep
     DEF CtxRecords

\* fcntl, ioctl and setsockopt.
LEMMA FlagsStep ==
    ASSUME IInv, NEW f \in Fibers, NEW d \in Conns, NEW b \in BOOLEAN,
           \/ SetFl(f, d, b) \/ Ioctl(f, d, b)
           \/ \E e \in Events : SetTimeout(f, d, e)
    PROVE  IInv'
<1>0. TypeOK
  BY DEF IInv
<1>1. pc[f] = "app" /\ owner[d] = f /\ d \in Fds
  BY DEF SetFl, Ioctl, SetTimeout, Fds
<1>2. ctx[d] # None /\ ctx[d].fresh /\ (ctx[d].user <=> d \in asked)
  BY <1>1, KnownCtx
<1>3. ctx[d] \in CtxRecords
  BY <1>0, <1>1, <1>2 DEF TypeOK, CtxRecords
<1>4. UNCHANGED <<open, link, ready, waitVars, timerVars, fiberVars, owner>>
  BY DEF SetFl, Ioctl, SetTimeout
<1>5. CASE SetFl(f, d, b) \/ Ioctl(f, d, b)
  <2>1. PICK r : r = [ctx[d] EXCEPT !.user = b]
    OBVIOUS
  <2>2. r \in CtxRecords /\ r.fresh /\ (r.user <=> b)
    BY <1>2, <1>3, <2>1 DEF CtxRecords
  <2>3. ctx' = [ctx EXCEPT ![d] = r] /\ asked' = (IF b THEN asked \cup {d} ELSE asked \ {d})
    BY <1>2, <1>5, <2>1 DEF SetFl, Ioctl, Noted
  <2>4. nonblock' \subseteq Fds /\ cleared' \subseteq Conns
    BY <1>0, <1>1, <1>5 DEF SetFl, Ioctl, SysFlag, TypeOK
  <2>5. (asked' = asked \cup {d} \/ asked' = asked \ {d}) /\ (r.user <=> d \in asked')
    BY <2>2, <2>3
  <2> QED
    BY ONLY IInv, f \in Fibers, d \in Conns, <1>1, <1>4, <2>2, <2>3, <2>4, <2>5, FlagStep
<1>6. ASSUME NEW e \in Events, SetTimeout(f, d, e) PROVE IInv'
  <2>1. PICK r : r = WithTimeout(ctx[d], e)
    OBVIOUS
  <2>2. r \in CtxRecords /\ r.fresh /\ (r.user <=> d \in asked)
    BY <1>2, <1>3, <2>1 DEF CtxRecords, WithTimeout
  <2>3. ctx' = [ctx EXCEPT ![d] = r] /\ UNCHANGED <<asked, nonblock, cleared>>
    BY <1>6, <2>1 DEF SetTimeout, WithTimeout
  <2>4. nonblock' \subseteq Fds /\ cleared' \subseteq Conns
    BY <1>0, <2>3 DEF TypeOK
  <2>5. (asked' = asked \cup {d} \/ asked' = asked \ {d}) /\ (r.user <=> d \in asked')
    BY <2>2, <2>3
  <2> QED
    BY ONLY IInv, f \in Fibers, d \in Conns, <1>1, <1>4, <2>2, <2>3, <2>4, <2>5, FlagStep
<1> QED BY <1>5, <1>6

-----------------------------------------------------------------------------
(* Waiting and waking.                                                     *)

\* The event is registered, and the fiber yields.
LEMMA ParkStep ==
    ASSUME IInv, NEW f \in Fibers, AddEvent(f), ~Refused(f)
    PROVE  IInv'
<1>0. TypeOK /\ CallsInv /\ WakeInv /\ CtxInv /\ LinkInv
  BY DEF IInv
<1>1. PICK d, e : d = call[f].fd /\ e = EventOf(call[f].op)
  OBVIOUS
<1>2. /\ pc[f] = "register" /\ waiting[d][e] = None /\ d \in Fds /\ e \in Events
      /\ waiting' = [waiting EXCEPT ![d][e] = f] /\ Goto(f, "parked") /\ VecOK'
      /\ UNCHANGED <<kernelVars, ctx, queued, timerVars, call, userVars>>
  <2>1. d \in Fds /\ e \in Events
    BY <1>0, <1>1 DEF TypeOK, EventOf, Events
  <2>2. /\ home' = [home EXCEPT ![d] = held[f]] /\ held' = [held EXCEPT ![f] = 0]
        /\ UNCHANGED <<size, slot, shrunk>>
    BY <1>1 DEF AddEvent
  <2>3. VecOK
    BY <1>0 DEF TypeOK
  <2>4. VecOK'
    BY ONLY <2>1, <2>2, <2>3, f \in Fibers DEF VecOK
  <2> QED BY <1>1, <2>1, <2>4 DEF AddEvent, Refused
<1>3. Waits(f) /\ Held(f) /\ call[f].op # "sleep"
  BY <1>0, <1>2, HookAssumption DEF CallsInv, CallInv, Waits
<1>4. "parked" \in Labels
  BY DEF Labels
<1>5. /\ pc' \in [Fibers -> Labels]
      /\ \A g \in Fibers : pc'[g] = IF g = f THEN "parked" ELSE pc[g]
  BY ONLY <1>0, <1>2, <1>4, Moves, f \in Fibers
<1>6. /\ waiting' \in [Fds -> [Events -> Fibers \cup {None}]]
      /\ \A c \in Fds, i \in Events :
            waiting'[c][i] = IF c = d /\ i = e THEN f ELSE waiting[c][i]
  BY ONLY <1>0, <1>2, f \in Fibers DEF TypeOK
<1>7. /\ queued[f] = 0
      /\ \A c \in Fds, i \in Events : waiting[c][i] # f
  BY <1>0, <1>2 DEF WakeInv
<1>8. TypeOK'
  <2>1. due' \cup cancelled' \subseteq {g \in Fibers : pc'[g] # "app"}
    BY <1>0, <1>2, <1>5 DEF TypeOK
  <2> QED BY <1>0, <1>2, <1>5, <1>6, <2>1 DEF TypeOK
<1>9. CallsInv'
  <2>1. ASSUME NEW g \in Fibers PROVE CallInv(g)'
    <3>1. CallInv(g) /\ CallInv(f)
      BY <1>0 DEF CallsInv
    <3>2. UNCHANGED <<call, owner, asked>>
      BY <1>2
    <3> QED BY <1>2, <1>3, <1>5, <3>1, <3>2 DEF CallInv, Held, Waits
  <2> QED BY <2>1 DEF CallsInv
<1>10. WakeInv'
  <2>1. \A c \in Fds, i \in Events, g \in Fibers :
          waiting'[c][i] = g => /\ pc'[g] = "parked" /\ call[g].fd = c /\ queued[g] = 0
                                /\ call[g].op # "sleep" /\ EventOf(call[g].op) = i
    BY <1>0, <1>1, <1>3, <1>5, <1>6, <1>7 DEF WakeInv
  <2>2. \A g \in Fibers : queued[g] = 0 \/ (queued[g] = 1 /\ pc'[g] = "parked")
    BY <1>0, <1>5 DEF WakeInv
  <2>3. armed \subseteq Fibers
    BY <1>0 DEF TypeOK
  <2>4. \A g \in armed : /\ pc'[g] \in {"add", "grow", "register", "parked"}
                         /\ call[g].op = "sleep" => pc'[g] = "parked" /\ queued[g] = 0
    BY <1>0, <1>5, <1>7, <2>3 DEF WakeInv
  <2> QED BY <1>2, <2>1, <2>2, <2>4 DEF WakeInv
<1>11. CtxInv'
  <2>1. \A c \in Conns, g \in Fibers : owner[c] = g =>
          IF call[g].fd = c /\ pc'[g] \in {"get", "create", "close"} THEN ctx[c] = None
          ELSE ctx[c] # None /\ ctx[c].fresh
    BY <1>0, <1>2, <1>5 DEF CtxInv
  <2> QED BY <1>0, <1>2, <2>1 DEF CtxInv
<1>12. LinkInv'
  <2>1. \A g \in Fibers :
          /\ call[g].op = "connect"
          /\ pc'[g] = "check" \/ (pc'[g] = "parked" /\ queued[g] > 0 /\ g \notin cancelled)
          => link[call[g].fd] # "connecting" \/ g \in strayed
    BY <1>0, <1>5, <1>7 DEF LinkInv
  <2> QED BY <1>0, <1>2, <2>1 DEF LinkInv
<1> QED BY <1>8, <1>9, <1>10, <1>11, <1>12 DEF IInv

\* addEvent, whatever it finds.
LEMMA AddEventStep ==
    ASSUME IInv, NEW f \in Fibers, AddEvent(f)
    PROVE  IInv'
BY ParkStep, AddRefused

\* The fiber is resumed.
LEMMA ResumeStep ==
    ASSUME IInv, NEW f \in Fibers, Resume(f)
    PROVE  IInv'
<1>0. TypeOK /\ CallsInv /\ WakeInv /\ CtxInv /\ LinkInv
  BY DEF IInv
<1>1. /\ pc[f] = "parked" /\ queued[f] = 1 /\ CallInv(f)
      /\ \A d \in Fds, e \in Events : waiting[d][e] # f
  BY <1>0 DEF Resume, WakeInv, CallsInv
<1>2. /\ queued' \in [Fibers -> Nat] /\ armed' = armed \ {f}
      /\ \A g \in Fibers : queued'[g] = IF g = f THEN 0 ELSE queued[g]
  <2>1. queued' = [queued EXCEPT ![f] = 0] /\ armed' = armed \ {f}
    BY <1>1 DEF Resume, CancelTimer
  <2> QED BY ONLY <1>0, <2>1, f \in Fibers DEF TypeOK
<1>3. UNCHANGED <<kernelVars, ctx, waiting, vectorVars, aiming, userVars>>
  BY DEF Resume
<1>4. PICK l \in {"app", "try", "check"} :
        /\ pc' \in [Fibers -> Labels] /\ call' \in [Fibers -> CallRecords]
        /\ due' \subseteq due /\ cancelled' \subseteq cancelled /\ strayed' \subseteq strayed
        /\ f \in due' \cup cancelled' => l # "app"
        /\ \A g \in Fibers : pc'[g] = IF g = f THEN l ELSE pc[g]
        /\ \A g \in Fibers \ {f} : call'[g] = call[g] /\ (g \in cancelled' <=> g \in cancelled)
                                   /\ (g \in strayed' <=> g \in strayed)
        /\ l = "app" \/ (call'[f] = call[f] /\ strayed' = strayed)
        /\ l = "app" => call'[f].op # "connect"
        /\ l = "try" => call[f].op \in IoOps
        /\ l = "check" => call[f].op = "connect" /\ f \notin cancelled
  <2>1. CASE Return(f)
    <3>1. /\ pc' \in [Fibers -> Labels] /\ call' \in [Fibers -> CallRecords]
          /\ \A g \in Fibers : /\ pc'[g] = IF g = f THEN "app" ELSE pc[g]
                               /\ call'[g] = IF g = f THEN NoCall ELSE call[g]
                               /\ g \in due' <=> g # f /\ g \in due
                               /\ g \in cancelled' <=> g # f /\ g \in cancelled
                               /\ g \in strayed' <=> g # f /\ g \in strayed
          /\ due' \subseteq Fibers /\ cancelled' \subseteq Fibers /\ strayed' \subseteq Fibers
      BY ONLY <1>0, <2>1, Returns, f \in Fibers
    <3>2. NoCall.op # "connect"
      BY DEF NoCall
    <3>3. due' \subseteq due /\ cancelled' \subseteq cancelled /\ strayed' \subseteq strayed
      BY <3>1
    <3> QED BY <3>1, <3>2, <3>3
  <2>2. CASE ~Return(f)
    <3>1. PICK l \in {"try", "check"} :
            /\ Goto(f, l) /\ UNCHANGED <<call, due, cancelled, strayed>>
            /\ l = "try" => call[f].op \in IoOps
            /\ l = "check" => call[f].op = "connect" /\ f \notin cancelled
      BY <2>2 DEF Resume, TimedOut
    <3>2. l \in Labels
      BY DEF Labels
    <3>3. /\ pc' \in [Fibers -> Labels]
          /\ \A g \in Fibers : pc'[g] = IF g = f THEN l ELSE pc[g]
      BY ONLY <1>0, <3>1, <3>2, Moves, f \in Fibers
    <3>4. call' \in [Fibers -> CallRecords]
      BY <1>0, <3>1 DEF TypeOK, CallRecords
    <3> QED BY <3>1, <3>3, <3>4
  <2> QED BY <2>1, <2>2
<1>5. TypeOK'
  <2>1. due' \cup cancelled' \subseteq {g \in Fibers : pc'[g] # "app"}
    BY <1>0, <1>4 DEF TypeOK
  <2> QED BY <1>0, <1>2, <1>3, <1>4, <2>1 DEF TypeOK, CallRecords
<1>6. CallsInv'
  <2>1. CallInv(f)'
    <3>1. call[f].op \in IoOps => call[f].op # "sleep"
      BY HookAssumption
    <3> QED BY <1>1, <1>3, <1>4, <3>1 DEF CallInv, Held, Waits
  <2>2. ASSUME NEW g \in Fibers \ {f} PROVE CallInv(g)'
    BY <1>0, <1>3, <1>4 DEF CallsInv, CallInv, Held, Waits
  <2> QED BY <2>1, <2>2 DEF CallsInv
<1>7. WakeInv'
  <2>1. \A c \in Fds, i \in Events, g \in Fibers :
          waiting[c][i] = g => /\ pc'[g] = "parked" /\ call'[g].fd = c /\ queued'[g] = 0
                               /\ call'[g].op # "sleep" /\ EventOf(call'[g].op) = i
    BY <1>0, <1>1, <1>2, <1>4 DEF WakeInv
  <2>2. \A g \in Fibers : queued'[g] = 0 \/ (queued'[g] = 1 /\ pc'[g] = "parked")
    BY <1>0, <1>2, <1>4 DEF WakeInv
  <2>3. armed \subseteq Fibers
    BY <1>0 DEF TypeOK
  <2>4. \A g \in armed' : /\ pc'[g] \in {"add", "grow", "register", "parked"}
                          /\ call'[g].op = "sleep" => pc'[g] = "parked" /\ queued'[g] = 0
    BY <1>0, <1>2, <1>4, <2>3 DEF WakeInv
  <2> QED BY <1>3, <2>1, <2>2, <2>4 DEF WakeInv
<1>8. CtxInv'
  <2>1. \A c \in Conns, g \in Fibers : owner[c] = g =>
          IF call'[g].fd = c /\ pc'[g] \in {"get", "create", "close"} THEN ctx[c] = None
          ELSE ctx[c] # None /\ ctx[c].fresh
    BY <1>0, <1>1, <1>4 DEF CtxInv
  <2> QED BY <1>0, <1>3, <2>1 DEF CtxInv
<1>9. LinkInv'
  <2>1. ASSUME NEW g \in Fibers, call'[g].op = "connect",
               pc'[g] = "check" \/ (pc'[g] = "parked" /\ queued'[g] > 0 /\ g \notin cancelled')
        PROVE  link[call'[g].fd] # "connecting" \/ g \in strayed'
    <3>1. CASE g = f
      <4>1. l = "check"
        BY <1>4, <2>1, <3>1
      <4>2. queued[f] > 0
        BY <1>1
      <4> QED BY <1>0, <1>1, <1>4, <3>1, <4>1, <4>2 DEF LinkInv
    <3>2. CASE g # f
      BY <1>0, <1>2, <1>4, <2>1, <3>2 DEF LinkInv
    <3> QED BY <3>1, <3>2
  <2> QED BY <1>0, <1>3, <2>1 DEF LinkInv
<1> QED BY <1>5, <1>6, <1>7, <1>8, <1>9 DEF IInv

\* Whoever is registered for one of the events is scheduled, once, and nobody else.
LEMMA Triggered ==
    ASSUME TypeOK, WakeInv, NEW d \in Fds, NEW es \in SUBSET Events, Trigger(d, es)
    PROVE  /\ waiting' \in [Fds -> [Events -> Fibers \cup {None}]]
           /\ \A c \in Fds, e \in Events :
                 waiting'[c][e] = IF c = d /\ e \in es THEN None ELSE waiting[c][e]
           /\ queued' \in [Fibers -> Nat]
           /\ \A f \in Fibers : queued'[f] = IF f \in Waiter(d, es) THEN 1 ELSE queued[f]
<1>1. /\ waiting' \in [Fds -> [Events -> Fibers \cup {None}]]
      /\ \A c \in Fds, e \in Events :
            waiting'[c][e] = IF c = d /\ e \in es THEN None ELSE waiting[c][e]
  <2>1. PICK w : w = [e \in Events |-> IF e \in es THEN None ELSE waiting[d][e]]
    OBVIOUS
  <2>2. waiting' = [waiting EXCEPT ![d] = w]
    BY <2>1 DEF Trigger
  <2>3. waiting \in [Fds -> [Events -> Fibers \cup {None}]]
    BY DEF TypeOK
  <2>4. /\ w \in [Events -> Fibers \cup {None}]
        /\ \A e \in Events : w[e] = IF e \in es THEN None ELSE waiting[d][e]
    BY <2>1, <2>3
  <2> QED BY ONLY <2>2, <2>3, <2>4, d \in Fds
<1>2. ASSUME NEW f \in Fibers
      PROVE  /\ queued[f] + Cardinality({e \in es : waiting[d][e] = f})
                   = IF f \in Waiter(d, es) THEN 1 ELSE queued[f]
             /\ queued[f] \in Nat
  <2>1. queued[f] \in Nat /\ f # None
    BY HookAssumption DEF TypeOK
  <2>2. CASE f \in Waiter(d, es)
    <3>1. PICK e \in es : waiting[d][e] = f
      BY <2>2 DEF Waiter
    <3>2. \A i \in es : waiting[d][i] = f => EventOf(call[f].op) = i
      BY DEF WakeInv
    <3>3. {i \in es : waiting[d][i] = f} = {e}
      BY <3>1, <3>2
    <3>4. queued[f] = 0
      BY <3>1 DEF WakeInv
    <3>5. Cardinality({e}) = 1
      BY FS_Singleton
    <3> QED BY <2>1, <2>2, <3>3, <3>4, <3>5
  <2>3. CASE f \notin Waiter(d, es)
    <3>1. {i \in es : waiting[d][i] = f} = {}
      BY <2>1, <2>3 DEF Waiter
    <3>2. Cardinality({}) = 0
      BY FS_EmptySet
    <3> QED BY <2>1, <2>3, <3>1, <3>2
  <2> QED BY <2>2, <2>3
<1>3. \A f \in Fibers : queued'[f] = IF f \in Waiter(d, es) THEN 1 ELSE queued[f]
  BY <1>2 DEF Trigger
<1>4. queued' \in [Fibers -> Nat]
  BY <1>2, <1>3 DEF Trigger
<1> QED BY <1>1, <1>3, <1>4

\* Whoever waits for a descriptor is woken: in connect the connection is made, or the
\* call has timed out, or it was a callback that meant another call.
LEMMA WakeStep ==
    ASSUME IInv, NEW d \in Fds, NEW es \in SUBSET Events, Trigger(d, es),
           aiming' \in [Fds -> [Events -> 0 .. MaxBusy]],
           strayed \subseteq strayed', strayed' \subseteq Fibers,
           \A f \in Waiter(d, es) : call[f].op = "connect" =>
              f \in cancelled \/ f \in strayed' \/ link[d] # "connecting",
           UNCHANGED <<kernelVars, ctx, vectorVars, armed, due, cancelled, fiberVars,
                       userVars>>
    PROVE  IInv'
<1>0. TypeOK /\ CallsInv /\ WakeInv /\ CtxInv /\ LinkInv
  BY DEF IInv
<1>1. /\ waiting' \in [Fds -> [Events -> Fibers \cup {None}]]
      /\ \A c \in Fds, e \in Events :
            waiting'[c][e] = IF c = d /\ e \in es THEN None ELSE waiting[c][e]
      /\ queued' \in [Fibers -> Nat]
      /\ \A f \in Fibers : queued'[f] = IF f \in Waiter(d, es) THEN 1 ELSE queued[f]
  BY <1>0, Triggered
<1>2. \A f \in Waiter(d, es) :
         f \in Fibers => pc[f] = "parked" /\ call[f].fd = d /\ call[f].op # "sleep"
  BY <1>0 DEF Waiter, WakeInv
<1>3. \A c \in Fds, e \in Events, f \in Fibers :
         waiting'[c][e] = f => waiting[c][e] = f /\ f \notin Waiter(d, es)
  <2> SUFFICES ASSUME NEW c \in Fds, NEW e \in Events, NEW f \in Fibers, waiting'[c][e] = f
               PROVE  waiting[c][e] = f /\ f \notin Waiter(d, es)
    OBVIOUS
  <2>1. waiting[c][e] = f /\ (c = d => e \notin es)
    BY <1>1, HookAssumption
  <2>2. call[f].fd = c /\ EventOf(call[f].op) = e
    BY <1>0, <2>1 DEF WakeInv
  <2>3. ASSUME f \in Waiter(d, es) PROVE FALSE
    <3>1. PICK i \in es : waiting[d][i] = f
      BY <2>3 DEF Waiter
    <3>2. call[f].fd = d /\ EventOf(call[f].op) = i
      BY <1>0, <3>1 DEF WakeInv
    <3> QED BY <2>1, <2>2, <3>2
  <2> QED BY <2>1, <2>3
<1>4. TypeOK'
  BY <1>0, <1>1 DEF TypeOK
<1>5. CallsInv'
  BY <1>0 DEF CallsInv, CallInv, Held, Waits
<1>6. WakeInv'
  <2>1. \A c \in Fds, e \in Events, f \in Fibers :
          waiting'[c][e] = f => /\ pc[f] = "parked" /\ call[f].fd = c /\ queued'[f] = 0
                                /\ call[f].op # "sleep" /\ EventOf(call[f].op) = e
    BY <1>0, <1>1, <1>3 DEF WakeInv
  <2>2. \A f \in Fibers : queued'[f] = 0 \/ (queued'[f] = 1 /\ pc[f] = "parked")
    BY <1>0, <1>1, <1>2 DEF WakeInv
  <2>3. armed \subseteq Fibers
    BY <1>0 DEF TypeOK
  <2>4. \A f \in armed : /\ pc[f] \in {"add", "grow", "register", "parked"}
                         /\ call[f].op = "sleep" => pc[f] = "parked" /\ queued'[f] = 0
    BY <1>0, <1>1, <1>2, <2>3 DEF WakeInv
  <2> QED BY <2>1, <2>2, <2>4 DEF WakeInv
<1>7. CtxInv'
  BY <1>0 DEF CtxInv
<1>8. LinkInv'
  <2>1. ASSUME NEW f \in Fibers, call[f].op = "connect",
               pc[f] = "check" \/ (pc[f] = "parked" /\ queued'[f] > 0 /\ f \notin cancelled)
        PROVE  link[call[f].fd] # "connecting" \/ f \in strayed'
    <3>1. CASE f \in Waiter(d, es) /\ pc[f] # "check"
      BY <1>2, <2>1, <3>1
    <3>2. CASE f \notin Waiter(d, es) \/ pc[f] = "check"
      BY <1>0, <1>1, <2>1, <3>2 DEF LinkInv
    <3> QED BY <3>1, <3>2
  <2> QED BY <1>0, <2>1 DEF LinkInv
<1> QED BY <1>4, <1>5, <1>6, <1>7, <1>8 DEF IInv

\* idle() reports a ready descriptor: a connection with something ready is made.
LEMMA EventFiresStep ==
    ASSUME IInv, NEW d \in Fds, NEW e \in Events, EventFires(d, e)
    PROVE  IInv'
<1>0. TypeOK /\ WakeInv /\ CallsInv /\ LinkInv
  BY DEF IInv
<1>1. Trigger(d, {e}) /\ {e} \in SUBSET Events /\ ready[d] # {}
  BY DEF EventFires
<1>2. ASSUME NEW f \in Waiter(d, {e}), call[f].op = "connect" PROVE link[d] # "connecting"
  <2>1. f = waiting[d][e] /\ f # None
    BY DEF Waiter
  <2>2. f \in Fibers
    BY <1>0, <2>1 DEF TypeOK
  <2>3. pc[f] = "parked" /\ call[f].fd = d
    BY <1>0, <2>1, <2>2 DEF WakeInv
  <2>4. Held(f)
    BY <1>0, <1>2, <2>2, <2>3 DEF CallsInv, CallInv
  <2>5. d \in Conns
    BY <1>2, <2>3, <2>4 DEF Held
  <2> QED BY <1>0, <1>1, <2>5 DEF LinkInv
<1>3. /\ aiming' \in [Fds -> [Events -> 0 .. MaxBusy]] /\ strayed' = strayed
      /\ strayed' \subseteq Fibers
      /\ UNCHANGED <<kernelVars, ctx, vectorVars, armed, due, cancelled, fiberVars, userVars>>
  BY <1>0 DEF TypeOK, EventFires
<1> QED BY <1>1, <1>2, <1>3, WakeStep

\* A callback calls cancelEvent, whoever is registered by now.
LEMMA CancelEventStep ==
    ASSUME IInv, NEW d \in Fds, NEW e \in Events, CancelEvent(d, e)
    PROVE  IInv'
<1>0. TypeOK
  BY DEF IInv
<1>1. PICK es \in {{}, {e}} :
        /\ Trigger(d, es) /\ strayed' = strayed \cup (Waiter(d, es) \ cancelled)
  <2>1. CASE Reaches(d)
    BY <2>1 DEF CancelEvent
  <2>2. CASE ~Reaches(d)
    <3>1. Trigger(d, {}) /\ strayed' = strayed
      BY <2>2 DEF CancelEvent
    <3>2. Waiter(d, {}) = {}
      BY DEF Waiter
    <3> QED BY <3>1, <3>2
  <2> QED BY <2>1, <2>2
<1>2. aiming' \in [Fds -> [Events -> 0 .. MaxBusy]]
  <2>1. aiming \in [Fds -> [Events -> 0 .. MaxBusy]] /\ MaxBusy \in Nat
    BY <1>0, HookAssumption DEF TypeOK
  <2>2. PICK n : n = aiming[d][e] - 1
    OBVIOUS
  <2>3. n \in 0 .. MaxBusy
    BY <2>1, <2>2 DEF CancelEvent
  <2>4. aiming' = [aiming EXCEPT ![d][e] = n]
    BY <2>2 DEF CancelEvent
  <2> QED BY ONLY <2>1, <2>3, <2>4
<1>3. strayed' \subseteq Fibers /\ strayed \subseteq strayed' /\ es \in SUBSET Events
  BY <1>0, <1>1 DEF Waiter, TypeOK
<1>4. UNCHANGED <<kernelVars, ctx, vectorVars, armed, due, cancelled, fiberVars, userVars>>
  BY DEF CancelEvent
<1> QED BY <1>1, <1>2, <1>3, <1>4, WakeStep

\* While a thread is free, no cancelEvent has all of them.
LEMMA BusyBound ==
    ASSUME TypeOK, Cardinality(Busy) < MaxBusy, NEW d \in Fds, NEW e \in Events
    PROVE  aiming[d][e] < MaxBusy
<1>1. MaxBusy \in Nat /\ IsFiniteSet(Fds)
  BY HookAssumption
<1>2. aiming[d][e] \in 0 .. MaxBusy
  BY DEF TypeOK
<1>3. SUFFICES ASSUME aiming[d][e] = MaxBusy PROVE FALSE
  BY <1>1, <1>2
<1> DEFINE I == 1 .. MaxBusy
           P == (Fds \X Events) \X I
           in == [r \in Busy |-> <<<<r[1], r[2]>>, r[3]>>]
           all == [i \in I |-> <<d, e, i>>]
<1>4. IsFiniteSet(I) /\ Cardinality(I) = MaxBusy
  BY <1>1, FS_Interval
<1>5. IsFiniteSet(Events)
  <2>1. Events = {"READ"} \cup {"WRITE"}
    BY DEF Events
  <2> QED BY <2>1, FS_Singleton, FS_Union
<1>6. IsFiniteSet(P)
  <2>1. IsFiniteSet(Fds \X Events)
    BY <1>1, <1>5, FS_Product
  <2> QED BY <2>1, <1>4, FS_Product
<1>7. IsFiniteSet(Busy)
  <2>1. in \in Injection(Busy, P)
    BY DEF Busy, Injection, IsInjective
  <2> HIDE DEF in, P
  <2> QED BY <2>1, <1>6, FS_Injection
<1>8. all \in Injection(I, Busy)
  <2>1. \A i \in I : <<d, e, i>> \in Busy
    <3> SUFFICES ASSUME NEW i \in I PROVE <<d, e, i>> \in Busy
      OBVIOUS
    <3>1. <<d, e, i>> \in Fds \X Events \X (1 .. MaxBusy) /\ i <= aiming[d][e]
      BY <1>1, <1>3
    <3> QED BY <3>1 DEF Busy
  <2> QED BY <2>1 DEF Injection, IsInjective
<1>9. Cardinality(I) <= Cardinality(Busy)
  <2> HIDE DEF all, I
  <2> QED BY <1>7, <1>8, FS_Injection
<1>10. Cardinality(Busy) \in Nat
  BY <1>7, FS_CardinalityType
<1> QED BY <1>1, <1>4, <1>9, <1>10

\* A callback has found the call still there, and notes that it is late.
LEMMA RunCallbackStep ==
    ASSUME IInv, NEW f \in Fibers, RunCallback(f)
    PROVE  IInv'
<1>0. TypeOK /\ CallsInv /\ WakeInv /\ CtxInv /\ LinkInv
  BY DEF IInv
<1>1. /\ due' = due \ {f} /\ cancelled' = cancelled \cup {f} /\ f \in due
      /\ UNCHANGED <<kernelVars, ctx, waitVars, armed, strayed, fiberVars, userVars>>
  BY DEF RunCallback
<1>2. aiming' \in [Fds -> [Events -> 0 .. MaxBusy]]
  <2>1. aiming \in [Fds -> [Events -> 0 .. MaxBusy]] /\ MaxBusy \in Nat
    BY <1>0, HookAssumption DEF TypeOK
  <2>2. PICK d, e, n : d = call[f].fd /\ e = EventOf(call[f].op) /\ n = aiming[d][e] + 1
    OBVIOUS
  <2>3. d \in Fds /\ e \in Events
    BY <1>0, <2>2 DEF TypeOK, EventOf, Events
  <2>4. Cardinality(Busy) < MaxBusy
    BY DEF RunCallback
  <2>5. aiming[d][e] < MaxBusy
    BY ONLY <1>0, <2>3, <2>4, BusyBound
  <2>6. n \in 0 .. MaxBusy
    BY <2>1, <2>2, <2>3, <2>5
  <2>7. aiming' = aiming \/ aiming' = [aiming EXCEPT ![d][e] = n]
    BY <2>2 DEF RunCallback, Aimed
  <2> QED BY ONLY <2>1, <2>6, <2>7
<1>3. TypeOK'
  BY <1>0, <1>1, <1>2 DEF TypeOK
<1>4. CallsInv'
  BY <1>0, <1>1 DEF CallsInv, CallInv, Held, Waits
<1>5. WakeInv'
  BY <1>0, <1>1 DEF WakeInv
<1>6. CtxInv'
  BY <1>0, <1>1 DEF CtxInv
<1>7. LinkInv'
  BY <1>0, <1>1 DEF LinkInv
<1> QED BY <1>3, <1>4, <1>5, <1>6, <1>7 DEF IInv

\* A timer expires.
LEMMA TimerFiresStep ==
    ASSUME IInv, NEW f \in Fibers, TimerFires(f)
    PROVE  IInv'
<1>0. TypeOK /\ CallsInv /\ WakeInv /\ CtxInv /\ LinkInv
  BY DEF IInv
<1>1. /\ f \in armed /\ armed' = armed \ {f}
      /\ UNCHANGED <<kernelVars, ctx, waiting, vectorVars, aiming, cancelled, strayed,
                     fiberVars, userVars>>
  BY DEF TimerFires
<1>2. pc[f] # "app"
  BY <1>0, <1>1 DEF WakeInv
<1>3. CASE call[f].op = "sleep"
  <2>1. pc[f] = "parked" /\ queued[f] = 0
    BY <1>0, <1>1, <1>3 DEF WakeInv
  <2>2. queued' = [queued EXCEPT ![f] = 1] /\ due' = due
    BY <1>3, <2>1 DEF TimerFires
  <2>3. /\ queued' \in [Fibers -> Nat]
        /\ \A g \in Fibers : queued'[g] = IF g = f THEN 1 ELSE queued[g]
    BY ONLY <1>0, <2>2, f \in Fibers DEF TypeOK
  <2>4. TypeOK'
    BY <1>0, <1>1, <2>2, <2>3 DEF TypeOK
  <2>5. CallsInv'
    BY <1>0, <1>1 DEF CallsInv, CallInv, Held, Waits
  <2>6. WakeInv'
    BY <1>0, <1>1, <1>3, <2>1, <2>3 DEF WakeInv, TypeOK
  <2>7. CtxInv'
    BY <1>0, <1>1 DEF CtxInv
  <2>8. LinkInv'
    BY <1>0, <1>1, <1>3, <2>3 DEF LinkInv
  <2> QED BY <2>4, <2>5, <2>6, <2>7, <2>8 DEF IInv
<1>4. CASE call[f].op # "sleep"
  <2>1. due' = due \cup {f} /\ queued' = queued
    BY <1>4 DEF TimerFires
  <2>2. TypeOK'
    BY <1>0, <1>1, <1>2, <2>1 DEF TypeOK
  <2>3. CallsInv'
    BY <1>0, <1>1 DEF CallsInv, CallInv, Held, Waits
  <2>4. WakeInv'
    BY <1>0, <1>1, <2>1 DEF WakeInv
  <2>5. CtxInv'
    BY <1>0, <1>1 DEF CtxInv
  <2>6. LinkInv'
    BY <1>0, <1>1, <2>1 DEF LinkInv
  <2> QED BY <2>2, <2>3, <2>4, <2>5, <2>6 DEF IInv
<1> QED BY <1>3, <1>4

\* The peer sends or makes room, and a connection is made or refused.
LEMMA OutsideStep ==
    ASSUME IInv, NEW d \in Fds,
           \/ \E e \in Events : Arrive(d, e)
           \/ \E l \in {"up", "refused"} : ConnectEnds(d, l)
    PROVE  IInv'
<1>0. TypeOK /\ CallsInv /\ WakeInv /\ CtxInv /\ LinkInv
  BY DEF IInv
<1>1. Listener \notin Conns /\ Conns \subseteq Fds
  BY HookAssumption DEF Fds
<1>2. UNCHANGED <<open, nonblock, ctx, waitVars, timerVars, fiberVars, userVars>>
  BY DEF Arrive, ConnectEnds
<1>3. PICK e \in Events : ready' = [ready EXCEPT ![d] = @ \cup {e}]
  BY DEF Arrive, ConnectEnds, Events
<1>4. /\ ready' \in [Fds -> SUBSET Events]
      /\ \A c \in Fds \ {d} : ready'[c] = ready[c]
  <2>1. PICK S : S = ready[d] \cup {e}
    OBVIOUS
  <2>2. ready' = [ready EXCEPT ![d] = S] /\ ready \in [Fds -> SUBSET Events]
        /\ S \in SUBSET Events
    BY <1>0, <1>3, <2>1 DEF TypeOK
  <2> QED BY ONLY <2>2
<1>5. /\ link' \in [Fds -> {"idle", "connecting", "up", "refused"}]
      /\ \A c \in Fds : link'[c] = link[c] \/ link'[c] \in {"up", "refused"}
      /\ \A c \in Fds \ {d} : link'[c] = link[c]
      /\ d \in Conns => d \in open /\ link'[d] \in {"up", "refused"}
  <2>1. link \in [Fds -> {"idle", "connecting", "up", "refused"}]
    BY <1>0 DEF TypeOK
  <2>2. CASE \E i \in Events : Arrive(d, i)
    BY <1>1, <2>1, <2>2 DEF Arrive
  <2>3. CASE \E l \in {"up", "refused"} : ConnectEnds(d, l)
    <3>1. PICK l \in {"up", "refused"} : link' = [link EXCEPT ![d] = l] /\ d \in open
      BY <2>3 DEF ConnectEnds
    <3> QED BY ONLY <2>1, <3>1, d \in Fds
  <2> QED BY <2>2, <2>3
<1>6. TypeOK'
  BY <1>0, <1>2, <1>4, <1>5 DEF TypeOK
<1>7. CallsInv'
  BY <1>0, <1>2 DEF CallsInv, CallInv, Held, Waits
<1>8. WakeInv'
  BY <1>0, <1>2 DEF WakeInv
<1>9. CtxInv'
  BY <1>0, <1>2 DEF CtxInv
<1>10. LinkInv'
  <2>1. \A c \in Conns : c \notin open' \/ link'[c] \in {"idle", "connecting"} => ready'[c] = {}
    BY <1>0, <1>1, <1>2, <1>4, <1>5 DEF LinkInv
  <2>2. \A g \in Fibers :
          /\ call[g].op = "connect"
          /\ pc[g] = "check" \/ (pc[g] = "parked" /\ queued[g] > 0 /\ g \notin cancelled)
          => link'[call[g].fd] # "connecting" \/ g \in strayed
    <3>1. \A g \in Fibers : call[g].fd \in Fds
      BY <1>0 DEF TypeOK
    <3> QED BY <1>0, <1>5, <3>1 DEF LinkInv
  <2> QED BY <1>2, <2>1, <2>2 DEF LinkInv
<1> QED BY <1>6, <1>7, <1>8, <1>9, <1>10 DEF IInv

-----------------------------------------------------------------------------
(* The inductive invariant, and what follows from it.                      *)

\* The invariant holds at the start.
LEMMA InitInv == Init => IInv
<1> SUFFICES ASSUME Init PROVE IInv
  OBVIOUS
<1>1. /\ Listener \notin Conns /\ Listener \in Fds /\ Conns \subseteq Fds
      /\ None \notin Fibers /\ InitSize \in Nat /\ MaxBusy \in Nat
  BY HookAssumption DEF Fds
<1>2. FreshCtx \in CtxRecords /\ FreshCtx # None /\ NoCall \in CallRecords
  <2>1. FreshCtx \in CtxRecords
    BY DEF FreshCtx, CtxRecords
  <2>2. None \notin CtxRecords
    BY HookAssumption DEF CtxRecords
  <2>3. NoCall \in CallRecords
    BY <1>1 DEF NoCall, CallRecords
  <2> QED BY <2>1, <2>2, <2>3
<1>3. /\ ctx \in [Fds -> CtxRecords \cup {None}] /\ ctx[Listener] # None
      /\ \A d \in Conns : ctx[d] = None
  BY <1>1, <1>2 DEF Init
<1>4. call \in [Fibers -> CallRecords] /\ \A f \in Fibers : call[f].op = "none"
  BY <1>2 DEF Init, NoCall
<1>5. TypeOK
  <2>1. "app" \in Labels
    BY DEF Labels
  <2> QED BY <1>1, <1>3, <1>4, <2>1 DEF Init, TypeOK, CtxRecords, CallRecords
<1>6. CallsInv
  BY <1>4 DEF CallsInv, CallInv, Init
<1>7. WakeInv
  BY <1>1 DEF WakeInv, Init
<1>8. CtxInv
  BY <1>1, <1>3 DEF CtxInv, Init
<1>9. LinkInv
  BY <1>1, <1>4 DEF LinkInv, Init
<1> QED BY <1>5, <1>6, <1>7, <1>8, <1>9 DEF IInv

\* What a fiber does in a call.
LEMMA RunsStep ==
    ASSUME IInv, NEW f \in Fibers, Runs(f)
    PROVE  IInv'
<1>1. CASE GetLook(f) \/ LookUp(f) \/ Grow(f)
  BY <1>1, GetStep
<1>2. CASE Direct(f) \/ TryIo(f)
  <2>1. pc[f] \in {"direct", "try"}
    BY <1>2 DEF Direct, TryIo
  <2>2. CASE Succeeds(f)
    BY <2>1, <2>2, AcceptStep, IoReturns
  <2>3. CASE Fails(f)
    BY <2>1, <2>3, IoReturns
  <2>4. CASE Blocks(f)
    BY <2>1, <2>4, BlocksStep
  <2>5. CASE ~(Succeeds(f) \/ Fails(f) \/ Blocks(f))
    <3>1. CASE Direct(f)
      BY <2>1, <2>5, <3>1, IoReturns DEF Direct
    <3>2. CASE TryIo(f)
      <4>1. call[f].fd \notin asked \cap Conns
        BY <3>2, HookAssumption DEF TryIo, IInv, CallsInv, CallInv
      <4> QED BY <2>5, <3>2, <4>1, WaitBegins DEF TryIo
    <3> QED BY <1>2, <3>1, <3>2
  <2> QED BY <2>2, <2>3, <2>4, <2>5
<1>3. CASE GetCreate(f)
  BY <1>3, GetCreateStep
<1>4. CASE AddEvent(f)
  BY <1>4, AddEventStep
<1>5. CASE Resume(f)
  BY <1>5, ResumeStep
<1>6. CASE CheckConnect(f)
  BY <1>6, CheckStep
<1>7. CASE CloseSteps(f)
  BY <1>7, CloseStepsStep
<1>8. CASE Unblocks(f)
  BY <1>8, UnblocksStep
<1> QED BY <1>1, <1>2, <1>3, <1>4, <1>5, <1>6, <1>7, <1>8 DEF Runs

\* The calls a fiber makes.
LEMMA CallsStep ==
    ASSUME IInv, NEW f \in Fibers, Calls(f)
    PROVE  IInv'
<1>1. CASE Socket(f)
  BY <1>1, SocketStep
<1>2. CASE Sleep(f)
  BY <1>2, SleepStep
<1>3. CASE \E op \in IoOps, d \in Fds : EnterIo(f, op, d)
  BY <1>3, EnterIoStep
<1>4. ASSUME NEW d \in Conns, Close(f, d) PROVE IInv'
  BY <1>4, CloseStep
<1>5. ASSUME NEW d \in Conns, NEW t \in BOOLEAN,
             Connect(f, d, t) \/ SetFl(f, d, t) \/ Ioctl(f, d, t)
      PROVE  IInv'
  BY <1>5, ConnectStep, FlagsStep
<1>6. ASSUME NEW d \in Conns, NEW op \in IoOps, SetTimeout(f, d, EventOf(op)) PROVE IInv'
  <2>1. EventOf(op) \in Events /\ TRUE \in BOOLEAN
    BY DEF EventOf, Events
  <2> QED BY <1>6, <2>1, FlagsStep
<1> QED BY <1>1, <1>2, <1>3, <1>4, <1>5, <1>6 DEF Calls

\* Every step keeps the invariant.
LEMMA InvStep == IInv /\ [Next]_vars => IInv'
<1> SUFFICES ASSUME IInv, [Next]_vars PROVE IInv'
  OBVIOUS
<1>1. ASSUME NEW f \in Fibers, Runs(f) PROVE IInv'
  BY <1>1, RunsStep
<1>2. ASSUME NEW f \in Fibers, Calls(f) PROVE IInv'
  BY <1>2, CallsStep
<1>3. ASSUME NEW f \in Fibers, TimerFires(f) PROVE IInv'
  BY <1>3, TimerFiresStep
<1>4. ASSUME NEW f \in Fibers, RunCallback(f) PROVE IInv'
  BY <1>4, RunCallbackStep
<1>5. ASSUME NEW d \in Fds, NEW e \in Events, CancelEvent(d, e) PROVE IInv'
  BY <1>5, CancelEventStep
<1>6. ASSUME NEW d \in Fds, NEW e \in Events, EventFires(d, e) PROVE IInv'
  BY <1>6, EventFiresStep
<1>7. ASSUME NEW d \in Fds, NEW e \in Events, Arrive(d, e) PROVE IInv'
  BY <1>7, OutsideStep
<1>8. ASSUME NEW d \in Conns, NEW l \in {"up", "refused"}, ConnectEnds(d, l) PROVE IInv'
  <2>1. d \in Fds
    BY DEF Fds
  <2> QED BY <1>8, <2>1, OutsideStep
<1>9. CASE UNCHANGED vars
  <2>1. TypeOK'
    BY <1>9 DEF vars, IInv, TypeOK
  <2>2. CallsInv'
    BY <1>9 DEF vars, IInv, CallsInv, CallInv, Held, Waits
  <2>3. WakeInv' /\ CtxInv' /\ LinkInv'
    BY <1>9 DEF vars, IInv, WakeInv, CtxInv, LinkInv
  <2> QED BY <2>1, <2>2, <2>3 DEF IInv
<1> QED BY <1>1, <1>2, <1>3, <1>4, <1>5, <1>6, <1>7, <1>8, <1>9 DEF Next

\* Every reachable state has the right types; a fiber in a call is the owner of its
\* descriptor, a registered one waits for exactly that event, an FdCtx is there while
\* its descriptor is open and known, and a connection that does not stand has nothing
\* ready (hook.cpp:89 to 165, 312 to 358, fd_manager.cpp:99 to 145).
THEOREM Invariance == Spec => []IInv
<1>1. Init => IInv
  BY InitInv
<1>2. IInv /\ [Next]_vars => IInv'
  BY InvStep
<1> QED BY <1>1, <1>2, PTL DEF Spec

\* A descriptor in use has an FdCtx that was made for it, never one of an earlier use
\* of the number: close() forgets it before the number is free (hook.cpp:443 to 446,
\* fd_manager.cpp:116).
THEOREM OwnContext == Spec => []ContextIsOwn
<1>1. IInv => ContextIsOwn
  <2> SUFFICES ASSUME IInv, NEW d \in Conns, owner[d] # None,
                      call[owner[d]].fd # d \/ pc[owner[d]] \notin {"get", "create", "del", "close"}
               PROVE  ctx[d] # None /\ ctx[d].fresh
    BY DEF ContextIsOwn
  <2>1. owner[d] \in Fibers
    BY DEF IInv, TypeOK, Fds
  <2> QED BY <2>1 DEF IInv, CtxInv
<1> QED BY <1>1, Invariance, PTL

\* A fiber is registered for one event of one descriptor at most.
LEMMA Slots ==
    ASSUME TypeOK, WakeInv, NEW f \in Fibers
    PROVE  LET slots == {s \in Fds \X Events : waiting[s[1]][s[2]] = f} IN
           \/ Cardinality(slots) = 0
           \/ Cardinality(slots) = 1 /\ queued[f] = 0 /\ pc[f] = "parked"
<1> DEFINE slots == {s \in Fds \X Events : waiting[s[1]][s[2]] = f}
<1>1. CASE slots = {}
  BY <1>1, FS_EmptySet
<1>2. CASE slots # {}
  <2>1. PICK s \in slots : TRUE
    BY <1>2
  <2>2. \A t \in slots : t = <<call[f].fd, EventOf(call[f].op)>>
    BY DEF WakeInv
  <2>3. slots = {<<call[f].fd, EventOf(call[f].op)>>}
    BY <2>1, <2>2
  <2>4. Cardinality(slots) = 1
    BY <2>3, FS_Singleton
  <2>5. queued[f] = 0 /\ pc[f] = "parked"
    BY <2>1 DEF WakeInv
  <2> QED BY <2>4, <2>5
<1> QED BY <1>1, <1>2

\* Event, timer, cancelAll and the timer of sleep wake a fiber once per wait
\* altogether, only while it waits, and no timer outlives its call (hook.cpp:108 to
\* 165).
THEOREM WokenOnce == Spec => []OneWakeUp
<1>1. IInv => OneWakeUp
  <2> SUFFICES ASSUME IInv, NEW f \in Fibers
               PROVE  LET slots == {s \in Fds \X Events : waiting[s[1]][s[2]] = f} IN
                      /\ queued[f] + Cardinality(slots) <= 1
                      /\ queued[f] + Cardinality(slots) > 0 => pc[f] = "parked"
                      /\ f \in armed => pc[f] \in {"add", "grow", "register", "parked"}
    BY DEF OneWakeUp
  <2> DEFINE slots == {s \in Fds \X Events : waiting[s[1]][s[2]] = f}
  <2>1. \/ Cardinality(slots) = 0
        \/ Cardinality(slots) = 1 /\ queued[f] = 0 /\ pc[f] = "parked"
    BY Slots DEF IInv
  <2>2. queued[f] = 0 \/ (queued[f] = 1 /\ pc[f] = "parked")
    BY DEF IInv, WakeInv
  <2>3. f \in armed => pc[f] \in {"add", "grow", "register", "parked"}
    BY DEF IInv, WakeInv
  <2> HIDE DEF slots
  <2>4. /\ queued[f] + Cardinality(slots) <= 1
        /\ queued[f] + Cardinality(slots) > 0 => pc[f] = "parked"
    BY <2>1, <2>2
  <2> QED BY <2>3, <2>4 DEF slots
<1> QED BY <1>1, Invariance, PTL

\* connect() returns 0 for a connection that is still being made only after it was
\* woken by a callback meant for an earlier call on the same number (hook.cpp:312 to
\* 358).
THEOREM Truthful == Spec => ConnectTruthful
<1>1. IInv /\ [Next]_vars =>
        [\A f \in Fibers : call[f].op = "connect" /\ pc[f] = "check" /\ pc'[f] = "app"
                           => link[call[f].fd] # "connecting" \/ f \in strayed]_vars
  BY DEF IInv, LinkInv
<1> QED BY <1>1, Invariance, PTL DEF Spec, ConnectTruthful

-----------------------------------------------------------------------------
(* O_NONBLOCK.                                                             *)

\* In a hooked call the hook knows the descriptor.
LEMMA CallKnown ==
    ASSUME IInv, NEW f \in Fibers, pc[f] \in {"direct", "try", "blocked"}
    PROVE  call[f].fd \in Fds /\ ctx[call[f].fd] # None
<1>1. Held(f) /\ call[f].fd \in Fds
  BY DEF IInv, TypeOK, CallsInv, CallInv
<1>2. CASE call[f].fd = Listener
  BY <1>1, <1>2 DEF IInv, CtxInv
<1>3. CASE call[f].fd \in Conns /\ owner[call[f].fd] = f
  BY <1>1, <1>3 DEF IInv, CtxInv
<1> QED BY <1>1, <1>2, <1>3 DEF Held

\* A number that is given out had no FdCtx.
LEMMA FlaggedOpens ==
    ASSUME IInv, Flagged, NEW f \in Fibers, NEW op, NEW l, Conns \ open # {}, Opened(f, op, l)
    PROVE  Flagged'
<1>1. PICK d : d = Lowest(Conns \ open)
  OBVIOUS
<1>2. d \in Conns /\ d \notin open
  BY <1>1, LowestFree
<1>3. ctx[d] = None
  BY <1>2 DEF IInv, CtxInv
<1>4. ctx' = ctx /\ nonblock' = nonblock \ {d} /\ cleared' = cleared \ {d}
  BY <1>1, <1>3 DEF Opened
<1> QED BY <1>3, <1>4 DEF Flagged

\* The flag goes on with the FdCtx, and the FdCtx goes with the number.
LEMMA FlaggedRuns ==
    ASSUME IInv, Flagged, NEW f \in Fibers, Runs(f)
    PROVE  Flagged'
<1>0. TypeOK
  BY DEF IInv
<1>1. CASE UNCHANGED <<ctx, nonblock, cleared>>
  BY <1>1 DEF Flagged
<1>2. CASE GetCreate(f)
  <2>1. PICK d : d = call[f].fd
    OBVIOUS
  <2>2. /\ ctx' = [ctx EXCEPT ![d] = FreshCtx] /\ nonblock' = nonblock \cup {d}
        /\ cleared' = cleared
    BY <1>2, <2>1 DEF GetCreate, InitCtx
  <2> QED BY <1>0, <2>2 DEF TypeOK, Flagged
<1>3. CASE CloseSteps(f)
  <2>1. PICK d : d = call[f].fd
    OBVIOUS
  <2>2. /\ ctx' = ctx \/ ctx' = [ctx EXCEPT ![d] = None]
        /\ nonblock' = nonblock /\ cleared' = cleared
    BY <1>3, <2>1 DEF CloseSteps, Del
  <2> QED BY <1>0, <2>2 DEF TypeOK, Flagged
<1>4. CASE Succeeds(f) /\ call[f].op = "accept"
  BY <1>4, FlaggedOpens DEF Succeeds
<1>5. CASE Direct(f) \/ TryIo(f) \/ Unblocks(f)
  BY <1>1, <1>4, <1>5 DEF Direct, TryIo, Unblocks, BeginWait, Succeeds, Fails, Blocks
<1>6. CASE GetLook(f) \/ LookUp(f) \/ Grow(f) \/ AddEvent(f) \/ Resume(f) \/ CheckConnect(f)
  BY <1>1, <1>6 DEF GetLook, LookUp, Grow, AddEvent, Resume, CheckConnect
<1> QED BY <1>2, <1>3, <1>5, <1>6 DEF Runs

\* F_SETFL sets the flag, ioctl sets it or takes it away.
LEMMA FlaggedCalls ==
    ASSUME IInv, Flagged, NEW f \in Fibers, Calls(f)
    PROVE  Flagged'
<1>0. TypeOK
  BY DEF IInv
<1>1. CASE UNCHANGED <<ctx, nonblock, cleared>>
  BY <1>1 DEF Flagged
<1>2. CASE Socket(f)
  BY <1>2, FlaggedOpens DEF Socket
<1>3. CASE Sleep(f) \/ \E op \in IoOps, d \in Fds : EnterIo(f, op, d)
  BY <1>1, <1>3 DEF Sleep, EnterIo
<1>4. ASSUME NEW d \in Conns, Close(f, d) \/ \E t \in BOOLEAN : Connect(f, d, t)
      PROVE  Flagged'
  BY <1>1, <1>4 DEF Close, Connect
<1>5. ASSUME NEW d \in Conns, NEW b \in BOOLEAN, SetFl(f, d, b) \/ Ioctl(f, d, b)
      PROVE  Flagged'
  <2>1. ctx' = Noted(d, b)
    BY <1>5 DEF SetFl, Ioctl
  <2>2. \A c \in Fds \ {d} : ctx'[c] = ctx[c]
    BY <1>0, <2>1 DEF TypeOK, Noted
  <2>3. ctx[d] = None => ctx'[d] = None
    BY <2>1 DEF Noted
  <2>4. /\ ctx[d] # None /\ d \notin cleared' => d \in nonblock'
        /\ \A c \in Fds \ {d} : /\ c \in nonblock => c \in nonblock'
                                /\ c \in cleared => c \in cleared'
    BY <1>5 DEF SetFl, Ioctl, SysFlag
  <2> QED BY <2>2, <2>3, <2>4 DEF Flagged
<1>6. ASSUME NEW d \in Conns, NEW e, SetTimeout(f, d, e) PROVE Flagged'
  <2>1. PICK r : ctx' = [ctx EXCEPT ![d] = r]
    BY <1>6 DEF SetTimeout
  <2> QED BY <1>0, <1>6, <2>1 DEF TypeOK, SetTimeout, Flagged
<1> QED BY <1>2, <1>3, <1>4, <1>5, <1>6 DEF Calls

\* Every step keeps the flag.
LEMMA FlagsKept ==
    ASSUME IInv, Flagged, [Next]_vars
    PROVE  Flagged'
<1>1. CASE UNCHANGED <<ctx, nonblock, cleared>>
  BY <1>1 DEF Flagged
<1>2. ASSUME NEW f \in Fibers, TimerFires(f) \/ RunCallback(f) PROVE Flagged'
  BY <1>1, <1>2 DEF TimerFires, RunCallback
<1>3. ASSUME NEW d \in Fds, NEW e \in Events,
             CancelEvent(d, e) \/ EventFires(d, e) \/ Arrive(d, e)
      PROVE  Flagged'
  BY <1>1, <1>3 DEF CancelEvent, EventFires, Arrive
<1>4. ASSUME NEW d \in Conns, NEW l \in {"up", "refused"}, ConnectEnds(d, l) PROVE Flagged'
  BY <1>1, <1>4 DEF ConnectEnds
<1>5. UNCHANGED vars => UNCHANGED <<ctx, nonblock, cleared>>
  BY DEF vars
<1> QED BY <1>1, <1>2, <1>3, <1>4, <1>5, FlaggedRuns, FlaggedCalls DEF Next

\* A fiber that keeps its thread owns the connection, so nobody else gives the flag back.
LEMMA BlockedOwns ==
    ASSUME IInv, NeverBlocksThread, NEW f \in Fibers, pc[f] = "blocked"
    PROVE  /\ call[f].fd \in cleared \cap Conns /\ owner[call[f].fd] = f
           /\ call[f].fd \in open
<1>1. call[f].fd \in cleared /\ cleared \subseteq Conns /\ Listener \notin Conns
  BY HookAssumption DEF NeverBlocksThread, IInv, TypeOK
<1>2. Held(f)
  BY DEF IInv, CallsInv, CallInv
<1> QED BY <1>1, <1>2 DEF Held, IInv, CtxInv

\* Only a call that is not ready, on a descriptor without the flag, keeps its thread.
LEMMA BlockedRuns ==
    ASSUME IInv, FlagInv, NEW f \in Fibers, Runs(f)
    PROVE  NeverBlocksThread'
<1>0. TypeOK /\ CtxInv
  BY DEF IInv
<1>1. \A g \in Fibers \ {f} : pc'[g] = pc[g] /\ call'[g] = call[g]
  BY <1>0 DEF Runs, GetLook, GetCreate, Direct, TryIo, Unblocks, LookUp, Grow, AddEvent, Resume,
     CheckConnect, CloseSteps, BeginWait, Succeeds, Fails, Blocks, Opened, Return, Goto, TypeOK
<1>2. cleared' = cleared \/ \E d \in Conns \ open : cleared' = cleared \ {d}
  <2>1. Conns \ open # {} => Lowest(Conns \ open) \in Conns \ open
    BY LowestFree
  <2> QED BY <2>1 DEF Runs, GetLook, GetCreate, Direct, TryIo, Unblocks, LookUp, Grow, AddEvent,
        Resume, CheckConnect, CloseSteps, BeginWait, Succeeds, Fails, Blocks, Opened
<1>3. \A g \in Fibers \ {f} : pc[g] = "blocked" => call[g].fd \in cleared'
  BY <1>2, BlockedOwns DEF FlagInv
<1>4. ASSUME pc'[f] = "blocked" PROVE call'[f].fd \in cleared'
  <2>1. Direct(f) \/ TryIo(f) \/ Unblocks(f) => pc[f] \in {"direct", "try", "blocked"}
    BY DEF Direct, TryIo, Unblocks
  <2>2. CASE (Direct(f) \/ TryIo(f)) /\ Blocks(f)
    <3>1. call[f].fd \in Fds /\ ctx[call[f].fd] # None /\ call[f].fd \notin nonblock
      BY <2>1, <2>2, CallKnown DEF Blocks
    <3> QED BY <2>2, <3>1 DEF Blocks, FlagInv, Flagged
  <2>3. ASSUME NEW l, Goto(f, l), l # "blocked" PROVE FALSE
    BY <1>0, <1>4, <2>3 DEF Goto, TypeOK
  <2>4. Return(f) => Goto(f, "app")
    BY DEF Return
  <2>5. Succeeds(f) \/ Fails(f) => Goto(f, "app") \/ Goto(f, "get")
    BY DEF Succeeds, Fails, Opened, Return
  <2>6. CASE (Direct(f) \/ TryIo(f) \/ Unblocks(f)) /\ ~Blocks(f)
    BY <2>3, <2>4, <2>5, <2>6 DEF Direct, TryIo, Unblocks, BeginWait
  <2>7. CASE Unblocks(f)
    BY <2>3, <2>4, <2>5, <2>7 DEF Unblocks, BeginWait
  <2>8. CASE GetLook(f) \/ GetCreate(f) \/ LookUp(f) \/ Grow(f) \/ AddEvent(f)
    BY <2>3, <2>4, <2>8 DEF GetLook, GetCreate, LookUp, Grow, AddEvent
  <2>9. CASE Resume(f) \/ CheckConnect(f) \/ CloseSteps(f)
    BY <2>3, <2>4, <2>9 DEF Resume, CheckConnect, CloseSteps
  <2> QED BY <2>2, <2>6, <2>7, <2>8, <2>9 DEF Runs
<1> QED BY <1>1, <1>3, <1>4 DEF NeverBlocksThread

\* connect keeps its thread only on a descriptor without the flag, and who gives the flag
\* back is not in another call.
LEMMA BlockedCalls ==
    ASSUME IInv, FlagInv, NEW f \in Fibers, Calls(f)
    PROVE  NeverBlocksThread'
<1>0. TypeOK /\ CtxInv
  BY DEF IInv
<1>1. \A g \in Fibers \ {f} : pc'[g] = pc[g] /\ call'[g] = call[g]
  BY <1>0 DEF Calls, Socket, Opened, Sleep, EnterIo, Close, Connect, SetFl, Ioctl, SetTimeout,
     Goto, TypeOK
<1>2. \A d \in cleared \cap Conns : d \in open /\ owner[d] # f => d \in cleared'
  <2>1. Conns \ open # {} => Lowest(Conns \ open) \in Conns \ open
    BY LowestFree
  <2> QED BY <2>1 DEF Calls, Socket, Opened, Sleep, EnterIo, Close, Connect, SetFl, Ioctl,
        SetTimeout
<1>3. \A g \in Fibers \ {f} : pc[g] = "blocked" => call[g].fd \in cleared'
  BY <1>2, BlockedOwns DEF FlagInv
<1>4. ASSUME pc'[f] = "blocked" PROVE call'[f].fd \in cleared'
  <2>1. pc[f] = "app"
    BY DEF Calls, Socket, Sleep, EnterIo, Close, Connect, SetFl, Ioctl, SetTimeout
  <2>2. ASSUME NEW l, Goto(f, l), l # "blocked" PROVE FALSE
    BY <1>0, <1>4, <2>2 DEF Goto, TypeOK
  <2>3. ~(Socket(f) \/ Sleep(f) \/ \E op \in IoOps, d \in Fds : EnterIo(f, op, d))
    BY <2>2 DEF Socket, Opened, Sleep, EnterIo
  <2>4. ASSUME NEW d \in Conns, NEW t, Close(f, d) \/ SetFl(f, d, t) \/ Ioctl(f, d, t)
                                       \/ SetTimeout(f, d, t)
        PROVE  FALSE
    BY <1>4, <2>1, <2>2, <2>4 DEF Close, SetFl, Ioctl, SetTimeout
  <2>5. ASSUME NEW d \in Conns, NEW t \in BOOLEAN, Connect(f, d, t)
        PROVE  call'[f].fd \in cleared'
    <3>1. ctx[d] # None /\ d \notin nonblock
      BY <2>2, <2>5 DEF Connect
    <3>2. PICK r : r.fd = d /\ call' = [call EXCEPT ![f] = r]
      <4>1. PICK r : r = [op |-> "connect", fd |-> d, timed |-> t]
        OBVIOUS
      <4> QED BY <2>5, <4>1 DEF Connect
    <3>3. d \in cleared /\ cleared' = cleared
      BY <2>5, <3>1 DEF FlagInv, Flagged, Fds, Connect
    <3>4. call'[f] = r
      BY <1>0, <3>2 DEF TypeOK
    <3> QED BY <3>2, <3>3, <3>4
  <2> QED BY <2>3, <2>4, <2>5 DEF Calls
<1> QED BY <1>1, <1>3, <1>4 DEF NeverBlocksThread

\* Every step keeps that.
LEMMA BlockedKept ==
    ASSUME IInv, FlagInv, [Next]_vars
    PROVE  NeverBlocksThread'
<1>1. CASE UNCHANGED <<pc, call, cleared>>
  BY <1>1 DEF FlagInv, NeverBlocksThread
<1>2. ASSUME NEW f \in Fibers, TimerFires(f) \/ RunCallback(f) PROVE NeverBlocksThread'
  BY <1>1, <1>2 DEF TimerFires, RunCallback
<1>3. ASSUME NEW d \in Fds, NEW e \in Events,
             CancelEvent(d, e) \/ EventFires(d, e) \/ Arrive(d, e)
      PROVE  NeverBlocksThread'
  BY <1>1, <1>3 DEF CancelEvent, EventFires, Arrive
<1>4. ASSUME NEW d \in Conns, NEW l \in {"up", "refused"}, ConnectEnds(d, l)
      PROVE  NeverBlocksThread'
  BY <1>1, <1>4 DEF ConnectEnds
<1>5. UNCHANGED vars => UNCHANGED <<pc, call, cleared>>
  BY DEF vars
<1> QED BY <1>1, <1>2, <1>3, <1>4, <1>5, BlockedRuns, BlockedCalls DEF Next

\* No hooked call keeps its thread in the kernel, unless the user's ioctl(FIONBIO) has
\* taken the flag away from its descriptor; no fiber waits on a descriptor the user set
\* to non-blocking, and F_GETFL shows what the user set (hook.cpp:108 to 180, the
\* F_SETFL, F_GETFL and FIONBIO branches of fcntl and ioctl).
THEOREM HonouredFlags == Spec => []FlagsHonoured
<1>1. Init => FlagInv
  BY HookAssumption DEF Init, FlagInv, Flagged, NeverBlocksThread, Fds
<1>2. IInv /\ FlagInv /\ [Next]_vars => FlagInv'
  BY FlagsKept, BlockedKept DEF FlagInv
<1>3. IInv /\ FlagInv => FlagsHonoured
  <2> SUFFICES ASSUME IInv, FlagInv PROVE FlagsHonoured
    OBVIOUS
  <2>1. \A d \in Conns : owner[d] # None /\ ctx[d] # None /\ ctx[d].fresh
                         => (GetFl(d) <=> d \in asked)
    BY DEF IInv, CtxInv, GetFl
  <2>2. \A d \in Conns : d \in asked => \A e \in Events : waiting[d][e] = None
    <3>1. \A d \in Conns, e \in Events : waiting[d][e] \in Fibers \cup {None}
      BY DEF IInv, TypeOK, Fds
    <3> QED BY <3>1, WaiterOwns
  <2> QED BY <2>1, <2>2 DEF FlagInv, FlagsHonoured, HonoursUser
<1> QED BY <1>1, <1>2, <1>3, Invariance, PTL DEF Spec

-----------------------------------------------------------------------------
(* The size of m_fdContexts.                                               *)

\* Nobody new waits, and nothing is resized.
LEMMA VecKept ==
    ASSUME VecInv, UNCHANGED vectorVars,
           \A d \in Fds, e \in Events : waiting'[d][e] \in {waiting[d][e], None},
           \A f \in Fibers : pc'[f] = "register" => pc[f] = "register" /\ call'[f] = call[f]
    PROVE  VecInv'
<1>1. \A d \in Fds : Waiter(d, Events)' # {} => Waiter(d, Events) # {}
  BY DEF Waiter
<1>2. \A d : Cut(d)' <=> Cut(d)
  BY DEF Cut
<1> QED BY <1>1, <1>2 DEF VecInv

\* One fiber goes on to a place outside of addEvent, or stays where it is.
LEMMA VecLocal ==
    ASSUME TypeOK, VecInv, NEW f \in Fibers, NEW l, Goto(f, l), l # "register",
           call' = call \/ \E r : call' = [call EXCEPT ![f] = r],
           UNCHANGED vectorVars,
           \A d \in Fds, e \in Events : waiting'[d][e] \in {waiting[d][e], None}
    PROVE  VecInv'
<1>1. \A g \in Fibers : pc'[g] = IF g = f THEN l ELSE pc[g]
  BY DEF Goto, TypeOK
<1>2. \A g \in Fibers \ {f} : call'[g] = call[g]
  <2>1. call \in [Fibers -> CallRecords]
    BY DEF TypeOK, CallRecords
  <2>2. call' = call \/ \E r : call' = [call EXCEPT ![f] = r]
    OBVIOUS
  <2> QED BY ONLY <2>1, <2>2
<1> QED BY <1>1, <1>2, VecKept

\* addEvent finds the FdContext.
LEMMA VecLookUp ==
    ASSUME TypeOK, VecInv, NEW f \in Fibers, LookUp(f)
    PROVE  VecInv'
<1>1. PICK d : d = call[f].fd
  OBVIOUS
<1>2. UNCHANGED <<waiting, size, slot, home, shrunk, call>> /\ d \in Fds
  BY <1>1 DEF LookUp, TypeOK
<1>3. CASE d >= size /\ Goto(f, "grow") /\ UNCHANGED held
  BY <1>2, <1>3, VecLocal
<1>4. CASE d < size /\ Goto(f, "register") /\ held' = [held EXCEPT ![f] = slot[d]]
  <2>1. \A g \in Fibers : /\ pc'[g] = IF g = f THEN "register" ELSE pc[g]
                          /\ held'[g] = IF g = f THEN slot[d] ELSE held[g]
    BY <1>4 DEF Goto, TypeOK
  <2>2. \A c : Cut(c)' <=> Cut(c)
    BY <1>2 DEF Cut
  <2>3. \A c \in Fds : Waiter(c, Events)' = Waiter(c, Events)
    BY <1>2 DEF Waiter
  <2> QED BY <1>1, <1>2, <1>4, <2>1, <2>2, <2>3 DEF VecInv
<1> QED BY <1>1, <1>3, <1>4 DEF LookUp

\* A resize makes room, or cuts the vector off.
LEMMA VecGrow ==
    ASSUME TypeOK, VecInv, NEW f \in Fibers, Grow(f)
    PROVE  VecInv'
<1>1. PICK d : d = call[f].fd
  OBVIOUS
<1>2. /\ d \in Fds /\ Fds \subseteq Nat /\ size \in Nat /\ size' \in Nat /\ d < size'
  BY <1>1, Grows, HookAssumption DEF TypeOK
<1>3. /\ UNCHANGED <<waiting, home, call>> /\ shrunk' = shrunk \cup {s \in {size'} : s < size}
      /\ slot' = [c \in Fds |-> IF c >= size' /\ c < size THEN slot[c] + 1 ELSE slot[c]]
  BY DEF Grow
<1>4. \A g \in Fibers : /\ pc'[g] = IF g = f THEN "register" ELSE pc[g]
                        /\ held'[g] = IF g = f THEN slot[d] ELSE held[g]
  BY <1>1 DEF Grow, Goto, TypeOK
<1>5. \A c \in Fds : ~Cut(c)' => ~Cut(c) /\ (size' >= size \/ c < size')
  BY <1>2, <1>3 DEF Cut
<1>6. \A c \in Fds : ~Cut(c)' => slot'[c] = slot[c]
  BY <1>2, <1>3, <1>5
<1>7. \A c \in Fds : ~Cut(c)' /\ c < size => c < size'
  BY <1>2, <1>5
<1>8. \A c \in Fds : Waiter(c, Events)' = Waiter(c, Events)
  BY <1>3 DEF Waiter
<1>9. \A g \in Fibers : call[g].fd \in Fds
  BY DEF TypeOK
<1>10. \A c \in Fds : ~Cut(c)' => /\ slot'[c] = 0 /\ home'[c] = 0
                                  /\ Waiter(c, Events)' # {} => c < size'
  BY <1>3, <1>5, <1>6, <1>7, <1>8 DEF VecInv
<1>11. ASSUME NEW g \in Fibers, NEW c \in Fds, call[g].fd = c, pc'[g] = "register", ~Cut(c)'
       PROVE  held'[g] = 0 /\ c < size'
  <2>1. ~Cut(c)
    BY <1>5, <1>11
  <2>2. CASE g = f
    BY <1>1, <1>2, <1>4, <1>11, <2>1, <2>2 DEF VecInv
  <2>3. CASE g # f
    <3>1. held[g] = 0 /\ c < size
      BY <1>4, <1>11, <2>1, <2>3 DEF VecInv
    <3> QED BY <1>4, <1>7, <1>11, <2>3, <3>1
  <2> QED BY <2>2, <2>3
<1> QED BY <1>3, <1>9, <1>10, <1>11 DEF VecInv

\* The event is registered in the FdContext that was found, or refused.
LEMMA VecAdd ==
    ASSUME TypeOK, VecInv, NEW f \in Fibers, AddEvent(f)
    PROVE  VecInv'
<1>1. PICK d : d = call[f].fd
  OBVIOUS
<1>2. UNCHANGED <<size, slot, shrunk>> /\ d \in Fds /\ pc[f] = "register"
  BY <1>1 DEF AddEvent, TypeOK
<1>3. \A g \in Fibers \ {f} : pc'[g] = pc[g] /\ call'[g] = call[g] /\ held'[g] = held[g]
  BY DEF AddEvent, Return, Goto, TypeOK
<1>4. pc'[f] # "register"
  BY DEF AddEvent, Return, Goto, TypeOK
<1>5. /\ home' = home \/ home' = [home EXCEPT ![d] = held[f]]
      /\ waiting' = waiting \/ \E e : waiting' = [waiting EXCEPT ![d][e] = f]
  BY <1>1 DEF AddEvent
<1>6. \A c \in Fds \ {d} : Waiter(c, Events)' = Waiter(c, Events) /\ home'[c] = home[c]
  BY <1>5 DEF Waiter, TypeOK
<1>7. \A c : Cut(c)' <=> Cut(c)
  BY <1>2 DEF Cut
<1>8. ~Cut(d) => held[f] = 0 /\ d < size
  BY <1>1, <1>2 DEF VecInv
<1>9. home'[d] = home[d] \/ home'[d] = held[f]
  BY <1>2, <1>5 DEF TypeOK
<1>10. \A c \in Fds : ~Cut(c) => /\ slot[c] = 0 /\ home'[c] = 0
                                 /\ Waiter(c, Events)' # {} => c < size
  BY <1>6, <1>8, <1>9 DEF VecInv
<1>11. \A g \in Fibers : pc'[g] = "register" /\ ~Cut(call'[g].fd)
                         => held'[g] = 0 /\ call'[g].fd < size
  BY <1>3, <1>4 DEF VecInv
<1> QED BY <1>2, <1>7, <1>10, <1>11 DEF VecInv

\* What else a fiber does in a call.
LEMMA VecRuns ==
    ASSUME TypeOK, VecInv, NEW f \in Fibers, Runs(f)
    PROVE  VecInv'
<1>1. CASE LookUp(f) \/ Grow(f) \/ AddEvent(f)
  BY <1>1, VecLookUp, VecGrow, VecAdd
<1>2. CASE Direct(f) \/ TryIo(f) \/ Unblocks(f)
  <2>1. UNCHANGED waitVars
    BY <1>2 DEF Direct, TryIo, Unblocks, BeginWait, Succeeds, Fails, Blocks
  <2>2. PICK l \in {"get", "app", "blocked", "add"} :
          Goto(f, l) /\ (call' = call \/ \E r : call' = [call EXCEPT ![f] = r])
    <3>1. Succeeds(f) => (Goto(f, "get") \/ Goto(f, "app")) /\ \E r : call' = [call EXCEPT ![f] = r]
      BY DEF Succeeds, Opened, Return
    <3>2. Fails(f) => Goto(f, "app") /\ \E r : call' = [call EXCEPT ![f] = r]
      BY DEF Fails, Return
    <3>3. Blocks(f) => Goto(f, "blocked") /\ call' = call
      BY DEF Blocks
    <3>4. BeginWait(f) => Goto(f, "add") /\ call' = call
      BY DEF BeginWait
    <3>5. CASE Succeeds(f) \/ Fails(f) \/ Blocks(f) \/ BeginWait(f)
      BY <3>1, <3>2, <3>3, <3>4, <3>5
    <3>6. CASE ~(Succeeds(f) \/ Fails(f) \/ Blocks(f) \/ BeginWait(f))
      BY <1>2, <3>6 DEF Direct, TryIo, Unblocks, Return
    <3> QED BY <3>5, <3>6
  <2> QED BY <2>1, <2>2, VecLocal
<1>3. CASE GetLook(f) \/ GetCreate(f) \/ Resume(f) \/ CheckConnect(f) \/ CloseSteps(f)
  <2>1. UNCHANGED <<waiting, vectorVars>>
    BY <1>3 DEF GetLook, GetCreate, Resume, CheckConnect, CloseSteps
  <2>2. PICK l \in {"create", "app", "try", "check", "close"} :
          Goto(f, l) /\ (call' = call \/ \E r : call' = [call EXCEPT ![f] = r])
    BY <1>3 DEF GetLook, GetCreate, Resume, CheckConnect, CloseSteps, Return
  <2> QED BY <2>1, <2>2, VecLocal
<1> QED BY <1>1, <1>2, <1>3 DEF Runs

\* Who was registered for an event is registered, or nobody is.
LEMMA TriggerClears ==
    ASSUME TypeOK, NEW d \in Fds, NEW es, Trigger(d, es)
    PROVE  \A c \in Fds, e \in Events : waiting'[c][e] \in {waiting[c][e], None}
<1>1. PICK w : /\ waiting' = [waiting EXCEPT ![d] = w]
               /\ w = [e \in Events |-> IF e \in es THEN None ELSE waiting[d][e]]
  BY DEF Trigger
<1> QED BY <1>1 DEF TypeOK

\* The calls a fiber makes.
LEMMA VecCalls ==
    ASSUME TypeOK, VecInv, NEW f \in Fibers, Calls(f)
    PROVE  VecInv'
<1>1. CASE Socket(f) \/ Sleep(f)
  <2>1. UNCHANGED waitVars
    BY <1>1 DEF Socket, Sleep
  <2>2. PICK l \in {"get", "parked"} : Goto(f, l) /\ \E r : call' = [call EXCEPT ![f] = r]
    BY <1>1 DEF Socket, Sleep, Opened
  <2> QED BY <2>1, <2>2, VecLocal
<1>2. ASSUME NEW op \in IoOps, NEW d \in Fds, EnterIo(f, op, d) PROVE VecInv'
  <2>1. UNCHANGED waitVars
    BY <1>2 DEF EnterIo
  <2>2. PICK l \in {"direct", "try"} : Goto(f, l) /\ \E r : call' = [call EXCEPT ![f] = r]
    BY <1>2 DEF EnterIo
  <2> QED BY <2>1, <2>2, VecLocal
<1>3. ASSUME NEW d \in Conns, Close(f, d) PROVE VecInv'
  <2>1. UNCHANGED vectorVars /\ (waiting' = waiting \/ \E es : Trigger(d, es))
    BY <1>3 DEF Close
  <2>2. \A c \in Fds, e \in Events : waiting'[c][e] \in {waiting[c][e], None}
    BY <2>1, TriggerClears DEF Fds
  <2>3. PICK l \in {"close", "del"} : Goto(f, l) /\ \E r : call' = [call EXCEPT ![f] = r]
    BY <1>3 DEF Close
  <2> QED BY <2>1, <2>2, <2>3, VecLocal
<1>4. ASSUME NEW d \in Conns, NEW t \in BOOLEAN, Connect(f, d, t) PROVE VecInv'
  <2>1. UNCHANGED waitVars
    BY <1>4 DEF Connect
  <2>2. PICK l \in {"app", "add", "blocked"} :
          Goto(f, l) /\ \E r : call' = [call EXCEPT ![f] = r]
    BY <1>4 DEF Connect
  <2> QED BY <2>1, <2>2, VecLocal
<1>5. ASSUME NEW d, NEW t, SetFl(f, d, t) \/ Ioctl(f, d, t) \/ SetTimeout(f, d, t)
      PROVE  VecInv'
  BY <1>5, VecKept DEF SetFl, Ioctl, SetTimeout
<1> QED BY <1>1, <1>2, <1>3, <1>4, <1>5 DEF Calls

\* Every step keeps whoever waits where cancelEvent looks, or cuts the vector off.
LEMMA VecStep ==
    ASSUME IInv, VecInv, [Next]_vars
    PROVE  VecInv'
<1>0. TypeOK
  BY DEF IInv
<1>1. CASE UNCHANGED <<vectorVars, waiting, pc, call>>
  BY <1>1, VecKept
<1>2. ASSUME NEW f \in Fibers, TimerFires(f) \/ RunCallback(f) PROVE VecInv'
  BY <1>1, <1>2 DEF TimerFires, RunCallback
<1>3. ASSUME NEW d \in Fds, NEW e \in Events, CancelEvent(d, e) \/ EventFires(d, e)
      PROVE  VecInv'
  <2>1. UNCHANGED <<vectorVars, pc, call>> /\ \E es : Trigger(d, es)
    BY <1>3 DEF CancelEvent, EventFires
  <2>2. \A c \in Fds, i \in Events : waiting'[c][i] \in {waiting[c][i], None}
    BY <1>0, <2>1, TriggerClears
  <2> QED BY <2>1, <2>2, VecKept
<1>4. ASSUME NEW d \in Fds, NEW e \in Events, Arrive(d, e) PROVE VecInv'
  BY <1>1, <1>4 DEF Arrive
<1>5. ASSUME NEW d \in Conns, NEW l \in {"up", "refused"}, ConnectEnds(d, l) PROVE VecInv'
  BY <1>1, <1>5 DEF ConnectEnds
<1>6. UNCHANGED vars => UNCHANGED <<vectorVars, waiting, pc, call>>
  BY DEF vars
<1> QED BY <1>0, <1>1, <1>2, <1>3, <1>4, <1>5, <1>6, VecRuns, VecCalls DEF Next

\* Whoever waits is woken once, and can be found by cancelEvent and cancelAll (hook.cpp:147,
\* 443) in the FdContext that m_fdContexts has for the descriptor, unless a second
\* resize has cut the vector off below it (contextResize(fd * 1.5) in addEvent).
THEOREM WakeUps == Spec => []HookInv
<1>1. Init => VecInv
  BY DEF Init, VecInv, Waiter
<1>2. IInv /\ VecInv /\ [Next]_vars => VecInv'
  BY VecStep
<1>3. IInv /\ VecInv => TypeOK /\ WaitersReachable
  BY DEF IInv, VecInv, WaitersReachable, Reaches
<1> QED BY <1>1, <1>2, <1>3, Invariance, WokenOnce, PTL DEF Spec, HookInv
=============================================================================
