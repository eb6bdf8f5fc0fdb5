----------------------------- MODULE TimerProofs -----------------------------
(***************************************************************************)
(* Theorems about Timer, for any number of timers, users and workers.      *)
(*                                                                         *)
(* IInv says which timers exist (m_ms is never 0 in one that does) and     *)
(* keeps two groups apart: a cancelled timer has no callback, and, unless  *)
(* deadlines coincide, a timer in a user's hands is out of the set and in  *)
(* no other user's hands.                                                  *)
(*                                                                         *)
(* Sound adds the types, that time has run one way (Punctual), that        *)
(* m_tickled is set only while somebody is awake or about to be (Awake),   *)
(* and, unless deadlines coincide, that every armed timer is where its     *)
(* expiry is found and every deadline is watched for.                      *)
(***************************************************************************)
EXTENDS Timer, FiniteSetTheorems, TLAPS

Shape ==
    /\ heap \subseteq Timers /\ armed \subseteq Timers /\ cancelled \subseteq Timers
    /\ ms \in [Timers -> Nat]
    /\ op \in [Users -> {"none", "add", "insert", "tickle", "compute"}]
    /\ mine \in [Users -> Timers \cup {None}]
    /\ expired \in [Workers -> SUBSET Timers]

\* What is in the set, in a user's hands or cancelled was constructed.
Constructed ==
    /\ \A t \in heap \cup cancelled : ms[t] # 0
    /\ \A u \in Users : InHandOf(u) => mine[u] \in Timers /\ ms[mine[u]] # 0

CancelledUnarmed == cancelled \cap armed = {}

IInv == Shape /\ Constructed /\ CancelledUnarmed /\ (Coincide \/ ResetOutsideHeap)

\* The initial state satisfies IInv: there are no timers.
LEMMA InitIInv == Init => IInv
BY DEF Init, IInv, Shape, Constructed, CancelledUnarmed, ResetOutsideHeap, InHandOf

\* Without coinciding deadlines m_timers.find finds the timer itself or nothing.
LEMMA FoundSelf ==
    ASSUME ~Coincide, NEW t
    PROVE  /\ t \in heap => Found(t) = {t}
           /\ t \notin heap => Found(t) = {}
BY DEF Found

\* Every step of a user keeps IInv.
LEMMA UserStepIInv ==
    ASSUME IInv, NEW u \in Users, UserStep(u)
    PROVE  IInv'
<1> USE TimerAssumption DEF IInv, Shape, Constructed, CancelledUnarmed, ResetOutsideHeap,
                            InHandOf, workerVars
<1>1. CASE Insert(u)
  <2> DEFINE t == mine[u]
  <2>1. InHandOf(u) /\ t \in Timers /\ ms[t] # 0
    BY <1>1 DEF Insert
  <2>2. heap' \subseteq heap \cup {t}
    BY <1>1 DEF Insert
  <2>3. PICK p \in {"tickle", "none"} :
            /\ op' = [op EXCEPT ![u] = p]
            /\ mine' = [mine EXCEPT ![u] = IF p = "none" THEN None ELSE @]
    BY <1>1 DEF Insert, Continues
  <2>4. UNCHANGED <<ms, armed, cancelled, expired>>
    BY <1>1 DEF Insert
  <2>5. Shape'
    BY <2>1, <2>2, <2>3, <2>4
  <2>6. \A v \in Users : InHandOf(v)' => v # u /\ InHandOf(v) /\ mine'[v] = mine[v]
    BY <2>3
  <2> QED
    BY <2>1, <2>2, <2>4, <2>5, <2>6
<1>2. CASE Tickle(u)
  <2>1. /\ UNCHANGED <<heap, ms, armed, cancelled, expired>>
        /\ op' = [op EXCEPT ![u] = "none"] /\ mine' = [mine EXCEPT ![u] = None]
    BY <1>2 DEF Tickle, Continues, timerVars
  <2>2. \A v \in Users : InHandOf(v)' => InHandOf(v) /\ mine'[v] = mine[v]
    BY <2>1
  <2> QED
    BY <2>1, <2>2
<1>3. CASE ResetCompute(u)
  <2>1. /\ UNCHANGED <<heap, armed, cancelled, expired>>
        /\ op[u] = "compute" /\ op' = [op EXCEPT ![u] = "insert"] /\ mine' = mine
    BY <1>3 DEF ResetCompute, Continues
  <2>2. PICK m \in Periods : ms' = [ms EXCEPT ![mine[u]] = m]
    BY <1>3 DEF ResetCompute
  <2>3. m \in Nat /\ m # 0
    OBVIOUS
  <2>4. Shape'
    BY <2>1, <2>2, <2>3
  <2>5. \A v \in Users : InHandOf(v)' => InHandOf(v)
    BY <2>1
  <2>6. \A h \in Timers : ms[h] # 0 => ms'[h] # 0
    BY <2>2, <2>3
  <2> QED
    BY <2>1, <2>4, <2>5, <2>6
<1>4. ASSUME NEW t \in Timers, Construct(u, t)
      PROVE  IInv'
  <2>1. PICK m \in Periods : ms' = [ms EXCEPT ![t] = m]
    BY <1>4 DEF Construct
  <2>2. /\ ms[t] = 0 /\ armed' = armed \cup {t} /\ UNCHANGED <<heap, cancelled, expired>>
        /\ op[u] = "none" /\ op' = [op EXCEPT ![u] = "add"] /\ mine' = [mine EXCEPT ![u] = t]
    BY <1>4 DEF Construct, Starts
  <2>3. m \in Nat /\ m # 0
    OBVIOUS
  <2>4. Shape'
    BY <2>1, <2>2, <2>3
  <2>5. \A h \in Timers : ms[h] # 0 => ms'[h] # 0
    BY <2>1, <2>3
  <2>6. t \notin heap \cup cancelled
    BY <2>2
  <2>7. \A v \in Users \ {u} : InHandOf(v)' => InHandOf(v) /\ mine'[v] = mine[v] /\ mine[v] # t
    BY <2>2
  <2>8. InHandOf(u)' /\ mine'[u] = t /\ ms'[t] # 0
    BY <2>1, <2>2, <2>3
  <2> QED
    BY <2>2, <2>4, <2>5, <2>6, <2>7, <2>8
<1>5. ASSUME NEW t \in Timers, Cancel(u, t)
      PROVE  IInv'
  <2>1. /\ heap' \subseteq heap /\ armed' = armed \ {t} /\ cancelled' = cancelled \cup {t}
        /\ ms[t] # 0 /\ UNCHANGED <<ms, op, mine, expired>>
    BY <1>5 DEF Cancel, ClearCb, Erased, Known, userVars
  <2> QED
    BY <2>1
<1>6. ASSUME NEW t \in Timers, Refresh(u, t)
      PROVE  IInv'
  <2>1. ~Coincide => t \in heap
    BY <1>6, FoundSelf DEF Refresh
  <2>2. /\ heap' \subseteq heap \cup {t} /\ ms[t] # 0
        /\ UNCHANGED <<ms, armed, cancelled, op, mine, expired>>
    BY <1>6 DEF Refresh, Refreshed, Erased, Known
  <2> QED
    BY <2>1, <2>2
<1>7. ASSUME NEW t \in Timers, ResetErase(u, t)
      PROVE  IInv'
  <2>1. ~Coincide => t \in heap /\ heap' = heap \ {t}
    BY <1>7, FoundSelf DEF ResetErase, Erased
  <2>2. /\ heap' \subseteq heap /\ UNCHANGED <<ms, armed, cancelled, expired>>
        /\ ms[t] # 0 /\ op[u] = "none" /\ op' = [op EXCEPT ![u] = "compute"] /\ mine' = [mine EXCEPT ![u] = t]
    BY <1>7 DEF ResetErase, Erased, Starts, Known
  <2>3. \A v \in Users \ {u} : InHandOf(v)' => /\ InHandOf(v) /\ mine'[v] = mine[v]
                                               /\ ~Coincide => mine[v] # t
    BY <2>1, <2>2
  <2>4. mine'[u] = t
    BY <2>2
  <2>5. Shape'
    BY <2>2
  <2> QED
    BY <2>1, <2>2, <2>3, <2>4, <2>5
<1> QED
  BY <1>1, <1>2, <1>3, <1>4, <1>5, <1>6, <1>7 DEF UserStep

\* A step of a worker, or of the clock, takes timers out of the set and callbacks
\* out of timers, and adds none.
LEMMA OtherStepIInv ==
    ASSUME IInv, \/ \E w \in Workers : WorkerStep(w)
                 \/ Advance \/ SetBack \/ UNCHANGED vars
    PROVE  IInv'
<1> USE DEF IInv, Shape, Constructed, CancelledUnarmed, ResetOutsideHeap, InHandOf, userVars
<1>1. ASSUME /\ heap' \subseteq heap /\ armed' \subseteq armed
             /\ UNCHANGED <<ms, cancelled, op, mine>> /\ expired' \in [Workers -> SUBSET Timers]
      PROVE  IInv'
  BY <1>1
<1>2. ASSUME NEW w \in Workers, ListExpired(w)
      PROVE  IInv'
  <2>1. Popped(w) \subseteq heap /\ Reinserted(w) \subseteq heap
    BY DEF Popped, Reinserted
  <2>2. /\ heap' \subseteq heap /\ armed' \subseteq armed
        /\ UNCHANGED <<ms, cancelled, op, mine>> /\ expired' \in [Workers -> SUBSET Timers]
    BY <1>2, <2>1 DEF ListExpired
  <2> QED
    BY <2>2, <1>1
<1>3. ASSUME NEW w \in Workers, GoIdle(w) \/ Poll(w) \/ EpollReturns(w) \/ Fire(w)
      PROVE  IInv'
  BY <1>1, <1>3 DEF GoIdle, Poll, EpollReturns, Fire, timerVars
<1>4. CASE Advance
  BY <1>1, <1>4 DEF Advance
<1>5. CASE SetBack
  BY <1>1, <1>5 DEF SetBack
<1>6. CASE UNCHANGED vars
  BY <1>1, <1>6 DEF vars, timerVars, workerVars
<1> QED
  BY <1>2, <1>3, <1>4, <1>5, <1>6 DEF WorkerStep

\* IInv holds in every reachable state.
THEOREM Invariance == Spec => []IInv
<1>1. IInv /\ [Next]_vars => IInv'
  BY UserStepIInv, OtherStepIInv DEF Next
<1> QED
  BY <1>1, InitIInv, PTL DEF Spec

\* reset() changes the deadline of a timer, without the lock, only while it is out
\* of m_timers and no other thread has it out as well, so the order of the set is
\* never changed under it, as long as no two deadlines coincide.
THEOREM ResetOutside == ASSUME ~Coincide PROVE Spec => []ResetOutsideHeap
<1>1. IInv => ResetOutsideHeap
  BY DEF IInv
<1> QED
  BY <1>1, Invariance, PTL

\* listExpiredCb never hands out the callback of a timer for which cancel() has
\* returned true, whatever reset() did to the timer since.
THEOREM CancelledSilent == Spec => CancelledStaysSilent
<1> DEFINE Silent == \A w \in Workers : (expired'[w] \ expired[w]) \cap cancelled = {}
<1>1. ASSUME IInv, [Next]_vars
      PROVE  Silent
  <2>1. CASE UNCHANGED expired
    BY <2>1
  <2>2. ASSUME NEW w \in Workers, ListExpired(w)
        PROVE  Silent
    <3>1. expired' = expired \/ expired' = [expired EXCEPT ![w] = Popped(w) \cap armed]
      BY <2>2 DEF ListExpired
    <3> QED
      BY <1>1, <3>1 DEF IInv, Shape, CancelledUnarmed
  <2>3. ASSUME NEW w \in Workers, Fire(w)
        PROVE  Silent
    BY <1>1, <2>3 DEF Fire, IInv, Shape
  <2>4. ASSUME NEW u \in Users, UserStep(u)
        PROVE  UNCHANGED expired
    BY <2>4 DEF UserStep, Insert, Tickle, ResetCompute, Construct, Cancel, Refresh,
                ResetErase, workerVars
  <2>5. ASSUME NEW w \in Workers, GoIdle(w) \/ Poll(w) \/ EpollReturns(w)
        PROVE  UNCHANGED expired
    BY <2>5 DEF GoIdle, Poll, EpollReturns
  <2>6. CASE Advance \/ SetBack \/ UNCHANGED vars
    BY <2>6 DEF Advance, SetBack, vars, workerVars
  <2> QED
    BY <1>1, <2>1, <2>2, <2>3, <2>4, <2>5, <2>6 DEF Next, WorkerStep
<1>2. IInv /\ [Next]_vars => [Silent]_vars
  BY <1>1
<1> QED
  BY <1>2, Invariance, PTL DEF CancelledStaysSilent, Spec

-----------------------------------------------------------------------------
(* Maximum and minimum.                                                    *)

\* The larger and the smaller of two numbers.
LEMMA OfTwo ==
    ASSUME NEW m \in Int, NEW n \in Int
    PROVE  /\ Max({m, n}) = IF m >= n THEN m ELSE n
           /\ Min({m, n}) = IF m <= n THEN m ELSE n
BY DEF Max, Min

\* A finite set of numbers has a first and a last one.  A set without would have a
\* smallest part without, from which one element could be taken away.
LEMMA Extrema ==
    ASSUME NEW S \in SUBSET Int, IsFiniteSet(S), S # {}
    PROVE  /\ \E x \in S : \A y \in S : x <= y
           /\ \E x \in S : \A y \in S : x >= y
<1> DEFINE Good(U) == /\ \E x \in U : \A y \in U : x <= y
                      /\ \E x \in U : \A y \in U : x >= y
           Bad == {U \in SUBSET S : U # {} /\ ~Good(U)}
<1>1. SUFFICES Bad = {}
  OBVIOUS
<1>2. SUFFICES ASSUME Bad # {} PROVE FALSE
  OBVIOUS
<1>3. IsWellFoundedOn(StrictSubsetOrdering(S), SUBSET S)
  BY FS_StrictSubsetOrderingWellFounded, FS_FiniteSubsetsOfFinite
<1>4. PICK U \in Bad : \A V \in Bad : <<V, U>> \notin StrictSubsetOrdering(S)
  <2>1. Bad \subseteq SUBSET S
    OBVIOUS
  <2> HIDE DEF Bad
  <2> QED BY <1>2, <1>3, <2>1, WFMin
<1>5. PICK u \in U : TRUE
  OBVIOUS
<1>6. U \ {u} \notin Bad
  BY <1>4, <1>5 DEF StrictSubsetOrdering
<1>7. CASE U \ {u} = {}
  <2>1. U = {u} /\ u \in Int
    BY <1>7
  <2> QED BY <2>1
<1>8. CASE U \ {u} # {}
  <2>1. Good(U \ {u})
    BY <1>6, <1>8
  <2>2. u \in Int /\ U \subseteq Int
    OBVIOUS
  <2>3. \E x \in U : \A y \in U : x <= y
    <3>1. PICK x \in U \ {u} : \A y \in U \ {u} : x <= y
      BY <2>1
    <3> QED BY <2>2, <3>1
  <2>4. \E x \in U : \A y \in U : x >= y
    <3>1. PICK x \in U \ {u} : \A y \in U \ {u} : x >= y
      BY <2>1
    <3> QED BY <2>2, <3>1
  <2> QED BY <2>3, <2>4
<1> QED BY <1>7, <1>8

\* Max and Min of a finite set are what their names say.
LEMMA OfMany ==
    ASSUME NEW S \in SUBSET Int, IsFiniteSet(S), S # {}
    PROVE  /\ Max(S) \in S /\ \A y \in S : Max(S) >= y
           /\ Min(S) \in S /\ \A y \in S : Min(S) <= y
BY Extrema DEF Max, Min

-----------------------------------------------------------------------------
(* Types.                                                                  *)

\* What the assumption says of numbers.
LEMMA Bounds ==
    /\ MaxTimeout \in Nat /\ Hour \in Nat /\ MaxLate \in Nat /\ MaxOps \in Nat
    /\ None \notin Timers /\ Periods \subseteq Nat /\ 0 \notin Periods /\ Jumps \subseteq Nat
    /\ Workers # {} /\ Recurring \subseteq Timers
BY TimerAssumption

\* Initially every variable has its type.
LEMMA InitType == Init => TypeOK
<1> SUFFICES ASSUME Init PROVE TypeOK
  OBVIOUS
<1>1. opsLeft \in 0..MaxOps /\ wakeIn \in [Workers -> 0..MaxTimeout]
  BY Bounds DEF Init
<1>2. \A u \in Users : mine[u] = None /\ op[u] = "none"
  BY DEF Init
<1>3. /\ heap \subseteq Timers /\ armed \subseteq Timers /\ cancelled \subseteq Timers
      /\ since \in Int
  BY DEF Init
<1>7. tickled \in BOOLEAN /\ edge \in BOOLEAN /\ jumped \in BOOLEAN
  BY Zenon DEF Init
<1>6. ahead \in [Timers -> Int] /\ ms \in [Timers -> Periods \cup {0}]
  BY DEF Init
<1>4. /\ op \in [Users -> {"none", "add", "insert", "tickle", "compute"}]
      /\ mine \in [Users -> Timers \cup {None}]
  BY DEF Init
<1>5. /\ pc \in [Workers -> {"work", "poll", "wait", "list", "fire", "spin"}]
      /\ age \in [Workers -> Int] /\ expired \in [Workers -> SUBSET Timers]
      /\ \A w \in Workers : expired[w] = {}
  BY DEF Init
<1> QED BY <1>1, <1>2, <1>3, <1>4, <1>5, <1>6, <1>7 DEF TypeOK

\* m_ms is a number of ticks, and so is what it will be.
LEMMA MsType == TypeOK => ms \in [Timers -> Nat]
<1>1. Periods \cup {0} \subseteq Nat
  BY Bounds
<1> QED BY <1>1 DEF TypeOK

\* What a timeout is computed from: the first deadline, or MAX_TIMEOUT.
LEMMA NextTimerIs ==
    ASSUME TypeOK
    PROVE  /\ NextTimer \in Nat
           /\ \A h \in heap : NextTimer <= Max({0, ahead[h]})
<1>0. MaxTimeout \in Nat
  BY TimerAssumption
<1>1. CASE heap = {}
  <2>1. NextTimer = MaxTimeout
    BY <1>1 DEF NextTimer
  <2> QED BY <1>0, <1>1, <2>1, OfTwo
<1>2. CASE heap # {}
  <2> DEFINE S == {ahead[h] : h \in heap}
  <2>1. S \in SUBSET Int /\ S # {}
    BY <1>2 DEF TypeOK
  <2>2. IsFiniteSet(S)
    <3>1. IsFiniteSet(heap)
      BY TimerAssumption, FS_Subset DEF TypeOK
    <3>2. [h \in heap |-> ahead[h]] \in Surjection(heap, S)
      BY DEF Surjection
    <3> QED BY <3>1, <3>2, FS_Surjection
  <2> HIDE DEF S
  <2>3. Min(S) \in Int /\ \A s \in S : Min(S) <= s
    BY <2>1, <2>2, OfMany
  <2>4. NextTimer = Max({0, Min(S)})
    BY <1>2 DEF NextTimer, S
  <2>5. NextTimer \in Nat
    BY <2>3, <2>4, OfTwo
  <2>6. ASSUME NEW h \in heap
        PROVE  NextTimer <= Max({0, ahead[h]})
    <3>1. ahead[h] \in Int /\ ahead[h] \in S
      BY DEF TypeOK, S
    <3> QED BY <2>3, <2>4, <3>1, OfTwo
  <2> QED BY <2>5, <2>6
<1> QED BY <1>1, <1>2

\* epoll_wait's timeout is never longer than that.
LEMMA TimeoutIs ==
    ASSUME TypeOK
    PROVE  /\ Min({NextTimer, MaxTimeout}) \in 0..MaxTimeout
           /\ Min({NextTimer, MaxTimeout}) <= NextTimer
<1>1. NextTimer \in Nat /\ MaxTimeout \in Nat
  BY NextTimerIs, Bounds
<1> HIDE DEF TypeOK
<1>2. Min({NextTimer, MaxTimeout}) = IF NextTimer <= MaxTimeout THEN NextTimer ELSE MaxTimeout
  BY <1>1, OfTwo
<1> QED BY <1>1, <1>2

\* The longest jump bounds what is counted of the time between two expiries.
LEMMA JumpsMax == Max(Jumps \cup {0}) \in Nat
<1>1. IsFiniteSet(Jumps \cup {0}) /\ Jumps \cup {0} \in SUBSET Int
  BY TimerAssumption, FS_AddElement
<1>2. Max(Jumps \cup {0}) \in Jumps \cup {0}
  BY <1>1, OfMany
<1>3. Jumps \cup {0} \subseteq Nat
  BY TimerAssumption
<1> QED BY <1>2, <1>3

\* Every step of a user keeps the types.
LEMMA UserStepType ==
    ASSUME TypeOK, NEW u \in Users, UserStep(u)
    PROVE  TypeOK'
<1> USE Bounds DEF TypeOK, workerVars, timerVars, userVars
<1>1. CASE Insert(u)
  <2>1. PICK p \in {"tickle", "none"} :
            /\ op' = [op EXCEPT ![u] = p]
            /\ mine' = [mine EXCEPT ![u] = IF p = "none" THEN None ELSE @]
    BY <1>1 DEF Insert, Continues
  <2>2. mine[u] \in Timers /\ heap' \subseteq Timers /\ tickled' \in BOOLEAN
    BY <1>1 DEF Insert, AtBegin
  <2>3. UNCHANGED <<ahead, ms, armed, cancelled, since, opsLeft, workerVars, edge, jumped>>
    BY <1>1 DEF Insert
  <2> QED BY <2>1, <2>2, <2>3
<1>2. CASE Tickle(u)
  BY <1>2 DEF Tickle, Continues
<1>3. CASE ResetCompute(u)
  <2>1. mine[u] \in Timers
    BY <1>3 DEF ResetCompute, Continues
  <2>2. PICK m \in Periods, fromNow \in BOOLEAN :
            /\ ahead' = [ahead EXCEPT ![mine[u]] = IF fromNow THEN m
                                                    ELSE ahead[mine[u]] - ms[mine[u]] + m]
            /\ ms' = [ms EXCEPT ![mine[u]] = m]
    BY <1>3 DEF ResetCompute, Expires
  <2>4. ms[mine[u]] \in Int /\ m \in Int
    BY <2>1, MsType
  <2>3. ahead' \in [Timers -> Int] /\ ms' \in [Timers -> Periods \cup {0}]
    BY <2>1, <2>2, <2>4
  <2> QED BY <1>3, <2>3 DEF ResetCompute, Continues
<1>4. ASSUME NEW t \in Timers, Construct(u, t)
      PROVE  TypeOK'
  <2>1. PICK m \in Periods : ahead' = [ahead EXCEPT ![t] = m] /\ ms' = [ms EXCEPT ![t] = m]
    BY <1>4 DEF Construct, Expires
  <2>2. ahead' \in [Timers -> Int] /\ ms' \in [Timers -> Periods \cup {0}]
    BY <2>1
  <2> QED BY <1>4, <2>2 DEF Construct, Starts
<1>5. ASSUME NEW t \in Timers, Cancel(u, t)
      PROVE  TypeOK'
  BY <1>5 DEF Cancel, ClearCb, Erased
<1>6. ASSUME NEW t \in Timers, Refresh(u, t)
      PROVE  TypeOK'
  <2>1. ahead' = [ahead EXCEPT ![t] = ms[t]] /\ ms[t] \in Int
    BY <1>6, MsType DEF Refresh, Expires
  <2>2. ahead' \in [Timers -> Int]
    BY <2>1
  <2>3. heap' \subseteq Timers
    BY <1>6 DEF Refresh, Refreshed, Erased
  <2>4. opsLeft' \in 0..MaxOps
    BY <1>6 DEF Refresh
  <2> QED BY <1>6, <2>2, <2>3, <2>4 DEF Refresh
<1>7. ASSUME NEW t \in Timers, ResetErase(u, t)
      PROVE  TypeOK'
  <2>1. heap' \subseteq Timers /\ opsLeft' \in 0..MaxOps
    BY <1>7 DEF ResetErase, Erased
  <2> QED BY <1>7, <2>1 DEF ResetErase, Starts
<1> QED
  BY <1>1, <1>2, <1>3, <1>4, <1>5, <1>6, <1>7 DEF UserStep

\* So does the passing of time ...
LEMMA AdvanceType ==
    ASSUME TypeOK, Advance
    PROVE  TypeOK'
<1>1. since' \in Int
  <2>1. since + 1 \in Int /\ Max(Jumps \cup {0}) \in Int
    BY JumpsMax DEF TypeOK
  <2>2. Min({since + 1, Max(Jumps \cup {0})}) \in Int
    BY <2>1, OfTwo
  <2> QED BY <2>2 DEF Advance
<1>2. ahead' \in [Timers -> Int]
  <2>1. ASSUME NEW t \in Timers
        PROVE  Max({-MaxLate, ahead[t] - 1}) \in Int
    <3>1. -MaxLate \in Int /\ ahead[t] - 1 \in Int
      BY Bounds DEF TypeOK
    <3> QED BY <3>1, OfTwo
  <2> QED BY <2>1 DEF Advance
<1>3. wakeIn' \in [Workers -> 0..MaxTimeout]
  <2>1. ASSUME NEW w \in Workers
        PROVE  Max({0, wakeIn[w] - 1}) \in 0..MaxTimeout
    <3>1. MaxTimeout \in Nat /\ wakeIn[w] \in 0..MaxTimeout
      BY Bounds DEF TypeOK
    <3> QED BY <3>1, OfTwo
  <2> QED BY <2>1 DEF Advance
<1>4. age' \in [Workers -> Int]
  BY DEF Advance, TypeOK
<1> QED BY <1>1, <1>2, <1>3, <1>4 DEF Advance, TypeOK, userVars

\* ... and every step of a worker.
LEMMA OtherStepType ==
    ASSUME TypeOK, \/ \E w \in Workers : WorkerStep(w)
                   \/ Advance \/ SetBack \/ UNCHANGED vars
    PROVE  TypeOK'
<1> USE Bounds DEF TypeOK, workerVars, timerVars, userVars
<1>1. ASSUME NEW w \in Workers, GoIdle(w)
      PROVE  TypeOK'
  BY <1>1 DEF GoIdle, TickledReset, Goto
<1>2. ASSUME NEW w \in Workers, Poll(w)
      PROVE  TypeOK'
  BY <1>2, TimeoutIs DEF Poll, TickledReset, Goto
<1>3. ASSUME NEW w \in Workers, EpollReturns(w)
      PROVE  TypeOK'
  <2>1. wakeIn' \in [Workers -> 0..MaxTimeout]
    BY <1>3 DEF EpollReturns
  <2>2. age' \in [Workers -> Int] /\ pc' \in [Workers -> {"work", "poll", "wait", "list", "fire", "spin"}]
    BY <1>3 DEF EpollReturns, Goto
  <2>3. edge' \in BOOLEAN
    BY <1>3, Zenon DEF EpollReturns
  <2>4. \A v \in Workers : expired'[v] # {} => pc'[v] = "fire"
    BY <1>3 DEF EpollReturns, Goto
  <2> QED BY <1>3, <2>1, <2>2, <2>3, <2>4 DEF EpollReturns
<1>4. ASSUME NEW w \in Workers, ListExpired(w)
      PROVE  TypeOK'
  <2>1. Popped(w) \subseteq heap /\ Reinserted(w) \subseteq heap
    BY DEF Popped, Reinserted
  <2>2. age' \in [Workers -> Int] /\ since' \in Int
    BY <1>4 DEF ListExpired
  <2>3. CASE Rollover /\ heap \cap Recurring # {}
    BY <1>4, <2>2, <2>3 DEF ListExpired, Goto
  <2>4. CASE ~(Rollover /\ heap \cap Recurring # {})
    <3>3. \A t \in Timers : ms[t] - age[w] \in Int
      BY MsType
    <3>1. ahead' \in [Timers -> Int]
      BY <1>4, <2>4, <3>3 DEF ListExpired
    <3>2. heap' \subseteq Timers /\ armed' \subseteq Timers
      BY <1>4, <2>1, <2>4 DEF ListExpired
    <3> QED BY <1>4, <2>2, <2>4, <3>1, <3>2 DEF ListExpired, Goto
  <2> QED BY <2>3, <2>4
<1>5. ASSUME NEW w \in Workers, Fire(w)
      PROVE  TypeOK'
  BY <1>5 DEF Fire, Goto
<1>6. CASE Advance
  BY <1>6, AdvanceType
<1>7. CASE SetBack
  BY <1>7 DEF SetBack
<1>8. CASE UNCHANGED vars
  BY <1>8 DEF vars
<1> QED
  BY <1>1, <1>2, <1>3, <1>4, <1>5, <1>6, <1>7, <1>8 DEF WorkerStep

\* TypeOK is inductive.
LEMMA TypeStep == TypeOK /\ [Next]_vars => TypeOK'
BY UserStepType, OtherStepType DEF Next

-----------------------------------------------------------------------------
(* Nothing early, nothing lost, nobody asleep.                             *)

\* Until the clock is set back, time runs one way for everybody who has read it,
\* and no deadline is further away than its period.
Punctual == ~jumped => /\ since >= 0
                       /\ \A w \in Workers : age[w] >= 0
                       /\ \A t \in Timers : ahead[t] <= ms[t]

\* While m_tickled keeps further tickles away, somebody is awake or about to be.
Awake == tickled => \/ edge \/ \E u \in Users : op[u] = "tickle"
                    \/ \E w \in Workers : pc[w] # "wait"

\* Time brings deadlines nearer and makes readings older.
LEMMA AdvancePunctual ==
    ASSUME TypeOK, Punctual, Advance
    PROVE  Punctual'
<1> SUFFICES ASSUME ~jumped
             PROVE  /\ since' >= 0
                    /\ \A w \in Workers : age'[w] >= 0
                    /\ \A t \in Timers : ahead'[t] <= ms'[t]
  BY DEF Punctual, Advance
<1>1. since' >= 0
  <2>1. since + 1 \in Nat /\ Max(Jumps \cup {0}) \in Nat
    BY JumpsMax DEF TypeOK, Punctual
  <2>3. since + 1 \in Int /\ Max(Jumps \cup {0}) \in Int
    BY <2>1
  <2>2. Min({since + 1, Max(Jumps \cup {0})}) \in Nat
    BY <2>1, <2>3, OfTwo
  <2> QED BY <2>2 DEF Advance
<1>2. ASSUME NEW w \in Workers
      PROVE  age'[w] >= 0
  <2>1. age[w] \in Int /\ age[w] >= 0
    BY DEF TypeOK, Punctual
  <2>2. age'[w] = IF pc[w] = "list" THEN age[w] + 1 ELSE 0
    BY DEF Advance
  <2> QED BY <2>1, <2>2
<1>3. ASSUME NEW t \in Timers
      PROVE  ahead'[t] <= ms'[t]
  <2>1. ahead[t] \in Int /\ ms[t] \in Nat /\ ahead[t] <= ms[t] /\ ms'[t] = ms[t]
    BY MsType DEF TypeOK, Punctual, Advance
  <2>2. -MaxLate \in Int /\ -MaxLate <= 0 /\ ahead[t] - 1 \in Int
    BY <2>1, Bounds
  <2>3. Max({-MaxLate, ahead[t] - 1}) <= ms[t]
    BY <2>1, <2>2, OfTwo
  <2>4. ahead'[t] = IF t \in Live THEN Max({-MaxLate, ahead[t] - 1}) ELSE 0
    BY DEF Advance
  <2> QED BY <2>1, <2>3, <2>4
<1> QED BY <1>1, <1>2, <1>3

\* A new deadline is one period away; a worker that reads the clock has just done so.
LEMMA PunctualStep == TypeOK /\ Punctual /\ [Next]_vars => Punctual'
<1> SUFFICES ASSUME TypeOK, Punctual, [Next]_vars
             PROVE  Punctual'
  OBVIOUS
<1>1. ASSUME NEW w \in Workers, ListExpired(w)
      PROVE  Punctual'
  <2> SUFFICES ASSUME ~jumped
               PROVE  /\ since' >= 0
                      /\ \A v \in Workers : age'[v] >= 0
                      /\ \A t \in Timers : ahead'[t] <= ms'[t]
    BY <1>1 DEF Punctual, ListExpired
  <2>1. since' = 0 /\ age' = [age EXCEPT ![w] = 0] /\ ms' = ms
    BY <1>1 DEF ListExpired
  <2>2. ahead' = ahead \/ ahead' = [t \in Timers |-> IF t \in Popped(w) \cap Recurring
                                                     THEN ms[t] - age[w] ELSE ahead[t]]
    BY <1>1 DEF ListExpired
  <2>3. \A v \in Workers : age'[v] >= 0
    BY <2>1 DEF TypeOK, Punctual
  <2>4. ASSUME NEW t \in Timers
        PROVE  ahead'[t] <= ms'[t]
    <3>1. ms[t] \in Nat /\ age[w] \in Int /\ age[w] >= 0 /\ ahead[t] \in Int /\ ahead[t] <= ms[t]
      BY MsType DEF TypeOK, Punctual
    <3> QED BY <2>1, <2>2, <3>1
  <2> QED BY <2>1, <2>3, <2>4
<1>2. ASSUME NEW w \in Workers, EpollReturns(w)
      PROVE  Punctual'
  <2>1. \A v \in Workers : age'[v] = age[v] \/ age'[v] = 0
    BY <1>2 DEF EpollReturns, TypeOK
  <2> QED BY <1>2, <2>1 DEF EpollReturns, Punctual, timerVars
<1>3. ASSUME NEW w \in Workers, GoIdle(w) \/ Poll(w) \/ Fire(w)
      PROVE  Punctual'
  BY <1>3 DEF GoIdle, Poll, Fire, Punctual, timerVars
<1>4. ASSUME NEW u \in Users, UserStep(u)
      PROVE  Punctual'
  <2>1. ASSUME UNCHANGED <<jumped, since, age>>,
               NEW t \in Timers, NEW m \in Periods \cup {0}, NEW d \in Int,
               ms' = [ms EXCEPT ![t] = m], ahead' = [ahead EXCEPT ![t] = d],
               ~jumped => d <= m
        PROVE  Punctual'
    BY <2>1 DEF Punctual, TypeOK
  <2>2. CASE ResetCompute(u)
    <3>1. mine[u] \in Timers
      BY <2>2, Bounds DEF ResetCompute, Continues, TypeOK
    <3>2. PICK m \in Periods, fromNow \in BOOLEAN :
              /\ ahead' = [ahead EXCEPT ![mine[u]] = IF fromNow THEN m
                                                      ELSE ahead[mine[u]] - ms[mine[u]] + m]
              /\ ms' = [ms EXCEPT ![mine[u]] = m]
      BY <2>2 DEF ResetCompute, Expires
    <3>3. /\ ms[mine[u]] \in Nat /\ ahead[mine[u]] \in Int /\ m \in Nat
          /\ ~jumped => ahead[mine[u]] <= ms[mine[u]]
      BY <3>1, MsType, Bounds DEF Punctual, TypeOK
    <3> DEFINE d == IF fromNow THEN m ELSE ahead[mine[u]] - ms[mine[u]] + m
    <3>4. d \in Int /\ (~jumped => d <= m)
      BY <3>3
    <3>5. ahead' = [ahead EXCEPT ![mine[u]] = d]
      BY <3>2
    <3> HIDE DEF d
    <3> QED BY <2>1, <2>2, <3>1, <3>2, <3>4, <3>5 DEF ResetCompute, workerVars
  <2>3. ASSUME NEW t \in Timers, Construct(u, t)
        PROVE  Punctual'
    <3>1. PICK m \in Periods : ahead' = [ahead EXCEPT ![t] = m] /\ ms' = [ms EXCEPT ![t] = m]
      BY <2>3 DEF Construct, Expires
    <3>2. m \in Int /\ m <= m
      BY Bounds
    <3> QED BY <2>1, <2>3, <3>1, <3>2 DEF Construct, workerVars
  <2>4. ASSUME NEW t \in Timers, Refresh(u, t)
        PROVE  Punctual'
    <3>1. /\ ahead' = [ahead EXCEPT ![t] = ms[t]] /\ ms' = ms
          /\ ms[t] \in Int /\ ms[t] <= ms[t] /\ ms[t] \in Periods \cup {0}
      BY <2>4, MsType DEF Refresh, Expires, TypeOK
    <3>2. ms' = [ms EXCEPT ![t] = ms[t]]
      BY <3>1 DEF TypeOK
    <3> QED BY <2>1, <2>4, <3>1, <3>2 DEF Refresh, workerVars
  <2>5. CASE Insert(u) \/ Tickle(u) \/ \E t \in Timers : Cancel(u, t) \/ ResetErase(u, t)
    BY <2>5 DEF Insert, Tickle, Cancel, ResetErase, Punctual, workerVars, timerVars
  <2> QED BY <1>4, <2>2, <2>3, <2>4, <2>5 DEF UserStep
<1>5. CASE SetBack
  BY <1>5 DEF SetBack, Punctual
<1>6. CASE UNCHANGED vars
  BY <1>6 DEF vars, Punctual, timerVars, workerVars
<1> QED
  BY <1>1, <1>2, <1>3, <1>4, <1>5, <1>6, AdvancePunctual DEF Next, WorkerStep

\* m_tickled is set together with a tickle, and reset by whoever goes to sleep.
LEMMA AwakeStep == TypeOK /\ Awake /\ [Next]_vars => Awake'
<1> SUFFICES ASSUME TypeOK, Awake, [Next]_vars
             PROVE  Awake'
  OBVIOUS
<1>1. ASSUME NEW u \in Users, Insert(u)
      PROVE  Awake'
  <2>1. PICK first \in BOOLEAN :
            /\ op' = [op EXCEPT ![u] = IF first /\ ~tickled THEN "tickle" ELSE "none"]
            /\ tickled' = (tickled \/ first)
    BY <1>1 DEF Insert, AtBegin, Continues
  <2>2. UNCHANGED <<edge, pc>> /\ op[u] # "tickle"
    BY <1>1 DEF Insert, workerVars
  <2>3. CASE first /\ ~tickled
    BY <2>1, <2>3 DEF Awake, TypeOK
  <2>4. CASE ~(first /\ ~tickled)
    <3>1. tickled' => tickled
      BY <2>1, <2>4
    <3>2. \A v \in Users : op[v] = "tickle" => op'[v] = "tickle"
      BY <2>1, <2>2, <2>4 DEF TypeOK
    <3> QED BY <2>2, <3>1, <3>2 DEF Awake
  <2> QED BY <2>3, <2>4
<1>2. ASSUME NEW u \in Users, Tickle(u)
      PROVE  Awake'
  <2>1. edge' = (edge \/ \E w \in Workers : pc[w] # "work") /\ pc' = pc
    BY <1>2 DEF Tickle, workerVars
  <2>2. \E w \in Workers : pc[w] # "work" \/ pc[w] # "wait"
    BY Bounds
  <2> QED BY <2>1, <2>2 DEF Awake
<1>3. ASSUME NEW u \in Users, UserStep(u), ~Insert(u), ~Tickle(u)
      PROVE  Awake'
  <2>1. UNCHANGED <<tickled, edge, pc>>
    BY <1>3 DEF UserStep, ResetCompute, Construct, Cancel, Refresh, ResetErase, workerVars
  <2>2. \A v \in Users : op[v] = "tickle" => op'[v] = "tickle"
    BY <1>3 DEF UserStep, ResetCompute, Construct, Cancel, Refresh, ResetErase, Continues,
                Starts, TypeOK, userVars
  <2> QED BY <2>1, <2>2 DEF Awake
<1>4. ASSUME NEW w \in Workers, GoIdle(w) \/ Poll(w)
      PROVE  Awake'
  BY <1>4 DEF GoIdle, Poll, TickledReset, Awake
<1>5. ASSUME NEW w \in Workers, EpollReturns(w) \/ ListExpired(w) \/ Fire(w)
      PROVE  Awake'
  <2>1. pc'[w] # "wait"
    BY <1>5 DEF EpollReturns, ListExpired, Fire, Goto, TypeOK
  <2> QED BY <2>1 DEF Awake
<1>6. CASE Advance \/ SetBack \/ UNCHANGED vars
  BY <1>6 DEF Advance, SetBack, vars, Awake, userVars, timerVars, workerVars
<1> QED
  BY <1>1, <1>2, <1>3, <1>4, <1>5, <1>6 DEF Next, WorkerStep

\* Unless deadlines coincide, a step takes an armed timer out of the set only to put
\* it back, at once or from the hands of the user who took it out.
LEMMA ArmedStep ==
    ASSUME ~Coincide
    PROVE  TypeOK /\ ArmedInHeap /\ [Next]_vars => ArmedInHeap'
<1> SUFFICES ASSUME TypeOK, ArmedInHeap, [Next]_vars
             PROVE  ArmedInHeap'
  OBVIOUS
<1> USE DEF ArmedInHeap, InHand, InHandOf
<1>0. \A t : /\ t \in heap => Found(t) = {t}
             /\ t \notin heap => Found(t) = {}
  BY FoundSelf
<1>1. ASSUME NEW u \in Users, Insert(u)
      PROVE  ArmedInHeap'
  <2>1. /\ armed' = armed /\ mine[u] \in heap' /\ heap \subseteq heap'
        /\ \A v \in Users \ {u} : op'[v] = op[v] /\ mine'[v] = mine[v]
    BY <1>0, <1>1 DEF Insert, Continues, TypeOK
  <2> QED BY <2>1
<1>2. ASSUME NEW u \in Users, Tickle(u) \/ ResetCompute(u)
      PROVE  ArmedInHeap'
  <2>1. /\ UNCHANGED <<armed, heap>>
        /\ \A v \in Users : InHandOf(v) => InHandOf(v)' /\ mine'[v] = mine[v]
    BY <1>2 DEF Tickle, ResetCompute, Continues, TypeOK, timerVars
  <2> QED BY <2>1
<1>3. ASSUME NEW u \in Users, NEW t \in Timers, Construct(u, t) \/ ResetErase(u, t)
      PROVE  ArmedInHeap'
  <2>1. /\ armed' \subseteq armed \cup {t} /\ heap \subseteq heap' \cup {t}
        /\ InHandOf(u)' /\ mine'[u] = t /\ ~InHandOf(u)
        /\ \A v \in Users \ {u} : op'[v] = op[v] /\ mine'[v] = mine[v]
    BY <1>0, <1>3 DEF Construct, ResetErase, Erased, Starts, TypeOK
  <2> QED BY <2>1
<1>4. ASSUME NEW u \in Users, NEW t \in Timers, Cancel(u, t)
      PROVE  ArmedInHeap'
  <2>1. armed' = armed \ {t} /\ heap \subseteq heap' \cup {t} /\ UNCHANGED <<op, mine>>
    BY <1>0, <1>4 DEF Cancel, ClearCb, Erased, userVars
  <2> QED BY <2>1
<1>5. ASSUME NEW u \in Users, NEW t \in Timers, Refresh(u, t)
      PROVE  ArmedInHeap'
  <2>1. armed' = armed /\ heap \subseteq heap' /\ UNCHANGED <<op, mine>>
    BY <1>0, <1>5 DEF Refresh, Refreshed, Erased
  <2> QED BY <2>1
<1>6. ASSUME NEW w \in Workers, ListExpired(w)
      PROVE  ArmedInHeap'
  <2>1. Reinserted(w) = Popped(w) \cap Recurring
    BY DEF Reinserted
  <2>2. \/ UNCHANGED <<heap, armed>>
        \/ /\ heap' = (heap \ Popped(w)) \cup Reinserted(w)
           /\ armed' = armed \ (Popped(w) \ Recurring)
    BY <1>6 DEF ListExpired
  <2>3. UNCHANGED <<op, mine>>
    BY <1>6 DEF ListExpired, userVars
  <2> QED BY <2>1, <2>2, <2>3
<1>7. CASE UNCHANGED <<heap, armed, op, mine>>
  BY <1>7
<1>8. ASSUME NEW w \in Workers, GoIdle(w) \/ Poll(w) \/ EpollReturns(w) \/ Fire(w)
      PROVE  UNCHANGED <<heap, armed, op, mine>>
  BY <1>8 DEF GoIdle, Poll, EpollReturns, Fire, timerVars, userVars
<1>9. CASE Advance \/ SetBack \/ UNCHANGED vars
  BY <1>7, <1>9 DEF Advance, SetBack, vars, timerVars, userVars
<1> QED
  BY <1>1, <1>2, <1>3, <1>4, <1>5, <1>6, <1>7, <1>8, <1>9 DEF Next, UserStep, WorkerStep

\* A worker wakes up in time for timer h.
Watched(h) == \E w \in Workers : wakeIn[w] <= Max({0, ahead[h]})

\* If the clock goes on, timers and timeouts get nearer together.
LEMMA AdvanceWatched ==
    ASSUME TypeOK, Advance, NEW h \in heap, Watched(h)
    PROVE  Watched(h)'
<1>1. PICK w \in Workers : wakeIn[w] <= Max({0, ahead[h]})
  BY DEF Watched
<1>2. /\ ahead'[h] = Max({-MaxLate, ahead[h] - 1})
      /\ wakeIn'[w] = Max({0, wakeIn[w] - 1})
  BY DEF Advance, Live, TypeOK
<1>3. /\ ahead[h] \in Int /\ ahead[h] - 1 \in Int /\ -MaxLate \in Int /\ MaxLate \in Nat
      /\ wakeIn[w] \in Nat /\ wakeIn[w] - 1 \in Int
  BY Bounds DEF TypeOK
<1>4. Max({0, ahead[h]}) = IF 0 >= ahead[h] THEN 0 ELSE ahead[h]
  BY <1>3, OfTwo
<1>5. ahead'[h] = IF -MaxLate >= ahead[h] - 1 THEN -MaxLate ELSE ahead[h] - 1
  BY <1>2, <1>3, OfTwo
<1>6. wakeIn'[w] = IF 0 >= wakeIn[w] - 1 THEN 0 ELSE wakeIn[w] - 1
  BY <1>2, <1>3, OfTwo
<1>7. Max({0, ahead'[h]}) = IF 0 >= ahead'[h] THEN 0 ELSE ahead'[h]
  BY <1>3, <1>5, OfTwo
<1>8. wakeIn'[w] <= Max({0, ahead'[h]})
  BY <1>1, <1>3, <1>4, <1>5, <1>6, <1>7
<1> QED BY <1>8 DEF Watched

\* A later timer is watched for as well.
LEMMA LaterWatched ==
    ASSUME TypeOK, NEW g \in Timers, NEW h \in Timers, Watched(g), UNCHANGED wakeIn,
           ahead'[h] \in Int, ahead[g] <= ahead'[h]
    PROVE  Watched(h)'
<1>1. PICK w \in Workers : wakeIn[w] <= Max({0, ahead[g]})
  BY DEF Watched
<1>2. ahead[g] \in Int /\ wakeIn[w] \in Int
  BY DEF TypeOK
<1>3. Max({0, ahead[g]}) = IF 0 >= ahead[g] THEN 0 ELSE ahead[g]
  BY <1>2, OfTwo
<1>4. Max({0, ahead'[h]}) = IF 0 >= ahead'[h] THEN 0 ELSE ahead'[h]
  BY OfTwo
<1>5. wakeIn'[w] <= Max({0, ahead'[h]})
  BY <1>1, <1>2, <1>3, <1>4
<1> QED BY <1>5 DEF Watched

\* A user who brings the first deadline forward tickles, or has been forestalled by one
\* whose tickle still counts; refresh() only moves a deadline back.
LEMMA UserStepOversleep ==
    ASSUME ~Coincide, TypeOK, IInv, Punctual, Awake, NoOversleep, NEW u \in Users, UserStep(u)
    PROVE  NoOversleep'
<1> DEFINE Tickling == \E v \in Users : op[v] = "tickle"
<1>0. /\ jumped' = jumped /\ pc' = pc /\ wakeIn' = wakeIn
      /\ edge => edge'
  <2>1. jumped' = jumped /\ pc' = pc /\ wakeIn' = wakeIn
    BY DEF UserStep, Insert, Tickle, ResetCompute, Construct, Cancel, Refresh, ResetErase, workerVars
  <2>2. edge' = edge \/ edge' = (edge \/ \E w \in Workers : pc[w] # "work")
    BY Zenon DEF UserStep, Insert, Tickle, ResetCompute, Construct, Cancel, Refresh, ResetErase
  <2>3. edge => edge'
    BY <2>2, Zenon
  <2> QED BY <2>1, <2>3
<1>1. SUFFICES ASSUME ~jumped, \A w \in Workers : pc[w] = "wait", ~edge', ~Tickling'
               PROVE  \A h \in heap' : Watched(h)'
  BY <1>0 DEF NoOversleep, Watched
<1>2. ~edge /\ (Tickling \/ \A h \in heap : Watched(h))
  BY <1>0, <1>1 DEF NoOversleep, Watched
<1>3. CASE Insert(u)
  <2>0. PICK t \in Timers : t = mine[u]
    BY <1>3, Bounds DEF Insert, TypeOK
  <2>1. PICK first \in AtBegin(t) :
            /\ op' = [op EXCEPT ![u] = IF first /\ ~tickled THEN "tickle" ELSE "none"]
    BY <1>3, <2>0 DEF Insert, Continues
  <2>2. /\ heap' \subseteq heap \cup {t} /\ ahead' = ahead /\ op[u] # "tickle"
    BY <1>3, <2>0, Bounds DEF Insert, TypeOK
  <2>3. ~(first /\ ~tickled)
    BY <1>1, <2>1 DEF TypeOK
  <2>4. Tickling' = Tickling
    BY <2>1, <2>2, <2>3 DEF TypeOK
  <2>5. ~tickled /\ ~Tickling
    BY <1>1, <1>2, <2>4 DEF Awake
  <2>6. PICK h \in heap : ahead[h] <= ahead[t]
    <3>1. ~first
      BY <2>3, <2>5
    <3>2. \E h \in heap : ~(ahead[t] <= ahead[h]) \/ ~(ahead[t] < ahead[h])
      BY <3>1 DEF AtBegin
    <3>3. \A h \in heap : ahead[h] \in Int /\ ahead[t] \in Int
      BY <2>2 DEF TypeOK
    <3> QED BY <3>2, <3>3
  <2>7. ahead'[t] \in Int /\ h \in Timers /\ Watched(h) /\ ahead[h] <= ahead'[t]
    BY <1>2, <2>2, <2>5, <2>6 DEF TypeOK
  <2>8. Watched(t)'
    BY <1>0, <2>2, <2>7, LaterWatched
  <2>9. \A g \in heap : Watched(g)'
    BY <1>0, <1>2, <2>2, <2>5 DEF Watched
  <2> QED BY <2>2, <2>8, <2>9
<1>4. CASE Tickle(u)
  <2>1. \E w \in Workers : pc[w] # "work"
    BY <1>1, Bounds
  <2> QED BY <1>1, <1>4, <2>1 DEF Tickle
<1>5. ASSUME ~Insert(u), ~Tickle(u)
      PROVE  ~Tickling
  <2>1. \A v \in Users : op[v] = "tickle" => op'[v] = "tickle"
    BY <1>5 DEF UserStep, ResetCompute, Construct, Cancel, Refresh, ResetErase, Continues,
                Starts, TypeOK, userVars
  <2> QED BY <1>1, <2>1
<1>6. CASE ResetCompute(u)
  <2>1. heap' = heap /\ mine[u] \notin heap /\ \A h \in heap : ahead'[h] = ahead[h]
    BY <1>6 DEF ResetCompute, Continues, IInv, ResetOutsideHeap, InHandOf, Expires, TypeOK
  <2> QED BY <1>0, <1>2, <1>5, <1>6, <2>1 DEF Watched, ResetCompute, Continues, Insert, Tickle
<1>7. ASSUME NEW t \in Timers, Construct(u, t)
      PROVE  \A h \in heap' : Watched(h)'
  <2>1. heap' = heap /\ \A h \in heap : ahead'[h] = ahead[h]
    BY <1>7 DEF Construct, IInv, Constructed, Expires, TypeOK
  <2>2. ~Insert(u) /\ ~Tickle(u)
    BY <1>7 DEF Construct, Starts, Insert, Tickle, Continues
  <2> QED BY <1>0, <1>2, <1>5, <2>1, <2>2 DEF Watched
<1>8. ASSUME NEW t \in Timers, Cancel(u, t) \/ ResetErase(u, t)
      PROVE  \A h \in heap' : Watched(h)'
  <2>1. heap' \subseteq heap /\ ahead' = ahead
    BY <1>8 DEF Cancel, ResetErase, Erased
  <2>2. \A v \in Users : op[v] = "tickle" => op'[v] = "tickle"
    BY <1>8 DEF Cancel, ResetErase, Starts, TypeOK, userVars
  <2> QED BY <1>0, <1>1, <1>2, <2>1, <2>2 DEF Watched
<1>9. ASSUME NEW t \in Timers, Refresh(u, t)
      PROVE  \A h \in heap' : Watched(h)'
  <2>1. t \in heap
    BY <1>9, FoundSelf DEF Refresh
  <2>2. heap' \subseteq heap /\ ahead' = [ahead EXCEPT ![t] = ms[t]] /\ op' = op
    BY <1>9, <2>1 DEF Refresh, Refreshed, Erased, Expires
  <2>3. \A h \in heap : Watched(h)
    BY <1>1, <1>2, <2>2
  <2>4. ASSUME NEW h \in heap
        PROVE  Watched(h)'
    <3>1. h \in Timers /\ ahead'[h] \in Int /\ ahead[h] <= ahead'[h]
      BY <1>1, <2>2, MsType DEF TypeOK, Punctual
    <3> QED BY <1>0, <2>3, <3>1, LaterWatched
  <2> QED BY <2>2, <2>4
<1> QED BY <1>3, <1>4, <1>6, <1>7, <1>8, <1>9 DEF UserStep

\* A worker computes its timeout when it goes to sleep, from the first deadline.
LEMMA OtherStepOversleep ==
    ASSUME TypeOK, NoOversleep, \/ \E w \in Workers : WorkerStep(w)
                                \/ Advance \/ SetBack \/ UNCHANGED vars
    PROVE  NoOversleep'
<1>1. ASSUME NEW w \in Workers, WorkerStep(w), ~Poll(w)
      PROVE  NoOversleep'
  <2>1. pc'[w] # "wait"
    BY <1>1 DEF WorkerStep, GoIdle, EpollReturns, ListExpired, Fire, Goto, TypeOK
  <2> QED BY <2>1 DEF NoOversleep
<1>2. ASSUME NEW w \in Workers, Poll(w)
      PROVE  NoOversleep'
  <2>1. heap' = heap /\ ahead' = ahead /\ wakeIn'[w] = Min({NextTimer, MaxTimeout})
    BY <1>2 DEF Poll, TypeOK
  <2>2. ASSUME NEW h \in heap
        PROVE  wakeIn'[w] <= Max({0, ahead'[h]})
    <3>1. ahead[h] \in Int
      BY DEF TypeOK
    <3>2. Max({0, ahead[h]}) \in Int
      BY <3>1, OfTwo
    <3> QED BY <2>1, <3>2, NextTimerIs, TimeoutIs
  <2> QED BY <2>1, <2>2 DEF NoOversleep
<1>3. CASE Advance
  BY <1>3, AdvanceWatched DEF NoOversleep, Watched, Advance, userVars
<1>4. CASE SetBack
  BY <1>4 DEF SetBack, NoOversleep
<1>5. CASE UNCHANGED vars
  BY <1>5 DEF vars, NoOversleep, timerVars, userVars, workerVars
<1> QED BY <1>1, <1>2, <1>3, <1>4, <1>5

\* What holds in every reachable state.
Sound == IInv /\ TypeOK /\ Punctual /\ Awake /\ (Coincide \/ (ArmedInHeap /\ NoOversleep))

\* The parts together are inductive.
LEMMA Soundness == Spec => []Sound
<1>1. Init => Sound
  <2> SUFFICES ASSUME Init PROVE Sound
    OBVIOUS
  <2>1. Punctual /\ Awake
    BY DEF Init, Punctual, Awake
  <2>2. ArmedInHeap /\ NoOversleep
    BY DEF Init, ArmedInHeap, NoOversleep
  <2> QED BY InitIInv, InitType, <2>1, <2>2 DEF Sound
<1>2. Sound /\ [Next]_vars => Sound'
  <2> SUFFICES ASSUME Sound, [Next]_vars PROVE Sound'
    OBVIOUS
  <2>1. IInv' /\ TypeOK' /\ Punctual' /\ Awake'
    BY UserStepIInv, OtherStepIInv, TypeStep, PunctualStep, AwakeStep DEF Sound, Next
  <2>2. Coincide \/ (ArmedInHeap' /\ NoOversleep')
    BY ArmedStep, UserStepOversleep, OtherStepOversleep DEF Sound, Next
  <2> QED BY <2>1, <2>2 DEF Sound
<1> QED BY <1>1, <1>2, PTL DEF Spec

\* The types are right, and no operation and no expiry drops a timer that has neither
\* fired nor been cancelled (timer.cpp:17 to 92, 151 to 180), as long as no two
\* deadlines coincide.
THEOREM NoTimerLost == ASSUME ~Coincide PROVE Spec => []TimerInv
<1>1. Sound => TimerInv
  BY DEF Sound, TimerInv
<1> QED BY <1>1, Soundness, PTL

\* m_tickled (timer.cpp:128, 195) admits one tickle only, and still the workers never
\* all sleep past a deadline, whatever is inserted while they go to sleep.
THEOREM OnTime == ASSUME ~Coincide PROVE Spec => []NoOversleep
<1>1. Sound => NoOversleep
  BY DEF Sound
<1> QED BY <1>1, Soundness, PTL

\* Callbacks are handed out by listExpiredCb alone.
LEMMA ExpiredBy ==
    ASSUME Sound, [Next]_vars, NEW w \in Workers, expired'[w] \ expired[w] # {}
    PROVE  /\ ~(Rollover /\ heap \cap Recurring # {})
           /\ expired'[w] \ expired[w] \subseteq Popped(w)
           /\ heap' = (heap \ Popped(w)) \cup Reinserted(w)
<1>1. CASE UNCHANGED expired
  BY <1>1
<1>2. ASSUME NEW v \in Workers, ListExpired(v)
      PROVE  /\ ~(Rollover /\ heap \cap Recurring # {})
             /\ expired'[w] \ expired[w] \subseteq Popped(w)
             /\ heap' = (heap \ Popped(w)) \cup Reinserted(w)
  <2>1. ~(Rollover /\ heap \cap Recurring # {})
    BY <1>2 DEF ListExpired
  <2>2. expired' = [expired EXCEPT ![v] = Popped(v) \cap armed]
    BY <1>2, <2>1 DEF ListExpired
  <2>3. v = w
    BY <2>2 DEF Sound, TypeOK
  <2> QED BY <1>2, <2>1, <2>2, <2>3 DEF ListExpired, Sound, TypeOK
<1>3. ASSUME NEW v \in Workers, Fire(v)
      PROVE  FALSE
  BY <1>3 DEF Fire, Sound, TypeOK
<1>4. ASSUME NEW u \in Users, UserStep(u)
      PROVE  UNCHANGED expired
  BY <1>4 DEF UserStep, Insert, Tickle, ResetCompute, Construct, Cancel, Refresh,
              ResetErase, workerVars
<1>5. ASSUME NEW v \in Workers, GoIdle(v) \/ Poll(v) \/ EpollReturns(v)
      PROVE  UNCHANGED expired
  BY <1>5 DEF GoIdle, Poll, EpollReturns
<1>6. CASE Advance \/ SetBack \/ UNCHANGED vars
  BY <1>6 DEF Advance, SetBack, vars, workerVars
<1> QED
  BY <1>1, <1>2, <1>3, <1>4, <1>5, <1>6 DEF Next, WorkerStep

\* Until the clock is set back, nothing expires before its time: a worker's reading of
\* the clock may be old by when it has the lock (timer.cpp:153), never too new.
THEOREM NothingEarly == Spec => NeverEarly
<1> DEFINE Early == ~jumped => \A w \in Workers : \A t \in expired'[w] \ expired[w] : ahead[t] <= 0
<1>1. ASSUME Sound, [Next]_vars
      PROVE  Early
  <2> SUFFICES ASSUME ~jumped, NEW w \in Workers, NEW t \in expired'[w] \ expired[w]
               PROVE  ahead[t] <= 0
    OBVIOUS
  <2>1. t \in Popped(w)
    BY <1>1, ExpiredBy
  <2>2. ~Rollover
    BY <1>1, Bounds DEF Sound, Punctual, Rollover, TypeOK
  <2>3. t \in Timers /\ ahead[t] + age[w] <= 0
    BY <1>1, <2>1, <2>2 DEF Popped, Sound, TypeOK
  <2>4. ahead[t] \in Int /\ age[w] \in Int /\ age[w] >= 0
    BY <1>1, <2>3 DEF Sound, TypeOK, Punctual
  <2> QED BY <2>3, <2>4
<1>2. Sound /\ [Next]_vars => [Early]_vars
  BY <1>1
<1> QED
  BY <1>2, Soundness, PTL DEF NeverEarly, Spec

\* And a recurring timer that expires is in the set again at once (timer.cpp:169),
\* as long as no two deadlines coincide.
THEOREM Expiries == ASSUME ~Coincide PROVE Spec => ExpiriesRight
<1> DEFINE Stays == \A t \in Recurring : (\E w \in Workers : t \in expired'[w] \ expired[w]) => t \in heap'
<1>1. ASSUME Sound, [Next]_vars
      PROVE  Stays
  BY <1>1, ExpiredBy DEF Reinserted
<1>2. Sound /\ [Next]_vars => [Stays]_vars
  BY <1>1
<1>3. Spec => RecurringStays
  BY <1>2, Soundness, PTL DEF RecurringStays, Spec
<1> QED
  BY <1>3, NothingEarly DEF ExpiriesRight
==============================================================================
