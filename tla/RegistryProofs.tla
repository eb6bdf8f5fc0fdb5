--------------------------- MODULE RegistryProofs ---------------------------
(***************************************************************************)
(* Theorems about Registry, for any providers and clients, any number of   *)
(* threads of the centre and any MaxLate.                                  *)
(*                                                                         *)
(* Each bound on how long something lasts is proved from the clock that    *)
(* ends it: what has passed, plus what is left on the clock, stays below   *)
(* the period of the clock and what may be late.                           *)
(***************************************************************************)
EXTENDS Registry, TLAPS

\* An entry of a provider that is down: what it still had on its way may have renewed the
\* entry once, then age runs to Expiry and look to the round that finds it.
GoneInv ==
    /\ service_map # None => up
    /\ stale <= StaleLimit
    /\ service_map # None /\ state[service_map] = "down" =>
         /\ age <= Expiry => stale <= age + MaxLate
         /\ stale + look <= Expiry + LookEvery + MaxLate
         /\ sent[service_map] >= 0 => stale <= sent[service_map]

\* A provider without its connection: one heartbeat is sent in vain, the next one fails.
LostInv ==
    \A p \in Providers :
        /\ state[p] = "down" \/ clientfd[p] = "up" => lost[p] = 0
        /\ state[p] # "down" /\ clientfd[p] = "half" => lost[p] + beat[p] <= HeartEvery
        /\ lost[p] + beat[p] <= 2 * HeartEvery + MaxLate

\* A listed provider is up and on the line, and its next heartbeat brings the entry back.
AbsentInv ==
    /\ service_map # None => absent = 0
    /\ absent <= AbsenceLimit
    /\ \A p \in listed :
         /\ clientfd[p] = "up"
         /\ sent[p] = -1 => absent + beat[p] <= HeartEvery
         /\ absent <= HeartEvery + MaxLate + (IF sent[p] = -1 THEN 0 ELSE sent[p])

\* Its heartbeats also keep the entry, whoever's it is, young.
AgeInv ==
    /\ service_map = None => age = 0
    /\ \A p \in listed :
         /\ sent[p] = -1 => age + beat[p] <= HeartEvery
         /\ age <= HeartEvery + MaxLate + (IF sent[p] = -1 THEN 0 ELSE sent[p])

IInv == TypeOK /\ GoneInv /\ LostInv /\ AbsentInv /\ AgeInv

USE RegistryAssumption DEF HeartEvery, LookEvery, Expiry, centreVars, providerVars,
                          clientVars, ghostVars

\* A provider starts with a full period before its first heartbeat, and is not listed yet.
LEMMA LaunchKeeps ==
    ASSUME IInv, NEW p \in Providers, Launch(p)
    PROVE  IInv'
<1> USE DEF IInv, Launch
<1>1. TypeOK'
  BY DEF TypeOK
<1>2. GoneInv'
  BY DEF TypeOK, GoneInv, StaleLimit
<1>3. LostInv'
  BY DEF TypeOK, LostInv
<1>4. AbsentInv'
  BY DEF TypeOK, AbsentInv, AbsenceLimit
<1>5. AgeInv'
  BY DEF TypeOK, AgeInv, AbsentInv
<1> QED BY <1>1, <1>2, <1>3, <1>4, <1>5

\* Starting to listen moves no clock.
LEMMA ServeKeeps ==
    ASSUME IInv, NEW p \in Providers, Serve(p)
    PROVE  IInv'
<1> USE DEF IInv, Serve
<1>1. TypeOK'
  BY DEF TypeOK
<1>2. GoneInv'
  BY DEF TypeOK, GoneInv, StaleLimit
<1>3. LostInv'
  BY DEF TypeOK, LostInv
<1>4. AbsentInv'
  BY DEF TypeOK, AbsentInv, AbsenceLimit
<1>5. AgeInv'
  BY DEF TypeOK, AgeInv, AbsentInv
<1> QED BY <1>1, <1>2, <1>3, <1>4, <1>5

\* A heartbeat is sent, is swallowed by a half-open connection, or ends the provider.
LEMMA BeatKeeps ==
    ASSUME IInv, NEW p \in Providers, Beat(p)
    PROVE  IInv'
<1> USE DEF IInv, Beat, Exits
<1>1. TypeOK'
  BY DEF TypeOK
<1>2. GoneInv'
  BY DEF TypeOK, GoneInv, StaleLimit
<1>3. LostInv'
  BY DEF TypeOK, LostInv
<1>4. AbsentInv'
  BY DEF TypeOK, AbsentInv, AbsenceLimit
<1>5. AgeInv'
  BY DEF TypeOK, AgeInv, AbsentInv
<1> QED BY <1>1, <1>2, <1>3, <1>4, <1>5

\* A provider that goes leaves at most what it has on its way.
LEMMA KillKeeps ==
    ASSUME IInv, NEW p \in Providers, Kill(p)
    PROVE  IInv'
<1> USE DEF IInv, Kill, Exits
<1>1. TypeOK'
  BY DEF TypeOK
<1>2. GoneInv'
  BY DEF TypeOK, GoneInv, StaleLimit
<1>3. LostInv'
  BY DEF TypeOK, LostInv
<1>4. AbsentInv'
  BY DEF TypeOK, AbsentInv, AbsenceLimit
<1>5. AgeInv'
  BY DEF TypeOK, AgeInv
<1> QED BY <1>1, <1>2, <1>3, <1>4, <1>5

\* The centre reads a registration: the entry is new, and nothing is absent.
LEMMA ProcessKeeps ==
    ASSUME IInv, NEW p \in Providers, Process(p)
    PROVE  IInv'
<1> USE DEF IInv, Process, HandlersRun, NotifyService
<1>1. TypeOK'
  BY DEF TypeOK
<1>2. GoneInv'
  BY DEF TypeOK, GoneInv, StaleLimit
<1>3. LostInv'
  BY DEF TypeOK, LostInv
<1>4. AbsentInv'
  BY DEF TypeOK, AbsentInv, AbsenceLimit
<1>5. AgeInv'
  BY DEF TypeOK, AgeInv
<1> QED BY <1>1, <1>2, <1>3, <1>4, <1>5

\* What clients do disturbs no bound.
LEMMA OpenKeeps ==
    ASSUME IInv, NEW c \in Clients, Open(c)
    PROVE  IInv'
<1> USE DEF IInv, Open
<1>1. TypeOK'
  BY DEF TypeOK
<1>2. GoneInv'
  BY DEF TypeOK, GoneInv, StaleLimit
<1>3. LostInv'
  BY DEF TypeOK, LostInv
<1>4. AbsentInv'
  BY DEF TypeOK, AbsentInv, AbsenceLimit
<1>5. AgeInv'
  BY DEF TypeOK, AgeInv
<1> QED BY <1>1, <1>2, <1>3, <1>4, <1>5

LEMMA GetIpAndPortKeeps ==
    ASSUME IInv, NEW c \in Clients, GetIpAndPort(c)
    PROVE  IInv'
<1> USE DEF IInv, GetIpAndPort, CallingMethods, HandlersRun
<1>1. TypeOK'
  BY DEF TypeOK
<1>2. GoneInv'
  BY DEF TypeOK, GoneInv, StaleLimit
<1>3. LostInv'
  BY DEF TypeOK, LostInv
<1>4. AbsentInv'
  BY DEF TypeOK, AbsentInv, AbsenceLimit
<1>5. AgeInv'
  BY DEF TypeOK, AgeInv
<1> QED BY <1>1, <1>2, <1>3, <1>4, <1>5

LEMMA CallFailsKeeps ==
    ASSUME IInv, NEW c \in Clients, CallFails(c)
    PROVE  IInv'
<1> USE DEF IInv, CallFails
<1>1. TypeOK'
  BY DEF TypeOK
<1>2. GoneInv'
  BY DEF TypeOK, GoneInv, StaleLimit
<1>3. LostInv'
  BY DEF TypeOK, LostInv
<1>4. AbsentInv'
  BY DEF TypeOK, AbsentInv, AbsenceLimit
<1>5. AgeInv'
  BY DEF TypeOK, AgeInv
<1> QED BY <1>1, <1>2, <1>3, <1>4, <1>5

LEMMA CloseIdleKeeps ==
    ASSUME IInv, NEW c \in Clients, CloseIdle(c)
    PROVE  IInv'
<1> USE DEF IInv, CloseIdle, HandlersRun
<1>1. TypeOK'
  BY DEF TypeOK
<1>2. GoneInv'
  BY DEF TypeOK, GoneInv, StaleLimit
<1>3. LostInv'
  BY DEF TypeOK, LostInv
<1>4. AbsentInv'
  BY DEF TypeOK, AbsentInv, AbsenceLimit
<1>5. AgeInv'
  BY DEF TypeOK, AgeInv
<1> QED BY <1>1, <1>2, <1>3, <1>4, <1>5

\* doHeartbeat finds the entry too old, or sleeps for another period.
LEMMA LookKeeps ==
    ASSUME IInv, Look
    PROVE  IInv'
<1> USE DEF IInv, Look
<1>0. look' \in -MaxLate .. LookEvery
  BY DEF TypeOK
<1>1. TypeOK'
  BY <1>0 DEF TypeOK
<1>2. GoneInv'
  BY DEF TypeOK, GoneInv, StaleLimit
<1>3. LostInv'
  BY DEF TypeOK, LostInv
<1>4. AbsentInv'
  BY DEF TypeOK, AbsentInv, AbsenceLimit
<1>5. AgeInv'
  BY DEF TypeOK, AgeInv
<1> QED BY <1>1, <1>2, <1>3, <1>4, <1>5

\* The entry is erased, be it a renewed one: its heartbeats bring it back.
LEMMA EraseKeeps ==
    ASSUME IInv, Erase
    PROVE  IInv'
<1> USE DEF IInv, Erase
<1>0. /\ look' \in -MaxLate .. LookEvery /\ age' \in 0 .. Expiry + 1
      /\ stale' \in Nat /\ absent' \in Nat
  BY DEF TypeOK
<1>1. TypeOK'
  BY <1>0 DEF TypeOK
<1>2. GoneInv'
  BY DEF TypeOK, GoneInv, StaleLimit
<1>3. LostInv'
  BY DEF TypeOK, LostInv
<1>4. AbsentInv'
  BY DEF TypeOK, AbsentInv, AbsenceLimit
<1>5. AgeInv'
  BY DEF TypeOK, AgeInv
<1> QED BY <1>1, <1>2, <1>3, <1>4, <1>5

\* The centre forgets everything, and so does every bound but the one on lost.
LEMMA CrashKeeps ==
    ASSUME IInv, Crash
    PROVE  IInv'
<1> USE DEF IInv, Crash
<1>0. /\ look' \in -MaxLate .. LookEvery /\ age' \in 0 .. Expiry + 1
      /\ stale' \in Nat /\ absent' \in Nat
  BY DEF TypeOK
<1>a. /\ sent' \in [Providers -> -1 .. MaxLate]
      /\ clientfd' \in [Providers -> {"none", "up", "half", "dead"}]
      /\ conn' \in [Clients -> {"none", "up", "half", "dead", "exited"}]
  BY DEF TypeOK
<1>1. TypeOK'
  BY <1>0, <1>a DEF TypeOK
<1>2. GoneInv'
  BY DEF TypeOK, GoneInv, StaleLimit
<1>3. LostInv'
  BY DEF TypeOK, LostInv
<1>4. AbsentInv'
  BY DEF TypeOK, AbsentInv, AbsenceLimit
<1>5. AgeInv'
  BY DEF TypeOK, AgeInv
<1> QED BY <1>1, <1>2, <1>3, <1>4, <1>5

\* A centre that starts knows nothing.
LEMMA RestartKeeps ==
    ASSUME IInv, Restart
    PROVE  IInv'
<1> USE DEF IInv, Restart
<1>1. TypeOK'
  BY DEF TypeOK
<1>2. GoneInv'
  BY DEF TypeOK, GoneInv, StaleLimit
<1>3. LostInv'
  BY DEF TypeOK, LostInv
<1>4. AbsentInv'
  BY DEF TypeOK, AbsentInv, AbsenceLimit
<1>5. AgeInv'
  BY DEF TypeOK, AgeInv
<1> QED BY <1>1, <1>2, <1>3, <1>4, <1>5

\* Time passes for all clocks at once: what a bound gains on one side it loses on the other.
LEMMA TickKeeps ==
    ASSUME IInv, Tick
    PROVE  IInv'
<1> USE DEF IInv, Tick, Later, StaleLimit, LossLimit, AbsenceLimit
<1>1. TypeOK'
  BY DEF TypeOK
<1>2. GoneInv'
  BY DEF TypeOK, GoneInv, StaleLimit
<1>3. LostInv'
  BY DEF TypeOK, LostInv
<1>4. AbsentInv'
  BY DEF TypeOK, AbsentInv, AbsenceLimit
<1>5. AgeInv'
  BY DEF TypeOK, AgeInv, AbsentInv
<1> QED BY <1>1, <1>2, <1>3, <1>4, <1>5

\* The centre starts empty, all providers down.
LEMMA InitIInv == Init => IInv
<1> SUFFICES ASSUME Init PROVE IInv
  OBVIOUS
<1>1. TypeOK
  <2>1. /\ look \in -MaxLate .. LookEvery /\ age \in 0 .. Expiry + 1
        /\ beat \in [Providers -> -MaxLate .. HeartEvery] /\ sent \in [Providers -> -1 .. MaxLate]
    BY DEF Init
  <2> QED BY <2>1 DEF Init, TypeOK
<1>2. GoneInv
  BY DEF Init, GoneInv, StaleLimit
<1>3. LostInv
  <2>1. ASSUME NEW p \in Providers
        PROVE  state[p] = "down" /\ lost[p] = 0 /\ beat[p] = 0
    BY DEF Init
  <2>2. MaxLate \in Nat
    OBVIOUS
  <2>3. 0 + 0 <= HeartEvery /\ 0 + 0 <= 2 * HeartEvery + MaxLate
    BY <2>2
  <2>4. ASSUME NEW p \in Providers
        PROVE  /\ lost[p] = 0
               /\ lost[p] + beat[p] <= HeartEvery
               /\ lost[p] + beat[p] <= 2 * HeartEvery + MaxLate
    BY <2>1, <2>3
  <2> QED BY <2>4 DEF LostInv
<1>4. AbsentInv
  BY DEF Init, AbsentInv, AbsenceLimit
<1>5. AgeInv
  BY DEF Init, AgeInv
<1> QED BY <1>1, <1>2, <1>3, <1>4, <1>5 DEF IInv

\* A step that changes nothing.
LEMMA StutterKeeps ==
    ASSUME IInv, UNCHANGED vars
    PROVE  IInv'
  BY DEF IInv, vars, TypeOK, GoneInv, LostInv, AbsentInv, AgeInv

\* Every step of providers, centre, clients and time keeps the invariant.
LEMMA NextIInv ==
    ASSUME IInv, [Next]_vars
    PROVE  IInv'
<1>1. CASE \E p \in Providers : Launch(p) \/ Serve(p) \/ Beat(p) \/ Kill(p) \/ Process(p)
  BY <1>1, LaunchKeeps, ServeKeeps, BeatKeeps, KillKeeps, ProcessKeeps
<1>2. CASE \E c \in Clients : Open(c) \/ GetIpAndPort(c) \/ CallFails(c) \/ CloseIdle(c)
  BY <1>2, OpenKeeps, GetIpAndPortKeeps, CallFailsKeeps, CloseIdleKeeps
<1>3. CASE Look \/ Erase \/ Crash \/ Restart \/ Tick
  BY <1>3, LookKeeps, EraseKeeps, CrashKeeps, RestartKeeps, TickKeeps
<1>4. CASE UNCHANGED vars
  BY <1>4, StutterKeeps
<1> QED BY <1>1, <1>2, <1>3, <1>4 DEF Next

\* The invariant holds in every state that centre, providers and clients can reach.
THEOREM Invariance == Spec => []IInv
  BY InitIInv, NextIInv, PTL DEF Spec

\* doHeartbeat removes a provider that has gone within StaleLimit, for any MaxLate
\* (rpc_server.cpp:18 to 36).
THEOREM StaleBound == Spec => []StaleBounded
<1>1. IInv => StaleBounded
  BY DEF IInv, GoneInv, StaleBounded
<1> QED BY <1>1, Invariance, PTL

\* A provider that the centre has forgotten exits within two heartbeats, each at most
\* MaxLate late (exampleService.cpp:135 to 142).
THEOREM Unlisted == Spec => []NobodyServesUnlisted
<1>1. ASSUME IInv, NEW p \in Providers
      PROVE  lost[p] <= LossLimit
  <2>1. /\ lost[p] \in Nat /\ beat[p] \in -MaxLate .. HeartEvery /\ MaxLate \in Nat
        /\ lost[p] + beat[p] <= 2 * HeartEvery + MaxLate
    BY <1>1 DEF IInv, TypeOK, LostInv
  <2> QED BY <2>1 DEF LossLimit
<1>2. IInv => NobodyServesUnlisted
  BY <1>1 DEF NobodyServesUnlisted
<1> QED BY <1>2, Invariance, PTL

\* Types, and that an entry erased by mistake is back one heartbeat later.
THEOREM Safety == Spec => []RegistryInv
<1>1. IInv => RegistryInv
  BY DEF IInv, AbsentInv, RegistryInv, AbsentBriefly
<1> QED BY <1>1, Invariance, PTL

\* With everything at most one tick late, doHeartbeat never finds the entry of a provider
\* on the line too old: its heartbeats keep the entry younger than the 60 seconds
\* (rpc_server.cpp:25 against exampleService.cpp:134).
THEOREM HeartbeatsEnough ==
    ASSUME MaxLate <= 1
    PROVE  Spec => HeartbeatsSuffice
<1>1. ASSUME IInv, Look, ~expired /\ expired'
      PROVE  listed = {}
  <2>1. age > Expiry
    BY <1>1 DEF Look
  <2>2. ASSUME NEW p \in listed
        PROVE  FALSE
    <3>1. /\ sent[p] \in -1 .. MaxLate /\ age \in Nat /\ MaxLate \in Nat
          /\ age <= HeartEvery + MaxLate + (IF sent[p] = -1 THEN 0 ELSE sent[p])
      BY <1>1 DEF IInv, TypeOK, AgeInv
    <3> QED BY <2>1, <3>1
  <2> QED BY <2>2
<1>2. IInv /\ [Next]_vars => [~expired /\ expired' => listed = {}]_vars
  <2> SUFFICES ASSUME IInv, Next, ~expired /\ expired'
               PROVE  listed = {}
    OBVIOUS
  <2>1. Look
    BY DEF Next, Launch, Serve, Beat, Kill, Process, Open, GetIpAndPort, CallFails, CloseIdle,
           Erase, Crash, Restart, Tick, Exits, NotifyService, CallingMethods
  <2> QED BY <1>1, <2>1
<1> QED BY <1>2, Invariance, PTL DEF Spec, HeartbeatsSuffice
=============================================================================
