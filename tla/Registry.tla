------------------------------- MODULE Registry -------------------------------
(***************************************************************************)
(* The registration centre (rpc_server.cpp, rpc_conn.cpp) with the         *)
(* providers that register a method there and repeat it as a heartbeat     *)
(* (exampleService.cpp), and the clients that ask for an address and keep  *)
(* it (exampleclient.cpp).                                                 *)
(*                                                                         *)
(* Time passes in ticks of 15 seconds.  What is due is done at most        *)
(* MaxLate ticks late: a heartbeat, the reading of one, the look for       *)
(* entries that have expired.  One method is modelled: entries of          *)
(* different methods have nothing in common but that look.                 *)
(***************************************************************************)
EXTENDS Integers

CONSTANTS Providers, Clients,
          Workers,   \* threads of the registration centre
          MaxLate,   \* how late something is done, in ticks
          None

ASSUME RegistryAssumption ==
    /\ None \notin Providers
    /\ Workers \in Nat \ {0} /\ MaxLate \in Nat

HeartEvery == 1     \* sleep(15) in doHeart
LookEvery == 2      \* sleep(30) in doHeartbeat
Expiry == 4         \* the 60 seconds in doHeartbeat
StaleLimit == Expiry + LookEvery + 2 * MaxLate
LossLimit == 2 * (HeartEvery + MaxLate)
AbsenceLimit == HeartEvery + 2 * MaxLate
\* A counter stops above all that it is compared with.
Later(n, limit) == IF n <= limit THEN n + 1 ELSE n

VARIABLES
    up,           \* the registration centre runs
    service_map,  \* the provider entered for the method, or None
    age,          \* ticks since time_map was set for it
    look,         \* ticks until doHeartbeat wakes; 0 and below: it is due
    expired,      \* doHeartbeat has found the entry too old and is about to erase it
    state,        \* providers: "down", "starting" (registered) or "serving" (listening)
    clientfd,     \* their connection: "none", "up", "half" (far end gone) or "dead"
    beat,         \* ticks until a heartbeat, as for look
    sent,         \* ticks a registration has been on its way, -1 if there is none
    addr,         \* Serviceip and Serviceport of a client
    conn,         \* its connection: as clientfd, or "exited" with the client
    stale,        \* ticks for which the provider that is entered has been down
    lost,         \* ticks a provider has been up without its connection
    listed,       \* providers that the centre has heard of since it or they started
    absent        \* ticks without an entry although a provider is listed

centreVars == <<up, service_map, age, look, expired>>
providerVars == <<state, clientfd, beat, sent>>
clientVars == <<addr, conn>>
ghostVars == <<stale, lost, listed, absent>>
vars == <<centreVars, providerVars, clientVars, ghostVars>>

Init ==
    /\ up = TRUE /\ service_map = None /\ age = 0 /\ look = LookEvery /\ expired = FALSE
    /\ state = [p \in Providers |-> "down"]
    /\ clientfd = [p \in Providers |-> "none"]
    /\ beat = [p \in Providers |-> 0]
    /\ sent = [p \in Providers |-> -1]
    /\ addr = [c \in Clients |-> None]
    /\ conn = [c \in Clients |-> "exited"]
    /\ stale = 0
    /\ lost = [p \in Providers |-> 0]
    /\ listed = {} /\ absent = 0

\* With one thread, doHeartbeat and the handlers do not interleave: nothing it does
\* between two sleeps gives the thread away.
HandlersRun == up /\ (Workers > 1 \/ ~expired)
-----------------------------------------------------------------------------
(* A provider                                                              *)

Exits(p) ==
    /\ state' = [state EXCEPT ![p] = "down"]
    /\ clientfd' = [clientfd EXCEPT ![p] = "none"]
    /\ beat' = [beat EXCEPT ![p] = 0]
    /\ stale' = IF service_map = p THEN 0 ELSE stale
    /\ lost' = [lost EXCEPT ![p] = 0]
    /\ listed' = listed \ {p}
    /\ UNCHANGED <<sent, absent>>

\* sendRegistrationCenter, until it connects, and doHeart is scheduled.  Whether SendData
\* worked is not looked at: if it did not, clientfd is -1 from here on.
Launch(p) ==
    /\ state[p] = "down" /\ up
    /\ state' = [state EXCEPT ![p] = "starting"]
    /\ beat' = [beat EXCEPT ![p] = HeartEvery]
    /\ \/ /\ clientfd' = [clientfd EXCEPT ![p] = "up"]
          /\ sent' = [sent EXCEPT ![p] = 0]
       \/ UNCHANGED <<clientfd, sent>>
    /\ lost' = [lost EXCEPT ![p] = 0]
    /\ UNCHANGED <<centreVars, clientVars, stale, listed, absent>>

\* bind has worked in the end, and start: the provider listens.
Serve(p) ==
    /\ state[p] = "starting"
    /\ state' = [state EXCEPT ![p] = "serving"]
    /\ UNCHANGED <<centreVars, clientfd, beat, sent, clientVars, ghostVars>>

\* mutant: a heartbeat that fails is passed over
BeatShrugs(p) ==
    /\ state[p] # "down" /\ beat[p] <= 0
    /\ beat' = [beat EXCEPT ![p] = HeartEvery]
    /\ sent' = IF clientfd[p] = "up" /\ sent[p] = -1 THEN [sent EXCEPT ![p] = 0] ELSE sent
    /\ UNCHANGED <<centreVars, state, clientfd, clientVars, ghostVars>>
\* A turn of doHeart.  The first send after the centre has gone still succeeds; the next
\* one fails, by SIGPIPE or by an error that makes doHeart call exit(1).
Beat(p) ==
    /\ state[p] # "down" /\ beat[p] <= 0
    /\ \/ /\ clientfd[p] \in {"up", "half"}
          /\ beat' = [beat EXCEPT ![p] = HeartEvery]
          /\ IF clientfd[p] = "up"
             THEN /\ sent' = IF sent[p] = -1 THEN [sent EXCEPT ![p] = 0] ELSE sent
                  /\ UNCHANGED clientfd
             ELSE clientfd' = [clientfd EXCEPT ![p] = "dead"] /\ UNCHANGED sent
          /\ UNCHANGED <<state, ghostVars>>
       \/ clientfd[p] \in {"none", "dead"} /\ Exits(p)
    /\ UNCHANGED <<centreVars, clientVars>>

Kill(p) ==
    /\ state[p] # "down"
    /\ Exits(p)
    /\ UNCHANGED <<centreVars, clientVars>>
-----------------------------------------------------------------------------
(* The registration centre                                                 *)

\* mutant: a heartbeat does not set time_map
NotifyOnce(p) ==
    /\ service_map' = p
    /\ age' = IF service_map = None THEN 0 ELSE age
    /\ stale' = (IF service_map = p THEN stale ELSE 0) /\ absent' = 0
\* mutant: a heartbeat renews what is there, it does not register
NotifyRenews(p) ==
    /\ service_map' = IF p \in listed /\ service_map = None THEN None ELSE p
    /\ age' = 0
    /\ UNCHANGED <<stale, absent>>
\* mutant: only time_map is written
NotifyTime(p) ==
    /\ age' = 0
    /\ UNCHANGED <<service_map, stale, absent>>
\* The entry and its time, under mtx, for a registration and a heartbeat alike.
NotifyService(p) ==
    /\ service_map' = p /\ age' = 0
    /\ stale' = (IF service_map = p THEN stale ELSE 0) /\ absent' = 0

\* read_once and process: what a provider has on its way is read as one message.
Process(p) ==
    /\ HandlersRun /\ sent[p] >= 0
    /\ sent' = [sent EXCEPT ![p] = -1]
    /\ NotifyService(p)
    /\ listed' = IF clientfd[p] = "up" THEN listed \cup {p} ELSE listed
    /\ UNCHANGED <<up, look, expired, state, clientfd, beat, clientVars, lost>>

\* What the centre answers: the address, or "error", which leaves the client without one.
CallingMethods(c) == addr' = [addr EXCEPT ![c] = service_map]

\* doHeartbeat wakes, copies time_map and compares.
Look ==
    /\ up /\ look <= 0 /\ ~expired
    /\ IF service_map # None /\ age > Expiry THEN expired' = TRUE /\ UNCHANGED look
       ELSE look' = LookEvery /\ UNCHANGED expired
    /\ UNCHANGED <<up, service_map, age, providerVars, clientVars, ghostVars>>

\* mutant: only time_map is erased
EraseTime ==
    /\ expired
    /\ age' = 0
    /\ expired' = FALSE /\ look' = LookEvery
    /\ UNCHANGED <<up, service_map, providerVars, clientVars, ghostVars>>
\* It erases what the copy showed to be old, whatever has been entered since.
Erase ==
    /\ expired
    /\ service_map' = None /\ age' = 0
    /\ expired' = FALSE /\ look' = LookEvery
    /\ stale' = 0
    /\ UNCHANGED <<up, providerVars, clientVars, lost, listed, absent>>

\* The centre goes down: all it knew was in memory.
Crash ==
    /\ up
    /\ up' = FALSE /\ service_map' = None /\ age' = 0 /\ look' = LookEvery /\ expired' = FALSE
    /\ sent' = [p \in Providers |-> -1]
    /\ clientfd' = [p \in Providers |-> IF clientfd[p] = "up" THEN "half" ELSE clientfd[p]]
    /\ conn' = [c \in Clients |-> IF conn[c] = "up" THEN "half" ELSE conn[c]]
    /\ stale' = 0 /\ listed' = {} /\ absent' = 0
    /\ UNCHANGED <<state, beat, addr, lost>>

Restart ==
    /\ ~up
    /\ up' = TRUE
    /\ UNCHANGED <<service_map, age, look, expired, providerVars, clientVars, ghostVars>>

\* recv of a handler times out after two minutes, and the handler closes the connection:
\* that of a client, which is silent as long as it has an address.
CloseIdle(c) ==
    /\ HandlersRun /\ conn[c] = "up" /\ addr[c] # None
    /\ conn' = [conn EXCEPT ![c] = "half"]
    /\ UNCHANGED <<centreVars, providerVars, addr, ghostVars>>
-----------------------------------------------------------------------------
(* A client                                                                *)

\* main up to its loop: myConnect, whose result is not looked at.
Open(c) ==
    /\ conn[c] = "exited"
    /\ conn' = [conn EXCEPT ![c] = IF up THEN "up" ELSE "none"]
    /\ addr' = [addr EXCEPT ![c] = None]
    /\ UNCHANGED <<centreVars, providerVars, ghostVars>>

\* GetIpAndPort and CallingMethods.  On a connection the centre has closed, the first
\* send is followed by a recv of 0, which is "no address"; the next send is a SIGPIPE, and
\* without a connection recv returns -1, of which string() throws.
GetIpAndPort(c) ==
    /\ addr[c] = None
    /\ \/ /\ conn[c] = "up" /\ HandlersRun
          /\ CallingMethods(c)
          /\ UNCHANGED conn
       \/ /\ conn[c] \in {"half", "dead", "none"}
          /\ conn' = [conn EXCEPT ![c] = IF conn[c] = "half" THEN "dead" ELSE "exited"]
          /\ UNCHANGED addr
    /\ UNCHANGED <<centreVars, providerVars, ghostVars>>

\* A call that fails makes the client forget the address; one that works changes nothing.
CallFails(c) ==
    /\ addr[c] # None /\ conn[c] # "exited" /\ state[addr[c]] # "serving"
    /\ addr' = [addr EXCEPT ![c] = None]
    /\ UNCHANGED <<centreVars, providerVars, conn, ghostVars>>
-----------------------------------------------------------------------------

Tick ==
    /\ up => look > -MaxLate
    /\ \A p \in Providers : (state[p] # "down" => beat[p] > -MaxLate) /\ sent[p] < MaxLate
    /\ age' = IF service_map = None THEN age ELSE Later(age, Expiry)
    /\ look' = IF up THEN look - 1 ELSE look
    /\ beat' = [p \in Providers |-> IF state[p] = "down" THEN 0 ELSE beat[p] - 1]
    /\ sent' = [p \in Providers |-> IF sent[p] = -1 THEN -1 ELSE sent[p] + 1]
    /\ stale' = IF service_map # None /\ state[service_map] = "down"
                THEN Later(stale, StaleLimit) ELSE 0
    /\ lost' = [p \in Providers |->
                  IF state[p] # "down" /\ clientfd[p] # "up" THEN Later(lost[p], LossLimit) ELSE 0]
    /\ absent' = IF listed # {} /\ service_map = None THEN Later(absent, AbsenceLimit) ELSE 0
    /\ UNCHANGED <<up, service_map, expired, state, clientfd, addr, conn, listed>>

Next ==
    \/ \E p \in Providers : Launch(p) \/ Serve(p) \/ Beat(p) \/ Kill(p) \/ Process(p)
    \/ \E c \in Clients : Open(c) \/ GetIpAndPort(c) \/ CallFails(c) \/ CloseIdle(c)
    \/ Look \/ Erase \/ Crash \/ Restart \/ Tick

Spec == Init /\ [][Next]_vars

\* Time passes, timers wake who sleeps, the handlers of the centre run and a client that
\* has no address asks; nobody owes a launch, a bind that works, a crash or a restart.
FairSpec ==
    /\ Spec
    /\ WF_vars(Tick) /\ WF_vars(Look \/ Erase)
    /\ \A p \in Providers : WF_vars(Beat(p)) /\ SF_vars(Process(p))
    /\ \A c \in Clients : SF_vars(GetIpAndPort(c))
-----------------------------------------------------------------------------

TypeOK ==
    /\ up \in BOOLEAN /\ expired \in BOOLEAN
    /\ service_map \in Providers \cup {None} /\ age \in 0 .. Expiry + 1
    /\ look \in -MaxLate .. LookEvery
    /\ state \in [Providers -> {"down", "starting", "serving"}]
    /\ clientfd \in [Providers -> {"none", "up", "half", "dead"}]
    /\ \A p \in Providers : clientfd[p] = "up" => up /\ state[p] # "down"
    /\ beat \in [Providers -> -MaxLate .. HeartEvery]
    /\ sent \in [Providers -> -1 .. MaxLate]
    /\ addr \in [Clients -> Providers \cup {None}]
    /\ conn \in [Clients -> {"none", "up", "half", "dead", "exited"}]
    /\ lost \in [Providers -> Nat] /\ stale \in Nat
    /\ listed \subseteq Providers /\ absent \in Nat

\* A provider that has gone is not given to clients for ever: the entry lasts no longer
\* than its 60 seconds, a round of doHeartbeat and what is late (rpc_server.cpp:18).
StaleBounded == stale <= StaleLimit

\* Heartbeats outrun expiry: doHeartbeat finds an entry too old only when the centre has
\* no provider on the line (rpc_server.cpp:25 against exampleService.cpp:134).
HeartbeatsSuffice == [][~expired /\ expired' => listed = {}]_vars

\* An entry that doHeartbeat erases although it has been renewed since the copy was made
\* (rpc_server.cpp:22 to 31) is back one heartbeat later.
AbsentBriefly == absent <= AbsenceLimit

\* The type invariant, and no provider missing for long.
RegistryInv == TypeOK /\ AbsentBriefly

\* A provider does not go on serving when the centre has forgotten it: within two
\* heartbeats it notices and exits (exampleService.cpp:135 to 142).
NobodyServesUnlisted == \A p \in Providers : lost[p] <= LossLimit

\* A client that asks over an open connection is given an address if there is a provider
\* (exampleclient.cpp:93 to 101).
ClientFinds ==
    \A c \in Clients :
        addr[c] = None /\ conn[c] = "up"
        ~> addr[c] # None \/ conn[c] # "up" \/ \A p \in Providers : clientfd[p] # "up"
=============================================================================
