--------------------------- MODULE TcpServerProofs ----------------------------
(***************************************************************************)
(* Theorems about TcpServer and the Sockets under it, for any addresses,   *)
(* any number of descriptors and of accept threads.                        *)
(*                                                                         *)
(* FdsOwned counts the holders of a descriptor.  OwnInv says who they are: *)
(* a listening descriptor is the one of its address, any other has a       *)
(* handler or is the user's, and nobody keeps a number that was closed, so *)
(* the lowest free number, which the next socket gets, is nobody's.        *)
(***************************************************************************)
EXTENDS TcpServer, FiniteSetTheorems, NaturalsInduction, WellFoundedInduction, TLAPS

USE DEF kernel, server

\* Who holds which descriptor.
ListedInv == \A a \in Addrs : IF a \in listed
                              THEN /\ lsock[a] \in Fd
                                   /\ fds[lsock[a]].mode = "listen"
                                   /\ fds[lsock[a]].local = a
                              ELSE lsock[a] = 0
ListenInv == \A f \in Fd : fds[f].mode = "listen" => \E a \in listed : lsock[a] = f
ConnInv == \A f \in Fd : /\ fds[f].mode \in {"open", "conn"} <=>
                              handler[f] # "none" \/ user.sock = f
                         /\ handler[f] # "none" => user.sock # f
OwnInv == ListedInv /\ ListenInv /\ ConnInv

\* A Socket that is not connected keeps its cached local address only to reuse it.
UserInv == /\ user.conn => user.sock # 0 /\ fds[user.sock].mode = "conn"
           /\ ~user.conn /\ user.local # None => user.reused
           /\ EndsTrue

\* An accept fiber waits at a descriptor on which accept had nothing yet.
ArmInv == \A a \in Addrs : acceptor[a].pc = "arm" => acceptor[a].fd \in Fd

IInv == TypeOK /\ OwnInv /\ UserInv /\ ArmInv

-----------------------------------------------------------------------------
(* The lowest free descriptor.                                             *)

\* A set of numbers that is not empty has a least element.
LEMMA Least ==
    ASSUME NEW S \in SUBSET Nat, S # {}
    PROVE  \E x \in S : \A y \in S : x <= y
<1> DEFINE R == OpToRel(<, Nat)
<1>1. IsWellFoundedOn(R, Nat)
  BY Zenon, NatLessThanWellFounded
<1>2. PICK x \in S : \A y \in S : <<y, x>> \notin R
  <2> HIDE DEF R
  <2> QED BY <1>1, WFMin
<1>3. \A y \in S : ~ (y < x)
  BY <1>2 DEF OpToRel
<1> QED BY <1>3

\* The number a new descriptor gets is a free one.
LEMMA MinFree == Free # {} => Min(Free) \in Free
<1> SUFFICES ASSUME Free # {} PROVE Min(Free) \in Free
  OBVIOUS
<1>1. Free \in SUBSET Nat
  BY SocketAssumption DEF Free, Fd
<1>2. \E x \in Free : \A y \in Free : x <= y
  BY <1>1, Least
<1> QED BY <1>2 DEF Min

\* The descriptor an operation of the user works on is a real one.
LEMMA UsableFds ==
    ASSUME NEW s, s.sock \in 0 .. MaxFds, NEW f \in Usable(s)
    PROVE  f \in Fd /\ (s.sock = 0 => f \in Free) /\ (s.sock # 0 => f = s.sock)
<1>1. CASE s.sock = 0
  BY <1>1, MinFree DEF Usable, Free
<1>2. CASE s.sock # 0
  BY <1>2, SocketAssumption DEF Usable, Fd
<1> QED BY <1>1, <1>2

-----------------------------------------------------------------------------
(* Types.                                                                  *)

Users == [sock : 0 .. MaxFds, conn : BOOLEAN,
          local : Addrs \cup Ports \cup {None}, remote : Addrs \cup {None},
          tls : 0 .. MaxFds, reused : BOOLEAN]

\* A closed Socket is a Socket.
LEMMA ShutType == ASSUME NEW s \in Users PROVE Shut(s) \in Users
<1>1. PICK b \in BOOLEAN : b = (s.local # None)
  OBVIOUS
<1>2. 0 \in 0 .. MaxFds
  BY SocketAssumption
<1>3. [s EXCEPT !.sock = 0, !.conn = FALSE, !.reused = b] \in Users
  BY <1>2 DEF Users
<1> QED BY <1>1, <1>3 DEF Shut

\* What close(2) does to the kernel's tables stays in their types.
LEMMA SysCloseType ==
    ASSUME SocketTypeOK, NEW F, SysClose(F)
    PROVE  /\ fds' \in [Fd -> [mode : {"closed", "open", "listen", "conn"},
                               local : Addrs \cup Ports \cup {None},
                               peer : Addrs \cup Ports \cup {None}]]
           /\ backlog' \in [Addrs -> 0 .. MaxBacklog]
<1>1. 0 \in 0 .. MaxBacklog
  BY SocketAssumption
<1> QED BY <1>1 DEF SysClose, SocketTypeOK, Closed

\* connect stays in the types, whatever Socket it is called on.
LEMMA DialType ==
    ASSUME SocketTypeOK, NEW s \in Users,
           NEW a \in Addrs \cup {None}, Dial(s, a)
    PROVE  SocketTypeOK'
<1>1. PICK t : t = [s EXCEPT !.remote = a]
  OBVIOUS
<1>2. t \in Users
  BY <1>1 DEF Users
<1>3. CASE user' = t /\ UNCHANGED kernel
  BY <1>2, <1>3 DEF SocketTypeOK, Users
<1>6. ASSUME NEW f \in Usable(s),
             fds' = IF s.sock = 0 THEN [fds EXCEPT ![f] = Open] ELSE fds,
             user' = [t EXCEPT !.sock = f], UNCHANGED <<backlog, armed>>
      PROVE  SocketTypeOK'
  <2>1. f \in Fd /\ f \in 0 .. MaxFds
    BY UsableFds, SocketAssumption DEF Fd, Users
  <2>2. user' \in Users
    BY <1>2, <1>6, <2>1 DEF Users
  <2>3. fds' \in [Fd -> [mode : {"closed", "open", "listen", "conn"},
                         local : Addrs \cup Ports \cup {None},
                         peer : Addrs \cup Ports \cup {None}]]
    BY <1>6, <2>1 DEF SocketTypeOK, Open, Closed
  <2> QED BY <1>6, <2>2, <2>3 DEF SocketTypeOK, Users
<1>4. CASE HookedClose({s.sock} \cap Fd) /\ user' = Shut(t)
  <2>1. user' \in Users
    BY <1>2, <1>4, ShutType
  <2>2. armed' \subseteq Fd
    BY <1>4 DEF HookedClose, SocketTypeOK
  <2> QED BY <1>4, <2>1, <2>2, SysCloseType DEF HookedClose, SocketTypeOK, Users
<1>5. ASSUME NEW f \in Usable(s), NEW p \in Ports,
             \/ UNCHANGED backlog
             \/ backlog[a] < MaxBacklog /\ backlog' = [backlog EXCEPT ![a] = @ + 1],
             fds' = [fds EXCEPT ![f] = [mode |-> "conn", local |-> p, peer |-> a]],
             user' = [t EXCEPT !.sock = f, !.conn = TRUE, !.tls = f,
                               !.remote = RemoteAddress(t, a),
                               !.local = LocalAddress(t, p)],
             UNCHANGED armed
      PROVE  SocketTypeOK'
  <2>1. f \in Fd /\ f \in 0 .. MaxFds
    BY UsableFds, SocketAssumption DEF Fd, Users
  <2>2. RemoteAddress(t, a) \in Addrs \cup {None}
    BY <1>2 DEF RemoteAddress, Users
  <2>3. LocalAddress(t, p) \in Addrs \cup Ports \cup {None}
    BY <1>2 DEF LocalAddress, Users
  <2>4. user' \in Users
    BY <1>2, <1>5, <2>1, <2>2, <2>3 DEF Users
  <2>5. backlog' \in [Addrs -> 0 .. MaxBacklog]
    BY <1>5, SocketAssumption DEF SocketTypeOK
  <2>6. fds' \in [Fd -> [mode : {"closed", "open", "listen", "conn"},
                         local : Addrs \cup Ports \cup {None},
                         peer : Addrs \cup Ports \cup {None}]]
    BY <1>5, <2>1 DEF SocketTypeOK
  <2> QED BY <1>5, <2>4, <2>5, <2>6 DEF SocketTypeOK, Users
<1> QED BY <1>1, <1>3, <1>4, <1>5, <1>6 DEF Dial

\* So do the operations of the user's Socket.
LEMMA UserType ==
    ASSUME SocketTypeOK, UserStep
    PROVE  SocketTypeOK'
<1>1. CASE Close
  <2>1. user' \in Users
    BY <1>1, ShutType DEF Close, SocketTypeOK, Users
  <2>2. armed' \subseteq Fd
    BY <1>1 DEF Close, HookedClose, SocketTypeOK
  <2> QED BY <1>1, <2>1, <2>2, SysCloseType DEF Close, HookedClose, SocketTypeOK, Users
<1>2. CASE Reconnect
  <2>1. PICK s : s = [user EXCEPT !.local = None, !.reused = FALSE]
    OBVIOUS
  <2>2. /\ user.remote \in Addrs \cup {None}
        /\ s \in Users
    BY <2>1 DEF SocketTypeOK, Users
  <2> QED BY <1>2, <2>1, <2>2, DialType DEF Reconnect
<1>3. ASSUME NEW a \in Addrs, Connect(a)
      PROVE  SocketTypeOK'
  BY <1>3, DialType DEF Connect, SocketTypeOK, Users
<1> QED BY <1>1, <1>2, <1>3 DEF UserStep

AcceptorType == [pc : {"none", "task", "loop", "call", "arm", "wait"}, fd : 0 .. MaxFds]

ServerTypeOK ==
  /\ isStop \in BOOLEAN
  /\ listed \subseteq Addrs
  /\ lsock \in [Addrs -> 0 .. MaxFds]
  /\ acceptor \in [Addrs -> AcceptorType]
  /\ stopper \in {"none", "task", "close"}
  /\ handler \in [Fd -> {"none", "task", "read"}]
  /\ arrived \in 0 .. MaxArrivals

\* The type invariant is that of Socket and that of the server.
LEMMA TypeParts == TypeOK <=> SocketTypeOK /\ ServerTypeOK
BY DEF TypeOK, ServerTypeOK, AcceptorType

\* The initial states have their types.
LEMMA TypeInit == Init => TypeOK
<1> SUFFICES ASSUME Init PROVE TypeOK
  OBVIOUS
<1>1. 0 \in 0 .. MaxFds /\ 0 \in 0 .. MaxBacklog /\ 0 \in 0 .. MaxArrivals
  BY SocketAssumption, ServerAssumption
<1>2. SocketTypeOK
  BY <1>1 DEF Init, SocketInit, SocketTypeOK, Closed, Unborn
<1>3. ServerTypeOK
  BY <1>1 DEF Init, ServerTypeOK, AcceptorType
<1> QED BY <1>2, <1>3, TypeParts

\* bind, whether it succeeds or closes what it has opened.
LEMMA BindType ==
    ASSUME SocketTypeOK, ServerTypeOK, NEW A \in SUBSET Addrs, Bind(A)
    PROVE  SocketTypeOK' /\ ServerTypeOK'
<1>0. 0 \in 0 .. MaxFds /\ Fd \subseteq 0 .. MaxFds /\ Free \subseteq Fd
  BY SocketAssumption DEF Fd, Free
<1>1. ASSUME NEW g \in [A -> Free], Listens(A, g), UNCHANGED <<backlog, armed, user>>
      PROVE  SocketTypeOK'
  <2>1. \A f \in Fd : (\E a \in A : g[a] = f) => (CHOOSE a \in A : g[a] = f) \in Addrs
    OBVIOUS
  <2>2. fds' \in [Fd -> [mode : {"closed", "open", "listen", "conn"},
                         local : Addrs \cup Ports \cup {None},
                         peer : Addrs \cup Ports \cup {None}]]
    BY <1>1, <2>1 DEF Listens, SocketTypeOK
  <2> QED BY <1>1, <2>2 DEF SocketTypeOK
<1>2. CASE BindFails(A)
  <2>1. HookedClose({lsock[a] : a \in listed}) /\ UNCHANGED user
    BY <1>2 DEF Bind
  <2>2. SocketTypeOK'
    BY <2>1, SysCloseType DEF HookedClose, SocketTypeOK
  <2> QED BY <1>0, <1>2, <2>2 DEF Bind, ServerTypeOK
<1>3. CASE ~BindFails(A)
  <2>1. PICK g \in [A -> Free] :
          /\ Listens(A, g)
          /\ lsock' = [a \in Addrs |-> IF a \in A THEN g[a] ELSE lsock[a]]
    BY <1>3 DEF Bind
  <2>2. SocketTypeOK'
    BY <1>1, <1>3, <2>1 DEF Bind
  <2> QED BY <1>0, <1>3, <2>1, <2>2 DEF Bind, ServerTypeOK
<1> QED BY <1>2, <1>3

\* start, stop and the function stop schedules.
LEMMA StopType ==
    ASSUME SocketTypeOK, ServerTypeOK, Start \/ Stop \/ StopCancel \/ StopClose
    PROVE  SocketTypeOK' /\ ServerTypeOK'
<1>0. 0 \in 0 .. MaxFds
  BY SocketAssumption
<1>1. CASE Start
  BY <1>0, <1>1 DEF Start, SocketTypeOK, ServerTypeOK, AcceptorType
<1>2. CASE Stop
  BY <1>2 DEF Stop, SocketTypeOK, ServerTypeOK
<1>3. CASE StopCancel
  BY <1>3 DEF StopCancel, SocketTypeOK, ServerTypeOK
<1>4. CASE StopClose
  <2>1. SocketTypeOK'
    BY <1>4, SysCloseType DEF StopClose, HookedClose, SocketTypeOK
  <2> QED BY <1>0, <1>4, <2>1 DEF StopClose, ServerTypeOK
<1> QED BY <1>1, <1>2, <1>3, <1>4

\* One step of an accept fiber.
LEMMA AcceptorStepType ==
    ASSUME SocketTypeOK, ServerTypeOK, ArmInv, NEW a \in Addrs, AcceptorStep(a)
    PROVE  SocketTypeOK' /\ ServerTypeOK'
<1>0. 0 \in 0 .. MaxFds
  BY SocketAssumption
<1>1. ASSUME NEW p \in {"none", "task", "loop", "call", "arm", "wait"}, Goes(a, p)
      PROVE  acceptor' \in [Addrs -> AcceptorType]
  BY <1>1 DEF Goes, ServerTypeOK, AcceptorType
<1>2. CASE Resume(a)
  BY <1>1, <1>2 DEF Resume, SocketTypeOK, ServerTypeOK
<1>3. CASE Loop(a)
  <2>1. acceptor' \in [Addrs -> AcceptorType]
    BY <1>0, <1>3 DEF Loop, ServerTypeOK, AcceptorType
  <2> QED BY <1>3, <2>1 DEF Loop, SocketTypeOK, ServerTypeOK
<1>4. CASE Accept(a)
  <2>1. PICK p \in {"loop", "arm"} : Goes(a, p)
    BY <1>4 DEF Accept, AcceptFails, AcceptWaits, AcceptGives
  <2>2. CASE UNCHANGED <<fds, backlog, handler>>
    BY <1>1, <1>4, <2>1, <2>2 DEF Accept, SocketTypeOK, ServerTypeOK
  <2>3. CASE /\ Free # {}
             /\ \E b \in Waiting(acceptor[a].fd) :
                  /\ backlog' = [backlog EXCEPT ![b] = @ - 1]
                  /\ fds' = [fds EXCEPT ![Min(Free)] =
                               [mode |-> "conn", local |-> b, peer |-> None]]
             /\ handler' = [handler EXCEPT ![Min(Free)] = "task"]
    <3>1. PICK b \in Waiting(acceptor[a].fd) :
            /\ backlog' = [backlog EXCEPT ![b] = @ - 1]
            /\ fds' = [fds EXCEPT ![Min(Free)] = [mode |-> "conn", local |-> b, peer |-> None]]
      BY <2>3
    <3>2. b \in Addrs /\ backlog[b] > 0 /\ backlog[b] \in 0 .. MaxBacklog
      BY DEF Waiting, SocketTypeOK
    <3>3. backlog[b] - 1 \in 0 .. MaxBacklog
      BY <3>2, SocketAssumption
    <3>4. Min(Free) \in Fd
      BY <2>3, MinFree DEF Free
    <3>5. SocketTypeOK'
      BY <1>4, <3>1, <3>2, <3>3 DEF Accept, SocketTypeOK
    <3>6. handler' \in [Fd -> {"none", "task", "read"}]
      BY <2>3 DEF ServerTypeOK
    <3> QED BY <1>1, <1>4, <2>1, <3>5, <3>6 DEF Accept, ServerTypeOK
  <2> QED BY <1>4, <2>2, <2>3 DEF Accept, AcceptFails, AcceptWaits, AcceptGives
<1>5. CASE Arm(a)
  <2>1. PICK p \in {"loop", "wait"} : Goes(a, p)
    BY <1>5 DEF Arm
  <2>2. armed' \subseteq Fd
    BY <1>5 DEF Arm, ArmInv, SocketTypeOK
  <2> QED BY <1>1, <1>5, <2>1, <2>2 DEF Arm, SocketTypeOK, ServerTypeOK
<1> QED BY <1>2, <1>3, <1>4, <1>5 DEF AcceptorStep

\* Only accept sends a fiber to addEvent, and then its descriptor listens.
LEMMA ArmStep ==
    ASSUME ServerTypeOK, ArmInv, [Next]_vars
    PROVE  ArmInv'
<1>1. ASSUME UNCHANGED acceptor
      PROVE  ArmInv'
  BY <1>1 DEF ArmInv
<1>2. ASSUME NEW a \in Addrs, NEW p, Goes(a, p), p = "arm" => acceptor[a].fd \in Fd
      PROVE  ArmInv'
  BY <1>2 DEF Goes, ArmInv, ServerTypeOK, AcceptorType
<1>3. CASE Start
  BY <1>3 DEF Start, ArmInv
<1>4. ASSUME NEW a \in Addrs, AcceptorStep(a)
      PROVE  ArmInv'
  <2>1. CASE Loop(a)
    BY <2>1 DEF Loop, ArmInv, ServerTypeOK
  <2>2. CASE Accept(a)
    <3>1. (\E b \in Addrs : acceptor[a].fd \in Listening(b)) => acceptor[a].fd \in Fd
      BY DEF Listening
    <3> QED BY <1>2, <2>2, <3>1 DEF Accept, AcceptFails, AcceptWaits, AcceptGives, IsListening
  <2> QED BY <1>2, <1>4, <2>1, <2>2 DEF AcceptorStep, Resume, Arm
<1> QED
  BY <1>1, <1>3, <1>4
     DEF Next, Bind, Stop, StopCancel, StopClose, Arrive, HandlerReads,
         HandlerEnds, HandlerGets, Readable, vars

\* Every step keeps the types.
LEMMA TypeStep ==
    ASSUME TypeOK, ArmInv, [Next]_vars
    PROVE  TypeOK'
<1>0. SocketTypeOK /\ ServerTypeOK
  BY TypeParts
<1> SUFFICES SocketTypeOK' /\ ServerTypeOK'
  BY DEF TypeOK, ServerTypeOK, AcceptorType
<1>1. CASE UserStep /\ UNCHANGED <<server, arrived>>
  BY <1>0, <1>1, UserType DEF ServerTypeOK
<1>2. ASSUME NEW A \in SUBSET Addrs, Bind(A)
      PROVE  SocketTypeOK' /\ ServerTypeOK'
  BY <1>0, <1>2, BindType
<1>3. CASE Start \/ Stop \/ StopCancel \/ StopClose
  BY <1>0, <1>3, StopType
<1>4. ASSUME NEW a \in Addrs, AcceptorStep(a)
      PROVE  SocketTypeOK' /\ ServerTypeOK'
  BY <1>0, <1>4, AcceptorStepType
<1>5. ASSUME NEW a \in Addrs, Arrive(a)
      PROVE  SocketTypeOK' /\ ServerTypeOK'
  BY <1>0, <1>5, SocketAssumption, ServerAssumption DEF Arrive, SocketTypeOK, ServerTypeOK
<1>6. ASSUME NEW f \in Fd, HandlerReads(f) \/ HandlerGets(f) \/ Readable(f)
      PROVE  SocketTypeOK' /\ ServerTypeOK'
  BY <1>0, <1>6, ServerAssumption
     DEF HandlerReads, HandlerGets, Readable, SocketTypeOK, ServerTypeOK
<1>7. ASSUME NEW f \in Fd, HandlerEnds(f)
      PROVE  SocketTypeOK' /\ ServerTypeOK'
  <2>1. SocketTypeOK'
    BY <1>0, <1>7, SysCloseType DEF HandlerEnds, HookedClose, SocketTypeOK
  <2> QED BY <1>0, <1>7, <2>1 DEF HandlerEnds, ServerTypeOK
<1>8. CASE UNCHANGED vars
  BY <1>0, <1>8 DEF vars, SocketTypeOK, ServerTypeOK
<1> QED BY <1>1, <1>2, <1>3, <1>4, <1>5, <1>6, <1>7, <1>8 DEF Next

-----------------------------------------------------------------------------
(* Owners.                                                                 *)

\* OwnInv is about fds, listed, lsock, handler and the user's descriptor only.
LEMMA OwnSame ==
    ASSUME OwnInv, UNCHANGED <<fds, listed, lsock>>, user'.sock = user.sock,
           \A f \in Fd : handler'[f] # "none" <=> handler[f] # "none"
    PROVE  OwnInv'
BY DEF OwnInv, ListedInv, ListenInv, ConnInv

\* connect, on what connect and reconnect leave of the user's Socket.
LEMMA DialOwn ==
    ASSUME TypeOK, OwnInv, UserInv, NEW s \in Users, NEW a \in Addrs \cup {None},
           s.sock = user.sock, s.conn = user.conn, s.tls = user.tls,
           user.conn /\ ~s.reused =>
             LocalAddress(s, fds[user.sock].local) = fds[user.sock].local,
           ~user.conn /\ s.local # None => s.reused,
           Dial(s, a), UNCHANGED server
    PROVE  OwnInv' /\ UserInv'
<1>0. /\ fds \in [Fd -> [mode : {"closed", "open", "listen", "conn"},
                         local : Addrs \cup Ports \cup {None},
                         peer : Addrs \cup Ports \cup {None}]]
      /\ user \in Users
  BY DEF TypeOK, SocketTypeOK, Users
<1>1. PICK t : t = [s EXCEPT !.remote = a]
  OBVIOUS
<1>2. /\ t \in Users /\ t.remote = a /\ t.sock = user.sock /\ t.conn = user.conn
      /\ t.local = s.local /\ t.reused = s.reused /\ t.tls = user.tls
  BY <1>1 DEF Users
<1>3. user.sock # 0 => user.sock \in Fd /\ fds[user.sock].mode \in {"open", "conn"}
  BY <1>0, SocketAssumption DEF OwnInv, ConnInv, Users, Fd
<1>4. CASE Usable(s) = {} /\ user' = t /\ UNCHANGED kernel
  <2>1. user.sock = 0 /\ ~user.conn
    BY <1>4 DEF Usable, UserInv
  <2>2. OwnInv'
    BY <1>2, <1>4, OwnSame
  <2>3. UserInv'
    BY <1>2, <1>4, <2>1 DEF UserInv, EndsTrue
  <2> QED BY <2>2, <2>3
<1>5. CASE HookedClose({s.sock} \cap Fd) /\ user' = Shut(t)
  <2>1. user'.sock = 0 /\ ~user'.conn /\ user'.local = t.local
        /\ (t.local # None => user'.reused)
    BY <1>2, <1>5 DEF Shut, Users
  <2>2. UserInv'
    BY <2>1 DEF UserInv, EndsTrue
  <2>3. \A f \in Fd : fds'[f] = IF f = user.sock THEN Closed ELSE fds[f]
    BY <1>5 DEF HookedClose, SysClose
  <2>4. \A f \in Fd : f = user.sock => fds[f].mode \in {"open", "conn"} /\ handler[f] = "none"
    BY DEF OwnInv, ConnInv
  <2>5. ListedInv'
    BY <2>3, <2>4 DEF OwnInv, ListedInv
  <2>6. ListenInv'
    BY <2>3 DEF OwnInv, ListenInv, Closed
  <2>7. 0 \notin Fd
    BY DEF Fd
  <2>8. ConnInv'
    BY <2>1, <2>3, <2>4, <2>7 DEF OwnInv, ConnInv, Closed
  <2> QED BY <2>2, <2>5, <2>6, <2>8 DEF OwnInv
<1>6. ASSUME NEW f \in Usable(s), NEW p \in Ports,
             fds[f].mode # "conn",
             fds' = [fds EXCEPT ![f] = [mode |-> "conn", local |-> p, peer |-> a]],
             user' = [t EXCEPT !.sock = f, !.conn = TRUE, !.tls = f,
                               !.remote = RemoteAddress(t, a),
                               !.local = LocalAddress(t, p)]
      PROVE  OwnInv' /\ UserInv'
  <2>1. f \in Fd /\ (user.sock = 0 => f \in Free) /\ (user.sock # 0 => f = user.sock)
    BY <1>3, <1>6, UsableFds DEF Users
  <2>2. ~user.conn
    BY <1>6, <2>1 DEF UserInv
  <2>3. fds[f].mode \in {"closed", "open"} /\ handler[f] = "none"
    BY <1>3, <1>6, <2>1 DEF Free, OwnInv, ConnInv
  <2>4. \A h \in Fd : fds'[h] = IF h = f THEN [mode |-> "conn", local |-> p, peer |-> a]
                                ELSE fds[h]
    BY <1>0, <1>6
  <2>5. /\ user'.sock = f /\ user'.conn /\ user'.tls = f
        /\ user'.local = LocalAddress(t, p) /\ user'.remote = RemoteAddress(t, a)
        /\ user'.reused = t.reused
    BY <1>2, <1>6 DEF Users
  <2>6. ListedInv'
    BY <2>3, <2>4 DEF OwnInv, ListedInv
  <2>7. ListenInv'
    BY <2>4 DEF OwnInv, ListenInv
  <2>8. 0 \notin Fd
    BY DEF Fd
  <2>9. ConnInv'
    BY <2>1, <2>3, <2>4, <2>5, <2>8 DEF OwnInv, ConnInv
  <2>10. RemoteAddress(t, a) = a
    BY <1>2 DEF RemoteAddress
  <2>11. ~t.reused => LocalAddress(t, p) = p
    BY <1>2, <2>2 DEF LocalAddress
  <2>12. fds'[f].local = p /\ fds'[f].peer = a
    BY <2>1, <2>4
  <2>13. f # 0
    BY <2>1, <2>8
  <2>14. ~t.reused => LocalAddress(user', p) = p
    BY <2>5, <2>11 DEF LocalAddress
  <2>15. EndsTrue'
    BY <2>5, <2>10, <2>12, <2>14 DEF EndsTrue, LocalAddress
  <2>16. fds'[f].mode = "conn"
    BY <2>1, <2>4
  <2>17. UserInv'
    BY <2>5, <2>13, <2>15, <2>16 DEF UserInv
  <2> QED BY <2>6, <2>7, <2>9, <2>17 DEF OwnInv
<1>7. ASSUME NEW f \in Usable(s), a \in Foreign,
             fds' = IF s.sock = 0 THEN [fds EXCEPT ![f] = Open] ELSE fds,
             user' = [t EXCEPT !.sock = f]
      PROVE  OwnInv' /\ UserInv'
  <2>1. f \in Fd /\ (user.sock = 0 => f \in Free) /\ (user.sock # 0 => f = user.sock)
    BY <1>7, UsableFds DEF Users
  <2>2. 0 \notin Fd
    BY DEF Fd
  <2>3. user.sock = 0 => fds[f].mode = "closed" /\ handler[f] = "none"
    BY <2>1, <2>2 DEF Free, OwnInv, ConnInv
  <2>4. \A h \in Fd : fds'[h] = IF h = f /\ user.sock = 0 THEN Open ELSE fds[h]
    BY <1>0, <1>2, <1>7
  <2>5. /\ user'.sock = f /\ user'.conn = user.conn /\ user'.tls = user.tls
        /\ user'.remote = a /\ user'.local = s.local /\ user'.reused = s.reused
    BY <1>2, <1>7 DEF Users
  <2>6. Open.mode = "open"
    BY DEF Open, Closed
  <2>7. ListedInv'
    BY <2>3, <2>4 DEF OwnInv, ListedInv
  <2>8. ListenInv'
    BY <2>4, <2>6 DEF OwnInv, ListenInv
  <2>9. ConnInv'
    BY <1>3, <2>1, <2>2, <2>3, <2>4, <2>5, <2>6 DEF OwnInv, ConnInv
  <2>10. user.conn => /\ user.sock # 0 /\ f = user.sock /\ fds'[f] = fds[f]
                      /\ fds[f].mode = "conn" /\ user.tls = f
    BY <2>1, <2>4 DEF UserInv, EndsTrue
  <2>11. user.conn /\ ~s.reused => LocalAddress(s, fds'[f].local) = fds'[f].local
    BY <2>10
  <2>12. EndsTrue'
    BY <1>7, <2>5, <2>10, <2>11 DEF EndsTrue, LocalAddress
  <2>13. UserInv'
    BY <2>5, <2>10, <2>12 DEF UserInv
  <2> QED BY <2>7, <2>8, <2>9, <2>13 DEF OwnInv
<1> QED BY <1>1, <1>4, <1>5, <1>6, <1>7 DEF Dial

\* connect, reconnect and close on the user's Socket.
LEMMA UserOwn ==
    ASSUME TypeOK, OwnInv, UserInv, UserStep, UNCHANGED server
    PROVE  OwnInv' /\ UserInv'
<1>0. user \in Users
  BY DEF TypeOK, SocketTypeOK, Users
<1>1. CASE Close
  <2>1. user'.sock = 0 /\ ~user'.conn /\ user'.local = user.local
        /\ (user.local # None => user'.reused)
    BY <1>0, <1>1 DEF Close, Shut, Users
  <2>2. UserInv'
    BY <2>1 DEF UserInv, EndsTrue
  <2>3. \A f \in Fd : fds'[f] = IF f = user.sock THEN Closed ELSE fds[f]
    BY <1>1 DEF Close, HookedClose, SysClose
  <2>4. \A f \in Fd : f = user.sock => fds[f].mode \in {"open", "conn"} /\ handler[f] = "none"
    BY DEF OwnInv, ConnInv
  <2>5. ListedInv'
    BY <2>3, <2>4 DEF OwnInv, ListedInv
  <2>6. ListenInv'
    BY <2>3 DEF OwnInv, ListenInv, Closed
  <2>7. 0 \notin Fd
    BY DEF Fd
  <2>8. ConnInv'
    BY <2>1, <2>3, <2>4, <2>7 DEF OwnInv, ConnInv, Closed
  <2> QED BY <2>2, <2>5, <2>6, <2>8 DEF OwnInv
<1>2. CASE Reconnect
  <2>1. PICK s : s = [user EXCEPT !.local = None, !.reused = FALSE]
    OBVIOUS
  <2>2. /\ s \in Users /\ s.sock = user.sock /\ s.conn = user.conn /\ s.local = None
        /\ s.tls = user.tls
        /\ user.remote \in Addrs \cup {None}
    BY <1>0, <2>1 DEF Users
  <2>3. Dial(s, user.remote)
    BY <1>2, <2>1 DEF Reconnect
  <2>4. LocalAddress(s, fds[user.sock].local) = fds[user.sock].local
    BY <2>2 DEF LocalAddress
  <2> QED BY <2>2, <2>3, <2>4, DialOwn
<1>3. ASSUME NEW a \in Addrs, Connect(a)
      PROVE  OwnInv' /\ UserInv'
  <2>1. Dial(user, a)
    BY <1>3 DEF Connect
  <2>2. ~user.conn /\ user.local # None => user.reused
    BY DEF UserInv
  <2>3. user.conn /\ ~user.reused =>
          LocalAddress(user, fds[user.sock].local) = fds[user.sock].local
    BY DEF UserInv, EndsTrue
  <2> QED BY <1>0, <2>1, <2>2, <2>3, DialOwn
<1> QED BY <1>1, <1>2, <1>3 DEF UserStep

\* What a Socket of the user says stays true while its descriptor is left alone.
LEMMA UserKept ==
    ASSUME UserInv, user' = user, user.conn => fds'[user.sock] = fds[user.sock]
    PROVE  UserInv'
BY DEF UserInv, EndsTrue, LocalAddress

\* A failing bind and the function of stop() close every listening Socket.
LEMMA UnlistOwn ==
    ASSUME TypeOK, OwnInv, UserInv, SysClose({lsock[a] : a \in listed}),
           lsock' = [a \in Addrs |-> 0], listed' = {}, UNCHANGED <<user, handler>>
    PROVE  OwnInv' /\ UserInv'
<1>0. user.conn => user.sock \in Fd /\ fds[user.sock].mode = "conn"
  BY SocketAssumption DEF TypeOK, SocketTypeOK, UserInv, OwnInv, ConnInv, Fd
<1>1. \A f \in Fd : fds'[f] = IF \E a \in listed : lsock[a] = f THEN Closed ELSE fds[f]
  BY DEF SysClose
<1>2. \A a \in listed : fds[lsock[a]].mode = "listen"
  BY DEF TypeOK, OwnInv, ListedInv
<1>3. ListedInv'
  BY DEF ListedInv
<1>4. ListenInv'
  BY <1>1 DEF OwnInv, ListenInv, Closed
<1>5. ConnInv'
  BY <1>1, <1>2 DEF OwnInv, ConnInv, Closed
<1>6. UserInv'
  BY <1>0, <1>1, <1>2, UserKept
<1> QED BY <1>3, <1>4, <1>5, <1>6 DEF OwnInv

\* A bind that succeeds gives each address a free number of its own.
LEMMA BindOwn ==
    ASSUME TypeOK, OwnInv, UserInv, NEW A \in SUBSET Addrs, Bind(A)
    PROVE  OwnInv' /\ UserInv'
<1>0. user.conn => user.sock \in Fd /\ fds[user.sock].mode = "conn"
  BY SocketAssumption DEF TypeOK, SocketTypeOK, UserInv, OwnInv, ConnInv, Fd
<1>1. CASE BindFails(A)
  BY <1>1, UnlistOwn DEF Bind, HookedClose
<1>2. CASE ~BindFails(A)
  <2>1. PICK g \in [A -> Free] :
          /\ Cardinality({g[a] : a \in A}) = Cardinality(A)
          /\ Listens(A, g)
          /\ lsock' = [a \in Addrs |-> IF a \in A THEN g[a] ELSE lsock[a]]
    BY <1>2 DEF Bind
  <2>2. PICK T : T = {g[a] : a \in A}
    OBVIOUS
  <2>3. IsFiniteSet(A)
    BY SocketAssumption, FS_Subset
  <2>4. g \in Surjection(A, T)
    BY <2>1, <2>2 DEF Surjection
  <2>5. IsFiniteSet(T)
    BY <2>3, <2>4, FS_Surjection
  <2>6. g \in Injection(A, T)
    BY <2>1, <2>2, <2>3, <2>4, <2>5, FS_SurjSameCardinalityImpliesInj
  <2>7. \A a, b \in A : g[a] = g[b] => a = b
    BY <2>6 DEF Injection, IsInjective
  <2>8. \A a \in A : g[a] \in Fd /\ fds[g[a]].mode = "closed"
    BY <2>1 DEF Free
  <2>9. \A a \in A : /\ (CHOOSE b \in A : g[b] = g[a]) = a
                     /\ fds'[g[a]].mode = "listen" /\ fds'[g[a]].local = a
    BY <2>1, <2>7, <2>8 DEF Listens
  <2>10. \A f \in Fd : (\A a \in A : g[a] # f) => fds'[f] = fds[f]
    BY <2>1 DEF Listens
  <2>11. listed' = listed \cup A /\ UNCHANGED <<user, handler>>
    BY <1>2 DEF Bind
  <2>12. listed \subseteq Addrs
    BY DEF TypeOK
  <2>13. \A a \in listed : /\ lsock[a] \in Fd /\ fds[lsock[a]].mode = "listen"
                           /\ fds[lsock[a]].local = a
    BY <2>12 DEF OwnInv, ListedInv
  <2>14. \A a \in listed : a \notin A
    BY <1>2, <2>12, <2>13 DEF BindFails, InUse, Listening
  <2>15. ListedInv'
    BY <2>1, <2>8, <2>9, <2>10, <2>11, <2>13, <2>14 DEF OwnInv, ListedInv
  <2>16. ListenInv'
    BY <2>1, <2>10, <2>11, <2>12, <2>14 DEF OwnInv, ListenInv
  <2>17. ConnInv'
    BY <2>8, <2>9, <2>10, <2>11 DEF OwnInv, ConnInv
  <2>18. UserInv'
    BY <1>0, <2>8, <2>10, <2>11, UserKept
  <2> QED BY <2>15, <2>16, <2>17, <2>18 DEF OwnInv
<1> QED BY <1>1, <1>2

\* The accepted connection gets a number nobody holds.
LEMMA AcceptOwn ==
    ASSUME TypeOK, OwnInv, UserInv, NEW a \in Addrs, Accept(a)
    PROVE  OwnInv' /\ UserInv'
<1>0. user.conn => user.sock \in Fd /\ fds[user.sock].mode = "conn"
  BY SocketAssumption DEF TypeOK, SocketTypeOK, UserInv, OwnInv, ConnInv, Fd
<1>1. UNCHANGED <<user, listed, lsock>>
  BY DEF Accept
<1>2. CASE UNCHANGED <<fds, handler>>
  BY <1>1, <1>2, OwnSame, UserKept
<1>3. ASSUME NEW b, Free # {},
             fds' = [fds EXCEPT ![Min(Free)] = [mode |-> "conn", local |-> b, peer |-> None]],
             handler' = [handler EXCEPT ![Min(Free)] = "task"]
      PROVE  OwnInv' /\ UserInv'
  <2>1. PICK f : f = Min(Free)
    OBVIOUS
  <2>2. f \in Fd /\ fds[f].mode = "closed"
    BY <1>3, <2>1, MinFree DEF Free
  <2>3. \A h \in Fd : /\ h # f => fds'[h] = fds[h] /\ handler'[h] = handler[h]
                      /\ h = f => fds'[h].mode = "conn" /\ handler'[h] = "task"
    BY <1>3, <2>1, <2>2 DEF TypeOK, SocketTypeOK
  <2>4. ListedInv'
    BY <1>1, <2>2, <2>3 DEF OwnInv, ListedInv
  <2>5. ListenInv'
    BY <1>1, <2>3 DEF OwnInv, ListenInv
  <2>6. ConnInv'
    BY <1>1, <2>2, <2>3 DEF OwnInv, ConnInv
  <2>7. UserInv'
    BY <1>0, <1>1, <2>2, <2>3, UserKept
  <2> QED BY <2>4, <2>5, <2>6, <2>7 DEF OwnInv
<1> QED BY <1>2, <1>3 DEF Accept, AcceptFails, AcceptWaits, AcceptGives

\* The end of a handler closes its own descriptor.
LEMMA EndsOwn ==
    ASSUME TypeOK, OwnInv, UserInv, NEW f \in Fd, HandlerEnds(f)
    PROVE  OwnInv' /\ UserInv'
<1>0. user.conn => user.sock \in Fd /\ fds[user.sock].mode = "conn"
  BY SocketAssumption DEF TypeOK, SocketTypeOK, UserInv, OwnInv, ConnInv, Fd
<1>1. UNCHANGED <<user, listed, lsock>>
  BY DEF HandlerEnds
<1>2. handler[f] = "read" /\ fds[f].mode \in {"open", "conn"} /\ user.sock # f
  BY DEF HandlerEnds, OwnInv, ConnInv
<1>3. \A h \in Fd : /\ h # f => fds'[h] = fds[h] /\ handler'[h] = handler[h]
                    /\ h = f => fds'[h] = Closed /\ handler'[h] = "none"
  BY DEF HandlerEnds, HookedClose, SysClose, TypeOK
<1>4. ListedInv'
  BY <1>1, <1>2, <1>3 DEF OwnInv, ListedInv
<1>5. ListenInv'
  BY <1>1, <1>3 DEF OwnInv, ListenInv, Closed
<1>6. ConnInv'
  BY <1>1, <1>2, <1>3 DEF OwnInv, ConnInv, Closed
<1>7. UserInv'
  BY <1>0, <1>1, <1>2, <1>3, UserKept
<1> QED BY <1>4, <1>5, <1>6, <1>7 DEF OwnInv

-----------------------------------------------------------------------------
(* The theorems.                                                           *)

\* The invariant holds initially ...
LEMMA InvInit == Init => IInv
<1> SUFFICES ASSUME Init PROVE IInv
  OBVIOUS
<1>1. 0 \notin Fd
  BY DEF Fd
<1>2. OwnInv
  BY <1>1 DEF Init, SocketInit, Unborn, Closed, OwnInv, ListedInv, ListenInv, ConnInv
<1>3. UserInv /\ ArmInv
  BY DEF Init, SocketInit, Unborn, UserInv, EndsTrue, ArmInv
<1> QED BY <1>2, <1>3, TypeInit DEF IInv

\* ... and every step keeps it.
LEMMA InvStep ==
    ASSUME IInv, [Next]_vars
    PROVE  IInv'
<1>0. TypeOK /\ OwnInv /\ UserInv /\ ArmInv
  BY DEF IInv
<1>1. TypeOK'
  BY <1>0, TypeStep
<1>2. ArmInv'
  BY <1>0, TypeParts, ArmStep
<1> SUFFICES OwnInv' /\ UserInv'
  BY <1>1, <1>2 DEF IInv
<1>3. ASSUME UNCHANGED <<fds, user, listed, lsock, handler>>
      PROVE  OwnInv' /\ UserInv'
  BY <1>0, <1>3, OwnSame, UserKept
<1>4. CASE UserStep /\ UNCHANGED <<server, arrived>>
  BY <1>0, <1>4, UserOwn
<1>5. ASSUME NEW A \in SUBSET Addrs, Bind(A)
      PROVE  OwnInv' /\ UserInv'
  BY <1>0, <1>5, BindOwn
<1>6. CASE Start \/ Stop \/ StopCancel
  BY <1>3, <1>6 DEF Start, Stop, StopCancel
<1>7. CASE StopClose
  BY <1>0, <1>7, UnlistOwn DEF StopClose, HookedClose
<1>8. ASSUME NEW a \in Addrs, AcceptorStep(a)
      PROVE  OwnInv' /\ UserInv'
  BY <1>0, <1>3, <1>8, AcceptOwn DEF AcceptorStep, Resume, Loop, Arm
<1>9. ASSUME NEW a \in Addrs, Arrive(a)
      PROVE  OwnInv' /\ UserInv'
  BY <1>3, <1>9 DEF Arrive
<1>10. ASSUME NEW f \in Fd, HandlerReads(f) \/ HandlerGets(f)
       PROVE  OwnInv' /\ UserInv'
  <2>1. UNCHANGED <<fds, user, listed, lsock>>
    BY <1>10 DEF HandlerReads, HandlerGets
  <2>2. \A h \in Fd : handler'[h] # "none" <=> handler[h] # "none"
    BY <1>0, <1>10 DEF HandlerReads, HandlerGets, TypeOK
  <2> QED BY <1>0, <2>1, <2>2, OwnSame, UserKept
<1>11. ASSUME NEW f \in Fd, HandlerEnds(f)
       PROVE  OwnInv' /\ UserInv'
  BY <1>0, <1>11, EndsOwn
<1>12. ASSUME NEW f \in Fd, Readable(f)
       PROVE  OwnInv' /\ UserInv'
  BY <1>3, <1>12 DEF Readable
<1>13. CASE UNCHANGED vars
  BY <1>3, <1>13 DEF vars
<1> QED
  BY <1>4, <1>5, <1>6, <1>7, <1>8, <1>9, <1>10, <1>11, <1>12, <1>13 DEF Next

\* The holders OwnInv knows are at most one.
LEMMA OwnCounts ==
    ASSUME TypeOK, OwnInv
    PROVE  FdsOwned
<1> SUFFICES ASSUME NEW f \in Fd
             PROVE  Cardinality(Holders(f)) = IF f \in Free THEN 0 ELSE 1
  BY DEF FdsOwned
<1>0. 0 \notin Fd /\ f # 0
  BY DEF Fd
<1>1. fds[f].mode \in {"closed", "open", "listen", "conn"} /\ (f \in Free <=> fds[f].mode = "closed")
  BY DEF TypeOK, SocketTypeOK, Free
<1>2. \A a \in Addrs : lsock[a] = f => /\ a \in listed /\ fds[f].mode = "listen"
                                       /\ fds[f].local = a
  BY <1>0 DEF OwnInv, ListedInv
<1>3. CASE fds[f].mode = "closed"
  <2>1. Holders(f) = {}
    BY <1>2, <1>3 DEF Holders, OwnInv, ConnInv
  <2> QED BY <1>1, <1>3, <2>1, FS_EmptySet
<1>4. CASE fds[f].mode = "listen"
  <2>1. PICK a \in Addrs : lsock[a] = f
    BY <1>4 DEF OwnInv, ListenInv, TypeOK
  <2>2. Holders(f) = {a}
    BY <1>2, <1>4, <2>1 DEF Holders, OwnInv, ConnInv
  <2> QED BY <1>1, <1>4, <2>2, FS_Singleton
<1>5. CASE fds[f].mode \in {"open", "conn"}
  <2>1. Holders(f) = {"handler"} \/ Holders(f) = {"user"}
    BY <1>2, <1>5 DEF Holders, OwnInv, ConnInv
  <2> QED BY <1>1, <1>5, <2>1, FS_Singleton
<1> QED BY <1>1, <1>3, <1>4, <1>5

(* Every reachable state has the right types; a listening descriptor is the *)
(* one of its address, a connected one is a handler's or the user's and     *)
(* never both, nobody keeps a number that was closed (Bind, startAccept,    *)
(* stop in tcp_server.cc, and Socket::close).                               *)
THEOREM Invariance == Spec => []IInv
BY InvInit, InvStep, PTL DEF Spec

(* The property the run checks: every open descriptor has one owner and a   *)
(* closed one has none, through the failures of bind and accept, stop()     *)
(* and the reuse of numbers (tcp_server.cc:27-116, socket.cc:148-246).      *)
THEOREM OneOwner == Spec => []ServerInv
<1>1. IInv => ServerInv
  BY OwnCounts DEF IInv, ServerInv
<1> QED BY <1>1, Invariance, PTL

(* A connected Socket knows its own ends: connect, reconnect and close      *)
(* (socket.cc:187-246, 502-511) never leave it with the TLS session or the  *)
(* addresses of a former descriptor, but for the local address that close() *)
(* keeps and a later connect() goes on with, and the remote address of a    *)
(* connect() that failed because the address is of another family.          *)
THEOREM EndsKnown == Spec => []EndsTrue
<1>1. IInv => EndsTrue
  BY DEF IInv, UserInv
<1> QED BY <1>1, Invariance, PTL

-----------------------------------------------------------------------------
(* What stop() leaves.  The cancellation and the close of the listening     *)
(* descriptors are two steps, but with one accept thread no accept fiber    *)
(* runs from the one to the other.                                          *)

Inside == {"call", "arm", "wait"}      \* locations of the hooked accept

\* An accept fiber works at its address's own descriptor, until it has been closed.
ServeInv == \A a \in Addrs : acceptor[a].pc # "none" =>
               \/ a \in listed /\ (acceptor[a].pc \in Inside => acceptor[a].fd = lsock[a])
               \/ isStop /\ listed = {}

\* Only listening descriptors have a READ event of an accept fiber.
ArmedInv == armed \subseteq {lsock[a] : a \in listed}

\* No accept fiber can register an event once the cancellation has begun, nor when
\* nothing listens; fibers that are left after stop() are those of closed descriptors.
CloseInv ==
    /\ stopper # "none" => isStop
    /\ stopper = "close" => /\ armed = {}
                            /\ \A a \in Addrs : acceptor[a].pc \in {"none", "task", "wait"}
    /\ listed = {} => \A a \in Addrs : acceptor[a].pc # "arm"
    /\ isStop /\ stopper = "none" => listed = {} \/ \A a \in Addrs : acceptor[a].pc = "none"

StopInv == ServeInv /\ ArmedInv /\ CloseInv

\* The function stop() scheduled has run; an accept fiber has not ended yet.
FibersLeft == isStop /\ stopper = "none" /\ \E a \in Addrs : acceptor[a].pc # "none"

\* Then nothing listens, and no fiber waits, or is about to, for an event that will
\* not come: each is ready to be resumed, and to leave at its next test of m_isStop.
CleanStop ==
    FibersLeft => /\ listed = {} /\ armed = {}
                  /\ \A a \in Addrs : lsock[a] = 0 /\ Listening(a) = {}
                  /\ \A a \in Addrs : acceptor[a].pc # "arm"

\* A step of somebody else cancels events at most.
LEMMA StopKept ==
    ASSUME StopInv, UNCHANGED <<isStop, listed, lsock, acceptor, stopper>>, armed' \subseteq armed
    PROVE  StopInv'
BY DEF StopInv, ServeInv, ArmedInv, CloseInv

\* With one accept thread there is room only while no accept fiber runs.
LEMMA RoomForOne ==
    ASSUME TypeOK, AcceptThreads = 1, AcceptRoom
    PROVE  stopper # "close" /\ \A a \in Addrs : acceptor[a].pc \in {"none", "task", "wait"}
<1> DEFINE R == {a \in Addrs : acceptor[a].pc \in {"loop", "call", "arm"}}
<1>1. IsFiniteSet(R) /\ Cardinality(R) \in Nat
  BY SocketAssumption, FS_Subset, FS_CardinalityType
<1>2. Cardinality(R) + (IF stopper = "close" THEN 1 ELSE 0) < 1
  BY DEF AcceptRoom
<1>3. Cardinality(R) = 0 /\ stopper # "close"
  BY <1>1, <1>2
<1>4. R = {}
  BY <1>1, <1>3, FS_EmptySet
<1> QED BY <1>3, <1>4 DEF TypeOK

\* A Socket that is listed keeps its descriptor when others are bound.
LEMMA BindStop ==
    ASSUME TypeOK, OwnInv, StopInv, NEW A \in SUBSET Addrs, Bind(A)
    PROVE  StopInv'
<1>0. UNCHANGED <<isStop, acceptor, stopper>> /\ isStop /\ stopper = "none"
      /\ \A a \in Addrs : acceptor[a].pc = "none"
  BY DEF Bind, AtRest
<1>1. ServeInv' /\ CloseInv'
  BY <1>0 DEF ServeInv, CloseInv
<1>2. CASE BindFails(A)
  <2>1. armed' = armed \ {lsock[a] : a \in listed} /\ listed' = {}
    BY <1>2 DEF Bind, HookedClose
  <2> QED BY <1>1, <2>1 DEF StopInv, ArmedInv
<1>3. CASE ~BindFails(A)
  <2>1. listed' = listed \cup A /\ armed' = armed
        /\ \A a \in Addrs : a \notin A => lsock'[a] = lsock[a]
    BY <1>3 DEF Bind
  <2>2. \A a \in listed : a \in Addrs /\ lsock[a] \in Listening(a)
    BY DEF TypeOK, OwnInv, ListedInv, Listening
  <2>3. \A a \in listed : a \notin A
    BY <1>3, <2>2 DEF BindFails, InUse
  <2> QED BY <1>1, <2>1, <2>2, <2>3 DEF StopInv, ArmedInv
<1> QED BY <1>2, <1>3

\* What start() and stop(), and the function stop() schedules, do.
LEMMA StopsStop ==
    ASSUME TypeOK, StopInv, AcceptThreads = 1, Start \/ Stop \/ StopCancel \/ StopClose
    PROVE  StopInv'
<1>1. CASE Start
  <2>1. UNCHANGED <<listed, lsock, armed, stopper>> /\ stopper = "none" /\ ~isStop'
    BY <1>1 DEF Start, AtRest
  <2>2. \A a \in Addrs : acceptor'[a].pc = IF a \in listed THEN "task" ELSE "none"
    BY <1>1 DEF Start, AtRest
  <2> QED BY <2>1, <2>2 DEF StopInv, ServeInv, ArmedInv, CloseInv, Inside
<1>2. CASE Stop
  BY <1>2 DEF Stop, StopInv, ServeInv, ArmedInv, CloseInv
<1>3. CASE StopCancel
  <2>1. \A a \in Addrs : acceptor[a].pc \in {"none", "task", "wait"}
    BY <1>3, RoomForOne DEF StopCancel
  <2>2. armed' = {} /\ stopper' = "close" /\ UNCHANGED <<isStop, listed, lsock, acceptor>>
        /\ stopper = "task"
    BY <1>3 DEF StopCancel, StopInv, ArmedInv
  <2> QED BY <2>1, <2>2 DEF StopInv, ServeInv, ArmedInv, CloseInv
<1>4. CASE StopClose
  BY <1>4 DEF StopClose, HookedClose, StopInv, ServeInv, ArmedInv, CloseInv
<1> QED BY <1>1, <1>2, <1>3, <1>4

\* An accept fiber goes to location p, and works at descriptor f there.
LEMMA FiberStop ==
    ASSUME StopInv, NEW a \in Addrs, NEW p, p # "none", NEW f,
           acceptor'[a].pc = p, acceptor'[a].fd = f,
           \A b \in Addrs \ {a} : acceptor'[b] = acceptor[b],
           acceptor[a].pc # "none", stopper # "close",
           a \in listed /\ p \in Inside => f = lsock[a],
           p = "arm" => listed # {},
           UNCHANGED <<isStop, listed, lsock, stopper>>,
           armed' \subseteq {lsock[b] : b \in listed}
    PROVE  StopInv'
<1>1. ServeInv'
  BY DEF StopInv, ServeInv
<1>2. ArmedInv'
  BY DEF StopInv, ArmedInv
<1>3. CloseInv'
  BY DEF StopInv, CloseInv
<1> QED BY <1>1, <1>2, <1>3 DEF StopInv

\* An accept fiber that comes back to accept keeps its descriptor; with nothing
\* listening, accept fails and no event is registered.
LEMMA AcceptorStop ==
    ASSUME TypeOK, OwnInv, StopInv, AcceptThreads = 1, NEW a \in Addrs, AcceptorStep(a)
    PROVE  StopInv'
<1>0. /\ \A b \in Addrs : acceptor[b] \in [pc : {"none", "task", "loop", "call", "arm", "wait"},
                                           fd : 0 .. MaxFds]
      /\ acceptor = [b \in Addrs |-> acceptor[b]]
  BY DEF TypeOK
<1>1. ASSUME NEW p, p # "none", Goes(a, p), acceptor[a].pc # "none", stopper # "close",
             p \in Inside => acceptor[a].pc \in Inside, p = "arm" => listed # {},
             UNCHANGED <<isStop, listed, lsock, stopper>>,
             armed' \subseteq {lsock[b] : b \in listed}
      PROVE  StopInv'
  <2>1. acceptor'[a].pc = p /\ acceptor'[a].fd = acceptor[a].fd
        /\ \A b \in Addrs \ {a} : acceptor'[b] = acceptor[b]
    BY <1>0, <1>1 DEF Goes
  <2>2. a \in listed /\ p \in Inside => acceptor[a].fd = lsock[a]
    BY <1>1 DEF StopInv, ServeInv
  <2> QED BY <1>1, <2>1, <2>2, FiberStop
<1>2. armed \subseteq {lsock[b] : b \in listed}
  BY DEF StopInv, ArmedInv
<1>3. CASE Resume(a)
  <2>1. stopper # "close"
    BY <1>3, RoomForOne DEF Resume
  <2> QED BY <1>1, <1>2, <1>3, <2>1 DEF Resume, Inside
<1>4. acceptor[a].pc \in {"loop", "call", "arm"} => stopper # "close"
  BY DEF StopInv, CloseInv
<1>5. CASE Loop(a)
  <2>1. CASE isStop
    <3>1. acceptor'[a].pc = "none" /\ \A b \in Addrs \ {a} : acceptor'[b] = acceptor[b]
      BY <1>0, <1>5, <2>1 DEF Loop
    <3>2. UNCHANGED <<isStop, listed, lsock, stopper, armed>>
      BY <1>5 DEF Loop
    <3> QED BY <3>1, <3>2 DEF StopInv, ServeInv, ArmedInv, CloseInv
  <2>2. CASE ~isStop
    <3>1. acceptor'[a].pc = "call" /\ acceptor'[a].fd = lsock[a]
          /\ \A b \in Addrs \ {a} : acceptor'[b] = acceptor[b]
      BY <1>0, <1>5, <2>2 DEF Loop
    <3> QED BY <1>2, <1>4, <1>5, <3>1, FiberStop DEF Loop
  <2> QED BY <2>1, <2>2
<1>6. CASE Accept(a)
  <2>1. PICK p \in {"loop", "arm"} :
          Goes(a, p) /\ (p = "arm" => \E b \in Addrs : acceptor[a].fd \in Listening(b))
    BY <1>6 DEF Accept, AcceptFails, AcceptWaits, AcceptGives, IsListening
  <2>2. p = "arm" => listed # {}
    BY <2>1 DEF Listening, OwnInv, ListenInv
  <2> QED BY <1>1, <1>2, <1>4, <1>6, <2>1, <2>2 DEF Accept, Inside
<1>7. CASE Arm(a)
  <2>1. acceptor[a].pc = "arm" /\ UNCHANGED <<isStop, listed, lsock, stopper>>
    BY <1>7 DEF Arm
  <2>2. listed # {} /\ a \in listed /\ acceptor[a].fd = lsock[a]
    BY <2>1 DEF StopInv, ServeInv, CloseInv, Inside
  <2>3. PICK p \in {"loop", "wait"} : Goes(a, p)
    BY <1>7 DEF Arm
  <2>4. armed' \subseteq {lsock[b] : b \in listed}
    BY <1>2, <1>7, <2>2 DEF Arm
  <2> QED BY <1>1, <1>4, <2>1, <2>2, <2>3, <2>4 DEF Inside
<1> QED BY <1>3, <1>5, <1>6, <1>7 DEF AcceptorStep

\* Nothing listens at first, and no step leaves a fiber at a closed descriptor.
LEMMA StopStep ==
    ASSUME IInv, StopInv, AcceptThreads = 1, [Next]_vars
    PROVE  StopInv'
<1>0. TypeOK /\ OwnInv
  BY DEF IInv
<1>1. CASE UserStep /\ UNCHANGED <<server, arrived>>
  <2>1. armed' \subseteq armed
    BY <1>1 DEF UserStep, Close, Reconnect, Connect, Dial, HookedClose
  <2> QED BY <1>1, <2>1, StopKept
<1>2. ASSUME NEW a \in Addrs, Arrive(a)
      PROVE  StopInv'
  BY <1>2, StopKept DEF Arrive
<1>3. ASSUME NEW f \in Fd, HandlerReads(f) \/ HandlerEnds(f) \/ HandlerGets(f) \/ Readable(f)
      PROVE  StopInv'
  BY <1>3, StopKept
     DEF HandlerReads, HandlerEnds, HandlerGets, Readable, HookedClose
<1>4. CASE UNCHANGED vars
  BY <1>4, StopKept DEF vars
<1> QED
  BY <1>0, <1>1, <1>2, <1>3, <1>4, BindStop, StopsStop, AcceptorStop DEF Next

\* With one accept thread: when the function stop() schedules has run
\* (tcp_server.cc:103-109), nothing listens and no accept fiber waits for an event of a
\* descriptor that was closed, nor will: the cancellation has brought back each one,
\* whenever the fibers and the function ran and numbers were reused.  This is what
\* StopQuiet needs apart from fairness; with two accept threads it does not hold.
THEOREM StopIsClean == ASSUME AcceptThreads = 1 PROVE Spec => []CleanStop
<1>1. Init => StopInv
  BY DEF Init, SocketInit, StopInv, ServeInv, ArmedInv, CloseInv
<1>2. Init => IInv
  BY InvInit
<1>3. IInv /\ StopInv /\ [Next]_vars => (IInv /\ StopInv)'
  BY InvStep, StopStep
<1>4. IInv /\ StopInv => CleanStop
  <2> SUFFICES ASSUME IInv, StopInv, FibersLeft
               PROVE  /\ listed = {} /\ armed = {}
                      /\ \A a \in Addrs : lsock[a] = 0 /\ Listening(a) = {}
                      /\ \A a \in Addrs : acceptor[a].pc # "arm"
    BY DEF CleanStop
  <2>1. listed = {}
    BY DEF FibersLeft, StopInv, CloseInv
  <2>2. armed = {} /\ \A a \in Addrs : acceptor[a].pc # "arm"
    BY <2>1 DEF StopInv, ArmedInv, CloseInv
  <2>3. \A a \in Addrs : lsock[a] = 0 /\ Listening(a) = {}
    BY <2>1 DEF IInv, OwnInv, ListedInv, ListenInv, Listening
  <2> QED BY <2>1, <2>2, <2>3
<1> QED BY <1>1, <1>2, <1>3, <1>4, PTL DEF Spec
=============================================================================
