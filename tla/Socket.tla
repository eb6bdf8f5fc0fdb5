------------------------------- MODULE Socket -------------------------------
(***************************************************************************)
(* util/socket.cc: a Socket object over the descriptors of the process.    *)
(*                                                                         *)
(* Descriptors are numbers, handed out lowest first and reused as soon as  *)
(* they are closed; 0 stands for the -1 of a Socket without one.  A Socket *)
(* keeps its descriptor, a connected flag and CACHED addresses: what they  *)
(* say can differ from what the kernel knows of the descriptor.  "user" is *)
(* one client Socket that some fiber connects, reconnects and closes; it   *)
(* is an SSLSocket, and a plain Socket is the same without tls.            *)
(* The listening and the accepted Sockets are TcpServer's.                 *)
(*                                                                         *)
(* Reading and writing change no state here: HookIO has them.              *)
(***************************************************************************)
EXTENDS Integers, FiniteSets, FiniteSetsExt

CONSTANTS Addrs,       \* addresses a socket can be bound to
          Taken,       \* those another process listens on
          Foreign,     \* those of another family than the user's Socket
          Ports,       \* ephemeral local addresses
          MaxFds,      \* the descriptor limit of the process (RLIMIT_NOFILE)
          MaxBacklog,  \* bound: connections waiting at one listening socket
          None

ASSUME SocketAssumption ==
  /\ MaxFds \in Nat \ {0}
  /\ IsFiniteSet(Addrs) /\ Taken \subseteq Addrs /\ Foreign \subseteq Addrs
  /\ MaxBacklog \in Nat

VARIABLES fds,      \* what the kernel knows of each descriptor
          backlog,  \* connections the kernel has completed and nobody accepted
          armed,    \* descriptors whose READ event some fiber has registered
          user      \* the client Socket

kernel == <<fds, backlog, armed>>

Fd == 1 .. MaxFds

Closed == [mode |-> "closed", local |-> None, peer |-> None]
Open == [Closed EXCEPT !.mode = "open"]      \* neither listening nor connected

(* A Socket just constructed: no descriptor, no cached address. *)
Unborn == [sock |-> 0, conn |-> FALSE, local |-> None, remote |-> None,
           tls |-> 0, reused |-> FALSE]

SocketInit == /\ fds = [f \in Fd |-> Closed]
              /\ backlog = [a \in Addrs |-> 0]
              /\ armed = {}
              /\ user = Unborn

Free == {f \in Fd : fds[f].mode = "closed"}

Listening(a) == {f \in Fd : fds[f].mode = "listen" /\ fds[f].local = a}

(* newSock sets SO_REUSEADDR: only a listening socket keeps an address. *)
InUse == Taken \cup {a \in Addrs : Listening(a) # {}}

(* close(2) of several descriptors: a listening socket drops its backlog. *)
SysClose(F) ==
  /\ fds' = [f \in Fd |-> IF f \in F THEN Closed ELSE fds[f]]
  /\ backlog' = [a \in Addrs |-> IF Listening(a) \cap F # {} THEN 0 ELSE backlog[a]]

(* The hooked close: every event of the descriptor is cancelled first. *)
HookedClose(F) == SysClose(F) /\ armed' = armed \ F

-----------------------------------------------------------------------------
(* The descriptor an operation of the user works on: its own, or the one    *)
(* newSock opens, if any is left.                                           *)
Usable(s) == IF s.sock # 0 THEN {s.sock} ELSE IF Free = {} THEN {} ELSE {Min(Free)}

(* Socket::close leaves both cached addresses, and SSLSocket its m_ssl. *)
ShutKeeps(s) == [s EXCEPT !.conn = FALSE, !.reused = s.local # None]
Shut(s) == [s EXCEPT !.sock = 0, !.conn = FALSE, !.reused = s.local # None]

Close == /\ user.conn \/ user.sock # 0
         /\ HookedClose({user.sock} \cap Fd)
         /\ user' = Shut(user)

(* getLocalAddress asks the kernel only when no address is cached. *)
LocalAddress(s, real) == IF s.local = None THEN real ELSE s.local

(* getRemoteAddress likewise; connect has set it before. *)
RemoteAddress(s, real) == IF s.remote = None THEN real ELSE s.remote

(* connect on the Socket s: no descriptor left; an address of another      *)
(* family, which the Socket has then cached and whose check leaves it the  *)
(* descriptor it has, or has just opened, and its connection; a failure    *)
(* (refused, timed out, or EISCONN on a connected descriptor), which       *)
(* closes the socket; or a connection.  SSL_connect follows it, and its    *)
(* failure changes nothing.                                                *)
Dial(s, a) ==
  LET t == [s EXCEPT !.remote = a] IN
  \/ /\ Usable(s) = {}
     /\ user' = t
     /\ UNCHANGED kernel
  \/ \E f \in Usable(s) :
       /\ a \in Foreign
       /\ fds' = IF s.sock = 0 THEN [fds EXCEPT ![f] = Open] ELSE fds
       /\ user' = [t EXCEPT !.sock = f]
       /\ UNCHANGED <<backlog, armed>>
  \/ /\ Usable(s) # {} /\ a \notin Foreign
     /\ HookedClose({s.sock} \cap Fd)
     /\ user' = Shut(t)
  \/ \E f \in Usable(s) : \E p \in Ports \ {fds[g].local : g \in Fd} :
       /\ fds[f].mode # "conn" /\ a \notin Foreign
       /\ \/ a \in Taken /\ UNCHANGED backlog
          \/ /\ Listening(a) # {} /\ backlog[a] < MaxBacklog
             /\ backlog' = [backlog EXCEPT ![a] = @ + 1]
       /\ fds' = [fds EXCEPT ![f] = [mode |-> "conn", local |-> p, peer |-> a]]
       /\ user' = [t EXCEPT !.sock = f, !.conn = TRUE, !.tls = f,
                            !.remote = RemoteAddress(t, a),
                            !.local = LocalAddress(t, p)]
       /\ UNCHANGED armed

Connect(a) == Dial(user, a)

ReconnectKeeps == /\ user.remote # None
                  /\ Dial([user EXCEPT !.reused = FALSE], user.remote)
Reconnect == /\ user.remote # None
             /\ Dial([user EXCEPT !.local = None, !.reused = FALSE], user.remote)

UserStep == Close \/ Reconnect \/ \E a \in Addrs : Connect(a)

-----------------------------------------------------------------------------
SocketTypeOK ==
  /\ fds \in [Fd -> [mode : {"closed", "open", "listen", "conn"},
                     local : Addrs \cup Ports \cup {None},
                     peer : Addrs \cup Ports \cup {None}]]
  /\ backlog \in [Addrs -> 0 .. MaxBacklog]
  /\ armed \subseteq Fd
  /\ user \in [sock : 0 .. MaxFds, conn : BOOLEAN,
               local : Addrs \cup Ports \cup {None}, remote : Addrs \cup {None},
               tls : 0 .. MaxFds, reused : BOOLEAN]

(* What a connected Socket says of its ends is what the kernel knows of its *)
(* descriptor, and its TLS session runs over that descriptor: connect,      *)
(* reconnect and close (socket.cc:187-246, 502-511), with numbers reused    *)
(* meanwhile.  The code does not keep it in two cases: close() then         *)
(* connect() goes on with the former local address ("reused"); and a        *)
(* connect() to an address of another family fails and leaves the Socket    *)
(* connected, but has replaced its remote address (196, 204-206: Foreign).  *)
EndsTrue == user.conn =>
  /\ user.tls = user.sock
  /\ user.remote = fds[user.sock].peer \/ user.remote \in Foreign
  /\ ~user.reused =>
       LocalAddress(user, fds[user.sock].local) = fds[user.sock].local
=============================================================================
