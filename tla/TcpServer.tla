----------------------------- MODULE TcpServer ------------------------------
(***************************************************************************)
(* server/tcp_server.cc: listening, accept fibers, handlers, stop.         *)
(*                                                                         *)
(* One accept fiber per listening Socket runs on the accept_worker, one    *)
(* handler per accepted connection on the io_worker.  accept is the hooked *)
(* one: do_io retries on the descriptor it was called with, and returns to *)
(* startAccept, where m_isStop is tested, only with a connection or an     *)
(* error.  handleClient is virtual: the handler here does what both        *)
(* subclasses do, read until a read fails, and lets its Socket go.         *)
(* Both workers are the same one in TcpServer's default arguments and in   *)
(* every program ("Shared"): then the accept fibers and the handlers       *)
(* compete for its threads.                                                *)
(***************************************************************************)
EXTENDS Socket

CONSTANTS AcceptThreads,  \* threads of the accept_worker
          Shared,         \* the io_worker is the accept_worker
          MaxArrivals     \* bound: connections from outside

ASSUME ServerAssumption ==
  /\ AcceptThreads \in Nat \ {0}
  /\ Shared \in BOOLEAN
  /\ MaxArrivals \in Nat

VARIABLES isStop,     \* m_isStop
          listed,     \* the addresses whose Socket is in m_socks
          lsock,      \* m_sock of the listening Socket of each address
          acceptor,   \* the accept fiber of each address
          stopper,    \* the function stop() schedules
          handler,    \* the handler of each accepted descriptor
          arrived

server == <<isStop, listed, lsock, acceptor, stopper, handler>>
vars == <<kernel, user, server, arrived>>

Init == /\ SocketInit
        /\ isStop = TRUE
        /\ listed = {}
        /\ lsock = [a \in Addrs |-> 0]
        /\ acceptor = [a \in Addrs |-> [pc |-> "none", fd |-> 0]]
        /\ stopper = "none"
        /\ handler = [f \in Fd |-> "none"]
        /\ arrived = 0

(* A fiber that has neither ended nor yielded keeps its thread. *)
AcceptRoom == Cardinality({a \in Addrs : acceptor[a].pc \in {"loop", "call", "arm"}})
              + (IF stopper = "close" THEN 1 ELSE 0) < AcceptThreads

(* Assumed of the caller: a server is bound and started while it is at rest, *)
(* that is, before its first start or when the last stop has done its work.  *)
AtRest == isStop /\ stopper = "none" /\ \A a \in Addrs : acceptor[a].pc = "none"

-----------------------------------------------------------------------------
(* Socket::bind (with newSock) fails for one of the addresses.               *)
BindFails(A) == A \cap InUse # {} \/ Cardinality(A) > Cardinality(Free)

(* Socket::listen on descriptor g[a], bound to a.                            *)
Listens(A, g) == fds' = [f \in Fd |-> IF \E a \in A : g[a] = f
                           THEN [mode |-> "listen", peer |-> None,
                                 local |-> CHOOSE a \in A : g[a] = f]
                           ELSE fds[f]]

(* Every address gets a listening Socket; if one fails, m_socks is emptied,  *)
(* with the Sockets of earlier calls, and their destructors close them.      *)
Bind(A) ==
  /\ AtRest
  /\ \/ /\ ~BindFails(A)
        /\ \E g \in [A -> Free] :
             /\ Cardinality({g[a] : a \in A}) = Cardinality(A)
             /\ Listens(A, g)
             /\ lsock' = [a \in Addrs |-> IF a \in A THEN g[a] ELSE lsock[a]]
        /\ listed' = listed \cup A
        /\ UNCHANGED <<backlog, armed>>
     \/ /\ BindFails(A)
        /\ HookedClose({lsock[a] : a \in listed})
        /\ lsock' = [a \in Addrs |-> 0]
        /\ listed' = {}
  /\ UNCHANGED <<user, isStop, acceptor, stopper, handler, arrived>>

Start == /\ AtRest
         /\ isStop' = FALSE
         /\ acceptor' = [a \in Addrs |-> IF a \in listed THEN [pc |-> "task", fd |-> 0]
                                         ELSE acceptor[a]]
         /\ UNCHANGED <<kernel, user, listed, lsock, stopper, handler, arrived>>

Stop == /\ stopper = "none"
        /\ isStop' = TRUE
        /\ stopper' = "task"
        /\ UNCHANGED <<kernel, user, listed, lsock, acceptor, handler, arrived>>

(* The scheduled function: the waiting fibers are cancelled, then the        *)
(* descriptors closed, which cancels what has been armed meanwhile; m_socks  *)
(* is cleared.                                                               *)
StopCancel == /\ stopper = "task" /\ AcceptRoom
              /\ armed' = armed \ {lsock[a] : a \in listed}
              /\ stopper' = "close"
              /\ UNCHANGED <<fds, backlog, user, isStop, listed, lsock, acceptor,
                             handler, arrived>>

StopClose == /\ stopper = "close"
             /\ HookedClose({lsock[a] : a \in listed})
             /\ lsock' = [a \in Addrs |-> 0]
             /\ listed' = {}
             /\ stopper' = "none"
             /\ UNCHANGED <<user, isStop, acceptor, handler, arrived>>

-----------------------------------------------------------------------------
Goes(a, pc) == acceptor' = [acceptor EXCEPT ![a].pc = pc]

(* A thread takes the fiber: at its beginning, or inside do_io's retry. *)
Resume(a) == /\ AcceptRoom
             /\ \/ acceptor[a].pc = "task" /\ Goes(a, "loop")
                \/ /\ acceptor[a].pc = "wait" /\ acceptor[a].fd \notin armed
                   /\ Goes(a, "call")
             /\ UNCHANGED <<kernel, user, isStop, listed, lsock, stopper, handler, arrived>>

(* while(!m_isStop) sock->accept(): the descriptor is read here, once. *)
LoopForEver(a) == /\ acceptor[a].pc = "loop"
                  /\ acceptor' = [acceptor EXCEPT ![a] = [pc |-> "call", fd |-> lsock[a]]]
                  /\ UNCHANGED <<kernel, user, isStop, listed, lsock, stopper, handler,
                                 arrived>>
Loop(a) == /\ acceptor[a].pc = "loop"
           /\ acceptor' = [acceptor EXCEPT ![a] =
                IF isStop THEN [pc |-> "none", fd |-> 0]
                          ELSE [pc |-> "call", fd |-> lsock[a]]]
           /\ UNCHANGED <<kernel, user, isStop, listed, lsock, stopper, handler, arrived>>

(* The addresses with a connection that accept on f would give. *)
Waiting(f) == {a \in Addrs : f \in Listening(a) /\ backlog[a] > 0}

IsListening(f) == \E a \in Addrs : f \in Listening(a)

(* accept fails on what does not listen, and with EMFILE when no descriptor  *)
(* is left, which comes before the queue is looked at; the loop just goes on *)
(* to its next accept.                                                       *)
AcceptFailsEnds(a) == /\ Free = {} \/ ~IsListening(acceptor[a].fd)
                      /\ Goes(a, "none")
                      /\ UNCHANGED <<fds, backlog, handler>>
AcceptFails(a) == /\ Free = {} \/ ~IsListening(acceptor[a].fd)
                  /\ Goes(a, "loop")
                  /\ UNCHANGED <<fds, backlog, handler>>

(* It has nothing yet (EAGAIN). *)
AcceptWaits(a) == LET f == acceptor[a].fd IN
  /\ Free # {} /\ IsListening(f) /\ Waiting(f) = {}
  /\ Goes(a, "arm")
  /\ UNCHANGED <<fds, backlog, handler>>

(* It gives a connection, whose handler is scheduled with a receive timeout. *)
AcceptGives(a) ==
  /\ Free # {}
  /\ \E b \in Waiting(acceptor[a].fd) :
       /\ backlog' = [backlog EXCEPT ![b] = @ - 1]
       /\ fds' = [fds EXCEPT ![Min(Free)] = [mode |-> "conn", local |-> b, peer |-> None]]
  /\ handler' = [handler EXCEPT ![Min(Free)] = "task"]
  /\ Goes(a, "loop")

Accept(a) == /\ acceptor[a].pc = "call"
             /\ AcceptFails(a) \/ AcceptWaits(a) \/ AcceptGives(a)
             /\ UNCHANGED <<armed, user, isStop, listed, lsock, stopper, arrived>>

(* addEvent fails on a closed descriptor, and accept returns an error. *)
Arm(a) == LET f == acceptor[a].fd IN
  /\ acceptor[a].pc = "arm"
  /\ \/ f \in Free /\ Goes(a, "loop") /\ UNCHANGED armed
     \/ f \notin Free /\ Goes(a, "wait") /\ armed' = armed \cup {f}
  /\ UNCHANGED <<fds, backlog, user, isStop, listed, lsock, stopper, handler, arrived>>

(* epoll reports the listening descriptor, to a thread that is idle. *)
Readable(f) == /\ f \in armed /\ AcceptRoom
               /\ Waiting(f) # {}
               /\ armed' = armed \ {f}
               /\ UNCHANGED <<fds, backlog, user, server, arrived>>

-----------------------------------------------------------------------------
(* The io_worker has a thread for a handler. *)
HandlerRoom == Shared => AcceptRoom

(* It runs the handler up to its next read; data schedules it again; a read  *)
(* that fails or times out, after the receive timeout startAccept has set,   *)
(* ends it, and its Socket closes.  Clients may go on talking for ever.      *)
HandlerReads(f) == /\ handler[f] = "task" /\ HandlerRoom
                   /\ handler' = [handler EXCEPT ![f] = "read"]
                   /\ UNCHANGED <<kernel, user, isStop, listed, lsock, acceptor,
                                  stopper, arrived>>

HandlerGets(f) == /\ handler[f] = "read" /\ HandlerRoom
                  /\ handler' = [handler EXCEPT ![f] = "task"]
                  /\ UNCHANGED <<kernel, user, isStop, listed, lsock, acceptor,
                                 stopper, arrived>>

HandlerEnds(f) == /\ handler[f] = "read" /\ HandlerRoom
                  /\ handler' = [handler EXCEPT ![f] = "none"]
                  /\ HookedClose({f})
                  /\ UNCHANGED <<user, isStop, listed, lsock, acceptor, stopper, arrived>>

(* A client of another process connects. *)
Arrive(a) == /\ Listening(a) # {} /\ backlog[a] < MaxBacklog /\ arrived < MaxArrivals
             /\ backlog' = [backlog EXCEPT ![a] = @ + 1]
             /\ arrived' = arrived + 1
             /\ UNCHANGED <<fds, armed, user, server>>

-----------------------------------------------------------------------------
AcceptorStep(a) == Resume(a) \/ Loop(a) \/ Accept(a) \/ Arm(a)

Next == \/ UserStep /\ UNCHANGED <<server, arrived>>
        \/ \E A \in SUBSET Addrs \ {{}} : Bind(A)
        \/ Start \/ Stop \/ StopCancel \/ StopClose
        \/ \E a \in Addrs : AcceptorStep(a) \/ Arrive(a)
        \/ \E f \in Fd : HandlerReads(f) \/ HandlerGets(f) \/ HandlerEnds(f) \/ Readable(f)

Spec == Init /\ [][Next]_vars

(* The task queue is first in, first out: a fiber that is ready is taken in    *)
(* the end, whatever is scheduled after it, if a thread comes free again and   *)
(* again (strong fairness of what needs a thread; the accept loop that spins   *)
(* on EMFILE gives none).  A running fiber goes on, and idle threads ask       *)
(* epoll.  Nothing is assumed of the caller, the user, the clients or the      *)
(* handlers: no read has to end, and no handler has to go on.                  *)
FairSpec == /\ Spec
            /\ SF_vars(StopCancel) /\ WF_vars(StopClose)
            /\ \A a \in Addrs \ Taken : SF_vars(Resume(a)) /\ WF_vars(AcceptorStep(a))
            /\ \A f \in Fd : SF_vars(Readable(f))

-----------------------------------------------------------------------------
TypeOK ==
  /\ SocketTypeOK
  /\ isStop \in BOOLEAN
  /\ listed \subseteq Addrs
  /\ lsock \in [Addrs -> 0 .. MaxFds]
  /\ acceptor \in [Addrs -> [pc : {"none", "task", "loop", "call", "arm", "wait"},
                             fd : 0 .. MaxFds]]
  /\ stopper \in {"none", "task", "close"}
  /\ handler \in [Fd -> {"none", "task", "read"}]
  /\ arrived \in 0 .. MaxArrivals

(* Every open descriptor is held by exactly one Socket (a listening one, an  *)
(* accepted one, the user's) and no Socket holds a closed one: nothing leaks *)
(* and no Socket acts on the connection of another, though numbers are       *)
(* reused at once (Socket::close, ~Socket, the failures of bind and accept). *)
Holders(f) == {a \in Addrs : lsock[a] = f}
              \cup {h \in {"handler"} : handler[f] # "none"}
              \cup {u \in {"user"} : user.sock = f}
FdsOwned == \A f \in Fd : Cardinality(Holders(f)) = IF f \in Free THEN 0 ELSE 1

(* The type invariant, and one owner for every descriptor.                   *)
ServerInv == TypeOK /\ FdsOwned

(* Once stop() is called, every accept fiber comes out of accept and ends    *)
(* and nothing listens any more (unless the server is started again): the    *)
(* fiber waits inside do_io, which knows nothing of m_isStop, and only the   *)
(* cancellation, by stop and by the close, brings it back (tcp_server.cc:    *)
(* 104-107), also while the accept loop spins on EMFILE.                     *)
Quiet == listed = {} /\ \A a \in Addrs : acceptor[a].pc = "none" /\ lsock[a] = 0
StopQuiet == stopper = "task" ~> (Quiet \/ ~isStop)

(* A running server leaves a connection waiting only for want of             *)
(* descriptors: one that waits for ever at an address that is served finds   *)
(* the process without a descriptor from some time on, and the accept loop   *)
(* spinning on EMFILE (tcp_server.cc:70-83).  That it then waits for ever is *)
(* the code's: the loop does not yield, so on the one thread it shares with  *)
(* the handlers none of them runs to give its descriptor back.  A user that  *)
(* never stops opening sockets could take each one first: it is taken to     *)
(* leave off at some time.                                                   *)
Served(a) == a \in listed /\ ~isStop
PendingTaken == <>[][UNCHANGED user]_vars =>
  \A a \in Addrs : <>[](backlog[a] > 0 /\ Served(a)) => <>[](Free = {})
=============================================================================
