-------------------------------- MODULE RpcCall --------------------------------
(***************************************************************************)
(* A remote call from end to end: clients that call through a Channel      *)
(* (channel.cpp) and the provider that serves them (provider.cpp), with    *)
(* the TCP connections between them.                                       *)
(*                                                                         *)
(* A request is two pieces of a byte stream, "head" (the header) and       *)
(* "tail" (the arguments); a recv returns any of what has arrived, from    *)
(* the front.  A handler is the fiber of one connection; all handlers      *)
(* share the members of the one provider object: m_client and m_read_buf.  *)
(* One of them runs at a time, the others wait in recv: the programs run   *)
(* the provider on IOManager(1) (exampleService.cpp:187).  Several threads *)
(* would write these members, which no lock protects, at the same time.    *)
(***************************************************************************)
EXTENDS Integers, Sequences, FiniteSets

CONSTANTS Clients,    \* callers, each with a Channel per call (exampleclient.cpp:102)
          Conns,      \* what connections are numbered with
          Methods,    \* "known", or "unknown" to the provider
          MaxFaults,  \* how often the provider goes down or a client dies during a call
          MaySplit,   \* whether a request or an answer can arrive in parts
          None

ASSUME RpcAssumption ==
    /\ Conns \subseteq Nat /\ IsFiniteSet(Conns) /\ None \notin Conns \cup Clients
    /\ MaxFaults \in Nat
    /\ Methods \subseteq {"known", "unknown"} /\ MaySplit \in BOOLEAN

VARIABLES
    cpc,        \* where a client is in CallMethod
    fd,         \* Channel::m_clientFd
    tries,      \* newConnect calls a Channel has left
    m_failed,   \* clients whose last call's Control says that it failed
    up,         \* the provider runs and listens
    user,       \* the client at the far end of a connection, None if it has closed
    server,     \* "free", "backlog", "accepted", "closed" (FIN sent) or "reset" (RST)
    inbox,      \* what the server has not read of a connection
    outbox,     \* what the client has not read of it
    torn,       \* connections on which the server's kernel has been sent a RST
    hpc,        \* where the handler of a connection is
    at,         \* the connection a handler waits on
    m_client, m_read_buf,
    executed,   \* how often the current call of a client was executed
    spoiled,    \* whether there was more than one user at a time (exampleService.cpp:21),
                \* a fault, a request in parts or an unknown method
    faults

clientVars == <<cpc, fd, tries, m_failed>>
wireVars == <<user, server, inbox, outbox, torn>>
providerVars == <<up, hpc, at, m_client, m_read_buf>>
ghostVars == <<executed, spoiled>>
vars == <<clientVars, wireVars, providerVars, ghostVars, faults>>

Init ==
    /\ cpc = [c \in Clients |-> "idle"]
    /\ fd = [c \in Clients |-> None]
    /\ tries = [c \in Clients |-> 0]
    /\ m_failed = {}
    /\ up = TRUE
    /\ user = [k \in Conns |-> None]
    /\ server = [k \in Conns |-> "free"]
    /\ inbox = [k \in Conns |-> <<>>]
    /\ outbox = [k \in Conns |-> <<>>]
    /\ torn = {}
    /\ hpc = [k \in Conns |-> "none"]
    /\ at = [k \in Conns |-> None]
    /\ m_client = None /\ m_read_buf = <<>>
    /\ executed = [c \in Clients |-> 0]
    /\ spoiled = FALSE
    /\ faults = 0

-----------------------------------------------------------------------------
(* The client: Channel                                                     *)

\* What the provider's NotifyService has entered in m_serviceMap.
Registered == {"known"}

Request(c, method) ==
    << [client |-> c, part |-> IF method \in Registered THEN "head" ELSE "bad"],
       [client |-> None, part |-> "tail"] >>

\* A connection is gone when both ends are closed.
Freed(s, u) == [k \in Conns |-> IF u[k] = None /\ s[k] \in {"closed", "reset"} THEN "free" ELSE s[k]]

\* What is still on its way of a call that has ended is nobody's.
Orphaned(c, seq) ==
    [i \in DOMAIN seq |-> IF seq[i].client = c THEN [seq[i] EXCEPT !.client = None] ELSE seq[i]]

\* Connection k is closed at the client's end, for good if c is the client: what is unread
\* there makes the kernel send a RST.
ClientCloses(k, c, unread) ==
    /\ user' = [user EXCEPT ![k] = None]
    /\ server' = Freed(server, user')
    /\ torn' = IF server[k] \in {"closed", "reset"} THEN torn \ {k}
               ELSE IF unread THEN torn \cup {k} ELSE torn
    /\ inbox' = [j \in Conns |-> IF server'[j] = "free" THEN <<>> ELSE Orphaned(c, inbox[j])]
    /\ outbox' = [j \in Conns |-> IF j = k THEN <<>> ELSE Orphaned(c, outbox[j])]
    /\ m_read_buf' = Orphaned(c, m_read_buf)
    /\ UNCHANGED <<up, hpc, at, m_client>>

\* A Control, new or after SetFailed.
Control(c, failed) == IF failed THEN m_failed \cup {c} ELSE m_failed \ {c}

\* CallMethod returns, with the Channel's connection closed.
Finish(c, failed) ==
    /\ cpc' = [cpc EXCEPT ![c] = "idle"]
    /\ fd' = [fd EXCEPT ![c] = None]
    /\ tries' = [tries EXCEPT ![c] = 0]
    /\ m_failed' = Control(c, failed)
    /\ executed' = [executed EXCEPT ![c] = 0]

\* Bound: a call begins when there is a number left for its connection.
Room ==
    Cardinality({c \in Clients : cpc[c] = "dial"}) < Cardinality({k \in Conns : server[k] = "free"})

\* A new Channel with connectNow: newConnect and, if it fails, three more of them; then
\* CallMethod, whose first act is one more if there is no connection.
Call(c) ==
    /\ cpc[c] = "idle" /\ Room
    /\ cpc' = [cpc EXCEPT ![c] = "dial"]
    /\ tries' = [tries EXCEPT ![c] = 5]
    /\ m_failed' = Control(c, FALSE)
    /\ spoiled' = (spoiled /\ \E k \in Conns : server[k] # "free")
    /\ UNCHANGED <<fd, wireVars, providerVars, executed, faults>>

\* newConnect, for the constructor or after a send that failed.
NewConnect(c) ==
    /\ cpc[c] = "dial"
    /\ \/ /\ up
          /\ \E k \in Conns :
                /\ server[k] = "free"
                /\ \A j \in Conns : server[j] = "free" => k <= j
                /\ server' = [server EXCEPT ![k] = "backlog"]
                /\ user' = [user EXCEPT ![k] = c]
                /\ fd' = [fd EXCEPT ![c] = k]
          /\ cpc' = [cpc EXCEPT ![c] = "send"]
          /\ tries' = [tries EXCEPT ![c] = 0]
          /\ spoiled' = (spoiled \/ \E d \in Clients : fd[d] # None)
          /\ UNCHANGED <<m_failed, inbox, outbox, torn, executed>>
       \/ /\ ~up
          /\ \/ /\ tries[c] > 1
                /\ tries' = [tries EXCEPT ![c] = @ - 1]
                /\ UNCHANGED <<cpc, fd, m_failed, executed>>
             \/ tries[c] <= 1 /\ Finish(c, TRUE)
          /\ UNCHANGED <<wireVars, spoiled>>
    /\ UNCHANGED <<providerVars, faults>>

\* send: it fails only on a connection that was reset before; then the Channel closes
\* it, makes one attempt at a new one and sends again.
Send(c, method) ==
    LET k == fd[c] IN
    /\ cpc[c] = "send"
    /\ \/ /\ server[k] = "reset"
          /\ ClientCloses(k, None, FALSE)
          /\ fd' = [fd EXCEPT ![c] = None]
          /\ cpc' = [cpc EXCEPT ![c] = "dial"]
          /\ tries' = [tries EXCEPT ![c] = 1]
          /\ UNCHANGED spoiled
       \/ /\ server[k] # "reset"
          /\ inbox' = IF server[k] = "closed" THEN inbox
                      ELSE [inbox EXCEPT ![k] = @ \o Request(c, method)]
          /\ cpc' = [cpc EXCEPT ![c] = "await"]
          /\ spoiled' = (spoiled \/ method = "unknown")
          /\ UNCHANGED <<fd, tries, user, server, outbox, torn, providerVars>>
    /\ UNCHANGED <<m_failed, executed, faults>>

\* mutant: the Channel sends again when the answer does not come
RecvRetries(c) ==
    LET k == fd[c] IN
    /\ cpc[c] = "await"
    /\ \/ /\ outbox[k] # <<>>
          /\ Finish(c, FALSE)
          /\ ClientCloses(k, c, FALSE)
       \/ /\ outbox[k] = <<>> /\ server[k] \in {"closed", "reset"}
          /\ fd' = [fd EXCEPT ![c] = None]
          /\ cpc' = [cpc EXCEPT ![c] = "dial"]
          /\ tries' = [tries EXCEPT ![c] = 1]
          /\ ClientCloses(k, None, FALSE)
          /\ UNCHANGED <<m_failed, executed>>
    /\ UNCHANGED <<spoiled, faults>>
\* One recv, with no timeout, and the end of the call.  An end of stream is 0 bytes,
\* which parse as an empty response; a part of an answer may parse or not, and its rest
\* stays unread.
Recv(c) ==
    LET k == fd[c] IN
    /\ cpc[c] = "await"
    /\ \/ /\ outbox[k] # <<>>
          /\ \/ Finish(c, FALSE) /\ ClientCloses(k, c, FALSE)
             \/ /\ MaySplit
                /\ \E failed \in BOOLEAN : Finish(c, failed)
                /\ ClientCloses(k, c, TRUE)
       \/ /\ outbox[k] = <<>> /\ server[k] \in {"closed", "reset"}
          /\ Finish(c, server[k] = "reset")
          /\ ClientCloses(k, c, FALSE)
    /\ UNCHANGED <<spoiled, faults>>

\* The process of a client ends during a call.
Die(c) ==
    /\ fd[c] # None /\ faults < MaxFaults
    /\ faults' = faults + 1
    /\ Finish(c, FALSE)
    /\ ClientCloses(fd[c], c, outbox[fd[c]] # <<>>)
    /\ spoiled' = TRUE

-----------------------------------------------------------------------------
(* The provider                                                            *)

\* No handler runs: each of the others is in m_tasks or waits for its connection.
ThreadFree == \A k \in Conns : hpc[k] \notin {"read", "message"}

\* startAccept: the handler of the connection is scheduled.
Accept(k) ==
    /\ up /\ server[k] = "backlog"
    /\ server' = [server EXCEPT ![k] = "accepted"]
    /\ hpc' = [hpc EXCEPT ![k] = "start"]
    /\ UNCHANGED <<clientVars, user, inbox, outbox, torn, up, at, m_client, m_read_buf,
                   ghostVars, faults>>

\* mutant: the provider keeps the first client it was given
StartKeeps(k) ==
    /\ hpc[k] = "start" /\ ThreadFree
    /\ m_client' = IF m_client = None THEN k ELSE m_client
    /\ hpc' = [hpc EXCEPT ![k] = "read"]
    /\ UNCHANGED <<clientVars, wireVars, up, at, m_read_buf, ghostVars, faults>>
\* handleClient up to the first read_once.
Start(k) ==
    /\ hpc[k] = "start" /\ ThreadFree
    /\ m_client' = k
    /\ hpc' = [hpc EXCEPT ![k] = "read"]
    /\ UNCHANGED <<clientVars, wireVars, up, at, m_read_buf, ghostVars, faults>>

\* mutant: a handler that ends forgets to close its connection
EndLeaks(k) ==
    /\ hpc' = [hpc EXCEPT ![k] = "none"]
    /\ at' = [at EXCEPT ![k] = None]
    /\ UNCHANGED <<server, inbox, torn, m_client>>
\* client->close() and the end of the handler.  The Socket m_client points to has no
\* descriptor from then on.  What was not read makes the kernel send a RST.
End(k) ==
    LET s == IF inbox[k] # <<>> \/ k \in torn THEN "reset" ELSE "closed" IN
    /\ hpc' = [hpc EXCEPT ![k] = "none"]
    /\ at' = [at EXCEPT ![k] = None]
    /\ server' = Freed([server EXCEPT ![k] = s], user)
    /\ inbox' = [inbox EXCEPT ![k] = <<>>]
    /\ torn' = torn \ {k}
    /\ m_client' = IF m_client = k THEN None ELSE m_client

Overlay(new, old) == new \o SubSeq(old, Len(new) + 1, Len(old))

\* recv on connection t for the handler of k, into the shared buffer: n pieces, or the
\* end of the stream, or an error.
Take(k, t) ==
    \E n \in 1 .. Len(inbox[t]) :
        /\ MaySplit \/ n = Len(inbox[t])
        /\ m_read_buf' = Overlay(SubSeq(inbox[t], 1, n), m_read_buf)
        /\ inbox' = [inbox EXCEPT ![t] = SubSeq(@, n + 1, Len(@))]
        /\ hpc' = [hpc EXCEPT ![k] = "message"]
        /\ at' = [at EXCEPT ![k] = None]
        /\ spoiled' = (spoiled \/ n < Len(inbox[t]))
        /\ UNCHANGED <<server, torn, m_client>>

Closed(t) == server[t] # "accepted"
Ended(t) == Closed(t) \/ (user[t] = None /\ inbox[t] = <<>>)

\* read_once up to the point where it waits.  On a Socket that is closed recv returns -1
\* with whatever errno holds; where another fiber waits already, IOManager refuses and
\* do_io returns -1 with EAGAIN, which read_once takes for success.
Read(k) ==
    LET t == m_client IN
    /\ hpc[k] = "read"
    /\ IF t = None
       THEN \/ hpc' = [hpc EXCEPT ![k] = "message"]
               /\ UNCHANGED <<server, inbox, torn, m_client, m_read_buf, at, spoiled>>
            \/ End(k) /\ UNCHANGED <<m_read_buf, spoiled>>
       ELSE \/ inbox[t] # <<>> /\ Take(k, t)
            \/ inbox[t] = <<>> /\ Ended(t) /\ End(k) /\ UNCHANGED <<m_read_buf, spoiled>>
            \/ /\ inbox[t] = <<>> /\ ~Ended(t)
               /\ IF \A j \in Conns : at[j] # t
                  THEN /\ hpc' = [hpc EXCEPT ![k] = "wait"]
                       /\ at' = [at EXCEPT ![k] = t]
                  ELSE /\ hpc' = [hpc EXCEPT ![k] = "message"]
                       /\ UNCHANGED at
               /\ UNCHANGED <<server, inbox, torn, m_client, m_read_buf, spoiled>>
    /\ UNCHANGED <<clientVars, user, outbox, up, executed, faults>>

\* mutant: a wait in recv ends with data only
ResumeWithData(k) ==
    /\ hpc[k] = "wait" /\ ThreadFree
    /\ inbox[at[k]] # <<>> /\ Take(k, at[k])
    /\ UNCHANGED <<clientVars, user, outbox, up, executed, faults>>
\* The event comes, or the connection was closed under the handler (cancelAll): do_io
\* calls recv again on the descriptor it began with, by then perhaps another connection's.
Resume(k) ==
    /\ hpc[k] = "wait" /\ ThreadFree
    /\ \/ inbox[at[k]] # <<>> /\ ~Closed(at[k]) /\ Take(k, at[k])
       \/ /\ Ended(at[k])
          /\ End(k)
          /\ UNCHANGED <<m_read_buf, spoiled>>
    /\ UNCHANGED <<clientVars, user, outbox, up, executed, faults>>

\* The receive timeout of two minutes: a client that has a connection sends long before.
Timeout(k) ==
    /\ hpc[k] = "wait" /\ ThreadFree
    /\ inbox[at[k]] = <<>>
    /\ user[at[k]] # None => cpc[user[at[k]]] = "await"
    /\ End(k)
    /\ UNCHANGED <<clientVars, user, outbox, up, m_read_buf, ghostVars, faults>>

\* What all connections come to when the process of the provider ends.
Down ==
    /\ up' = FALSE
    /\ server' = Freed([k \in Conns |->
                          IF server[k] \in {"free", "closed", "reset"} THEN server[k]
                          ELSE IF inbox[k] # <<>> \/ server[k] = "backlog" \/ k \in torn
                               THEN "reset" ELSE "closed"], user)
    /\ inbox' = [k \in Conns |-> <<>>]
    /\ torn' = {}
    /\ hpc' = [k \in Conns |-> "none"]
    /\ at' = [k \in Conns |-> None]
    /\ m_client' = None /\ m_read_buf' = <<>>

\* SendRpcResponse to m_client.  The first answer to a client that is gone makes its
\* kernel send a RST, and a send after a RST is a SIGPIPE, which nobody handles.
Respond(k, piece) ==
    LET t == m_client IN
    \/ /\ t # None /\ user[t] = None /\ t \in torn
       /\ Down
       /\ UNCHANGED outbox
    \/ /\ ~(t # None /\ user[t] = None /\ t \in torn)
       /\ outbox' = IF t # None /\ user[t] # None
                    THEN [outbox EXCEPT ![t] = Append(@, [client |-> piece.client])] ELSE outbox
       /\ torn' = IF t # None /\ user[t] = None THEN torn \cup {t} ELSE torn
       /\ m_read_buf' = <<>>
       /\ hpc' = [hpc EXCEPT ![k] = "read"]
       /\ UNCHANGED <<up, server, inbox, at, m_client>>

\* What OnMessage finds a known method in.
Parses(buf) == buf # <<>> /\ buf[1].part = "head"

\* The request of a client has been executed, once more.
Executed(piece) ==
    executed' = IF piece.client # None
                THEN [executed EXCEPT ![piece.client] = @ + 1] ELSE executed

\* OnMessage, on what the buffer holds up to its first zero byte, with the answer and the
\* reset behind it: one step, as the one thread is given up nowhere in between (the method
\* does not wait, and a send would only if the few bytes of an answer filled the socket).
\* A header cut between two of its fields parses, and then the call has no arguments.
OnMessage(k) ==
    /\ hpc[k] = "message"
    /\ \/ /\ Parses(m_read_buf)
          /\ Executed(m_read_buf[1])
          /\ Respond(k, m_read_buf[1])
       \/ /\ ~Parses(m_read_buf) \/ Len(m_read_buf) = 1
          /\ End(k)
          /\ UNCHANGED <<up, outbox, m_read_buf, executed>>
    /\ UNCHANGED <<clientVars, user, spoiled, faults>>

Crash ==
    /\ up /\ faults < MaxFaults
    /\ faults' = faults + 1
    /\ Down
    /\ spoiled' = TRUE
    /\ UNCHANGED <<clientVars, user, outbox, executed>>

Restart ==
    /\ ~up
    /\ up' = TRUE
    /\ UNCHANGED <<clientVars, wireVars, hpc, at, m_client, m_read_buf, ghostVars, faults>>

-----------------------------------------------------------------------------

ClientStep(c) ==
    \/ NewConnect(c)
    \/ \E method \in Methods : Send(c, method)
    \/ Recv(c)

ServerStep(k) ==
    \/ Accept(k)
    \/ Start(k)
    \/ Read(k)
    \/ Resume(k)
    \/ OnMessage(k)

Next ==
    \/ \E c \in Clients : Call(c) \/ ClientStep(c) \/ Die(c)
    \/ \E k \in Conns : ServerStep(k) \/ Timeout(k)
    \/ Crash
    \/ Restart

Spec == Init /\ [][Next]_vars

\* The kernel and the two programs go on; nobody owes a call, a death, a crash, a
\* restart or a timeout.  A handler that can run does in the end, for m_tasks is a queue.
Fairness ==
    /\ \A c \in Clients : WF_vars(ClientStep(c))
    /\ \A k \in Conns : SF_vars(ServerStep(k))

FairSpec == Spec /\ Fairness
-----------------------------------------------------------------------------

Pieces == [client : Clients \cup {None}, part : {"head", "bad", "tail"}]

TypeOK ==
    /\ cpc \in [Clients -> {"idle", "dial", "send", "await"}]
    /\ fd \in [Clients -> Conns \cup {None}]
    /\ tries \in [Clients -> 0 .. 5]
    /\ m_failed \subseteq Clients
    /\ user \in [Conns -> Clients \cup {None}]
    /\ server \in [Conns -> {"free", "backlog", "accepted", "closed", "reset"}]
    /\ \A k \in Conns : Len(inbox[k]) <= 2 /\ \A i \in 1 .. Len(inbox[k]) : inbox[k][i] \in Pieces
    /\ \A k \in Conns : \A i \in 1 .. Len(outbox[k]) : outbox[k][i].client \in Clients \cup {None}
    /\ hpc \in [Conns -> {"none", "start", "read", "wait", "message"}]
    /\ \A k \in Conns : (hpc[k] = "wait" <=> at[k] # None) /\ (hpc[k] # "none" => server[k] = "accepted")
    /\ \A c \in Clients : fd[c] # None => user[fd[c]] = c
    /\ m_client \in Conns \cup {None} /\ up \in BOOLEAN /\ spoiled \in BOOLEAN

\* One user at a time is served (exampleService.cpp:21): nothing that an earlier call has
\* left behind, a fiber in recv, a pointer in m_client or bytes in m_read_buf, keeps the
\* next call from being executed once and from getting its own answer.
SingleUserServed ==
    [][\A c \in Clients :
         cpc[c] = "await" /\ cpc'[c] = "idle" /\ ~spoiled'
         => outbox[fd[c]] = <<[client |-> c]>> /\ executed[c] = 1]_vars

\* Whatever crashes, reconnects and leftovers in m_read_buf there are, a call is executed
\* at most once (channel.cpp:95 sends again only what was not sent).
AtMostOnce == \A c \in Clients : executed[c] <= 1

\* The type invariant, and no call executed twice.
CallInv == TypeOK /\ AtMostOnce

\* A call returns, whatever becomes of the provider (channel.cpp:110 waits without a
\* timeout), also when several clients are served at a time.
CallEnds == \A c \in Clients : cpc[c] # "idle" ~> cpc[c] = "idle"

\* When the client is gone the provider gives the connection back, whatever connection
\* its handler waits on (provider.cpp:150 tests its own socket and reads m_client).
ServerReleases ==
    \A k \in Conns : server[k] = "accepted" /\ user[k] = None ~> server[k] # "accepted"

\* exampleclient.cpp:108 says that the client deals with errors, such as a service that
\* has gone: a call that is not reported as failed has been answered.
SuccessMeansAnswered ==
    [][\A c \in Clients :
         cpc[c] = "await" /\ cpc'[c] = "idle" /\ c \notin m_failed' /\ faults' = faults
         => outbox[fd[c]] # <<>>]_vars
=============================================================================
