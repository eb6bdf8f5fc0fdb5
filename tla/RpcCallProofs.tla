---------------------------- MODULE RpcCallProofs -----------------------------
(***************************************************************************)
(* Theorems about RpcCall, for any callers, connections, faults and cuts   *)
(* of the byte stream.                                                     *)
(*                                                                         *)
(* AtMostOnce counts executions.  It is inductive only together with where *)
(* a request can be: a request not yet executed is on the connection of    *)
(* its caller or at the front of m_read_buf, never at both and never       *)
(* twice, its caller awaits the answer, and recv, which overlays the       *)
(* buffer, loses a request but doubles none.                               *)
(*                                                                         *)
(* SingleUserServed needs the one thread: what the user has on its way is  *)
(* on its connection or in m_read_buf, the handlers that earlier users     *)
(* have left can only end, and m_client points to the user's connection.   *)
(***************************************************************************)
EXTENDS RpcCall, FiniteSetTheorems, SequenceTheorems, TLAPS

USE DEF clientVars, wireVars, providerVars, ghostVars

\* What the client reads; the types of the variables, sequences included.
Answers == [client : Clients \cup {None}]

StateTypeOK ==
    /\ cpc \in [Clients -> {"idle", "dial", "send", "await"}]
    /\ fd \in [Clients -> Conns \cup {None}]
    /\ tries \in [Clients -> 0 .. 5]
    /\ m_failed \subseteq Clients
    /\ user \in [Conns -> Clients \cup {None}]
    /\ server \in [Conns -> {"free", "backlog", "accepted", "closed", "reset"}]
    /\ inbox \in [Conns -> Seq(Pieces)]
    /\ outbox \in [Conns -> Seq(Answers)]
    /\ hpc \in [Conns -> {"none", "start", "read", "wait", "message"}]
    /\ at \in [Conns -> Conns \cup {None}]
    /\ m_client \in Conns \cup {None} /\ m_read_buf \in Seq(Pieces)
    /\ executed \in [Clients -> Nat]
    /\ up \in BOOLEAN /\ spoiled \in BOOLEAN

\* A connection has one client, which has written on it only once it has sent.
ClientInv ==
    /\ \A c \in Clients, k \in Conns : fd[c] = k <=> user[k] = c
    /\ \A c \in Clients : fd[c] # None <=> cpc[c] \in {"send", "await"}
    /\ \A k \in Conns : server[k] = "free" => user[k] = None
    /\ \A c \in Clients : cpc[c] = "send" => inbox[fd[c]] = <<>>

\* A handler has a connection, which takes nothing any more when it is closed.
HandlerInv ==
    /\ \A k \in Conns : hpc[k] = "wait" <=> at[k] # None
    /\ \A k \in Conns : hpc[k] # "none" => server[k] = "accepted"
    /\ \A k \in Conns : server[k] \in {"free", "closed", "reset"} => inbox[k] = <<>>

\* The name of a caller is on the first piece only.
HeadOnly(seq) == Len(seq) > 1 => \A i \in 2 .. Len(seq) : seq[i].client = None
Asks(seq, c) == seq # <<>> /\ seq[1].client = c

\* The request of a call is in one place, and there is none once it is executed.
RequestInv ==
    /\ \A k \in Conns : HeadOnly(inbox[k]) /\ Len(inbox[k]) <= 2
    /\ HeadOnly(m_read_buf)
    /\ \A c \in Clients, k \in Conns :
          Asks(inbox[k], c) => /\ fd[c] = k /\ cpc[c] = "await" /\ executed[c] = 0
                               /\ ~Asks(m_read_buf, c)
    /\ \A c \in Clients : Asks(m_read_buf, c) => cpc[c] = "await" /\ executed[c] = 0
    /\ \A c \in Clients : executed[c] <= 1 /\ (cpc[c] # "await" => executed[c] = 0)

IInv == StateTypeOK /\ ClientInv /\ HandlerInv /\ RequestInv

-----------------------------------------------------------------------------
(* Sequences: what a call leaves behind, and what recv takes.               *)

\* What is left of a sequence when a caller is taken off it.
LEMMA Orphans ==
    ASSUME NEW S, NEW seq \in Seq(S), NEW c,
           \A x \in S : [x EXCEPT !.client = None] \in S
                        /\ [x EXCEPT !.client = None].client = None
    PROVE  /\ Orphaned(c, seq) \in Seq(S)
           /\ Len(Orphaned(c, seq)) = Len(seq)
           /\ \A i \in 1 .. Len(seq) : Orphaned(c, seq)[i].client
                = IF seq[i].client = c THEN None ELSE seq[i].client
<1>1. Len(seq) \in Nat /\ DOMAIN seq = 1 .. Len(seq) /\ \A i \in 1 .. Len(seq) : seq[i] \in S
  OBVIOUS
<1>2. PICK new : new = Orphaned(c, seq)
  OBVIOUS
<1>3. new \in [1 .. Len(seq) -> S]
  BY <1>1, <1>2 DEF Orphaned
<1>4. new \in Seq(S) /\ Len(new) = Len(seq)
  BY <1>1, <1>3, SeqDef
<1>5. \A i \in 1 .. Len(seq) : new[i].client = IF seq[i].client = c THEN None ELSE seq[i].client
  BY <1>1, <1>2 DEF Orphaned
<1> QED BY <1>2, <1>4, <1>5

\* Requests that lose their caller: the others ask as they did.
LEMMA OrphanedPieces ==
    ASSUME NEW seq \in Seq(Pieces), NEW c \in Clients \cup {None}
    PROVE  /\ Orphaned(c, seq) \in Seq(Pieces)
           /\ Len(Orphaned(c, seq)) = Len(seq)
           /\ Orphaned(c, seq) = <<>> <=> seq = <<>>
           /\ HeadOnly(seq) => HeadOnly(Orphaned(c, seq))
           /\ \A d \in Clients : Asks(Orphaned(c, seq), d) <=> d # c /\ Asks(seq, d)
<1>1. \A x \in Pieces : [x EXCEPT !.client = None] \in Pieces
                        /\ [x EXCEPT !.client = None].client = None
  BY DEF Pieces
<1>2. PICK new : new = Orphaned(c, seq)
  OBVIOUS
<1>3. /\ new \in Seq(Pieces) /\ Len(new) = Len(seq)
      /\ \A i \in 1 .. Len(seq) : new[i].client = IF seq[i].client = c THEN None ELSE seq[i].client
  BY <1>1, <1>2, Orphans
<1>4. new = <<>> <=> seq = <<>>
  BY <1>3, EmptySeq
<1>5. HeadOnly(seq) => HeadOnly(new)
  BY <1>3 DEF HeadOnly
<1>6. seq # <<>> => 1 \in 1 .. Len(seq)
  BY EmptySeq
<1>7. \A d \in Clients : Asks(new, d) <=> d # c /\ Asks(seq, d)
  BY <1>3, <1>4, <1>6, RpcAssumption DEF Asks
<1> QED BY <1>2, <1>3, <1>4, <1>5, <1>7

\* Answers stay answers.
LEMMA OrphanedAnswers ==
    ASSUME NEW seq \in Seq(Answers), NEW c
    PROVE  Orphaned(c, seq) \in Seq(Answers)
<1>1. \A x \in Answers : [x EXCEPT !.client = None] \in Answers
                         /\ [x EXCEPT !.client = None].client = None
  BY DEF Answers
<1> QED BY <1>1, Orphans

\* One recv: what is left of a connection asks for nobody, what is read asks for whom
\* the connection asked.
LEMMA Parts ==
    ASSUME NEW seq \in Seq(Pieces), Len(seq) <= 2, HeadOnly(seq), NEW n \in 1 .. Len(seq),
           NEW old \in Seq(Pieces), HeadOnly(old)
    PROVE  LET rest == SubSeq(seq, n + 1, Len(seq))
               buf == Overlay(SubSeq(seq, 1, n), old) IN
           /\ rest \in Seq(Pieces) /\ Len(rest) <= 2 /\ HeadOnly(rest)
           /\ \A c \in Clients : ~Asks(rest, c)
           /\ buf \in Seq(Pieces) /\ HeadOnly(buf)
           /\ \A c \in Clients : Asks(buf, c) <=> Asks(seq, c)
<1>1. PICK rest : rest = SubSeq(seq, n + 1, Len(seq))
  OBVIOUS
<1>2. PICK new : new = SubSeq(seq, 1, n)
  OBVIOUS
<1>3. /\ rest \in Seq(Pieces) /\ Len(rest) = Len(seq) - n
      /\ \A i \in 1 .. Len(seq) - n : rest[i] = seq[n + i]
  BY <1>1, SubSeqProperties
<1>4. /\ new \in Seq(Pieces) /\ Len(new) = n
      /\ \A i \in 1 .. n : new[i] = seq[i]
  BY <1>2, SubSeqProperties
<1>5. PICK tail : tail = SubSeq(old, Len(new) + 1, Len(old))
  OBVIOUS
<1>6. /\ tail \in Seq(Pieces)
      /\ Len(tail) = IF n + 1 <= Len(old) THEN Len(old) - n ELSE 0
      /\ \A i \in 1 .. Len(old) - n : tail[i] = old[n + i]
  BY <1>4, <1>5, SubSeqProperties
<1>7. PICK buf : buf = new \o tail
  OBVIOUS
<1>8. /\ buf \in Seq(Pieces) /\ Len(buf) = Len(new) + Len(tail)
      /\ \A i \in 1 .. Len(buf) : buf[i] = IF i <= n THEN seq[i] ELSE old[i]
  BY <1>4, <1>6, <1>7, ConcatProperties
<1>9. HeadOnly(rest) /\ Len(rest) <= 2
  BY <1>3 DEF HeadOnly
<1>10. HeadOnly(buf)
  <2>1. /\ Len(seq) \in Nat /\ Len(old) \in Nat /\ n \in 1 .. Len(seq)
        /\ Len(buf) = n + (IF n + 1 <= Len(old) THEN Len(old) - n ELSE 0)
    BY <1>4, <1>6, <1>8
  <2>2. ASSUME NEW i \in 2 .. Len(buf)
        PROVE  buf[i].client = None
    <3>1. CASE i <= n
      <4>1. i \in 2 .. Len(seq) /\ buf[i] = seq[i]
        BY <1>8, <2>1, <2>2, <3>1
      <4> QED BY <4>1 DEF HeadOnly
    <3>2. CASE i > n
      <4>1. i \in 2 .. Len(old) /\ buf[i] = old[i]
        BY <1>8, <2>1, <2>2, <3>2
      <4> QED BY <4>1 DEF HeadOnly
    <3> QED BY <2>1, <3>1, <3>2
  <2> QED BY <2>2 DEF HeadOnly
<1>11. \A c \in Clients : ~Asks(rest, c)
  <2>1. rest # <<>> => Len(rest) > 0
    BY <1>3, EmptySeq
  <2>2. rest # <<>> => n = 1 /\ Len(seq) = 2 /\ rest[1] = seq[2]
    BY <1>3, <2>1
  <2> QED BY <2>2, RpcAssumption DEF Asks, HeadOnly
<1>12. \A c \in Clients : Asks(buf, c) <=> Asks(seq, c)
  <2>1. buf[1] = seq[1] /\ buf # <<>> /\ seq # <<>>
    BY <1>4, <1>6, <1>8, EmptySeq
  <2> QED BY <2>1 DEF Asks
<1> QED BY <1>1, <1>2, <1>3, <1>5, <1>7, <1>8, <1>9, <1>10, <1>11, <1>12 DEF Overlay

-----------------------------------------------------------------------------
(* The closing ends of a connection, and recv.                             *)

\* A connection that nobody has any more is free; the others stay as they are.
LEMMA Freeing ==
    ASSUME NEW s \in [Conns -> {"free", "backlog", "accepted", "closed", "reset"}], NEW u
    PROVE  /\ Freed(s, u) \in [Conns -> {"free", "backlog", "accepted", "closed", "reset"}]
           /\ \A k \in Conns : /\ Freed(s, u)[k] \in {"backlog", "accepted"} <=>
                                    s[k] \in {"backlog", "accepted"}
                               /\ Freed(s, u)[k] = "accepted" <=> s[k] = "accepted"
                               /\ Freed(s, u)[k] = "free" => s[k] = "free" \/ u[k] = None
BY DEF Freed

\* The client's end of a connection is closed: by the end of the call, or for one more
\* attempt at a call that was not sent.
LEMMA ClosesStep ==
    ASSUME IInv, NEW c \in Clients, fd[c] \in Conns, NEW x \in {c, None},
           NEW v \in {"idle", "dial"}, NEW unread, ClientCloses(fd[c], x, unread),
           fd' = [fd EXCEPT ![c] = None], cpc' = [cpc EXCEPT ![c] = v],
           tries' \in [Clients -> 0 .. 5], m_failed' \subseteq Clients, spoiled' \in BOOLEAN,
           \/ x = c /\ executed' = [executed EXCEPT ![c] = 0]
           \/ x = None /\ cpc[c] = "send" /\ executed' = executed
    PROVE  IInv'
<1> DEFINE k == fd[c]
<1>0. /\ StateTypeOK /\ ClientInv /\ HandlerInv /\ RequestInv
      /\ x \in Clients \cup {None} /\ c # None /\ x # None => x = c
  BY RpcAssumption DEF IInv
<1>1. /\ user' = [user EXCEPT ![k] = None] /\ server' = Freed(server, user')
      /\ inbox' = [j \in Conns |-> IF server'[j] = "free" THEN <<>> ELSE Orphaned(x, inbox[j])]
      /\ outbox' = [j \in Conns |-> IF j = k THEN <<>> ELSE Orphaned(x, outbox[j])]
      /\ m_read_buf' = Orphaned(x, m_read_buf)
      /\ UNCHANGED <<up, hpc, at, m_client>>
  BY DEF ClientCloses
<1>2. /\ \A j \in Conns : user'[j] = IF j = k THEN None ELSE user[j]
      /\ \A d \in Clients : /\ fd'[d] = IF d = c THEN None ELSE fd[d]
                            /\ cpc'[d] = IF d = c THEN v ELSE cpc[d]
      /\ \A d \in Clients : executed'[d] = IF d = c THEN 0 ELSE executed[d]
  BY <1>0, <1>1 DEF StateTypeOK, RequestInv
<1>3. /\ server' \in [Conns -> {"free", "backlog", "accepted", "closed", "reset"}]
      /\ \A j \in Conns : /\ server'[j] \in {"backlog", "accepted"} <=>
                               server[j] \in {"backlog", "accepted"}
                          /\ server'[j] = "accepted" <=> server[j] = "accepted"
                          /\ server'[j] = "free" => server[j] = "free" \/ user'[j] = None
  <2>1. server \in [Conns -> {"free", "backlog", "accepted", "closed", "reset"}]
    BY <1>0 DEF StateTypeOK
  <2>2. PICK u : u = user'
    OBVIOUS
  <2>3. server' = Freed(server, u)
    BY <1>1, <2>2
  <2> HIDE DEF k
  <2> QED BY ONLY <2>1, <2>2, <2>3, Freeing
<1>4. \A j \in Conns : /\ inbox'[j] \in Seq(Pieces) /\ Len(inbox'[j]) <= 2
                       /\ HeadOnly(inbox'[j]) /\ (inbox[j] = <<>> => inbox'[j] = <<>>)
                       /\ \A d \in Clients : Asks(inbox'[j], d) => d # x /\ Asks(inbox[j], d)
  <2> SUFFICES ASSUME NEW j \in Conns
               PROVE  /\ inbox'[j] \in Seq(Pieces) /\ Len(inbox'[j]) <= 2
                      /\ HeadOnly(inbox'[j]) /\ (inbox[j] = <<>> => inbox'[j] = <<>>)
                      /\ \A d \in Clients : Asks(inbox'[j], d) => d # x /\ Asks(inbox[j], d)
    OBVIOUS
  <2>1. CASE server'[j] = "free"
    <3>1. inbox'[j] = <<>>
      BY <1>1, <2>1
    <3> QED BY <3>1 DEF HeadOnly, Asks
  <2>2. CASE server'[j] # "free"
    <3>1. inbox'[j] = Orphaned(x, inbox[j])
      BY <1>1, <2>2
    <3>2. inbox[j] \in Seq(Pieces) /\ Len(inbox[j]) <= 2 /\ HeadOnly(inbox[j])
      BY <1>0 DEF StateTypeOK, RequestInv
    <3> QED BY <1>0, <3>1, <3>2, OrphanedPieces
  <2> QED BY <2>1, <2>2
<1>5. /\ m_read_buf' \in Seq(Pieces) /\ HeadOnly(m_read_buf')
      /\ \A d \in Clients : Asks(m_read_buf', d) => d # x /\ Asks(m_read_buf, d)
  <2>1. m_read_buf \in Seq(Pieces) /\ HeadOnly(m_read_buf)
    BY <1>0 DEF StateTypeOK, RequestInv
  <2> QED BY <1>0, <1>1, <2>1, OrphanedPieces
<1>6. \A j \in Conns : outbox'[j] \in Seq(Answers)
  <2>1. \A j \in Conns : Orphaned(x, outbox[j]) \in Seq(Answers)
    BY <1>0, OrphanedAnswers DEF StateTypeOK
  <2> QED BY <1>1, <2>1
<1>7. StateTypeOK'
  <2>1. inbox' \in [Conns -> Seq(Pieces)] /\ outbox' \in [Conns -> Seq(Answers)]
    BY <1>1, <1>4, <1>6
  <2>2. /\ cpc' \in [Clients -> {"idle", "dial", "send", "await"}]
        /\ fd' \in [Clients -> Conns \cup {None}]
        /\ user' \in [Conns -> Clients \cup {None}]
        /\ executed' \in [Clients -> Nat]
    BY <1>0, <1>1, <1>2 DEF StateTypeOK
  <2> QED BY <1>0, <1>1, <1>3, <1>5, <2>1, <2>2 DEF StateTypeOK
<1>8. ClientInv'
  <2>0. None \notin Conns /\ user[k] = c
    BY <1>0, RpcAssumption DEF ClientInv
  <2>1. \A d \in Clients, j \in Conns : fd'[d] = j <=> user'[j] = d
    BY <1>0, <1>2, <2>0, RpcAssumption DEF ClientInv
  <2>2. \A d \in Clients : fd'[d] # None <=> cpc'[d] \in {"send", "await"}
    BY <1>0, <1>2 DEF ClientInv
  <2>3. \A j \in Conns : server'[j] = "free" => user'[j] = None
    BY <1>0, <1>2, <1>3 DEF ClientInv
  <2>4. \A d \in Clients : cpc'[d] = "send" => inbox'[fd'[d]] = <<>>
    BY <1>0, <1>2, <1>4 DEF ClientInv, StateTypeOK
  <2> QED BY <2>1, <2>2, <2>3, <2>4 DEF ClientInv
<1>9. HandlerInv'
  BY <1>0, <1>1, <1>3, <1>4 DEF StateTypeOK, HandlerInv
<1>10. \A d \in Clients : Asks(m_read_buf, d) \/ (\E j \in Conns : Asks(inbox[j], d))
                          => cpc[d] = "await"
  BY <1>0 DEF RequestInv
<1>11. RequestInv'
  <2>1. \A d \in Clients, j \in Conns :
          Asks(inbox'[j], d) => /\ fd'[d] = j /\ cpc'[d] = "await" /\ executed'[d] = 0
                                /\ ~Asks(m_read_buf', d)
    BY <1>0, <1>2, <1>4, <1>5, <1>10 DEF RequestInv
  <2>2. \A d \in Clients : Asks(m_read_buf', d) => cpc'[d] = "await" /\ executed'[d] = 0
    BY <1>0, <1>2, <1>5, <1>10 DEF RequestInv
  <2>3. \A d \in Clients : executed'[d] <= 1 /\ (cpc'[d] # "await" => executed'[d] = 0)
    BY <1>0, <1>2 DEF RequestInv
  <2> QED BY <1>4, <1>5, <2>1, <2>2, <2>3 DEF RequestInv
<1> QED BY <1>7, <1>8, <1>9, <1>11 DEF IInv

\* The end of a handler.
LEMMA EndStep ==
    ASSUME IInv, NEW k \in Conns, hpc[k] # "none", End(k),
           UNCHANGED <<clientVars, user, outbox, up, m_read_buf, spoiled, executed>>
    PROVE  IInv'
<1>0. StateTypeOK /\ ClientInv /\ HandlerInv /\ RequestInv
  BY DEF IInv
<1>1. PICK s \in {"closed", "reset"} : server' = Freed([server EXCEPT ![k] = s], user)
  BY DEF End
<1>2. PICK t : t = [server EXCEPT ![k] = s]
  OBVIOUS
<1>3. t \in [Conns -> {"free", "backlog", "accepted", "closed", "reset"}]
  BY <1>0, <1>2 DEF StateTypeOK
<1>4. \A j \in Conns : t[j] = IF j = k THEN s ELSE server[j]
  BY <1>0, <1>2 DEF StateTypeOK
<1>5. /\ server' \in [Conns -> {"free", "backlog", "accepted", "closed", "reset"}]
      /\ \A j \in Conns : /\ server'[j] \in {"backlog", "accepted"} <=>
                               t[j] \in {"backlog", "accepted"}
                          /\ server'[j] = "accepted" <=> t[j] = "accepted"
                          /\ server'[j] = "free" => t[j] = "free" \/ user[j] = None
  <2>1. server' = Freed(t, user)
    BY <1>1, <1>2
  <2> QED BY ONLY <1>3, <2>1, Freeing
<1>6. /\ <<>> \in Seq(Pieces) /\ Len(<<>>) = 0 /\ HeadOnly(<<>>)
      /\ \A d \in Clients : ~Asks(<<>>, d)
  BY DEF HeadOnly, Asks
<1>7. \A j \in Conns : /\ inbox'[j] = IF j = k THEN <<>> ELSE inbox[j]
                       /\ hpc'[j] = IF j = k THEN "none" ELSE hpc[j]
                       /\ at'[j] = IF j = k THEN None ELSE at[j]
  BY <1>0 DEF End, StateTypeOK
<1>8. StateTypeOK'
  <2>1. /\ inbox' \in [Conns -> Seq(Pieces)]
        /\ hpc' \in [Conns -> {"none", "start", "read", "wait", "message"}]
        /\ at' \in [Conns -> Conns \cup {None}]
        /\ m_client' \in Conns \cup {None}
    BY <1>0, <1>6 DEF End, StateTypeOK
  <2> QED BY <1>0, <1>5, <2>1 DEF StateTypeOK
<1>9. ClientInv'
  <2>1. \A j \in Conns : server'[j] = "free" => user[j] = None
    BY <1>0, <1>4, <1>5 DEF ClientInv
  <2>2. \A d \in Clients : cpc[d] = "send" => inbox'[fd[d]] = <<>>
    BY <1>0, <1>7 DEF ClientInv, StateTypeOK
  <2> QED BY <1>0, <2>1, <2>2 DEF ClientInv
<1>10. HandlerInv'
  <2>1. \A j \in Conns : hpc'[j] = "wait" <=> at'[j] # None
    BY <1>0, <1>7 DEF HandlerInv
  <2>2. \A j \in Conns : hpc'[j] # "none" => server'[j] = "accepted"
    BY <1>0, <1>4, <1>5, <1>7 DEF HandlerInv
  <2>3. ASSUME NEW j \in Conns, server'[j] \in {"free", "closed", "reset"}
        PROVE  inbox'[j] = <<>>
    <3>1. j # k => server[j] \in {"free", "closed", "reset"}
      BY <1>0, <1>4, <1>5, <2>3 DEF StateTypeOK
    <3> QED BY <1>0, <1>7, <3>1 DEF HandlerInv
  <2> QED BY <2>1, <2>2, <2>3 DEF HandlerInv
<1>11. RequestInv'
  <2>1. \A j \in Conns : /\ HeadOnly(inbox'[j]) /\ Len(inbox'[j]) <= 2
                         /\ \A d \in Clients : Asks(inbox'[j], d) => Asks(inbox[j], d)
    BY <1>0, <1>6, <1>7 DEF RequestInv
  <2> QED BY <1>0, <2>1 DEF RequestInv
<1> QED BY <1>8, <1>9, <1>10, <1>11 DEF IInv

\* recv moves pieces from a connection to the shared buffer.
LEMMA TakeStep ==
    ASSUME IInv, NEW k \in Conns, NEW t \in Conns, hpc[k] # "none", Take(k, t),
           UNCHANGED <<clientVars, user, outbox, up, executed>>
    PROVE  IInv'
<1>0. StateTypeOK /\ ClientInv /\ HandlerInv /\ RequestInv
  BY DEF IInv
<1>1. PICK n \in 1 .. Len(inbox[t]) :
        /\ m_read_buf' = Overlay(SubSeq(inbox[t], 1, n), m_read_buf)
        /\ inbox' = [inbox EXCEPT ![t] = SubSeq(inbox[t], n + 1, Len(inbox[t]))]
        /\ spoiled' = (spoiled \/ n < Len(inbox[t]))
  BY DEF Take
<1>2. PICK rest : rest = SubSeq(inbox[t], n + 1, Len(inbox[t]))
  OBVIOUS
<1>3. /\ inbox[t] \in Seq(Pieces) /\ Len(inbox[t]) <= 2 /\ HeadOnly(inbox[t])
      /\ m_read_buf \in Seq(Pieces) /\ HeadOnly(m_read_buf)
  BY <1>0 DEF StateTypeOK, RequestInv
<1>4. /\ rest \in Seq(Pieces) /\ Len(rest) <= 2 /\ HeadOnly(rest)
      /\ \A c \in Clients : ~Asks(rest, c)
      /\ m_read_buf' \in Seq(Pieces) /\ HeadOnly(m_read_buf')
      /\ \A c \in Clients : Asks(m_read_buf', c) <=> Asks(inbox[t], c)
  BY <1>1, <1>2, <1>3, Parts
<1>5. \A j \in Conns : /\ inbox'[j] = IF j = t THEN rest ELSE inbox[j]
                       /\ hpc'[j] = IF j = k THEN "message" ELSE hpc[j]
                       /\ at'[j] = IF j = k THEN None ELSE at[j]
  BY <1>0, <1>1, <1>2 DEF Take, StateTypeOK
<1>6. UNCHANGED <<server, m_client>>
  BY DEF Take
<1>7. inbox[t] # <<>>
  BY <1>3, EmptySeq
<1>8. StateTypeOK'
  <2>1. /\ inbox' \in [Conns -> Seq(Pieces)]
        /\ hpc' \in [Conns -> {"none", "start", "read", "wait", "message"}]
        /\ at' \in [Conns -> Conns \cup {None}]
    BY <1>0, <1>1, <1>2, <1>4 DEF Take, StateTypeOK
  <2>2. spoiled' \in BOOLEAN
    BY <1>1
  <2> QED BY <1>0, <1>4, <1>6, <2>1, <2>2 DEF StateTypeOK
<1>9. ClientInv'
  BY <1>0, <1>5, <1>6, <1>7 DEF ClientInv, StateTypeOK
<1>10. HandlerInv'
  BY <1>0, <1>5, <1>6, <1>7 DEF HandlerInv, StateTypeOK
<1>11. RequestInv'
  <2>1. \A j \in Conns : /\ HeadOnly(inbox'[j]) /\ Len(inbox'[j]) <= 2
                         /\ \A d \in Clients : Asks(inbox'[j], d) => j # t /\ Asks(inbox[j], d)
    BY <1>0, <1>4, <1>5 DEF RequestInv
  <2>2. \A c \in Clients, j \in Conns :
          Asks(inbox'[j], c) => /\ fd'[c] = j /\ cpc'[c] = "await" /\ executed'[c] = 0
                                /\ ~Asks(m_read_buf', c)
    BY <1>0, <1>4, <2>1 DEF RequestInv
  <2>3. \A c \in Clients : Asks(m_read_buf', c) => cpc'[c] = "await" /\ executed'[c] = 0
    BY <1>0, <1>4 DEF RequestInv
  <2> QED BY <1>0, <1>4, <2>1, <2>2, <2>3 DEF RequestInv
<1> QED BY <1>8, <1>9, <1>10, <1>11 DEF IInv

-----------------------------------------------------------------------------
(* The actions.                                                            *)

\* What the counters come to, when no caller was named twice.
Counted == /\ executed' \in [Clients -> Nat]
           /\ \A c \in Clients : /\ executed'[c] <= 1
                                 /\ cpc[c] # "await" => executed'[c] = 0

\* The process of the provider ends, of itself or because of an answer to nobody.
LEMMA DownStep ==
    ASSUME IInv, Down, UNCHANGED <<clientVars, user, outbox>>, Counted, spoiled' \in BOOLEAN
    PROVE  IInv'
<1>0. StateTypeOK /\ ClientInv /\ HandlerInv /\ RequestInv
  BY DEF IInv
<1>1. PICK t : t = [k \in Conns |->
                      IF server[k] \in {"free", "closed", "reset"} THEN server[k]
                      ELSE IF inbox[k] # <<>> \/ server[k] = "backlog" \/ k \in torn
                           THEN "reset" ELSE "closed"]
  OBVIOUS
<1>2. t \in [Conns -> {"free", "backlog", "accepted", "closed", "reset"}]
  BY <1>0, <1>1 DEF StateTypeOK
<1>3. server' = Freed(t, user)
  BY <1>1 DEF Down
<1>4. /\ server' \in [Conns -> {"free", "backlog", "accepted", "closed", "reset"}]
      /\ \A j \in Conns : server'[j] = "free" => t[j] = "free" \/ user[j] = None
  BY ONLY <1>2, <1>3, Freeing
<1>5. \A j \in Conns : t[j] = "free" => server[j] = "free"
  BY <1>1
<1>6. /\ <<>> \in Seq(Pieces) /\ Len(<<>>) = 0 /\ HeadOnly(<<>>)
      /\ \A d \in Clients : ~Asks(<<>>, d)
  BY DEF HeadOnly, Asks
<1>7. /\ m_read_buf' = <<>> /\ m_client' = None /\ up' = FALSE
      /\ \A j \in Conns : inbox'[j] = <<>> /\ hpc'[j] = "none" /\ at'[j] = None
  BY DEF Down
<1>8. StateTypeOK'
  <2>1. /\ inbox' \in [Conns -> Seq(Pieces)]
        /\ hpc' \in [Conns -> {"none", "start", "read", "wait", "message"}]
        /\ at' \in [Conns -> Conns \cup {None}]
    BY <1>6 DEF Down
  <2> QED BY <1>0, <1>4, <1>6, <1>7, <2>1 DEF StateTypeOK, Counted
<1>9. ClientInv'
  <2>1. \A j \in Conns : server'[j] = "free" => user[j] = None
    BY <1>0, <1>4, <1>5 DEF ClientInv
  <2>2. \A d \in Clients : cpc[d] = "send" => inbox'[fd[d]] = <<>>
    BY <1>0, <1>7 DEF ClientInv, StateTypeOK
  <2> QED BY <1>0, <2>1, <2>2 DEF ClientInv
<1>10. HandlerInv'
  BY <1>7 DEF HandlerInv
<1>11. RequestInv'
  BY <1>6, <1>7 DEF RequestInv, Counted
<1> QED BY <1>8, <1>9, <1>10, <1>11 DEF IInv

\* A new Channel.
LEMMA CallStep ==
    ASSUME IInv, NEW c \in Clients, Call(c)
    PROVE  IInv'
<1>0. StateTypeOK /\ ClientInv /\ HandlerInv /\ RequestInv
  BY DEF IInv
<1>1. \A d \in Clients : cpc'[d] = IF d = c THEN "dial" ELSE cpc[d]
  BY <1>0 DEF Call, StateTypeOK
<1>2. cpc[c] = "idle" /\ UNCHANGED <<fd, wireVars, providerVars, executed>>
  BY DEF Call
<1>3. StateTypeOK'
  <2>1. /\ cpc' \in [Clients -> {"idle", "dial", "send", "await"}]
        /\ tries' \in [Clients -> 0 .. 5] /\ m_failed' \subseteq Clients
    BY <1>0 DEF Call, Control, StateTypeOK
  <2>2. spoiled' \in BOOLEAN
    BY DEF Call
  <2> QED BY <1>0, <1>2, <2>1, <2>2 DEF StateTypeOK
<1>4. ClientInv'
  BY <1>0, <1>1, <1>2 DEF ClientInv
<1>5. HandlerInv'
  BY <1>0, <1>2 DEF HandlerInv
<1>6. RequestInv'
  BY <1>0, <1>1, <1>2 DEF RequestInv
<1> QED BY <1>3, <1>4, <1>5, <1>6 DEF IInv

\* A connection gets one client; without a provider the call fails in the end.
LEMMA NewConnectStep ==
    ASSUME IInv, NEW c \in Clients, NewConnect(c)
    PROVE  IInv'
<1>0. StateTypeOK /\ ClientInv /\ HandlerInv /\ RequestInv
  BY DEF IInv
<1>1. cpc[c] = "dial" /\ fd[c] = None /\ UNCHANGED providerVars
  BY <1>0 DEF NewConnect, ClientInv
<1>2. CASE up
  <2>1. PICK k \in Conns : /\ server[k] = "free"
                           /\ server' = [server EXCEPT ![k] = "backlog"]
                           /\ user' = [user EXCEPT ![k] = c]
                           /\ fd' = [fd EXCEPT ![c] = k]
    BY <1>2 DEF NewConnect
  <2>2. /\ \A d \in Clients : /\ cpc'[d] = IF d = c THEN "send" ELSE cpc[d]
                              /\ fd'[d] = IF d = c THEN k ELSE fd[d]
        /\ \A j \in Conns : /\ server'[j] = IF j = k THEN "backlog" ELSE server[j]
                            /\ user'[j] = IF j = k THEN c ELSE user[j]
        /\ UNCHANGED <<m_failed, inbox, outbox, torn, executed>>
    BY <1>0, <1>2, <2>1 DEF NewConnect, StateTypeOK
  <2>3. StateTypeOK'
    <3>1. /\ cpc' \in [Clients -> {"idle", "dial", "send", "await"}]
          /\ fd' \in [Clients -> Conns \cup {None}]
          /\ tries' \in [Clients -> 0 .. 5]
          /\ user' \in [Conns -> Clients \cup {None}]
          /\ server' \in [Conns -> {"free", "backlog", "accepted", "closed", "reset"}]
      <4>1. /\ cpc' = [cpc EXCEPT ![c] = "send"] /\ tries' = [tries EXCEPT ![c] = 0]
        BY <1>0, <1>2 DEF NewConnect, StateTypeOK
      <4> QED BY <1>0, <2>1, <4>1 DEF StateTypeOK
    <3>2. spoiled' \in BOOLEAN
      BY <1>2 DEF NewConnect
    <3> QED BY <1>0, <1>1, <2>2, <3>1, <3>2 DEF StateTypeOK
  <2>4. /\ user[k] = None /\ inbox[k] = <<>> /\ k # None /\ c # None
        /\ \A d \in Clients : fd[d] # k
    BY <1>0, <2>1, RpcAssumption DEF ClientInv, HandlerInv
  <2>5. ClientInv'
    <3>1. \A d \in Clients, j \in Conns : fd'[d] = j <=> user'[j] = d
      BY <1>0, <1>1, <2>2, <2>4, RpcAssumption DEF ClientInv
    <3>2. \A d \in Clients : fd'[d] # None <=> cpc'[d] \in {"send", "await"}
      BY <1>0, <2>2, <2>4 DEF ClientInv
    <3>3. \A j \in Conns : server'[j] = "free" => user'[j] = None
      BY <1>0, <2>2 DEF ClientInv
    <3>4. \A d \in Clients : cpc'[d] = "send" => inbox[fd'[d]] = <<>>
      BY <1>0, <2>2, <2>4 DEF ClientInv
    <3> QED BY <2>2, <3>1, <3>2, <3>3, <3>4 DEF ClientInv
  <2>6. HandlerInv'
    BY <1>0, <1>1, <2>1, <2>2 DEF HandlerInv
  <2>7. RequestInv'
    BY <1>0, <1>1, <2>2 DEF RequestInv
  <2> QED BY <2>3, <2>5, <2>6, <2>7 DEF IInv
<1>3. CASE UNCHANGED <<cpc, fd, m_failed, executed, wireVars, spoiled>>
           /\ tries[c] > 1 /\ tries' = [tries EXCEPT ![c] = @ - 1]
  <2>1. tries' \in [Clients -> 0 .. 5]
    BY <1>0, <1>3 DEF StateTypeOK
  <2> QED BY <1>0, <1>1, <1>3, <2>1
          DEF IInv, StateTypeOK, ClientInv, HandlerInv, RequestInv
<1>4. CASE Finish(c, TRUE) /\ UNCHANGED <<wireVars, spoiled>>
  <2>1. /\ \A d \in Clients : /\ cpc'[d] = IF d = c THEN "idle" ELSE cpc[d]
                              /\ fd'[d] = fd[d] /\ executed'[d] = executed[d]
        /\ UNCHANGED <<wireVars, providerVars, spoiled>>
    BY <1>0, <1>1, <1>4 DEF Finish, StateTypeOK, RequestInv
  <2>2. StateTypeOK'
    <3>1. /\ cpc' \in [Clients -> {"idle", "dial", "send", "await"}]
          /\ fd' \in [Clients -> Conns \cup {None}]
          /\ tries' \in [Clients -> 0 .. 5] /\ m_failed' \subseteq Clients
          /\ executed' \in [Clients -> Nat]
      BY <1>0, <1>4 DEF Finish, Control, StateTypeOK
    <3> QED BY <1>0, <2>1, <3>1 DEF StateTypeOK
  <2>3. ClientInv'
    BY <1>0, <1>1, <2>1 DEF ClientInv
  <2>4. HandlerInv'
    BY <1>0, <2>1 DEF HandlerInv
  <2>5. RequestInv'
    BY <1>0, <1>1, <2>1 DEF RequestInv
  <2> QED BY <2>2, <2>3, <2>4, <2>5 DEF IInv
<1> QED BY <1>2, <1>3, <1>4 DEF NewConnect

\* A request is two pieces, and the first one names its caller.
LEMMA RequestShape ==
    ASSUME NEW c \in Clients, NEW m
    PROVE  /\ Request(c, m) \in Seq(Pieces) /\ Len(Request(c, m)) = 2
           /\ Request(c, m) # <<>>
           /\ HeadOnly(Request(c, m))
           /\ \A d \in Clients : Asks(Request(c, m), d) <=> d = c
<1>1. PICK p \in {"head", "bad"} :
        Request(c, m) = << [client |-> c, part |-> p], [client |-> None, part |-> "tail"] >>
  BY DEF Request
<1>2. [client |-> c, part |-> p] \in Pieces /\ [client |-> None, part |-> "tail"] \in Pieces
  BY DEF Pieces
<1> QED BY <1>1, <1>2 DEF HeadOnly, Asks

\* What is sent is sent once: on an empty connection, or not at all.
LEMMA SendStep ==
    ASSUME IInv, NEW c \in Clients, NEW m, Send(c, m)
    PROVE  IInv'
<1>0. StateTypeOK /\ ClientInv /\ HandlerInv /\ RequestInv
  BY DEF IInv
<1>1. /\ cpc[c] = "send" /\ fd[c] \in Conns /\ inbox[fd[c]] = <<>>
      /\ UNCHANGED <<m_failed, executed>>
  BY <1>0 DEF Send, StateTypeOK, ClientInv
<1>2. CASE server[fd[c]] = "reset"
  <2>1. /\ ClientCloses(fd[c], None, FALSE) /\ fd' = [fd EXCEPT ![c] = None]
        /\ cpc' = [cpc EXCEPT ![c] = "dial"] /\ tries' = [tries EXCEPT ![c] = 1]
        /\ UNCHANGED spoiled
    BY <1>2 DEF Send
  <2>2. tries' \in [Clients -> 0 .. 5] /\ m_failed' \subseteq Clients /\ spoiled' \in BOOLEAN
    BY <1>0, <1>1, <2>1 DEF StateTypeOK
  <2> QED BY <1>1, <2>1, <2>2, ClosesStep
<1>3. CASE server[fd[c]] # "reset"
  <2>1. /\ inbox' = IF server[fd[c]] = "closed" THEN inbox
                    ELSE [inbox EXCEPT ![fd[c]] = @ \o Request(c, m)]
        /\ UNCHANGED <<fd, tries, user, server, outbox, torn, providerVars>>
    BY <1>3 DEF Send
  <2>2. inbox[fd[c]] \o Request(c, m) = Request(c, m)
    BY <1>1, RequestShape, ConcatEmptySeq
  <2>3. \A d \in Clients : cpc'[d] = IF d = c THEN "await" ELSE cpc[d]
    BY <1>0, <1>3 DEF Send, StateTypeOK
  <2>4. \A j \in Conns : /\ inbox'[j] \in {inbox[j], Request(c, m)}
                         /\ j # fd[c] => inbox'[j] = inbox[j]
                         /\ inbox'[j] # inbox[j] => j = fd[c] /\ server[j] # "closed"
    BY <1>0, <2>1, <2>2 DEF StateTypeOK
  <2>5. \A j \in Conns : /\ inbox'[j] \in Seq(Pieces) /\ HeadOnly(inbox'[j])
                         /\ Len(inbox'[j]) <= 2
    <3>1. \A j \in Conns : inbox[j] \in Seq(Pieces) /\ HeadOnly(inbox[j]) /\ Len(inbox[j]) <= 2
      BY <1>0 DEF StateTypeOK, RequestInv
    <3>2. PICK r : r = Request(c, m)
      OBVIOUS
    <3>3. r \in Seq(Pieces) /\ HeadOnly(r) /\ Len(r) <= 2
      <4>1. r \in Seq(Pieces) /\ HeadOnly(r) /\ Len(r) = 2
        BY ONLY <3>2, RequestShape, c \in Clients
      <4> QED BY <4>1
    <3> QED BY <2>4, <3>1, <3>2, <3>3
  <2>6. StateTypeOK'
    <3>1. /\ cpc' \in [Clients -> {"idle", "dial", "send", "await"}]
          /\ inbox' \in [Conns -> Seq(Pieces)]
      BY <1>0, <1>3, <2>1, <2>5 DEF Send, StateTypeOK
    <3>2. spoiled' \in BOOLEAN
      BY <1>3 DEF Send
    <3> QED BY <1>0, <1>1, <2>1, <3>1, <3>2 DEF StateTypeOK
  <2>7. ClientInv'
    <3>1. \A d \in Clients : cpc'[d] = "send" => fd[d] \in Conns /\ fd[d] # fd[c]
      BY <1>0, <1>1, <2>3 DEF ClientInv, StateTypeOK
    <3>2. \A d \in Clients : cpc'[d] = "send" => inbox'[fd[d]] = <<>>
      BY <1>0, <2>3, <2>4, <3>1 DEF ClientInv
    <3>3. \A d \in Clients : fd[d] # None <=> cpc'[d] \in {"send", "await"}
      BY <1>0, <1>1, <2>3 DEF ClientInv
    <3> QED BY <1>0, <2>1, <3>2, <3>3 DEF ClientInv
  <2>8. HandlerInv'
    <3>0. user[fd[c]] = c /\ c # None
      BY <1>0, <1>1, RpcAssumption DEF ClientInv
    <3>1. server[fd[c]] \notin {"free", "reset"}
      BY <1>0, <1>1, <1>3, <3>0 DEF ClientInv
    <3>2. \A j \in Conns : server[j] \in {"free", "closed", "reset"} => inbox'[j] = <<>>
      BY <1>0, <2>4, <3>1 DEF HandlerInv
    <3> QED BY <1>0, <2>1, <3>2 DEF HandlerInv
  <2>9. RequestInv'
    <3>1. \A d \in Clients, j \in Conns :
            Asks(inbox'[j], d) => Asks(inbox[j], d) \/ (d = c /\ j = fd[c])
      BY <2>4, RequestShape
    <3>2. ~Asks(m_read_buf, c) /\ executed[c] = 0
      BY <1>0, <1>1 DEF RequestInv
    <3>3. \A d \in Clients, j \in Conns :
            Asks(inbox'[j], d) => /\ fd[d] = j /\ cpc'[d] = "await" /\ executed[d] = 0
                                  /\ ~Asks(m_read_buf, d)
      BY <1>0, <2>3, <3>1, <3>2 DEF RequestInv
    <3>4. \A d \in Clients : Asks(m_read_buf, d) => cpc'[d] = "await" /\ executed[d] = 0
      BY <1>0, <2>3 DEF RequestInv
    <3>5. \A d \in Clients : executed[d] <= 1 /\ (cpc'[d] # "await" => executed[d] = 0)
      BY <1>0, <2>3 DEF RequestInv
    <3> QED BY <1>0, <1>1, <2>1, <2>5, <3>3, <3>4, <3>5 DEF RequestInv
  <2> QED BY <2>6, <2>7, <2>8, <2>9 DEF IInv
<1> QED BY <1>2, <1>3

\* Only where a handler is, and what m_client points to, changes.
LEMMA HandlerMoves ==
    ASSUME IInv, NEW k \in Conns, NEW p \in {"start", "read", "wait", "message"}, NEW t,
           hpc' = [hpc EXCEPT ![k] = p], at' = [at EXCEPT ![k] = t],
           t \in Conns \cup {None}, p = "wait" <=> t # None,
           m_client' \in Conns \cup {None}, server[k] = "accepted",
           UNCHANGED <<clientVars, wireVars, up, m_read_buf, ghostVars>>
    PROVE  IInv'
<1>0. StateTypeOK /\ ClientInv /\ HandlerInv /\ RequestInv
  BY DEF IInv
<1>1. \A j \in Conns : /\ hpc'[j] = IF j = k THEN p ELSE hpc[j]
                       /\ at'[j] = IF j = k THEN t ELSE at[j]
  BY <1>0 DEF StateTypeOK
<1>2. StateTypeOK'
  BY <1>0 DEF StateTypeOK
<1>3. HandlerInv'
  BY <1>0, <1>1 DEF HandlerInv
<1> QED BY <1>0, <1>2, <1>3 DEF IInv, ClientInv, RequestInv

\* startAccept.
LEMMA AcceptStep ==
    ASSUME IInv, NEW k \in Conns, Accept(k)
    PROVE  IInv'
<1>0. StateTypeOK /\ ClientInv /\ HandlerInv /\ RequestInv
  BY DEF IInv
<1>1. \A j \in Conns : /\ hpc'[j] = IF j = k THEN "start" ELSE hpc[j]
                       /\ server'[j] = IF j = k THEN "accepted" ELSE server[j]
  BY <1>0 DEF Accept, StateTypeOK
<1>2. /\ server[k] = "backlog"
      /\ UNCHANGED <<clientVars, user, inbox, outbox, torn, up, at, m_client, m_read_buf,
                     ghostVars>>
  BY DEF Accept
<1>3. StateTypeOK'
  <2>1. /\ hpc' \in [Conns -> {"none", "start", "read", "wait", "message"}]
        /\ server' \in [Conns -> {"free", "backlog", "accepted", "closed", "reset"}]
    BY <1>0 DEF Accept, StateTypeOK
  <2> QED BY <1>0, <1>2, <2>1 DEF StateTypeOK
<1>4. ClientInv'
  BY <1>0, <1>1, <1>2 DEF ClientInv
<1>5. HandlerInv'
  BY <1>0, <1>1, <1>2 DEF HandlerInv
<1>6. RequestInv'
  BY <1>0, <1>2 DEF RequestInv
<1> QED BY <1>3, <1>4, <1>5, <1>6 DEF IInv

\* handleClient begins.
LEMMA StartStep ==
    ASSUME IInv, NEW k \in Conns, Start(k)
    PROVE  IInv'
<1>0. StateTypeOK /\ HandlerInv
  BY DEF IInv
<1>1. server[k] = "accepted" /\ at[k] = None
  BY <1>0 DEF Start, HandlerInv
<1>2. at' = [at EXCEPT ![k] = None]
  BY <1>0, <1>1 DEF Start, StateTypeOK
<1>3. /\ m_client' \in Conns \cup {None}
      /\ hpc' = [hpc EXCEPT ![k] = "read"]
      /\ UNCHANGED <<clientVars, wireVars, up, m_read_buf, ghostVars>>
  BY DEF Start
<1> QED BY <1>1, <1>2, <1>3, HandlerMoves

\* read_once up to where it waits.
LEMMA ReadStep ==
    ASSUME IInv, NEW k \in Conns, Read(k)
    PROVE  IInv'
<1>0. StateTypeOK /\ HandlerInv
  BY DEF IInv
<1>1. /\ hpc[k] = "read" /\ server[k] = "accepted" /\ at[k] = None
      /\ UNCHANGED <<clientVars, user, outbox, up, executed>>
  BY <1>0 DEF Read, HandlerInv
<1>2. CASE End(k) /\ UNCHANGED <<m_read_buf, spoiled>>
  BY <1>1, <1>2, EndStep
<1>3. CASE m_client # None /\ Take(k, m_client)
  <2>1. m_client \in Conns
    BY <1>0, <1>3 DEF StateTypeOK
  <2> QED BY <1>1, <1>3, <2>1, TakeStep
<1>4. CASE /\ hpc' = [hpc EXCEPT ![k] = "message"] /\ UNCHANGED at
           /\ UNCHANGED <<server, inbox, torn, m_client, m_read_buf, spoiled>>
  <2>1. at' = [at EXCEPT ![k] = None] /\ m_client' \in Conns \cup {None}
    BY <1>0, <1>1, <1>4 DEF StateTypeOK
  <2> QED BY <1>1, <1>4, <2>1, HandlerMoves
<1>5. CASE /\ m_client # None
           /\ hpc' = [hpc EXCEPT ![k] = "wait"] /\ at' = [at EXCEPT ![k] = m_client]
           /\ UNCHANGED <<server, inbox, torn, m_client, m_read_buf, spoiled>>
  <2>1. m_client \in Conns \cup {None} /\ m_client' \in Conns \cup {None}
    BY <1>0, <1>5 DEF StateTypeOK
  <2> QED BY <1>1, <1>5, <2>1, HandlerMoves
<1> QED BY <1>2, <1>3, <1>4, <1>5 DEF Read

\* The wait in recv is over.
LEMMA ResumeStep ==
    ASSUME IInv, NEW k \in Conns, Resume(k) \/ Timeout(k)
    PROVE  IInv'
<1>0. StateTypeOK /\ HandlerInv
  BY DEF IInv
<1>1. hpc[k] = "wait" /\ UNCHANGED <<clientVars, user, outbox, up, executed>>
  BY DEF Resume, Timeout
<1>2. CASE End(k) /\ UNCHANGED <<m_read_buf, spoiled>>
  BY <1>1, <1>2, EndStep
<1>3. CASE Take(k, at[k])
  <2>1. at[k] \in Conns
    BY <1>0, <1>1 DEF StateTypeOK, HandlerInv
  <2> QED BY <1>1, <1>3, <2>1, TakeStep
<1> QED BY <1>2, <1>3 DEF Resume, Timeout

\* A method is executed for whom m_read_buf names, and the buffer is emptied.
LEMMA OnMessageStep ==
    ASSUME IInv, NEW k \in Conns, OnMessage(k)
    PROVE  IInv'
<1>0. StateTypeOK /\ ClientInv /\ HandlerInv /\ RequestInv
  BY DEF IInv
<1>1. /\ hpc[k] = "message" /\ server[k] = "accepted" /\ at[k] = None
      /\ UNCHANGED <<clientVars, user, spoiled>>
  BY <1>0 DEF OnMessage, HandlerInv
<1>2. CASE End(k) /\ UNCHANGED <<up, outbox, m_read_buf, executed>>
  BY <1>1, <1>2, EndStep
<1>3. CASE /\ Parses(m_read_buf) /\ Executed(m_read_buf[1])
           /\ Respond(k, m_read_buf[1])
  <2>1. PICK piece : piece = m_read_buf[1]
    OBVIOUS
  <2>2. piece \in Pieces /\ m_read_buf # <<>>
    BY <1>0, <1>3, <2>1, EmptySeq DEF Parses, StateTypeOK
  <2>3. \A c \in Clients : piece.client = c => /\ cpc[c] = "await" /\ executed[c] = 0
                                               /\ \A j \in Conns : ~Asks(inbox[j], c)
    BY <1>0, <2>1, <2>2 DEF RequestInv, Asks
  <2>4. /\ executed' \in [Clients -> Nat]
        /\ \A c \in Clients : /\ c = piece.client => executed'[c] = executed[c] + 1
                              /\ c # piece.client => executed'[c] = executed[c]
    <3>1. piece.client \in Clients \cup {None}
      BY <2>2 DEF Pieces
    <3> QED BY <1>0, <1>3, <2>1, <3>1, RpcAssumption DEF Executed, StateTypeOK
  <2>5. Counted
    BY <1>0, <2>3, <2>4 DEF Counted, RequestInv
  <2>6. CASE Down /\ UNCHANGED outbox
    BY <1>0, <1>1, <2>5, <2>6, DownStep DEF StateTypeOK
  <2>7. CASE /\ outbox' = IF m_client # None /\ user[m_client] # None
                          THEN [outbox EXCEPT ![m_client] =
                                  Append(@, [client |-> piece.client])] ELSE outbox
             /\ m_read_buf' = <<>>
             /\ hpc' = [hpc EXCEPT ![k] = "read"]
             /\ UNCHANGED <<up, server, inbox, at, m_client>>
    <3>1. outbox' \in [Conns -> Seq(Answers)]
      <4>1. [client |-> piece.client] \in Answers
        BY <2>2 DEF Pieces, Answers
      <4>2. \A j \in Conns : Append(outbox[j], [client |-> piece.client]) \in Seq(Answers)
        BY <1>0, <4>1 DEF StateTypeOK
      <4> QED BY <1>0, <2>7, <4>2 DEF StateTypeOK
    <3>2. /\ <<>> \in Seq(Pieces) /\ HeadOnly(<<>>)
          /\ \A d \in Clients : ~Asks(<<>>, d)
      BY DEF HeadOnly, Asks
    <3>3. \A j \in Conns : hpc'[j] = IF j = k THEN "read" ELSE hpc[j]
      BY <1>0, <2>7 DEF StateTypeOK
    <3>4. StateTypeOK'
      <4>1. hpc' \in [Conns -> {"none", "start", "read", "wait", "message"}]
        BY <1>0, <2>7 DEF StateTypeOK
      <4> QED BY <1>0, <1>1, <2>4, <2>7, <3>1, <3>2, <4>1 DEF StateTypeOK
    <3>5. ClientInv'
      BY <1>0, <1>1, <2>7 DEF ClientInv
    <3>6. HandlerInv'
      BY <1>0, <1>1, <2>7, <3>3 DEF HandlerInv
    <3>7. RequestInv'
      <4>1. \A c \in Clients, j \in Conns :
              Asks(inbox[j], c) => /\ fd[c] = j /\ cpc[c] = "await" /\ executed'[c] = 0
        BY <1>0, <2>3, <2>4 DEF RequestInv
      <4> QED BY <1>0, <1>1, <2>5, <2>7, <3>2, <4>1 DEF RequestInv, Counted
    <3> QED BY <3>4, <3>5, <3>6, <3>7 DEF IInv
  <2> QED BY <1>3, <2>1, <2>6, <2>7 DEF Respond
<1> QED BY <1>2, <1>3 DEF OnMessage

\* The call ends: an answer, the end of the stream, or the death of the client.
LEMMA FinishStep ==
    ASSUME IInv, NEW c \in Clients, fd[c] # None, NEW b \in BOOLEAN, Finish(c, b),
           NEW unread, ClientCloses(fd[c], c, unread), spoiled' \in BOOLEAN
    PROVE  IInv'
<1>1. fd[c] \in Conns
  BY DEF IInv, StateTypeOK
<1>2. tries' \in [Clients -> 0 .. 5] /\ m_failed' \subseteq Clients
  BY DEF IInv, StateTypeOK, Finish, Control
<1>3. /\ fd' = [fd EXCEPT ![c] = None] /\ cpc' = [cpc EXCEPT ![c] = "idle"]
      /\ executed' = [executed EXCEPT ![c] = 0]
  BY DEF Finish
<1> QED BY <1>1, <1>2, <1>3, ClosesStep

\* Both ends of a call.
LEMMA RecvStep ==
    ASSUME IInv, NEW c \in Clients, Recv(c) \/ Die(c)
    PROVE  IInv'
<1>1. fd[c] # None
  BY DEF Recv, Die, IInv, ClientInv
<1>2. \E b \in BOOLEAN, unread \in BOOLEAN : Finish(c, b) /\ ClientCloses(fd[c], c, unread)
  BY DEF Recv, Die
<1>3. spoiled' \in BOOLEAN
  BY DEF Recv, Die, IInv, StateTypeOK
<1> QED BY <1>1, <1>2, <1>3, FinishStep

-----------------------------------------------------------------------------
(* The theorems.                                                           *)

\* The invariant holds initially ...
LEMMA InvInit == Init => IInv
<1> SUFFICES ASSUME Init PROVE IInv
  OBVIOUS
<1>1. /\ <<>> \in Seq(Pieces) /\ <<>> \in Seq(Answers) /\ Len(<<>>) = 0 /\ HeadOnly(<<>>)
      /\ \A d \in Clients : ~Asks(<<>>, d)
  BY DEF HeadOnly, Asks
<1>2. StateTypeOK
  <2>1. /\ inbox \in [Conns -> Seq(Pieces)] /\ outbox \in [Conns -> Seq(Answers)]
        /\ m_read_buf \in Seq(Pieces)
    BY <1>1 DEF Init
  <2>2. /\ tries \in [Clients -> 0 .. 5] /\ executed \in [Clients -> Nat]
    BY DEF Init
  <2>4. up \in BOOLEAN /\ spoiled \in BOOLEAN
    BY DEF Init
  <2>3. /\ cpc \in [Clients -> {"idle", "dial", "send", "await"}]
        /\ fd \in [Clients -> Conns \cup {None}]
        /\ m_failed \subseteq Clients
        /\ user \in [Conns -> Clients \cup {None}]
        /\ server \in [Conns -> {"free", "backlog", "accepted", "closed", "reset"}]
        /\ hpc \in [Conns -> {"none", "start", "read", "wait", "message"}]
        /\ at \in [Conns -> Conns \cup {None}] /\ m_client \in Conns \cup {None}
    BY DEF Init
  <2> QED BY <2>1, <2>2, <2>3, <2>4 DEF StateTypeOK
<1>3. ClientInv
  BY RpcAssumption DEF Init, ClientInv
<1>4. HandlerInv
  BY DEF Init, HandlerInv
<1>5. RequestInv
  BY <1>1 DEF Init, RequestInv
<1> QED BY <1>2, <1>3, <1>4, <1>5 DEF IInv

\* ... and every step keeps it.
LEMMA InvStep ==
    ASSUME IInv, [Next]_vars
    PROVE  IInv'
<1>1. ASSUME NEW c \in Clients, Call(c) \/ ClientStep(c) \/ Die(c)
      PROVE  IInv'
  BY <1>1, CallStep, NewConnectStep, SendStep, RecvStep DEF ClientStep
<1>2. ASSUME NEW k \in Conns, ServerStep(k) \/ Timeout(k)
      PROVE  IInv'
  BY <1>2, AcceptStep, StartStep, ReadStep, ResumeStep, OnMessageStep DEF ServerStep
<1>3. CASE Crash
  <2>1. Counted
    BY <1>3 DEF Crash, IInv, StateTypeOK, RequestInv, Counted
  <2> QED BY <1>3, <2>1, DownStep DEF Crash
<1>4. CASE Restart \/ UNCHANGED vars
  <2>1. up' \in BOOLEAN /\ UNCHANGED <<clientVars, wireVars, hpc, at, m_client, m_read_buf,
                                       ghostVars>>
    BY <1>4 DEF Restart, vars, IInv, StateTypeOK
  <2> QED BY <2>1 DEF IInv, StateTypeOK, ClientInv, HandlerInv, RequestInv
<1> QED BY <1>1, <1>2, <1>3, <1>4 DEF Next

\* It contains the type invariant of the run.
LEMMA InvTypes == IInv => TypeOK
<1> SUFFICES ASSUME IInv PROVE TypeOK
  OBVIOUS
<1>0. StateTypeOK /\ ClientInv /\ HandlerInv /\ RequestInv
  BY DEF IInv
<1>1. \A k \in Conns : Len(inbox[k]) <= 2 /\ \A i \in 1 .. Len(inbox[k]) : inbox[k][i] \in Pieces
  BY <1>0 DEF StateTypeOK, RequestInv
<1>2. \A k \in Conns : \A i \in 1 .. Len(outbox[k]) : outbox[k][i].client \in Clients \cup {None}
  <2>1. \A k \in Conns : \A i \in 1 .. Len(outbox[k]) : outbox[k][i] \in Answers
    BY <1>0 DEF StateTypeOK
  <2> QED BY <2>1 DEF Answers
<1>3. \A c \in Clients : fd[c] # None => user[fd[c]] = c
  BY <1>0 DEF StateTypeOK, ClientInv
<1>4. \A k \in Conns : (hpc[k] = "wait" <=> at[k] # None) /\ (hpc[k] # "none" => server[k] = "accepted")
  BY <1>0 DEF HandlerInv
<1> QED BY <1>0, <1>1, <1>2, <1>3, <1>4 DEF TypeOK, StateTypeOK

\* In every reachable state connections, handlers and requests are where IInv says: the
\* descriptors, the handlers' waits and the shared buffer of the provider
\* (provider.cpp:25-160) agree with the callers (channel.cpp:34-178).
THEOREM Invariance == Spec => []IInv
BY InvInit, InvStep, PTL DEF Spec

\* Whatever crashes, reconnects, cuts and leftovers in m_read_buf there are, a call is
\* executed at most once (channel.cpp:95 sends again only what was not sent).
THEOREM ExecutedOnce == Spec => []CallInv
<1>1. IInv => CallInv
  BY InvTypes DEF IInv, RequestInv, CallInv, AtMostOnce
<1> QED BY <1>1, Invariance, PTL

-----------------------------------------------------------------------------
(* One user at a time.                                                     *)

\* What there is of the call of c, on its connection k: nothing yet, ...
Unsent(k) ==
    /\ inbox[k] = <<>> /\ outbox[k] = <<>>
    /\ server[k] \in {"backlog", "accepted"} /\ hpc[k] # "message"

\* ... the request, ...
Pending(c, k) ==
    /\ inbox[k] = Request(c, "known") /\ outbox[k] = <<>>
    /\ server[k] \in {"backlog", "accepted"} /\ hpc[k] # "message"

\* ... the request in the shared buffer, ...
Taken(c, k) ==
    /\ inbox[k] = <<>> /\ outbox[k] = <<>>
    /\ hpc[k] = "message" /\ m_read_buf = Request(c, "known")

\* ... or its answer.
Answered(c, k) ==
    /\ inbox[k] = <<>> /\ outbox[k] = << [client |-> c] >> /\ server[k] # "backlog"
    /\ hpc[k] \in {"none", "read", "wait"} /\ executed[c] = 1

\* A connection has one user.
OneUser == \A c, d \in Clients : fd[c] # None /\ fd[d] # None => c = d

\* On the connections of earlier users nothing is left to do but to end.
QuietInv ==
    \A k \in Conns :
        user[k] = None => /\ inbox[k] = <<>> /\ server[k] # "backlog"
                          /\ hpc[k] \in {"none", "read", "wait"}

\* Handlers wait on their own connections, and m_client is the connection of the handler
\* that runs, and of the user's once it has begun.
PointerInv ==
    /\ \A k \in Conns : hpc[k] = "wait" => at[k] = k
    /\ \A k \in Conns : hpc[k] \in {"read", "message"} => m_client = k
    /\ \A k \in Conns : user[k] # None /\ hpc[k] \in {"read", "wait", "message"} => m_client = k

CallOnItsWay ==
    \A c \in Clients :
        /\ cpc[c] = "send" => Unsent(fd[c])
        /\ cpc[c] = "await" => Pending(c, fd[c]) \/ Taken(c, fd[c]) \/ Answered(c, fd[c])

AloneInv == OneUser /\ QuietInv /\ PointerInv /\ CallOnItsWay

\* Whatever happened before: the buffer is short, and nobody's answers are dropped.
LeftInv ==
    /\ Len(m_read_buf) <= 2
    /\ \A k \in Conns : user[k] = None => outbox[k] = <<>>

\* What recv leaves in the buffer is no longer than a request.
LEMMA Overlaid ==
    ASSUME NEW seq \in Seq(Pieces), Len(seq) <= 2, NEW n \in 1 .. Len(seq),
           NEW old \in Seq(Pieces), Len(old) <= 2
    PROVE  /\ Len(Overlay(SubSeq(seq, 1, n), old)) <= 2
           /\ n = Len(seq) /\ Len(seq) = 2 => /\ Overlay(SubSeq(seq, 1, n), old) = seq
                                              /\ SubSeq(seq, n + 1, Len(seq)) = <<>>
<1>1. PICK new : new = SubSeq(seq, 1, n)
  OBVIOUS
<1>2. /\ new \in Seq(Pieces) /\ Len(new) = n
      /\ \A i \in 1 .. n : new[i] = seq[i]
  BY <1>1, SubSeqProperties
<1>3. PICK tail : tail = SubSeq(old, Len(new) + 1, Len(old))
  OBVIOUS
<1>4. /\ tail \in Seq(Pieces)
      /\ Len(tail) = IF n + 1 <= Len(old) THEN Len(old) - n ELSE 0
  BY <1>2, <1>3, SubSeqProperties
<1>5. PICK buf : buf = new \o tail
  OBVIOUS
<1>6. buf \in Seq(Pieces) /\ Len(buf) = Len(new) + Len(tail)
  BY <1>2, <1>4, <1>5, ConcatProperties
<1>7. Len(buf) <= 2
  BY <1>2, <1>4, <1>6
<1>8. CASE n = Len(seq) /\ Len(seq) = 2
  <2>0. Len(old) \in Nat /\ Len(old) <= 2
    OBVIOUS
  <2>1. Len(tail) = 0
    BY <1>4, <1>8, <2>0
  <2>2. tail = <<>> /\ new = seq
    <3>1. tail = <<>>
      BY <1>4, <2>1, EmptySeq
    <3>2. new = seq
      BY <1>2, <1>8, SeqEqual
    <3> QED BY <3>1, <3>2
  <2>3. buf = seq
    BY <1>5, <2>2, ConcatEmptySeq
  <2>4. SubSeq(seq, n + 1, Len(seq)) = <<>>
    BY <1>8, SubSeqProperties, EmptySeq
  <2> QED BY <1>1, <1>3, <1>5, <1>7, <2>3, <2>4 DEF Overlay
<1> QED BY <1>1, <1>3, <1>5, <1>7, <1>8 DEF Overlay

\* Nothing is left of nothing.
LEMMA OrphanedNothing ==
    ASSUME NEW c
    PROVE  Orphaned(c, <<>>) = <<>>
<1>1. <<>> \in Seq(Answers)
  OBVIOUS
<1>2. \A x \in Answers : [x EXCEPT !.client = None] \in Answers
                         /\ [x EXCEPT !.client = None].client = None
  BY DEF Answers
<1>3. Orphaned(c, <<>>) \in Seq(Answers) /\ Len(Orphaned(c, <<>>)) = 0
  BY <1>1, <1>2, Orphans
<1> QED BY <1>3, EmptySeq

\* What the end of a call leaves.
LEMMA LeftClosed ==
    ASSUME IInv, LeftInv, NEW k \in Conns, NEW x \in Clients \cup {None}, NEW unread,
           ClientCloses(k, x, unread)
    PROVE  LeftInv'
<1>0. StateTypeOK /\ m_read_buf \in Seq(Pieces)
  BY DEF IInv, StateTypeOK
<1>1. Len(m_read_buf') = Len(m_read_buf)
  BY <1>0, OrphanedPieces DEF ClientCloses
<1>2. \A j \in Conns : /\ user'[j] = IF j = k THEN None ELSE user[j]
                       /\ outbox'[j] = IF j = k THEN <<>> ELSE Orphaned(x, outbox[j])
  BY <1>0 DEF ClientCloses, StateTypeOK
<1>3. \A j \in Conns : user'[j] = None => outbox'[j] = <<>>
  BY <1>2, OrphanedNothing DEF LeftInv
<1> QED BY <1>1, <1>3 DEF LeftInv

\* What recv leaves.
LEMMA LeftTaken ==
    ASSUME IInv, LeftInv, NEW k \in Conns, NEW t \in Conns, Take(k, t),
           UNCHANGED <<user, outbox>>
    PROVE  LeftInv'
<1>1. PICK n \in 1 .. Len(inbox[t]) :
        m_read_buf' = Overlay(SubSeq(inbox[t], 1, n), m_read_buf)
  BY DEF Take
<1>2. /\ inbox[t] \in Seq(Pieces) /\ Len(inbox[t]) <= 2
      /\ m_read_buf \in Seq(Pieces) /\ Len(m_read_buf) <= 2
  BY DEF IInv, StateTypeOK, RequestInv, LeftInv
<1>3. Len(m_read_buf') <= 2
  BY <1>1, <1>2, Overlaid
<1> QED BY <1>3 DEF LeftInv

\* Every step leaves the buffer short and answers to users only.
LEMMA LeftStep ==
    ASSUME IInv, LeftInv, [Next]_vars
    PROVE  LeftInv'
<1>0. StateTypeOK /\ ClientInv /\ HandlerInv
  BY DEF IInv
<1>1. ASSUME UNCHANGED <<user, outbox>>, m_read_buf' \in {m_read_buf, <<>>}
      PROVE  LeftInv'
  BY <1>1 DEF LeftInv
<1>2. ASSUME NEW c \in Clients, Call(c)
      PROVE  LeftInv'
  BY <1>1, <1>2 DEF Call
<1>3. ASSUME NEW c \in Clients, NewConnect(c)
      PROVE  LeftInv'
  <2>1. UNCHANGED <<outbox, m_read_buf>>
    BY <1>3 DEF NewConnect
  <2>2. CASE UNCHANGED user
    BY <1>1, <2>1, <2>2
  <2>3. CASE \E k \in Conns : user' = [user EXCEPT ![k] = c]
    <3>1. \A k \in Conns : user'[k] = None => user[k] = None
      BY <1>0, <2>3, RpcAssumption DEF StateTypeOK
    <3> QED BY <2>1, <3>1 DEF LeftInv
  <2> QED BY <1>3, <2>2, <2>3 DEF NewConnect
<1>4. ASSUME NEW c \in Clients, NEW m, Send(c, m)
      PROVE  LeftInv'
  <2>0. cpc[c] = "send"
    BY <1>4 DEF Send
  <2>1. fd[c] \in Conns
    BY ONLY <1>0, <2>0, c \in Clients DEF ClientInv, StateTypeOK
  <2>2. ClientCloses(fd[c], None, FALSE) \/ UNCHANGED <<user, outbox, m_read_buf>>
    BY <1>4 DEF Send
  <2> QED BY <1>1, <2>1, <2>2, LeftClosed
<1>5. ASSUME NEW c \in Clients, Recv(c) \/ Die(c)
      PROVE  LeftInv'
  <2>0. cpc[c] = "await" \/ fd[c] # None
    BY <1>5 DEF Recv, Die
  <2>1. fd[c] \in Conns
    BY ONLY <1>0, <2>0, c \in Clients DEF ClientInv, StateTypeOK
  <2>2. \E unread \in BOOLEAN : ClientCloses(fd[c], c, unread)
    BY <1>5 DEF Recv, Die
  <2> QED BY <2>1, <2>2, LeftClosed
<1>6. ASSUME NEW k \in Conns, Accept(k) \/ Start(k) \/ Timeout(k)
      PROVE  LeftInv'
  BY <1>1, <1>6 DEF Accept, Start, Timeout
<1>7. ASSUME NEW k \in Conns, Read(k) \/ Resume(k)
      PROVE  LeftInv'
  <2>1. UNCHANGED <<user, outbox>>
    BY <1>7 DEF Read, Resume
  <2>2. CASE UNCHANGED m_read_buf
    BY <1>1, <2>1, <2>2
  <2>3. CASE \E t \in Conns : Take(k, t)
    BY <2>1, <2>3, LeftTaken
  <2>4. m_client # None => m_client \in Conns
    BY <1>0 DEF StateTypeOK
  <2>5. hpc[k] = "wait" => at[k] \in Conns
    BY <1>0 DEF StateTypeOK, HandlerInv
  <2> QED BY <1>7, <2>2, <2>3, <2>4, <2>5 DEF Read, Resume
<1>8. ASSUME NEW k \in Conns, OnMessage(k)
      PROVE  LeftInv'
  <2>1. UNCHANGED user /\ m_read_buf' \in {m_read_buf, <<>>}
    BY <1>8 DEF OnMessage, Respond, Down
  <2>2. CASE UNCHANGED outbox
    BY <1>1, <2>1, <2>2
  <2>3. CASE /\ m_client # None /\ user[m_client] # None
             /\ \E a : outbox' = [outbox EXCEPT ![m_client] = Append(@, a)]
    <3>1. \A j \in Conns : user[j] = None => outbox'[j] = outbox[j]
      BY <1>0, <2>3 DEF StateTypeOK
    <3>2. \A j \in Conns : user'[j] = None => outbox'[j] = <<>>
      BY <2>1, <3>1 DEF LeftInv
    <3>3. Len(m_read_buf') <= 2
      BY <2>1 DEF LeftInv
    <3> QED BY <3>2, <3>3 DEF LeftInv
  <2> QED BY <1>8, <2>2, <2>3 DEF OnMessage, Respond
<1>9. CASE Crash \/ Restart \/ UNCHANGED vars
  BY <1>1, <1>9 DEF Crash, Restart, Down, vars
<1> QED BY <1>2, <1>3, <1>4, <1>5, <1>6, <1>7, <1>8, <1>9 DEF Next, ClientStep, ServerStep

\* With one user, its connection is the only one that has one.
LEMMA TheUser ==
    ASSUME IInv, OneUser, NEW c \in Clients, fd[c] \in Conns
    PROVE  /\ user[fd[c]] = c /\ c # None
           /\ \A d \in Clients : fd[d] # None <=> d = c
           /\ \A j \in Conns : user[j] # None => j = fd[c]
<1>0. StateTypeOK /\ ClientInv
  BY DEF IInv
<1>1. fd[c] # None /\ c # None /\ user[fd[c]] = c
  BY <1>0, RpcAssumption DEF ClientInv
<1>2. \A d \in Clients : fd[d] # None <=> d = c
  BY <1>1 DEF OneUser
<1>3. ASSUME NEW j \in Conns, user[j] # None
      PROVE  j = fd[c]
  <2>1. user[j] \in Clients /\ fd[user[j]] = j
    BY <1>0, <1>3 DEF StateTypeOK, ClientInv
  <2>2. fd[user[j]] # None
    BY <2>1, RpcAssumption
  <2> QED BY <1>2, <2>1, <2>2
<1> QED BY <1>1, <1>2, <1>3

\* When all connections are given back nothing is left of earlier users, in whatever way
\* they ended; a call that begins is alone.
LEMMA AloneCall ==
    ASSUME IInv, LeftInv, ~spoiled => AloneInv, NEW c \in Clients, Call(c), ~spoiled'
    PROVE  AloneInv'
<1>0. StateTypeOK /\ ClientInv /\ HandlerInv
  BY DEF IInv
<1>1. AloneInv
  <2>1. CASE ~spoiled
    BY <2>1
  <2>2. CASE \A k \in Conns : server[k] = "free"
    <3>1. \A k \in Conns : user[k] = None /\ inbox[k] = <<>> /\ hpc[k] = "none"
      BY <1>0, <2>2 DEF ClientInv, HandlerInv
    <3>2. ASSUME NEW d \in Clients, fd[d] # None
          PROVE  FALSE
      <4>1. fd[d] \in Conns /\ user[fd[d]] = d
        BY <1>0, <3>2 DEF StateTypeOK, ClientInv
      <4> QED BY <3>1, <4>1, RpcAssumption
    <3>3. OneUser /\ CallOnItsWay
      BY <1>0, <3>2 DEF OneUser, CallOnItsWay, ClientInv
    <3>4. QuietInv /\ PointerInv
      BY <2>2, <3>1 DEF QuietInv, PointerInv
    <3> QED BY <3>3, <3>4 DEF AloneInv
  <2> QED BY <2>1, <2>2 DEF Call
<1>2. /\ \A d \in Clients : cpc'[d] = IF d = c THEN "dial" ELSE cpc[d]
      /\ UNCHANGED <<fd, wireVars, providerVars, executed>>
  BY <1>0 DEF Call, StateTypeOK
<1>3. CallOnItsWay'
  BY <1>1, <1>2 DEF AloneInv, CallOnItsWay, Unsent, Pending, Taken, Answered
<1> QED BY <1>1, <1>2, <1>3 DEF AloneInv, OneUser, QuietInv, PointerInv

\* A connection is new for its user.
LEMMA AloneConnect ==
    ASSUME IInv, LeftInv, AloneInv, NEW c \in Clients, NewConnect(c), ~spoiled'
    PROVE  AloneInv'
<1>0. StateTypeOK /\ ClientInv /\ HandlerInv /\ OneUser /\ QuietInv /\ PointerInv /\ CallOnItsWay
  BY DEF IInv, AloneInv
<1>1. cpc[c] = "dial" /\ fd[c] = None /\ UNCHANGED providerVars
  BY <1>0 DEF NewConnect, ClientInv
<1>2. CASE up
  <2>1. PICK k \in Conns : /\ server[k] = "free"
                           /\ server' = [server EXCEPT ![k] = "backlog"]
                           /\ user' = [user EXCEPT ![k] = c]
                           /\ fd' = [fd EXCEPT ![c] = k]
    BY <1>2 DEF NewConnect
  <2>2. /\ \A d \in Clients : /\ cpc'[d] = IF d = c THEN "send" ELSE cpc[d]
                              /\ fd'[d] = IF d = c THEN k ELSE fd[d]
        /\ \A j \in Conns : /\ server'[j] = IF j = k THEN "backlog" ELSE server[j]
                            /\ user'[j] = IF j = k THEN c ELSE user[j]
        /\ UNCHANGED <<inbox, outbox, executed>>
        /\ spoiled' = (spoiled \/ \E d \in Clients : fd[d] # None)
    BY <1>0, <1>2, <2>1 DEF NewConnect, StateTypeOK
  <2>3. \A d \in Clients : fd[d] = None
    BY <2>2
  <2>4. user[k] = None /\ inbox[k] = <<>> /\ outbox[k] = <<>> /\ hpc[k] = "none"
    BY <1>0, <2>1 DEF ClientInv, HandlerInv, LeftInv
  <2>5. OneUser'
    BY <2>2, <2>3 DEF OneUser
  <2>6. QuietInv'
    BY <1>0, <1>1, <2>2, <2>4, RpcAssumption DEF QuietInv
  <2>7. PointerInv'
    BY <1>0, <1>1, <2>2, <2>4 DEF PointerInv
  <2>8. CallOnItsWay'
    <3>1. \A d \in Clients : d # c => cpc'[d] \notin {"send", "await"}
      BY <1>0, <2>2, <2>3 DEF ClientInv
    <3>2. Unsent(k)'
      BY <1>1, <2>2, <2>4 DEF Unsent
    <3>3. cpc'[c] = "send" /\ fd'[c] = k
      BY <2>2
    <3> QED BY <3>1, <3>2, <3>3 DEF CallOnItsWay
  <2> QED BY <2>5, <2>6, <2>7, <2>8 DEF AloneInv
<1>3. CASE ~up
  <2>1. /\ \A d \in Clients : /\ cpc'[d] \in {cpc[d], "idle"}
                              /\ fd'[d] = fd[d] /\ executed'[d] \in {executed[d], 0}
                              /\ cpc[d] = "await" => executed'[d] = executed[d]
        /\ UNCHANGED wireVars
    BY <1>0, <1>1, <1>3 DEF NewConnect, Finish, StateTypeOK
  <2>2. CallOnItsWay'
    <3>1. \A d \in Clients : cpc'[d] \in {"send", "await"} => cpc'[d] = cpc[d]
      BY <2>1
    <3>2. \A k \in Conns : Unsent(k)' <=> Unsent(k)
      BY <1>1, <2>1 DEF Unsent
    <3>3. \A d \in Clients, k \in Conns :
            cpc[d] = "await" => /\ Pending(d, k)' <=> Pending(d, k)
                                /\ Taken(d, k)' <=> Taken(d, k)
                                /\ Answered(d, k)' <=> Answered(d, k)
      BY <1>1, <2>1 DEF Pending, Taken, Answered
    <3>4. \A d \in Clients : cpc[d] \in {"send", "await"} => fd[d] \in Conns /\ fd'[d] = fd[d]
      BY <1>0, <2>1 DEF ClientInv, StateTypeOK
    <3> QED BY <1>0, <3>1, <3>2, <3>3, <3>4 DEF CallOnItsWay
  <2>3. OneUser'
    BY <1>0, <2>1 DEF OneUser
  <2> QED BY <1>0, <1>1, <2>1, <2>2, <2>3 DEF AloneInv, QuietInv, PointerInv
<1> QED BY <1>2, <1>3

\* The request is all there is on the connection.
LEMMA AloneSend ==
    ASSUME IInv, AloneInv, NEW c \in Clients, NEW m \in Methods, Send(c, m), ~spoiled'
    PROVE  AloneInv'
<1>0. StateTypeOK /\ ClientInv /\ HandlerInv /\ OneUser /\ QuietInv /\ PointerInv /\ CallOnItsWay
  BY DEF IInv, AloneInv
<1>1. cpc[c] = "send"
  BY DEF Send
<1>2. PICK k \in Conns : k = fd[c]
  BY ONLY <1>0, <1>1, c \in Clients DEF ClientInv, StateTypeOK
<1>3. inbox[k] = <<>> /\ outbox[k] = <<>> /\ server[k] \in {"backlog", "accepted"}
      /\ hpc[k] # "message"
  BY <1>0, <1>1, <1>2 DEF CallOnItsWay, Unsent
<1>4. /\ inbox' = [inbox EXCEPT ![k] = @ \o Request(c, m)]
      /\ cpc' = [cpc EXCEPT ![c] = "await"]
      /\ spoiled' = (spoiled \/ m = "unknown")
      /\ UNCHANGED <<fd, user, server, outbox, providerVars, executed>>
  BY <1>2, <1>3 DEF Send
<1>5. m = "known"
  BY <1>4, RpcAssumption
<1>6. inbox[k] \o Request(c, m) = Request(c, "known")
  BY <1>3, <1>5, RequestShape, ConcatEmptySeq
<1>7. /\ \A j \in Conns : inbox'[j] = IF j = k THEN Request(c, "known") ELSE inbox[j]
      /\ \A d \in Clients : cpc'[d] = IF d = c THEN "await" ELSE cpc[d]
  BY <1>0, <1>4, <1>6 DEF StateTypeOK
<1>8. /\ user[k] = c /\ c # None
      /\ \A d \in Clients : fd[d] # None <=> d = c
  BY <1>0, <1>2, TheUser
<1>9. QuietInv'
  BY <1>0, <1>4, <1>7, <1>8 DEF QuietInv
<1>10. CallOnItsWay'
  <2>1. \A d \in Clients : d # c => cpc'[d] \notin {"send", "await"}
    BY <1>0, <1>7, <1>8 DEF ClientInv
  <2>2. Pending(c, k)'
    BY <1>3, <1>4, <1>7 DEF Pending
  <2>3. cpc'[c] = "await" /\ fd'[c] = k
    BY <1>2, <1>4, <1>7
  <2> QED BY <2>1, <2>2, <2>3 DEF CallOnItsWay
<1> QED BY <1>0, <1>4, <1>9, <1>10 DEF AloneInv, OneUser, PointerInv

\* recv returns the answer.
LEMMA AnswerThere ==
    ASSUME IInv, AloneInv, NEW c \in Clients, Recv(c)
    PROVE  fd[c] \in Conns /\ Answered(c, fd[c])
<1>0. StateTypeOK /\ ClientInv /\ HandlerInv /\ CallOnItsWay
  BY DEF IInv, AloneInv
<1>1. cpc[c] = "await" /\ (outbox[fd[c]] # <<>> \/ server[fd[c]] \in {"closed", "reset"})
  BY DEF Recv
<1>2. fd[c] \in Conns
  BY ONLY <1>0, <1>1, c \in Clients DEF ClientInv, StateTypeOK
<1>3. ~Pending(c, fd[c])
  BY <1>1 DEF Pending
<1>4. ~Taken(c, fd[c])
  BY <1>0, <1>1, <1>2 DEF Taken, HandlerInv
<1> QED BY <1>0, <1>1, <1>2, <1>3, <1>4 DEF CallOnItsWay

\* The user leaves nothing that its connection's handler could take for a request.
LEMMA AloneRecv ==
    ASSUME IInv, AloneInv, NEW c \in Clients, Recv(c)
    PROVE  AloneInv'
<1>0. StateTypeOK /\ ClientInv /\ HandlerInv /\ OneUser /\ QuietInv /\ PointerInv
  BY DEF IInv, AloneInv
<1>1. PICK k \in Conns : k = fd[c]
  BY AnswerThere
<1>2. /\ inbox[k] = <<>> /\ server[k] # "backlog" /\ hpc[k] \in {"none", "read", "wait"}
  BY <1>1, AnswerThere DEF Answered
<1>3. /\ user[k] = c
      /\ \A d \in Clients : fd[d] # None <=> d = c
      /\ \A j \in Conns : user[j] # None => j = k
  BY <1>0, <1>1, TheUser
<1>4. PICK unread \in BOOLEAN, b \in BOOLEAN : ClientCloses(k, c, unread) /\ Finish(c, b)
  BY <1>1 DEF Recv
<1>5. /\ \A d \in Clients : /\ fd'[d] = IF d = c THEN None ELSE fd[d]
                            /\ cpc'[d] = IF d = c THEN "idle" ELSE cpc[d]
      /\ \A j \in Conns : user'[j] = IF j = k THEN None ELSE user[j]
      /\ UNCHANGED <<hpc, at, m_client>>
  BY <1>0, <1>4 DEF ClientCloses, Finish, StateTypeOK
<1>6. \A j \in Conns : inbox[j] = <<>> => inbox'[j] = <<>>
  BY <1>4, OrphanedNothing DEF ClientCloses
<1>7. \A j \in Conns : server'[j] = "backlog" => server[j] = "backlog"
  BY <1>4 DEF ClientCloses, Freed
<1>8. \A d \in Clients : fd'[d] = None /\ cpc'[d] \notin {"send", "await"}
  BY <1>0, <1>3, <1>5 DEF ClientInv
<1>9. QuietInv'
  BY <1>0, <1>2, <1>3, <1>5, <1>6, <1>7 DEF QuietInv
<1>10. PointerInv'
  BY <1>0, <1>5 DEF PointerInv
<1> QED BY <1>8, <1>9, <1>10 DEF AloneInv, OneUser, CallOnItsWay

\* A call is where it was when the connection of its client is as it was.
LEMMA CallsStay ==
    ASSUME IInv, CallOnItsWay, UNCHANGED <<fd, cpc, outbox, executed, m_read_buf>>,
           \A c \in Clients : fd[c] # None =>
               /\ inbox'[fd[c]] = inbox[fd[c]] /\ hpc'[fd[c]] = hpc[fd[c]]
               /\ server'[fd[c]] = "backlog" <=> server[fd[c]] = "backlog"
               /\ server'[fd[c]] = "accepted" <=> server[fd[c]] = "accepted"
    PROVE  CallOnItsWay'
<1>0. ClientInv
  BY DEF IInv
<1>1. ASSUME NEW c \in Clients, cpc[c] \in {"send", "await"}
      PROVE  /\ inbox'[fd[c]] = inbox[fd[c]] /\ hpc'[fd[c]] = hpc[fd[c]]
             /\ server'[fd[c]] \in {"backlog", "accepted"} <=>
                    server[fd[c]] \in {"backlog", "accepted"}
             /\ server'[fd[c]] = "backlog" <=> server[fd[c]] = "backlog"
  BY <1>0, <1>1 DEF ClientInv
<1>2. ASSUME NEW c \in Clients, cpc[c] = "send"
      PROVE  Unsent(fd[c])'
  BY <1>1, <1>2 DEF CallOnItsWay, Unsent
<1>3. ASSUME NEW c \in Clients, cpc[c] = "await"
      PROVE  Pending(c, fd[c])' \/ Taken(c, fd[c])' \/ Answered(c, fd[c])'
  BY <1>1, <1>3 DEF CallOnItsWay, Pending, Taken, Answered
<1> QED BY <1>2, <1>3 DEF CallOnItsWay

\* startAccept.
LEMMA AloneAccept ==
    ASSUME IInv, AloneInv, NEW k \in Conns, Accept(k)
    PROVE  AloneInv'
<1>0. StateTypeOK /\ ClientInv /\ HandlerInv /\ OneUser /\ QuietInv /\ PointerInv /\ CallOnItsWay
  BY DEF IInv, AloneInv
<1>1. /\ \A j \in Conns : /\ server'[j] = IF j = k THEN "accepted" ELSE server[j]
                          /\ hpc'[j] = IF j = k THEN "start" ELSE hpc[j]
      /\ server[k] = "backlog"
      /\ UNCHANGED <<clientVars, user, inbox, outbox, at, m_client, m_read_buf, executed>>
  BY <1>0 DEF Accept, StateTypeOK
<1>2. OneUser' /\ QuietInv' /\ PointerInv'
  BY <1>0, <1>1 DEF OneUser, QuietInv, PointerInv
<1>3. ASSUME NEW c \in Clients, cpc[c] \in {"send", "await"}
      PROVE  fd[c] \in Conns
  BY ONLY <1>0, <1>3, c \in Clients DEF ClientInv, StateTypeOK
<1>4. ASSUME NEW c \in Clients, cpc[c] = "send"
      PROVE  Unsent(fd[c])'
  BY <1>0, <1>1, <1>3, <1>4 DEF CallOnItsWay, Unsent
<1>5. ASSUME NEW c \in Clients, cpc[c] = "await"
      PROVE  Pending(c, fd[c])' \/ Taken(c, fd[c])' \/ Answered(c, fd[c])'
  <2>1. PICK j \in Conns : j = fd[c]
    BY <1>3, <1>5
  <2>2. CASE Pending(c, j)
    BY <1>1, <2>1, <2>2 DEF Pending
  <2>3. CASE Taken(c, j)
    <3>1. j # k
      BY <1>0, <1>1, <2>3 DEF Taken, HandlerInv
    <3> QED BY <1>1, <2>1, <2>3, <3>1 DEF Taken
  <2>4. CASE Answered(c, j)
    BY <1>1, <2>1, <2>4 DEF Answered
  <2> QED BY <1>0, <1>5, <2>1, <2>2, <2>3, <2>4 DEF CallOnItsWay
<1>6. CallOnItsWay'
  BY <1>1, <1>4, <1>5 DEF CallOnItsWay
<1> QED BY <1>2, <1>6 DEF AloneInv

\* A handler begins only for the user, and m_client becomes the user's connection.
LEMMA AloneStart ==
    ASSUME IInv, AloneInv, NEW k \in Conns, Start(k)
    PROVE  AloneInv'
<1>0. StateTypeOK /\ ClientInv /\ HandlerInv /\ OneUser /\ QuietInv /\ PointerInv /\ CallOnItsWay
  BY DEF IInv, AloneInv
<1>1. /\ \A j \in Conns : hpc'[j] = IF j = k THEN "read" ELSE hpc[j]
      /\ hpc[k] = "start" /\ ThreadFree /\ m_client' = k
      /\ UNCHANGED <<clientVars, wireVars, at, m_read_buf, executed>>
  BY <1>0 DEF Start, StateTypeOK
<1>2. \A j \in Conns : hpc[j] \notin {"read", "message"}
  BY <1>1 DEF ThreadFree
<1>3. user[k] # None
  BY <1>0, <1>1 DEF QuietInv
<1>4. PICK c \in Clients : fd[c] = k
  BY <1>0, <1>3 DEF StateTypeOK, ClientInv
<1>5. \A j \in Conns : user[j] # None => j = k
  BY <1>0, <1>4, TheUser
<1>6. OneUser' /\ QuietInv'
  BY <1>0, <1>1, <1>3 DEF OneUser, QuietInv
<1>7. PointerInv'
  BY <1>0, <1>1, <1>2, <1>5 DEF PointerInv
<1>8. ASSUME NEW d \in Clients, cpc[d] \in {"send", "await"}
      PROVE  fd[d] = k
  <2>1. fd[d] # None
    BY <1>0, <1>8 DEF ClientInv
  <2> QED BY <1>0, <1>4, <2>1, TheUser
<1>9. \A d \in Clients : ~Taken(d, k) /\ ~Answered(d, k)
  BY <1>1 DEF Taken, Answered
<1>10. Unsent(k) => Unsent(k)'
  BY <1>1 DEF Unsent
<1>11. \A d \in Clients : Pending(d, k) => Pending(d, k)'
  BY <1>1 DEF Pending
<1>12. CallOnItsWay'
  BY <1>0, <1>1, <1>8, <1>9, <1>10, <1>11 DEF CallOnItsWay
<1> QED BY <1>6, <1>7, <1>12 DEF AloneInv

\* A handler ends when its client is gone, or has its answer.
LEMMA AloneEnd ==
    ASSUME IInv, AloneInv, NEW k \in Conns, hpc[k] \in {"read", "wait"}, End(k),
           user[k] # None => inbox[k] = <<>> /\ cpc[user[k]] = "await",
           UNCHANGED <<clientVars, user, outbox, m_read_buf, executed>>
    PROVE  AloneInv'
<1>0. StateTypeOK /\ ClientInv /\ HandlerInv /\ OneUser /\ QuietInv /\ PointerInv /\ CallOnItsWay
  BY DEF IInv, AloneInv
<1>1. /\ \A j \in Conns : /\ hpc'[j] = IF j = k THEN "none" ELSE hpc[j]
                          /\ at'[j] = IF j = k THEN None ELSE at[j]
                          /\ inbox'[j] = IF j = k THEN <<>> ELSE inbox[j]
      /\ m_client' = IF m_client = k THEN None ELSE m_client
  BY <1>0 DEF End, StateTypeOK
<1>2. PICK s \in {"reset", "closed"} : server' = Freed([server EXCEPT ![k] = s], user)
  BY DEF End
<1>3. \A j \in Conns : /\ server'[j] = "backlog" <=> j # k /\ server[j] = "backlog"
                       /\ server'[j] = "accepted" <=> j # k /\ server[j] = "accepted"
  BY <1>0, <1>2 DEF Freed, StateTypeOK
<1>4. OneUser' /\ QuietInv'
  BY <1>0, <1>1, <1>3 DEF OneUser, QuietInv
<1>5. PointerInv'
  BY <1>0, <1>1 DEF PointerInv
<1>6. CASE user[k] = None
  <2>1. \A c \in Clients : fd[c] # None => fd[c] \in Conns /\ fd[c] # k
    BY <1>0, <1>6, RpcAssumption DEF StateTypeOK, ClientInv
  <2>2. CallOnItsWay'
    BY <1>0, <1>1, <1>3, <2>1, CallsStay
  <2> QED BY <1>4, <1>5, <2>2 DEF AloneInv
<1>7. CASE user[k] # None
  <2>1. PICK c \in Clients : c = user[k] /\ fd[c] = k
    BY <1>0, <1>7 DEF StateTypeOK, ClientInv
  <2>2. inbox[k] = <<>> /\ cpc[c] = "await"
    BY <1>7, <2>1
  <2>3. ~Pending(c, k) /\ ~Taken(c, k)
    BY <2>2, RequestShape DEF Pending, Taken
  <2>4. Answered(c, k)
    BY <1>0, <2>1, <2>2, <2>3 DEF CallOnItsWay
  <2>5. Answered(c, k)'
    BY <1>1, <1>3, <2>4 DEF Answered
  <2>6. \A d \in Clients : cpc[d] \in {"send", "await"} => d = c
    BY <1>0, <2>1, TheUser DEF ClientInv
  <2>7. CallOnItsWay'
    BY <2>1, <2>2, <2>5, <2>6 DEF CallOnItsWay
  <2> QED BY <1>4, <1>5, <2>7 DEF AloneInv
<1> QED BY <1>6, <1>7

\* recv takes the whole request of the user.
LEMMA AloneTake ==
    ASSUME IInv, LeftInv, AloneInv, NEW k \in Conns, hpc[k] \in {"read", "wait"},
           inbox[k] # <<>>, Take(k, k), ~spoiled',
           UNCHANGED <<clientVars, user, outbox, executed>>
    PROVE  AloneInv'
<1>0. /\ StateTypeOK /\ ClientInv /\ HandlerInv /\ RequestInv
      /\ OneUser /\ QuietInv /\ PointerInv /\ CallOnItsWay
  BY DEF IInv, AloneInv
<1>1. user[k] # None
  BY <1>0 DEF QuietInv
<1>2. m_client = k
  BY <1>0, <1>1 DEF PointerInv
<1>3. PICK c \in Clients : c = user[k] /\ fd[c] = k
  BY <1>0, <1>1 DEF StateTypeOK, ClientInv
<1>4. /\ \A d \in Clients : fd[d] # None <=> d = c
      /\ \A j \in Conns : user[j] # None => j = k
  BY <1>0, <1>3, TheUser
<1>5. cpc[c] \in {"send", "await"}
  BY <1>0, <1>4 DEF ClientInv
<1>6. cpc[c] = "await" /\ Pending(c, k)
  BY <1>0, <1>3, <1>5 DEF CallOnItsWay, Unsent, Taken, Answered
<1>7. /\ inbox[k] \in Seq(Pieces) /\ inbox[k] = Request(c, "known") /\ Len(inbox[k]) = 2
      /\ m_read_buf \in Seq(Pieces) /\ Len(m_read_buf) <= 2 /\ outbox[k] = <<>>
  BY <1>0, <1>6, RequestShape DEF StateTypeOK, Pending, LeftInv
<1>8. PICK n \in 1 .. Len(inbox[k]) :
        /\ m_read_buf' = Overlay(SubSeq(inbox[k], 1, n), m_read_buf)
        /\ inbox' = [inbox EXCEPT ![k] = SubSeq(inbox[k], n + 1, Len(inbox[k]))]
        /\ spoiled' = (spoiled \/ n < Len(inbox[k]))
  BY DEF Take
<1>9. n = Len(inbox[k])
  <2>1. Len(inbox[k]) \in Nat /\ n \in 1 .. Len(inbox[k])
    BY <1>7
  <2>2. ~(n < Len(inbox[k]))
    BY <1>8
  <2> QED BY ONLY <2>1, <2>2
<1>10. m_read_buf' = Request(c, "known") /\ SubSeq(inbox[k], n + 1, Len(inbox[k])) = <<>>
  <2>1. PICK seq \in Seq(Pieces) : seq = inbox[k] /\ Len(seq) = 2
    BY <1>7
  <2>2. n \in 1 .. Len(seq) /\ n = Len(seq) /\ m_read_buf \in Seq(Pieces) /\ Len(m_read_buf) <= 2
    BY <1>7, <1>9, <2>1
  <2>3. Len(seq) <= 2
    BY <2>1
  <2>4. /\ Overlay(SubSeq(seq, 1, n), m_read_buf) = seq
        /\ SubSeq(seq, n + 1, Len(seq)) = <<>>
    BY ONLY <2>1, <2>2, <2>3, Overlaid
  <2> QED BY <1>7, <1>8, <2>1, <2>4
<1>11. \A j \in Conns : /\ hpc'[j] = IF j = k THEN "message" ELSE hpc[j]
                        /\ at'[j] = IF j = k THEN None ELSE at[j]
                        /\ inbox'[j] = IF j = k THEN <<>> ELSE inbox[j]
  BY <1>0, <1>8, <1>10 DEF Take, StateTypeOK
<1>12. UNCHANGED <<server, m_client>>
  BY DEF Take
<1>13. OneUser' /\ QuietInv'
  BY <1>0, <1>1, <1>11, <1>12 DEF OneUser, QuietInv
<1>14. PointerInv'
  BY <1>0, <1>2, <1>11, <1>12 DEF PointerInv
<1>15. CallOnItsWay'
  <2>1. \A d \in Clients : cpc[d] \in {"send", "await"} => d = c
    BY <1>0, <1>4 DEF ClientInv
  <2>2. Taken(c, k)'
    BY <1>7, <1>10, <1>11 DEF Taken
  <2> QED BY <1>3, <1>6, <2>1, <2>2 DEF CallOnItsWay
<1> QED BY <1>13, <1>14, <1>15 DEF AloneInv

\* read_once reads the handler's own connection.
LEMMA AloneRead ==
    ASSUME IInv, LeftInv, AloneInv, NEW k \in Conns, Read(k), ~spoiled'
    PROVE  AloneInv'
<1>0. StateTypeOK /\ ClientInv /\ HandlerInv /\ OneUser /\ QuietInv /\ PointerInv /\ CallOnItsWay
  BY DEF IInv, AloneInv
<1>1. hpc[k] = "read" /\ UNCHANGED <<clientVars, user, outbox, up, executed>>
  BY DEF Read
<1>2. m_client = k /\ k # None /\ server[k] = "accepted"
  BY <1>0, <1>1, RpcAssumption DEF PointerInv, HandlerInv
<1>3. CASE inbox[k] # <<>> /\ Take(k, k)
  BY <1>1, <1>3, AloneTake
<1>4. CASE Ended(k) /\ End(k) /\ UNCHANGED m_read_buf
  <2>1. user[k] = None
    BY <1>2, <1>4 DEF Ended, Closed
  <2> QED BY <1>1, <1>4, <2>1, AloneEnd
<1>5. CASE /\ hpc' = [hpc EXCEPT ![k] = "wait"] /\ at' = [at EXCEPT ![k] = k]
           /\ UNCHANGED <<server, inbox, torn, m_client, m_read_buf, spoiled>>
  <2>1. \A j \in Conns : /\ hpc'[j] = IF j = k THEN "wait" ELSE hpc[j]
                         /\ at'[j] = IF j = k THEN k ELSE at[j]
    BY <1>0, <1>5 DEF StateTypeOK
  <2>2. OneUser' /\ QuietInv' /\ PointerInv'
    BY <1>0, <1>1, <1>2, <1>5, <2>1 DEF OneUser, QuietInv, PointerInv
  <2>3. ASSUME NEW c \in Clients, cpc[c] \in {"send", "await"}
        PROVE  fd[c] \in Conns
    BY ONLY <1>0, <2>3, c \in Clients DEF ClientInv, StateTypeOK
  <2>4. \A j \in Conns : Unsent(j) => Unsent(j)'
    BY <1>1, <1>5, <2>1 DEF Unsent
  <2>5. \A c \in Clients, j \in Conns : /\ Pending(c, j) => Pending(c, j)'
                                        /\ Taken(c, j) => Taken(c, j)'
                                        /\ Answered(c, j) => Answered(c, j)'
    BY <1>1, <1>5, <2>1 DEF Pending, Taken, Answered
  <2>6. CallOnItsWay'
    BY <1>0, <1>1, <2>3, <2>4, <2>5 DEF CallOnItsWay
  <2> QED BY <2>2, <2>6 DEF AloneInv
<1>6. ASSUME NEW j \in Conns, at[j] = k
      PROVE  FALSE
  <2>1. hpc[j] = "wait"
    BY <1>0, <1>2, <1>6 DEF HandlerInv
  <2> QED BY <1>0, <1>1, <1>6, <2>1 DEF PointerInv
<1> QED BY <1>2, <1>3, <1>4, <1>5, <1>6 DEF Read

\* A wait ends with the request, with the client, or too late for anybody to mind.
LEMMA AloneResume ==
    ASSUME IInv, LeftInv, AloneInv, NEW k \in Conns, Resume(k) \/ Timeout(k), ~spoiled'
    PROVE  AloneInv'
<1>0. StateTypeOK /\ HandlerInv /\ PointerInv
  BY DEF IInv, AloneInv
<1>1. hpc[k] = "wait" /\ UNCHANGED <<clientVars, user, outbox, up, executed>>
  BY DEF Resume, Timeout
<1>2. at[k] = k /\ server[k] = "accepted"
  BY <1>0, <1>1 DEF PointerInv, HandlerInv
<1>3. CASE inbox[k] # <<>> /\ Take(k, k)
  BY <1>1, <1>3, AloneTake
<1>4. CASE Ended(k) /\ End(k) /\ UNCHANGED m_read_buf
  <2>1. user[k] = None
    BY <1>2, <1>4 DEF Ended, Closed
  <2> QED BY <1>1, <1>4, <2>1, AloneEnd
<1>5. CASE Timeout(k)
  <2>1. /\ inbox[k] = <<>> /\ End(k) /\ UNCHANGED m_read_buf
        /\ user[k] # None => cpc[user[k]] = "await"
    BY <1>2, <1>5 DEF Timeout
  <2> QED BY <1>1, <2>1, AloneEnd
<1> QED BY <1>2, <1>3, <1>4, <1>5 DEF Resume

\* The request of the user is executed, and answered on its connection.
LEMMA AloneOnMessage ==
    ASSUME IInv, AloneInv, NEW k \in Conns, OnMessage(k)
    PROVE  AloneInv'
<1>0. /\ StateTypeOK /\ ClientInv /\ HandlerInv /\ RequestInv
      /\ OneUser /\ QuietInv /\ PointerInv /\ CallOnItsWay
  BY DEF IInv, AloneInv
<1>1. hpc[k] = "message" /\ UNCHANGED <<clientVars, user, spoiled>>
  BY DEF OnMessage
<1>2. m_client = k /\ user[k] # None /\ server[k] = "accepted" /\ k # None
  BY <1>0, <1>1, RpcAssumption DEF PointerInv, QuietInv, HandlerInv
<1>3. PICK c \in Clients : c = user[k] /\ fd[c] = k
  BY <1>0, <1>2 DEF StateTypeOK, ClientInv
<1>4. /\ c # None
      /\ \A d \in Clients : fd[d] # None <=> d = c
      /\ \A j \in Conns : user[j] # None => j = k
  BY <1>0, <1>3, TheUser
<1>5. cpc[c] \in {"send", "await"}
  BY <1>0, <1>4 DEF ClientInv
<1>6. cpc[c] = "await" /\ Taken(c, k)
  BY <1>0, <1>1, <1>3, <1>5 DEF CallOnItsWay, Unsent, Pending, Answered
<1>7. m_read_buf = << [client |-> c, part |-> "head"], [client |-> None, part |-> "tail"] >>
  BY <1>6 DEF Taken, Request, Registered
<1>8. Parses(m_read_buf) /\ Len(m_read_buf) = 2 /\ m_read_buf[1].client = c
  BY <1>7 DEF Parses
<1>9. executed[c] = 0
  <2>1. Asks(m_read_buf, c)
    BY <1>7 DEF Asks
  <2> QED BY <1>0, <2>1 DEF RequestInv
<1>10. Executed(m_read_buf[1]) /\ Respond(k, m_read_buf[1])
  BY <1>8 DEF OnMessage
<1>11. executed'[c] = 1
  BY <1>0, <1>4, <1>8, <1>9, <1>10 DEF Executed, StateTypeOK
<1>12. /\ outbox' = [outbox EXCEPT ![k] = Append(@, [client |-> c])]
       /\ hpc' = [hpc EXCEPT ![k] = "read"]
       /\ UNCHANGED <<up, server, inbox, at, m_client>>
  BY <1>2, <1>8, <1>10 DEF Respond
<1>13. Append(<<>>, [client |-> c]) = << [client |-> c] >>
  OBVIOUS
<1>14. /\ outbox'[k] = << [client |-> c] >>
       /\ \A j \in Conns : hpc'[j] = IF j = k THEN "read" ELSE hpc[j]
  BY <1>0, <1>6, <1>12, <1>13 DEF StateTypeOK, Taken
<1>15. OneUser' /\ QuietInv' /\ PointerInv'
  BY <1>0, <1>1, <1>2, <1>12, <1>14 DEF OneUser, QuietInv, PointerInv
<1>16. CallOnItsWay'
  <2>1. \A d \in Clients : cpc[d] \in {"send", "await"} => d = c
    BY <1>0, <1>4 DEF ClientInv
  <2>2. Answered(c, k)'
    BY <1>2, <1>6, <1>11, <1>12, <1>14 DEF Answered, Taken
  <2> QED BY <1>1, <1>3, <1>6, <2>1, <2>2 DEF CallOnItsWay
<1> QED BY <1>15, <1>16 DEF AloneInv

\* Alone one stays until a second user, a fault, a cut or an unknown method spoils it.
AloneUnlessSpoiled == ~spoiled => AloneInv

\* Every step but those that spoil it keeps the user alone.
LEMMA AloneStep ==
    ASSUME IInv, LeftInv, AloneUnlessSpoiled, [Next]_vars
    PROVE  AloneUnlessSpoiled'
<1> SUFFICES ASSUME ~spoiled'
             PROVE  AloneInv'
  BY DEF AloneUnlessSpoiled
<1>1. ASSUME NEW c \in Clients, Call(c)
      PROVE  AloneInv'
  BY <1>1, AloneCall DEF AloneUnlessSpoiled
<1>2. CASE AloneInv
  <2>1. ASSUME NEW c \in Clients, ClientStep(c)
        PROVE  AloneInv'
    BY <1>2, <2>1, AloneConnect, AloneSend, AloneRecv DEF ClientStep
  <2>2. ASSUME NEW k \in Conns, ServerStep(k) \/ Timeout(k)
        PROVE  AloneInv'
    BY <1>2, <2>2, AloneAccept, AloneStart, AloneRead, AloneResume, AloneOnMessage
       DEF ServerStep
  <2>3. CASE Restart \/ UNCHANGED vars
    <3>1. UNCHANGED <<clientVars, wireVars, hpc, at, m_client, m_read_buf, ghostVars>>
      BY <2>3 DEF Restart, vars
    <3> QED BY <1>2, <3>1 DEF AloneInv, OneUser, QuietInv, PointerInv, CallOnItsWay,
                              Unsent, Pending, Taken, Answered
  <2>4. ASSUME NEW c \in Clients, Die(c)
        PROVE  FALSE
    BY <2>4 DEF Die
  <2>5. ~Crash
    BY DEF Crash
  <2> QED BY <1>1, <2>1, <2>2, <2>3, <2>4, <2>5 DEF Next
<1>3. CASE spoiled /\ \A c \in Clients : ~Call(c)
  <2>1. ASSUME NEW c \in Clients, ClientStep(c) \/ Die(c)
        PROVE  FALSE
    BY <1>3, <2>1 DEF ClientStep, NewConnect, Send, Recv, Die
  <2>2. ASSUME NEW k \in Conns, ServerStep(k) \/ Timeout(k)
        PROVE  FALSE
    BY <1>3, <2>2 DEF ServerStep, Accept, Start, Read, Resume, OnMessage, Timeout, Take
  <2>3. ~(Crash \/ Restart \/ UNCHANGED vars)
    BY <1>3 DEF Crash, Restart, vars
  <2> QED BY <1>3, <2>1, <2>2, <2>3 DEF Next
<1> QED BY <1>1, <1>2, <1>3 DEF AloneUnlessSpoiled

\* What a step may do to a call that awaits its answer.
LEMMA ServedStep ==
    ASSUME IInv, AloneUnlessSpoiled, [Next]_vars, NEW c \in Clients,
           cpc[c] = "await", cpc'[c] = "idle", ~spoiled'
    PROVE  outbox[fd[c]] = << [client |-> c] >> /\ executed[c] = 1
<1>0. StateTypeOK
  BY DEF IInv
<1>1. CASE Recv(c)
  <2>1. AloneInv
    BY <1>1 DEF Recv, AloneUnlessSpoiled
  <2> QED BY <1>1, <2>1, AnswerThere DEF Answered
<1>2. CASE \E d \in Clients : Die(d)
  BY <1>2 DEF Die
<1>3. ASSUME NEW d \in Clients, d # c, Recv(d)
      PROVE  FALSE
  BY <1>0, <1>3 DEF Recv, Finish, StateTypeOK
<1>4. ASSUME NEW d \in Clients, Call(d)
      PROVE  FALSE
  BY <1>0, <1>4 DEF Call, StateTypeOK
<1>5. ASSUME NEW d \in Clients, NewConnect(d)
      PROVE  FALSE
  <2>1. cpc[d] = "dial" /\ \E p : cpc' = [cpc EXCEPT ![d] = p] \/ cpc' = cpc
    BY <1>5 DEF NewConnect, Finish
  <2> QED BY <1>0, <2>1 DEF StateTypeOK
<1>6. ASSUME NEW d \in Clients, NEW m, Send(d, m)
      PROVE  FALSE
  BY <1>0, <1>6 DEF Send, StateTypeOK
<1>7. CASE UNCHANGED cpc
  BY <1>7
<1>8. (\E k \in Conns : ServerStep(k) \/ Timeout(k)) \/ Crash \/ Restart \/ UNCHANGED vars
      => UNCHANGED cpc
  BY DEF ServerStep, Accept, Start, Read, Resume, OnMessage, Timeout, Crash, Restart, vars
<1> QED BY <1>1, <1>2, <1>3, <1>4, <1>5, <1>6, <1>7, <1>8 DEF Next, ClientStep

\* One user at a time is served (exampleService.cpp:21), whatever earlier users, crashes
\* and cuts have left in m_client, in m_read_buf and on connections (provider.cpp:25-160).
THEOREM SingleUser == Spec => SingleUserServed
<1>1. Init => LeftInv /\ AloneUnlessSpoiled
  <2> SUFFICES ASSUME Init PROVE LeftInv /\ AloneUnlessSpoiled
    OBVIOUS
  <2>1. LeftInv
    BY DEF Init, LeftInv
  <2>2. AloneUnlessSpoiled
    BY DEF Init, AloneUnlessSpoiled, AloneInv, OneUser, QuietInv, PointerInv, CallOnItsWay
  <2> QED BY <2>1, <2>2
<1>2. ASSUME IInv, LeftInv, AloneUnlessSpoiled, [Next]_vars
      PROVE  LeftInv' /\ AloneUnlessSpoiled'
  BY <1>2, LeftStep, AloneStep
<1>3. ASSUME IInv, AloneUnlessSpoiled, [Next]_vars
      PROVE  [\A c \in Clients :
                cpc[c] = "await" /\ cpc'[c] = "idle" /\ ~spoiled'
                => outbox[fd[c]] = << [client |-> c] >> /\ executed[c] = 1]_vars
  BY <1>3, ServedStep
<1> QED BY <1>1, <1>2, <1>3, Invariance, PTL DEF Spec, SingleUserServed
=============================================================================
