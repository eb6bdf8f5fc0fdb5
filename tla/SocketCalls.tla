---------------------------- MODULE SocketCalls -----------------------------
(***************************************************************************)
(* util/socket.cc: the two computations of Socket and SSLSocket.  Timeouts *)
(* go through a timeval to the FdCtx and back; a vector of buffers is sent *)
(* or received over TLS one buffer at a time.                              *)
(***************************************************************************)
EXTENDS Integers, Sequences, SequencesExt

(* Division of C: towards zero, the remainder with the sign of v. *)
Quot(v, n) == IF v >= 0 THEN v \div n ELSE -((-v) \div n)
Rem(v, n) == v - n * Quot(v, n)

(* setRecvTimeout, setSendTimeout: v is in milliseconds. *)
Timeval(v) == [sec |-> Quot(v, 1000), usec |-> Rem(v, 1000) * 1000]

(* The hooked setsockopt: what the context of the descriptor keeps, which is *)
(* what getRecvTimeout and getSendTimeout give.  The kernel is told as well, *)
(* and refuses a negative usec: as the descriptor is non-blocking, it does   *)
(* not matter what the kernel has.                                           *)
Kept(tv) == tv.sec * 1000 + Quot(tv.usec, 1000)
SetTimeout(v) == Kept(Timeval(v))

(* do_io arms no timer for (uint64_t)-1; every other value is a delay. *)
Infinite(kept) == kept = -1

-----------------------------------------------------------------------------
(* SSL_write or SSL_read of buffer i, of size sizes[i]: moved[i] bytes, or    *)
(* failed if 0.  "bytes" are the buffer and offset of each byte that moved.   *)
NextBufferOn(t, i, sizes, moved) ==
  IF t.over THEN t
  ELSE IF moved[i] = 0 THEN [t EXCEPT !.over = TRUE, !.returns = 0]
  ELSE [bytes |-> t.bytes \o [k \in 1 .. moved[i] |-> <<i, k>>],
        returns |-> t.returns + moved[i], over |-> FALSE]
NextBuffer(t, i, sizes, moved) ==
  IF t.over THEN t
  ELSE IF moved[i] = 0 THEN [t EXCEPT !.over = TRUE, !.returns = 0]
  ELSE [bytes |-> t.bytes \o [k \in 1 .. moved[i] |-> <<i, k>>],
        returns |-> t.returns + moved[i], over |-> moved[i] # sizes[i]]

Vector(sizes, moved) ==
  LET loop[i \in 0 .. Len(sizes)] ==
        IF i = 0 THEN [bytes |-> <<>>, returns |-> 0, over |-> FALSE]
        ELSE NextBuffer(loop[i - 1], i, sizes, moved)
  IN loop[Len(sizes)]

(* The bytes of the buffers, one after the other. *)
Bytes(sizes) ==
  FlattenSeq([i \in DOMAIN sizes |-> [k \in 1 .. sizes[i] |-> <<i, k>>]])
=============================================================================
