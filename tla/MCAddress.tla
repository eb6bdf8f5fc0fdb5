------------------------------ MODULE MCAddress -----------------------------
(* Draws one input after the other: each state is an input, and the          *)
(* invariants say what the operators of Address and SocketCalls give for it.  *)
EXTENDS Address, SocketCalls

CONSTANTS MaxText,   \* bound: length of a host or of a path
          MaxBytes   \* bound: length of a compared address

ASSUME MCAddressAssumption == MaxText \in Nat /\ MaxBytes \in Nat

VARIABLE input

Texts(C, n) == UNION {[1 .. k -> C] : k \in 0 .. n}

(* IPv4 addresses with ones in every byte, IPv6 ones likewise. *)
Words == {{}, 0 .. 31, {0, 9, 18, 27}, {7, 8, 23, 24, 31}, {b \in 0 .. 31 : b % 3 = 0}}
Long(w) == [i \in 0 .. 16 |-> Byte(w, i % 4)]
Groups == {<<0, 0>>, <<0, 1>>, <<1, 0>>}
Families == {"inet", "inet6", "packet"}
Ports == (Texts({"h"}, 2) \ {<<>>}) \cup {NULL}

(* Interfaces, each entry with the mask of its prefix. *)
Entry(name, family, p) ==
  [name |-> name, family |-> family,
   mask |-> IF family = "inet6" THEN Ipv6SubnetMask(p) ELSE Ipv4SubnetMask(p)]
Entries == {Entry(n, f, p) : n \in {"lo", "eth"}, f \in Families, p \in {8, 20}}

(* Sizes of buffers, and how much of each TLS moves. *)
Transfers == {t \in Texts(1 .. 3, 3) \X Texts(0 .. 3, 3) :
                Len(t[2]) = Len(t[1]) /\ \A i \in DOMAIN t[1] : t[2][i] <= t[1][i]}

Init == input = [kind |-> "none"]

Draw(kind, S) == /\ input.kind = "none"
                 /\ \E x \in S : input' = [kind |-> kind, of |-> x]

Next == \/ Draw("prefix", Words \X (0 .. 128))
        \/ Draw("groups", [1 .. 8 -> Groups])
        \/ Draw("host", (Texts({"h", ":"}, MaxText) \ {<<>>}) \X Ports)
        \/ Draw("bytes", Texts({0, 1, 255}, MaxBytes) \X Texts({0, 1, 255}, MaxBytes))
        \/ Draw("interfaces", Texts(Entries, 2) \X ({"lo", "eth"} \cup AnyInterface))
        \/ Draw("answer", Texts(Families, 3))
        \/ Draw("timeout", -2500 .. 2500)
        \/ Draw("vector", Transfers)
        \/ Draw("path", Texts({"0", "/"} \cup Range(Escape), MaxText))

Spec == Init /\ [][Next]_input

-----------------------------------------------------------------------------
(* The broadcast address has the network part of the address and ones after  *)
(* the prefix (address.cc:331-340, 438-446), byte order and the odd bits of   *)
(* the last byte included.  Not for IPv4 with prefix 0, whose mask shifts by  *)
(* 32, nor for IPv6 with 128, which writes behind the address.                *)
BroadcastIsLast == input.kind = "prefix" =>
  LET w == input.of[1]  p == input.of[2] IN
  /\ p \in 1 .. 32 => Written4(Ipv4Broadcast(w, p)) = Written4(w) \cup (p + 1 .. 32)
  /\ p # 128 => Written6(Ipv6Broadcast(Long(w), p)) = Written6(Long(w)) \cup (p + 1 .. 128)

(* A subnet mask has ones exactly in the prefix, and the length that          *)
(* GetInterfaceAddresses counts in it is the prefix it was made for           *)
(* (address.cc:17-24, 137-156, 353-359, 458-469).                             *)
MasksCount == input.kind = "prefix" =>
  LET p == input.of[2] IN
  /\ p \in 1 .. 32 => /\ Written4(Ipv4SubnetMask(p)) = 1 .. p
                      /\ PrefixLen4(Ipv4SubnetMask(p)) = p
  /\ Written6(Ipv6SubnetMask(p)) = 1 .. p
  /\ PrefixLen6(Ipv6SubnetMask(p)) = p

(* The text of an address says that address: the bytes of an IPv4 one in      *)
(* order, an IPv6 one as RFC 4291 reads it, with "::" at most once and only   *)
(* for zeros (address.cc:321-329, 412-436).                                   *)
TextReadsBack ==
  /\ input.kind = "prefix" =>
       Insert4(input.of[1]) = [k \in 1 .. 4 |-> Byte(input.of[1], k - 1)]
  /\ input.kind = "groups" =>
       Reads(Insert6(input.of), [k \in 1 .. 8 |-> 256 * input.of[k][1] + input.of[k][2]])

(* "node", "node:port", "[node]" and "[node]:port" are taken apart into that  *)
(* node and port (address.cc:65-93), whatever colons a bracketed node has.    *)
LookupForms == input.kind = "host" =>
  LET n == input.of[1]
      p == input.of[2]
      port == IF p = NULL THEN <<>> ELSE <<":">> \o p IN
  /\ Lookup(<<"[">> \o n \o <<"]">> \o port) = [node |-> n, service |-> p]
  /\ ":" \notin Range(n) => Lookup(n \o port) = [node |-> n, service |-> p]

(* operator< is a strict total order that agrees with operator==: addresses   *)
(* of several lengths can be keys of one map (address.cc:230-246).            *)
LessOrders == input.kind = "bytes" =>
  LET a == input.of[1]  b == input.of[2] IN
  /\ Equal(a, b) <=> a = b
  /\ Less(a, b) <=> ~Less(b, a) /\ ~Equal(a, b)
  /\ \A c \in Texts({0, 1, 255}, MaxBytes) : Less(a, b) /\ Less(b, c) => Less(a, c)

(* A path shorter than sun_path is read back as it was given, an abstract     *)
(* name with its zero character written as the characters \0, whatever zeros  *)
(* it has further on, and neither takes more than sun_path                    *)
(* (address.cc:487-529).  What is read back is therefore not always what to   *)
(* construct the address from: an abstract name reads as the ordinary path    *)
(* that begins with those two characters, and the empty path as an abstract   *)
(* name of no characters.                                                     *)
PathsReadBack == input.kind = "path" =>
  LET path == input.of IN
  /\ path # <<>> /\ Len(path) < PathMax /\ "0" \notin Range(path)
       => getPath(UnixAddress(path)) = path
  /\ Len(path) <= PathMax /\ Abstract(path)
       => getPath(UnixAddress(path)) = Escape \o Tail(path)
  /\ path = <<>> => getPath(UnixAddress(path)) = Escape
  /\ Len(path) > PathMax => UnixAddress(path) = NULL

(* What is found for any family is what is found for IPv4 and for IPv6, no    *)
(* entry of another family, each with the length of its own prefix, and an    *)
(* address looked up is one of the answer, an IP one if there is one          *)
(* (address.cc:35-50, 117-198).                                               *)
InterfacesFound ==
  /\ input.kind = "interfaces" =>
       LET found(f) == GetInterfaceAddresses(input.of[1], input.of[2], f)
           of(f) == Where(found("unspec"), "family", f) IN
       /\ \A f \in {"inet", "inet6"} : found(f) = of(f)
       /\ Len(found("unspec")) = Len(of("inet")) + Len(of("inet6"))
       /\ input.of[2] \in AnyInterface \/ \A f \in {"inet", "inet6"}, p \in {8, 20} :
            Cardinality({k \in DOMAIN of(f) : of(f)[k].len = p}) =
            Cardinality({k \in DOMAIN input.of[1] :
                           input.of[1][k] = Entry(input.of[2], f, p)})
  /\ input.kind = "answer" =>
       /\ LookupAnyIPAddress(input.of) = "nullptr" <=>
            Range(input.of) \subseteq {"packet"}
       /\ LookupAnyIPAddress(input.of) \in Range(input.of) \cup {"nullptr"}
       /\ LookupAny(input.of) = "nullptr" <=> input.of = <<>>

(* A timeout of any sign is read back to the millisecond, and only -1 means   *)
(* none, through the timeval in between (socket.cc:74-98, hook.cpp:584-604).  *)
TimeoutReadsBack == input.kind = "timeout" =>
  /\ SetTimeout(input.of) = input.of
  /\ Infinite(SetTimeout(input.of)) <=> input.of = -1

(* What moved of a vector is its beginning, without a hole, and its length is *)
(* returned: no byte is skipped when a buffer is moved in part.  Only when a  *)
(* later buffer fails is the count of the earlier ones lost                   *)
(* (socket.cc:528-544, 561-577).                                              *)
VectorIsPrefix == input.kind = "vector" =>
  LET t == Vector(input.of[1], input.of[2]) IN
  /\ IsPrefix(t.bytes, Bytes(input.of[1]))
  /\ t.returns \in {Len(t.bytes), 0}
  /\ t.returns = 0 /\ t.bytes # <<>> =>
       \E i \in DOMAIN input.of[2] \ {1} : input.of[2][i] = 0

(* Everything computed on the bits of addresses, and their order.             *)
BitsRight == BroadcastIsLast /\ MasksCount /\ LessOrders

(* Everything read from a text or written to one, and what is then found.     *)
TextsRight == TextReadsBack /\ PathsReadBack /\ LookupForms /\ InterfacesFound

(* What Socket and SSLSocket compute.                                         *)
CallsExact == TimeoutReadsBack /\ VectorIsPrefix
=============================================================================
