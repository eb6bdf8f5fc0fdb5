------------------------------ MODULE Address -------------------------------
(***************************************************************************)
(* util/address.cc: the computations on addresses, as operators, with what *)
(* they should give said independently of how the code goes about it.      *)
(*                                                                         *)
(* A machine word is the set of the weights of its one bits (0 is the      *)
(* least), so that |, & and ~ are union, intersection and complement.      *)
(* The host is little-endian: byte k of a word in memory has the weights   *)
(* 8k to 8k+7.  A text is a sequence of characters or of tokens.           *)
(***************************************************************************)
EXTENDS Integers, FiniteSets, Sequences, FiniteSetsExt, Functions

CONSTANT PathMax   \* sizeof(sun_path)

ASSUME AddressAssumption == PathMax \in Nat \ {0}

NULL == <<"NULL">>

-----------------------------------------------------------------------------
(* Words and masks.                                                         *)

byteswap(v) == {8 * (3 - b \div 8) + (b % 8) : b \in v}

(* (1 << (w - bits)) - 1.  A 32-bit shift by 32 is undefined: on x86 it is   *)
(* a shift by 0 at run time.  8-bit words are shifted as ints.               *)
CreateMask(w, bits) == IF w = 32 /\ bits = 0 THEN {} ELSE 0 .. w - bits - 1

(* value &= value - 1 drops the lowest one bit. *)
CountBytes(v) ==
  LET result[value \in SUBSET v] ==
        IF value = {} THEN 0 ELSE 1 + result[value \ {Min(value)}]
  IN result[v]

Ipv4BroadcastRaw(s, p) == IF p > 32 THEN NULL ELSE s \cup CreateMask(32, p)
Ipv4Broadcast(s, p) == IF p > 32 THEN NULL ELSE s \cup byteswap(CreateMask(32, p))

Ipv4SubnetMask(p) == 0 .. 31 \ byteswap(CreateMask(32, p))

(* An IPv6 address is a function from the byte index to the byte's bits;    *)
(* index 16 is the byte behind s6_addr, the first of sin6_scope_id.         *)
Ipv6Broadcast(a, p) ==
  [i \in 0 .. 16 |-> CASE i = p \div 8 -> a[i] \cup CreateMask(8, p % 8)
                       [] i > p \div 8 /\ i < 16 -> 0 .. 7
                       [] OTHER -> a[i]]

Ipv6SubnetMask(p) ==
  [i \in 0 .. 16 |-> CASE i = p \div 8 -> 0 .. 7 \ CreateMask(8, p % 8)
                       [] i < p \div 8 -> 0 .. 7
                       [] OTHER -> {}]

(* The prefix length GetInterfaceAddresses computes of a netmask. *)
PrefixLen4(mask) == CountBytes(mask)
PrefixLen6(mask) ==
  LET prefix_len[i \in 0 .. 16] ==
        IF i = 0 THEN 0 ELSE prefix_len[i - 1] + CountBytes(mask[i - 1])
  IN prefix_len[16]

(* getifaddrs gives entries of a name, a family and a netmask; which address  *)
(* it is makes no difference here.  Only IP ones are kept, in the order of    *)
(* the list for each name, with the length of their prefix.  An entry without *)
(* an address (ifa_addr NULL, read at address.cc:133) is not among the lists. *)
PrefixLen(e) == IF e.family = "inet" THEN PrefixLen4(e.mask) ELSE PrefixLen6(e.mask)
Asked(e, family) == family = "unspec" \/ e.family = family
AllInterfaceAddresses(ifs, family) ==
  LET result[n \in 0 .. Len(ifs)] ==
        IF n = 0 THEN <<>>
        ELSE IF Asked(ifs[n], family) /\ ifs[n].family \in {"inet", "inet6"}
        THEN Append(result[n - 1], [name |-> ifs[n].name, family |-> ifs[n].family,
                                    len |-> PrefixLen(ifs[n])])
        ELSE result[n - 1]
  IN result[Len(ifs)]

(* The records of s with that value in that field, in their order. *)
Where(s, field, value) ==
  LET result[n \in 0 .. Len(s)] ==
        IF n = 0 THEN <<>>
        ELSE IF s[n][field] = value THEN Append(result[n - 1], s[n])
        ELSE result[n - 1]
  IN result[Len(s)]

(* Those of one interface; "*", or the empty name, written "unnamed", is any *)
(* and gives the wildcards.                                                  *)
AnyInterface == {"unnamed", "*"}
Wildcard(family) == <<[name |-> "*", family |-> family, len |-> 0]>>
GetInterfaceAddresses(ifs, iface, family) ==
  IF iface \in AnyInterface
  THEN (IF family \in {"inet", "unspec"} THEN Wildcard("inet") ELSE <<>>)
       \o (IF family \in {"inet6", "unspec"} THEN Wildcard("inet6") ELSE <<>>)
  ELSE Where(AllInterfaceAddresses(ifs, family), "name", iface)

(* Bit n of an address as it is written, 1 the first: the network is bits    *)
(* 1 to p and the host the others.                                           *)
Written4(s) == {n \in 1 .. 32 : 32 - n \in byteswap(s)}
Written6(a) == {n \in 1 .. 128 : 7 - ((n - 1) % 8) \in a[(n - 1) \div 8]}

-----------------------------------------------------------------------------
(* Text.                                                                    *)

Byte(v, k) == {b % 8 : b \in {c \in v : c \div 8 = k}}

(* The bytes IPv4Address::insert prints, from (addr >> 24) & 0xff on. *)
Insert4(s) == LET addr == byteswap(s) IN [k \in 1 .. 4 |-> Byte(addr, 4 - k)]

Colon == -1

(* A group of an IPv6 address: two bytes in memory, loaded and swapped. *)
Loaded(g) == g[1] + 256 * g[2]
Swap16(n) == 256 * (n % 256) + n \div 256

(* The loop of IPv6Address::insert; used is used_zeros. *)
NextGroupLate(t, g, i) ==
  IF Loaded(g[i]) = 0 /\ ~t.used THEN t
  ELSE LET gap == i > 1 /\ Loaded(g[i - 1]) = 0 /\ ~t.used IN
       [out |-> t.out \o (IF gap THEN <<Colon>> ELSE <<>>)
                      \o (IF i > 1 THEN <<Colon>> ELSE <<>>) \o <<Swap16(Loaded(g[i]))>>,
        used |-> t.used]
NextGroup(t, g, i) ==
  IF Loaded(g[i]) = 0 /\ ~t.used THEN t
  ELSE LET gap == i > 1 /\ Loaded(g[i - 1]) = 0 /\ ~t.used IN
       [out |-> t.out \o (IF gap THEN <<Colon>> ELSE <<>>)
                      \o (IF i > 1 THEN <<Colon>> ELSE <<>>) \o <<Swap16(Loaded(g[i]))>>,
        used |-> t.used \/ gap]

Insert6(g) ==
  LET loop[i \in 0 .. 8] == IF i = 0 THEN [out |-> <<>>, used |-> FALSE]
                            ELSE NextGroup(loop[i - 1], g, i)
      t == loop[8]
  IN IF ~t.used /\ Loaded(g[8]) = 0 THEN t.out \o <<Colon, Colon>> ELSE t.out

(* RFC 4291: all groups, or "::" once in the place of a run of zero groups. *)
Joined(s) == [k \in 1 .. (IF s = <<>> THEN 0 ELSE 2 * Len(s) - 1) |->
                IF k % 2 = 1 THEN s[(k + 1) \div 2] ELSE Colon]
Reads(text, v) ==
  \/ text = Joined(v)
  \/ \E i \in 0 .. 7 : \E j \in i + 2 .. 9 :
       /\ \A k \in i + 1 .. j - 1 : v[k] = 0
       /\ text = Joined(SubSeq(v, 1, i)) \o <<Colon, Colon>> \o Joined(SubSeq(v, j, 8))

-----------------------------------------------------------------------------
(* Address::Lookup: what getaddrinfo is asked.                              *)

(* memchr: the first position of c in s from position i on, or 0. *)
Find(s, c, i) == LET at == {k \in i .. Len(s) : s[k] = c} IN IF at = {} THEN 0 ELSE Min(at)
From(s, i) == SubSeq(s, i, Len(s))

Lookup(host) ==
  LET bracket == host # <<>> /\ host[1] = "["
      close == IF bracket THEN Find(host, "]", 2) ELSE 0
      node6 == IF close = 0 THEN <<>> ELSE SubSeq(host, 2, close - 1)
      port6 == IF close # 0 /\ close < Len(host) /\ host[close + 1] = ":"
               THEN From(host, close + 2) ELSE NULL
      colon == Find(host, ":", 1)
      single == colon # 0 /\ Find(host, ":", colon + 1) = 0
      node4 == IF single THEN SubSeq(host, 1, colon - 1) ELSE <<>>
      port4 == IF colon = 0 THEN NULL ELSE From(host, IF single THEN colon + 1 ELSE colon)
      node == IF node6 # <<>> THEN node6 ELSE node4
  IN [node |-> IF node = <<>> THEN host ELSE node,
      service |-> IF node6 # <<>> THEN port6 ELSE port4]

(* The families of getaddrinfo's answer (none: it failed) become addresses,  *)
(* of which LookupAny and LookupAnyIPAddress choose one.                      *)
Create(family) == IF family \in {"inet", "inet6"} THEN family ELSE "unknown"
Results(answer) == [k \in DOMAIN answer |-> Create(answer[k])]
First(results) == IF results = <<>> THEN "nullptr" ELSE results[1]
LookupAny(answer) == First(Results(answer))
LookupAnyIPAddress(answer) ==
  LET results == Results(answer)
      ip == {k \in DOMAIN results : results[k] # "unknown"}
  IN IF ip = {} THEN "nullptr" ELSE results[Min(ip)]

-----------------------------------------------------------------------------
(* Comparison: memcmp over the common length, then the lengths.             *)
Common(a, b) == Min({Len(a), Len(b)})
FirstDiff(a, b) == {k \in 1 .. Common(a, b) : /\ a[k] # b[k]
                                              /\ \A j \in 1 .. k - 1 : a[j] = b[j]}
Less(a, b) == \/ \E k \in FirstDiff(a, b) : a[k] < b[k]
              \/ FirstDiff(a, b) = {} /\ Len(a) < Len(b)
Equal(a, b) == Len(a) = Len(b) /\ FirstDiff(a, b) = {}

-----------------------------------------------------------------------------
(* UnixAddress: sun_path filled with zeros, then with the path and, but for *)
(* an abstract one, its terminating zero; "0" is the zero character.        *)
Abstract(path) == path # <<>> /\ path[1] = "0"
Needed(path) == IF Abstract(path) THEN Len(path) ELSE Len(path) + 1

UnixAddress(path) ==
  IF Needed(path) > PathMax THEN NULL
  ELSE [sun |-> [k \in 1 .. PathMax |-> IF k <= Len(path) THEN path[k] ELSE "0"],
        length |-> Needed(path)]

(* getPath, as insert: a path to its zero, an abstract name by its length,    *)
(* with the two printed characters \0 in the place of its zero character.     *)
Escape == <<"backslash", "digit0">>

getPath(u) ==
  IF u.length > 0 /\ u.sun[1] = "0" THEN Escape \o SubSeq(u.sun, 2, u.length)
  ELSE LET z == Find(u.sun, "0", 1) IN SubSeq(u.sun, 1, IF z = 0 THEN PathMax ELSE z - 1)
=============================================================================
