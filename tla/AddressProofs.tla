---------------------------- MODULE AddressProofs ----------------------------
(***************************************************************************)
(* Theorems about Address and SocketCalls, for addresses, texts, lists and *)
(* vectors of any length, and the three invariants of MCAddress, which     *)
(* draws one input of bounded size after the other.                        *)
(*                                                                         *)
(* Loops are recursive functions over 0 .. n.  That such a function exists *)
(* (LoopExists) and what holds of all its values (SetInduction) is proved  *)
(* from the well-foundedness of < on the naturals, with a set in the place *)
(* of a predicate; SeqInduction does the same for sequences.               *)
(***************************************************************************)
EXTENDS MCAddress, FiniteSetTheorems, SequenceTheorems, WellFoundedInduction, TLAPS

-----------------------------------------------------------------------------
(* Induction, and what loops compute.                                        *)

\* Which of two naturals is smaller, as a set of pairs.
LessThan == {ss \in Nat \X Nat : ss[1] < ss[2]}

\* The naturals are well-founded by <, as a set of pairs.
LEMMA LessThanWellFounded == IsWellFoundedOn(LessThan, Nat)
BY NatLessThanWellFounded DEF OpToRel, LessThan

\* A non-empty set of naturals has a least element.
LEMMA Least ==
    ASSUME NEW T, T \subseteq Nat, T # {}
    PROVE  \E m \in T : \A k \in T : m <= k
<1>1. PICK m \in T : \A k \in T : ~ (<<k, m>> \in LessThan)
  BY LessThanWellFounded, WFMin
<1>2. ASSUME NEW k \in T
      PROVE  m <= k
  <2>1. k \in Nat /\ m \in Nat
    OBVIOUS
  <2>2. k < m => <<k, m>> \in LessThan
    BY <2>1 DEF LessThan
  <2> QED BY <1>1, <2>1, <2>2
<1> QED BY <1>2

\* Induction over the naturals, for a set in the place of a predicate.
LEMMA SetInduction ==
    ASSUME NEW S, 0 \in S, \A n \in Nat : n \in S => n + 1 \in S
    PROVE  Nat \subseteq S
<1> DEFINE T == Nat \ S
<1> SUFFICES ASSUME T # {} PROVE FALSE
  OBVIOUS
<1>1. PICK m \in T : \A k \in T : m <= k
  BY Least
<1>2. m # 0 /\ m - 1 \in Nat
  OBVIOUS
<1> QED BY <1>1, <1>2

\* A loop whose state after i turns is a function of the state before is well
\* defined: next[i] gives the state after turn i.
LEMMA LoopExists ==
    ASSUME NEW S, NEW init \in S, NEW n \in Nat, NEW next \in [1..n -> [S -> S]]
    PROVE  \E f \in [0..n -> S] :
             f[0] = init /\ \A i \in 1..n : f[i] = next[i][f[i - 1]]
<1> DEFINE Good(m, f) == f[0] = init /\ \A i \in 1..m : f[i] = next[i][f[i - 1]]
           M == {m \in Nat : m > n \/ \E f \in [0..m -> S] : Good(m, f)}
<1>1. 0 \in M
  <2> DEFINE f == [i \in 0..0 |-> init]
  <2>1. f \in [0..0 -> S] /\ Good(0, f)
    OBVIOUS
  <2> QED BY <2>1
<1>2. ASSUME NEW m \in Nat, m \in M
      PROVE  m + 1 \in M
  <2>1. CASE m + 1 > n
    BY <2>1
  <2>2. CASE m + 1 <= n
    <3>1. PICK f \in [0..m -> S] : Good(m, f)
      BY <1>2, <2>2
    <3> DEFINE g == [i \in 0..(m + 1) |-> IF i = m + 1 THEN next[m + 1][f[m]] ELSE f[i]]
    <3>2. next[m + 1] \in [S -> S] /\ f[m] \in S
      BY <2>2
    <3>3. g \in [0..(m + 1) -> S]
      BY <3>2
    <3>4. g[0] = init
      BY <3>1
    <3>5. ASSUME NEW i \in 1..(m + 1)
          PROVE  g[i] = next[i][g[i - 1]]
      <4>1. CASE i = m + 1
        BY <4>1
      <4>2. CASE i # m + 1
        <5>1. i \in 1..m /\ i - 1 \in 0..(m + 1) /\ i - 1 # m + 1 /\ i \in 0..(m + 1)
          BY <4>2
        <5>2. g[i] = f[i] /\ g[i - 1] = f[i - 1]
          BY <5>1, <4>2
        <5> QED BY <3>1, <5>1, <5>2
      <4> QED BY <4>1, <4>2
    <3> HIDE DEF g
    <3>6. Good(m + 1, g)
      BY <3>4, <3>5
    <3>7. \E h \in [0..(m + 1) -> S] : Good(m + 1, h)
      BY <3>3, <3>6
    <3> HIDE DEF Good
    <3> QED BY <3>7
  <2> QED BY <2>1, <2>2
<1> HIDE DEF M
<1>3. n \in M
  BY <1>1, <1>2, SetInduction
<1> QED BY <1>3 DEF M

-----------------------------------------------------------------------------
(* Counting bits.                                                            *)

\* Min of a set of naturals that is not empty is its least element.
LEMMA MinIsLeast ==
    ASSUME NEW T, T \subseteq Nat, T # {}
    PROVE  Min(T) \in T /\ \A k \in T : Min(T) <= k
BY Least DEF Min

\* The loop of CountBytes counts the one bits.
LEMMA CountsOnes ==
    ASSUME NEW v, v \subseteq Nat, IsFiniteSet(v)
    PROVE  CountBytes(v) = Cardinality(v)
<1> DEFINE Eq(f) == f = [s \in SUBSET v |-> IF s = {} THEN 0 ELSE 1 + f[s \ {Min(s)}]]
           card == [s \in SUBSET v |-> Cardinality(s)]
<1>1. ASSUME NEW s \in SUBSET v
      PROVE  /\ Cardinality(s) \in Nat
             /\ s = {} => Cardinality(s) = 0
             /\ s # {} => /\ s \ {Min(s)} \in SUBSET v
                          /\ Cardinality(s) = 1 + Cardinality(s \ {Min(s)})
  <2>1. IsFiniteSet(s)
    BY FS_Subset
  <2>2. Cardinality(s) \in Nat
    BY <2>1, FS_CardinalityType
  <2>3. s # {} => Min(s) \in s
    BY MinIsLeast
  <2>4. s = {} => Cardinality(s) = 0
    BY FS_EmptySet
  <2>5. CASE s # {}
    <3>1. Cardinality(s \ {Min(s)}) = Cardinality(s) - 1
      BY <2>1, <2>3, <2>5, FS_RemoveElement
    <3>2. s \ {Min(s)} \in SUBSET v
      OBVIOUS
    <3>3. Cardinality(s) = 1 + Cardinality(s \ {Min(s)})
      BY <2>2, <3>1
    <3> HIDE DEF Eq, card
    <3> QED BY <2>2, <2>5, <3>2, <3>3
  <2>6. CASE s = {}
    BY <2>2, <2>4, <2>6
  <2> QED BY <2>5, <2>6
<1>2. Eq(card)
  <2>1. ASSUME NEW s \in SUBSET v
        PROVE  Cardinality(s) = IF s = {} THEN 0 ELSE 1 + card[s \ {Min(s)}]
    BY <1>1
  <2> QED BY <2>1
<1>3. ASSUME NEW f, Eq(f)
      PROVE  f[v] = Cardinality(v)
  <2> DEFINE T == {n \in Nat : \E s \in SUBSET v : Cardinality(s) = n /\ f[s] # n}
  <2>1. T = {}
    <3> SUFFICES ASSUME T # {} PROVE FALSE
      OBVIOUS
    <3>1. PICK n \in T : \A k \in T : n <= k
      BY Least
    <3>2. PICK s \in SUBSET v : Cardinality(s) = n /\ f[s] # n
      BY <3>1
    <3>3. f[s] = IF s = {} THEN 0 ELSE 1 + f[s \ {Min(s)}]
      BY <1>3
    <3>4. s # {}
      BY <1>1, <3>2, <3>3
    <3>5. n = 1 + Cardinality(s \ {Min(s)}) /\ Cardinality(s \ {Min(s)}) \in Nat
      BY <1>1, <3>2, <3>4
    <3>6. f[s \ {Min(s)}] = Cardinality(s \ {Min(s)})
      BY <1>1, <3>1, <3>4, <3>5
    <3> QED BY <3>2, <3>3, <3>4, <3>5, <3>6
  <2> QED BY <1>1, <2>1
<1> DEFINE F == CHOOSE f : Eq(f)
<1>4. Eq(F)
  <2>1. \E f : Eq(f)
    BY <1>2
  <2> QED BY <2>1
<1>5. CountBytes(v) = F[v]
  BY DEF CountBytes
<1> HIDE DEF F, Eq
<1> QED BY <1>3, <1>4, <1>5
-----------------------------------------------------------------------------
(* Masks and broadcast addresses.                                            *)

\* Where byteswap moves bit n, and back.
Swap(n) == 8 * (3 - n \div 8) + (n % 8)

\* byteswap moves a bit inside the word, and moves it back the second time.
LEMMA SwapTwice ==
    ASSUME NEW n \in 0..31
    PROVE  Swap(n) \in 0..31 /\ Swap(Swap(n)) = n
BY DEF Swap

\* byteswap of a word is a word, with the bits where Swap moves them.
LEMMA Byteswapped ==
    ASSUME NEW v \in SUBSET (0..31)
    PROVE  /\ byteswap(v) \in SUBSET (0..31)
           /\ \A n \in 0..31 : n \in byteswap(v) <=> Swap(n) \in v
<1>1. byteswap(v) = {Swap(b) : b \in v}
  BY DEF byteswap, Swap
<1> QED BY <1>1, SwapTwice

\* The ones of an IPv4 mask before byteswap.
LEMMA Mask32 ==
    ASSUME NEW p \in 1..32
    PROVE  CreateMask(32, p) = 0..(31 - p) /\ CreateMask(32, p) \in SUBSET (0..31)
BY DEF CreateMask

\* The ones of the mask for the odd bits of one byte of an IPv6 address.
LEMMA Mask8 ==
    ASSUME NEW r \in 0..7
    PROVE  CreateMask(8, r) = 0..(7 - r) /\ CreateMask(8, r) \in SUBSET (0..7)
BY DEF CreateMask

\* IPv4Address::broadcastAddress keeps the network part of any address and has ones
\* behind the prefix, for any prefix but 0, whose mask shifts by 32.
THEOREM Broadcast4 ==
    ASSUME NEW s \in SUBSET (0..31), NEW p \in 1..32
    PROVE  Written4(Ipv4Broadcast(s, p)) = Written4(s) \cup (p + 1..32)
<1> DEFINE m == CreateMask(32, p)
<1>1. m = 0..(31 - p) /\ m \in SUBSET (0..31)
  BY Mask32
<1>0. Ipv4Broadcast(s, p) = s \cup byteswap(m)
  <2>1. ~ (p > 32)
    OBVIOUS
  <2> HIDE DEF m
  <2> QED BY <2>1 DEF Ipv4Broadcast, m
<1>2. byteswap(m) \in SUBSET (0..31)
  BY <1>1, Byteswapped
<1>3. ASSUME NEW n \in 1..32
      PROVE  32 - n \in byteswap(s \cup byteswap(m)) <=> 32 - n \in byteswap(s) \/ n \in p + 1..32
  <2>1. 32 - n \in 0..31
    OBVIOUS
  <2>2. Swap(32 - n) \in 0..31 /\ Swap(Swap(32 - n)) = 32 - n
    BY <2>1, SwapTwice
  <2> HIDE DEF m
  <2>3. /\ 32 - n \in byteswap(s \cup byteswap(m)) <=> Swap(32 - n) \in s \cup byteswap(m)
        /\ 32 - n \in byteswap(s) <=> Swap(32 - n) \in s
    BY <1>2, <2>1, Byteswapped
  <2>4. Swap(32 - n) \in byteswap(m) <=> 32 - n \in m
    <3>1. Swap(32 - n) \in byteswap(m) <=> Swap(Swap(32 - n)) \in m
      BY <1>1, <2>2, Byteswapped
    <3> QED BY <2>2, <3>1
  <2>5. 32 - n \in m <=> n \in p + 1..32
    BY <1>1
  <2> QED BY <2>3, <2>4, <2>5
<1> HIDE DEF m
<1>4. {n \in 1..32 : 32 - n \in byteswap(s \cup byteswap(m))}
      = {n \in 1..32 : 32 - n \in byteswap(s)} \cup (p + 1..32)
  <2>1. p + 1..32 \subseteq 1..32
    OBVIOUS
  <2> QED BY <1>3, <2>1, Zenon
<1> QED BY <1>0, <1>4 DEF Written4

\* IPv6Address::broadcastAddress keeps the network part of any address and has ones
\* behind the prefix, for any prefix that ends inside the address.
THEOREM Broadcast6 ==
    ASSUME NEW a \in [0..16 -> SUBSET (0..7)], NEW p \in 0..127
    PROVE  Written6(Ipv6Broadcast(a, p)) = Written6(a) \cup (p + 1..128)
<1> DEFINE b == Ipv6Broadcast(a, p)
<1>1. p % 8 \in 0..7 /\ p \div 8 \in 0..15 /\ p = 8 * (p \div 8) + (p % 8)
  OBVIOUS
<1>2. ASSUME NEW n \in 1..128
      PROVE  7 - ((n - 1) % 8) \in b[(n - 1) \div 8]
             <=> 7 - ((n - 1) % 8) \in a[(n - 1) \div 8] \/ n \in p + 1..128
  <2> DEFINE i == (n - 1) \div 8
             k == 7 - ((n - 1) % 8)
  <2>1. i \in 0..15 /\ k \in 0..7 /\ n - 1 = 8 * i + 7 - k
    OBVIOUS
  <2>2. b[i] = CASE i = p \div 8 -> a[i] \cup CreateMask(8, p % 8)
                 [] i > p \div 8 /\ i < 16 -> 0..7
                 [] OTHER -> a[i]
    BY <2>1 DEF Ipv6Broadcast
  <2>3. CreateMask(8, p % 8) = 0..(7 - (p % 8))
    BY <1>1, Mask8
  <2> HIDE DEF b, i, k
  <2>4. CASE i = p \div 8
    <3>0. b[i] = a[i] \cup CreateMask(8, p % 8)
      <4>1. ~ (i > p \div 8)
        BY <1>1, <2>1, <2>4
      <4> QED BY <2>2, <2>4, <4>1, Zenon
    <3>1. b[i] = a[i] \cup (0..(7 - (p % 8)))
      BY <3>0, <2>3, Zenon
    <3>2. k \in 0..(7 - (p % 8)) <=> n \in p + 1..128
      BY <1>1, <2>1, <2>4
    <3> QED BY <3>1, <3>2 DEF i, k
  <2>5. CASE i > p \div 8
    <3>1. b[i] = 0..7 /\ n \in p + 1..128
      BY <1>1, <2>1, <2>2, <2>5
    <3> QED BY <2>1, <3>1 DEF i, k
  <2>6. CASE i < p \div 8
    <3>1. ~ (i = p \div 8) /\ ~ (i > p \div 8)
      BY <1>1, <2>1, <2>6
    <3>2. b[i] = a[i]
      BY <2>2, <3>1, Zenon
    <3>3. n \notin p + 1..128
      BY <1>1, <2>1, <2>6
    <3> QED BY <3>2, <3>3 DEF i, k
  <2> QED BY <1>1, <2>1, <2>4, <2>5, <2>6
<1> HIDE DEF b
<1>3. Written6(b) = Written6(a) \cup (p + 1..128)
  BY <1>1, <1>2 DEF Written6
<1> QED BY <1>3 DEF b

\* IPv4Address::subnetMask has ones exactly in the prefix, and CountBytes reads
\* the length of the prefix out of it.
THEOREM SubnetMask4 ==
    ASSUME NEW p \in 1..32
    PROVE  /\ Written4(Ipv4SubnetMask(p)) = 1..p
           /\ PrefixLen4(Ipv4SubnetMask(p)) = p
<1> DEFINE m == CreateMask(32, p)
           mask == Ipv4SubnetMask(p)
<1>1. mask = 0..31 \ byteswap(m) /\ m = 0..(31 - p) /\ m \in SUBSET (0..31)
  BY Mask32 DEF Ipv4SubnetMask
<1> HIDE DEF m, mask
<1>2. mask \in SUBSET (0..31) /\ \A k \in 0..31 : k \in mask <=> Swap(k) > 31 - p
  <2>1. \A k \in 0..31 : k \in byteswap(m) <=> Swap(k) \in m
    BY <1>1, Byteswapped
  <2>2. \A k \in 0..31 : k \in mask <=> Swap(k) \notin m
    BY <1>1, <2>1
  <2>3. ASSUME NEW k \in 0..31
        PROVE  Swap(k) \notin m <=> Swap(k) > 31 - p
    <3>1. Swap(k) \in 0..31
      BY SwapTwice
    <3>2. \A x \in 0..31 : x \notin m <=> x > 31 - p
      BY <1>1
    <3> QED BY <3>1, <3>2
  <2>4. mask \in SUBSET (0..31)
    BY <1>1
  <2> QED BY <2>2, <2>3, <2>4
<1>3. ASSUME NEW n \in 1..32
      PROVE  32 - n \in byteswap(mask) <=> n \in 1..p
  <2>1. 32 - n \in 0..31
    OBVIOUS
  <2>2. 32 - n \in byteswap(mask) <=> Swap(32 - n) \in mask
    BY <1>2, <2>1, Byteswapped
  <2>3. Swap(32 - n) \in mask <=> 32 - n > 31 - p
    BY <1>2, <2>1, SwapTwice
  <2> QED BY <2>2, <2>3
<1>4. Written4(mask) = 1..p
  BY <1>3 DEF Written4
<1>5. Cardinality(mask) = p
  <2> DEFINE f == [n \in 1..p |-> Swap(32 - n)]
  <2>1. \A n \in 1..p : 32 - n \in 0..31 /\ 32 - n > 31 - p
    OBVIOUS
  <2>2. f \in [1..p -> mask]
    BY <1>2, <2>1, SwapTwice
  <2>3. ASSUME NEW x \in 1..p, NEW y \in 1..p, f[x] = f[y]
        PROVE  x = y
    <3>1. Swap(Swap(32 - x)) = 32 - x /\ Swap(Swap(32 - y)) = 32 - y
      BY <2>1, SwapTwice
    <3>2. 32 - x = 32 - y
      BY <2>3, <3>1
    <3> QED BY <3>2
  <2>4. ASSUME NEW k \in mask
        PROVE  \E n \in 1..p : f[n] = k
    <3>1. k \in 0..31 /\ Swap(k) \in 0..31 /\ Swap(k) > 31 - p /\ Swap(Swap(k)) = k
      BY <1>2, SwapTwice
    <3>2. 32 - Swap(k) \in 1..p /\ 32 - (32 - Swap(k)) = Swap(k)
      BY <3>1
    <3> QED BY <3>1, <3>2
  <2> HIDE DEF f
  <2>5. f \in Bijection(1..p, mask)
    BY <2>2, <2>3, <2>4 DEF Bijection, Injection, Surjection, IsInjective
  <2>6. ExistsBijection(1..p, mask)
    BY <2>5 DEF ExistsBijection
  <2> QED BY <2>6, FS_CountingElements
<1>6. PrefixLen4(mask) = p
  <2>1. IsFiniteSet(0..31)
    <3>1. 0 \in Int /\ 31 \in Int
      OBVIOUS
    <3> QED BY <3>1, FS_Interval
  <2>2. IsFiniteSet(mask)
    BY <1>2, <2>1, FS_Subset
  <2>3. mask \subseteq Nat
    BY <1>2
  <2> QED BY <1>5, <2>2, <2>3, CountsOnes DEF PrefixLen4
<1> QED BY <1>4, <1>6 DEF mask

\* IPv6Address::subnetMask has ones exactly in the prefix, and the sum of
\* CountBytes over its bytes is the length of the prefix, from 0 to 128.
THEOREM SubnetMask6 ==
    ASSUME NEW p \in 0..128
    PROVE  /\ Written6(Ipv6SubnetMask(p)) = 1..p
           /\ PrefixLen6(Ipv6SubnetMask(p)) = p
<1> DEFINE mask == Ipv6SubnetMask(p)
           q == p \div 8
           r == p % 8
<1>1. q \in 0..16 /\ r \in 0..7 /\ p = 8 * q + r
  OBVIOUS
<1>2. ASSUME NEW i \in 0..16
      PROVE  /\ i = q => mask[i] = (8 - r)..7
             /\ i < q => mask[i] = 0..7
             /\ i > q => mask[i] = {}
  <2>1. mask[i] = CASE i = q -> 0..7 \ CreateMask(8, r)
                    [] i < q -> 0..7
                    [] OTHER -> {}
    BY DEF Ipv6SubnetMask
  <2>2. CreateMask(8, r) = 0..(7 - r)
    BY <1>1, Mask8
  <2> HIDE DEF mask, q, r
  <2>3. CASE i = q
    <3>1. ~ (i < q)
      BY <1>1, <2>3
    <3>2. mask[i] = 0..7 \ (0..(7 - r))
      BY <2>1, <2>2, <2>3, <3>1, Zenon
    <3>3. 0..7 \ (0..(7 - r)) = (8 - r)..7
      BY <1>1
    <3> QED BY <1>1, <2>3, <3>2, <3>3
  <2>4. CASE i < q
    <3>1. ~ (i = q) /\ ~ (i > q)
      BY <1>1, <2>4
    <3> QED BY <2>1, <2>4, <3>1, Zenon
  <2>5. CASE i > q
    <3>1. ~ (i = q) /\ ~ (i < q)
      BY <1>1, <2>5
    <3> QED BY <2>1, <2>5, <3>1, Zenon
  <2> QED BY <1>1, <2>3, <2>4, <2>5
<1> HIDE DEF mask, q, r
<1>3. Written6(mask) = 1..p
  <2>1. ASSUME NEW n \in 1..128
        PROVE  7 - ((n - 1) % 8) \in mask[(n - 1) \div 8] <=> n \in 1..p
    <3> DEFINE i == (n - 1) \div 8
               k == 7 - ((n - 1) % 8)
    <3>1. i \in 0..15 /\ i \in 0..16 /\ k \in 0..7 /\ n - 1 = 8 * i + 7 - k
      OBVIOUS
    <3> HIDE DEF i, k
    <3>2. CASE i = q
      <4>1. mask[i] = (8 - r)..7
        BY <1>2, <3>1, <3>2
      <4>2. k \in (8 - r)..7 <=> n \in 1..p
        BY <1>1, <3>1, <3>2
      <4> QED BY <4>1, <4>2 DEF i, k
    <3>3. CASE i < q
      <4>1. mask[i] = 0..7
        BY <1>2, <3>1, <3>3
      <4>2. k \in 0..7 /\ n \in 1..p
        BY <1>1, <3>1, <3>3
      <4> QED BY <4>1, <4>2 DEF i, k
    <3>4. CASE i > q
      <4>1. mask[i] = {}
        BY <1>2, <3>1, <3>4
      <4>2. n \notin 1..p
        BY <1>1, <3>1, <3>4
      <4> QED BY <4>1, <4>2 DEF i, k
    <3> QED BY <1>1, <3>1, <3>2, <3>3, <3>4
  <2>2. 1..p \subseteq 1..128
    OBVIOUS
  <2>3. {n \in 1..128 : 7 - ((n - 1) % 8) \in mask[(n - 1) \div 8]} = 1..p
    BY <2>1, <2>2, Zenon
  <2> QED BY <2>3 DEF Written6
<1>4. ASSUME NEW i \in 0..15
      PROVE  CountBytes(mask[i]) = IF i = q THEN r ELSE IF i < q THEN 8 ELSE 0
  <2>1. i \in 0..16
    OBVIOUS
  <2>2. CASE i = q
    <3>1. mask[i] = (8 - r)..7 /\ 8 - r \in Int /\ 7 \in Int
      BY <1>1, <1>2, <2>1, <2>2
    <3>2. IsFiniteSet(mask[i]) /\ Cardinality(mask[i]) = IF 8 - r > 7 THEN 0 ELSE 7 - (8 - r) + 1
      BY <3>1, FS_Interval
    <3>3. mask[i] \subseteq Nat
      BY <1>1, <3>1
    <3>4. CountBytes(mask[i]) = r
      BY <1>1, <3>2, <3>3, CountsOnes
    <3> QED BY <2>2, <3>4
  <2>3. CASE i < q
    <3>1. mask[i] = 0..7 /\ 0 \in Int /\ 7 \in Int
      BY <1>2, <2>1, <2>3
    <3>2. IsFiniteSet(mask[i]) /\ Cardinality(mask[i]) = IF 0 > 7 THEN 0 ELSE 7 - 0 + 1
      BY <3>1, FS_Interval
    <3>3. mask[i] \subseteq Nat
      BY <3>1
    <3>4. CountBytes(mask[i]) = 8
      BY <3>2, <3>3, CountsOnes
    <3> QED BY <1>1, <2>3, <3>4
  <2>4. CASE i > q
    <3>1. mask[i] = {}
      BY <1>2, <2>1, <2>4
    <3>2. IsFiniteSet(mask[i]) /\ Cardinality(mask[i]) = 0 /\ mask[i] \subseteq Nat
      BY <3>1, FS_EmptySet
    <3>3. CountBytes(mask[i]) = 0
      BY <3>2, CountsOnes
    <3> QED BY <1>1, <2>4, <3>3
  <2> QED BY <1>1, <2>2, <2>3, <2>4
<1> DEFINE Eq(f) == f = [i \in 0..16 |-> IF i = 0 THEN 0 ELSE f[i - 1] + CountBytes(mask[i - 1])]
           sum == [i \in 0..16 |-> IF i <= q THEN 8 * i ELSE p]
<1>5. Eq(sum)
  <2>1. ASSUME NEW i \in 0..16
        PROVE  sum[i] = IF i = 0 THEN 0 ELSE sum[i - 1] + CountBytes(mask[i - 1])
    <3>1. CASE i = 0
      BY <1>1, <3>1
    <3>2. CASE i # 0
      <4>1. i - 1 \in 0..15 /\ i - 1 \in 0..16
        BY <3>2
      <4>2. sum[i - 1] = IF i - 1 <= q THEN 8 * (i - 1) ELSE p
        BY <4>1
      <4>3. sum[i] = IF i <= q THEN 8 * i ELSE p
        OBVIOUS
      <4>4. CountBytes(mask[i - 1]) = IF i - 1 = q THEN r ELSE IF i - 1 < q THEN 8 ELSE 0
        BY <1>4, <4>1
      <4> HIDE DEF sum
      <4> QED BY <1>1, <3>2, <4>2, <4>3, <4>4
    <3> QED BY <3>1, <3>2
  <2>2. sum = [i \in 0..16 |-> sum[i]]
    OBVIOUS
  <2> QED BY <2>1, <2>2
<1>6. ASSUME NEW f, Eq(f)
      PROVE  f[16] = p
  <2> DEFINE S == {n \in Nat : n > 16 \/ f[n] = sum[n]}
  <2>1. \A i \in 0..16 : f[i] = IF i = 0 THEN 0 ELSE f[i - 1] + CountBytes(mask[i - 1])
    BY <1>6
  <2>2. \A i \in 0..16 : sum[i] = IF i = 0 THEN 0 ELSE sum[i - 1] + CountBytes(mask[i - 1])
    BY <1>5
  <2> HIDE DEF Eq, sum
  <2>3. 0 \in S
    BY <2>1, <2>2
  <2>4. ASSUME NEW n \in Nat, n \in S
        PROVE  n + 1 \in S
    <3>1. CASE n + 1 <= 16
      <4>1. n + 1 \in 0..16 /\ n + 1 # 0 /\ (n + 1) - 1 = n
        BY <3>1
      <4>2. f[n] = sum[n]
        BY <2>4, <3>1
      <4> QED BY <2>1, <2>2, <4>1, <4>2
    <3>2. CASE n + 1 > 16
      BY <3>2
    <3> QED BY <3>1, <3>2
  <2> HIDE DEF S
  <2>5. 16 \in S
    BY <2>3, <2>4, SetInduction
  <2>6. f[16] = sum[16]
    BY <2>5 DEF S
  <2>7. sum[16] = p
    BY <1>1 DEF sum
  <2> QED BY <2>6, <2>7
<1> DEFINE F == CHOOSE f : Eq(f)
<1>7. Eq(F)
  <2>1. \E f : Eq(f)
    BY <1>5
  <2> QED BY <2>1
<1>8. PrefixLen6(mask) = F[16]
  BY DEF PrefixLen6
<1> HIDE DEF F, Eq
<1>9. PrefixLen6(mask) = p
  BY <1>6, <1>7, <1>8
<1> QED BY <1>3, <1>9 DEF mask
-----------------------------------------------------------------------------
(* The order of addresses.                                                   *)

\* memcmp is given the length of the shorter address.
LEMMA CommonLength ==
    ASSUME NEW a \in Seq(Nat), NEW b \in Seq(Nat)
    PROVE  /\ Common(a, b) \in Nat
           /\ Common(a, b) = IF Len(a) <= Len(b) THEN Len(a) ELSE Len(b)
<1> DEFINE T == {Len(a), Len(b)}
<1>1. T \subseteq Nat /\ T # {}
  OBVIOUS
<1>2. Min(T) \in T /\ \A k \in T : Min(T) <= k
  BY <1>1, MinIsLeast
<1> QED BY <1>2 DEF Common

\* memcmp finds a difference where there is one.
LEMMA DiffFound ==
    ASSUME NEW a \in Seq(Nat), NEW b \in Seq(Nat)
    PROVE  FirstDiff(a, b) = {} <=> \A k \in 1..Common(a, b) : a[k] = b[k]
<1> DEFINE D == {k \in 1..Common(a, b) : a[k] # b[k]}
<1>1. Common(a, b) \in Nat
  BY CommonLength
<1>2. ASSUME D # {} PROVE FirstDiff(a, b) # {}
  <2>1. D \subseteq Nat
    BY <1>1
  <2>2. PICK k \in D : \A j \in D : k <= j
    BY <1>2, <2>1, Least
  <2>3. ASSUME NEW j \in 1..k - 1
        PROVE  a[j] = b[j]
    <3>1. j \in 1..Common(a, b) /\ ~ (k <= j)
      BY <1>1, <2>2
    <3> QED BY <2>2, <3>1
  <2>4. k \in FirstDiff(a, b)
    BY <2>2, <2>3 DEF FirstDiff
  <2> QED BY <2>4
<1>3. FirstDiff(a, b) \subseteq D
  BY DEF FirstDiff
<1> QED BY <1>2, <1>3

\* a comes before b where they first differ at place k, or as a beginning of b.
LessAt(a, b, k) == /\ k \in 1..Len(a) /\ k \in 1..Len(b) /\ a[k] < b[k]
                   /\ \A j \in 1..k - 1 : a[j] = b[j]
Begins(a, b) == Len(a) < Len(b) /\ \A j \in 1..Len(a) : a[j] = b[j]

\* operator< by the place of the first difference, or by the length without one.
LEMMA LessIs ==
    ASSUME NEW a \in Seq(Nat), NEW b \in Seq(Nat)
    PROVE  Less(a, b) <=> Begins(a, b) \/ \E k \in Nat : LessAt(a, b, k)
<1>1. Common(a, b) \in Nat /\ (Len(a) < Len(b) => Common(a, b) = Len(a))
  BY CommonLength
<1>2. (\E k \in FirstDiff(a, b) : a[k] < b[k]) <=> \E k \in Nat : LessAt(a, b, k)
  <2>1. \A k : k \in 1..Common(a, b) <=> k \in 1..Len(a) /\ k \in 1..Len(b)
    BY CommonLength
  <2>2. \A k \in 1..Len(a) : k \in Nat /\ a[k] \in Nat
    OBVIOUS
  <2>3. \A k \in 1..Len(b) : b[k] \in Nat
    OBVIOUS
  <2>4. ASSUME NEW k
        PROVE  k \in FirstDiff(a, b) /\ a[k] < b[k] <=> k \in Nat /\ LessAt(a, b, k)
    <3>1. LessAt(a, b, k) => k \in 1..Common(a, b) /\ a[k] # b[k]
      BY <2>1, <2>2, <2>3 DEF LessAt
    <3>2. k \in 1..Common(a, b) => k \in Nat
      BY <1>1
    <3> QED BY <2>1, <3>1, <3>2, Zenon DEF FirstDiff, LessAt
  <2> QED BY <2>4, Zenon
<1>3. FirstDiff(a, b) = {} /\ Len(a) < Len(b) <=> Begins(a, b)
  BY <1>1, DiffFound DEF Begins
<1> QED BY <1>2, <1>3 DEF Less

\* operator== of Address is equality and operator< a strict total order on
\* addresses of any bytes and any lengths.
THEOREM AddressOrder ==
    ASSUME NEW a \in Seq(Nat), NEW b \in Seq(Nat)
    PROVE  /\ Equal(a, b) <=> a = b
           /\ Less(a, b) <=> ~Less(b, a) /\ ~Equal(a, b)
           /\ \A c \in Seq(Nat) : Less(a, b) /\ Less(b, c) => Less(a, c)
<1>1. /\ Common(a, b) \in Nat
      /\ Common(a, b) = IF Len(a) <= Len(b) THEN Len(a) ELSE Len(b)
      /\ Common(b, a) = Common(a, b)
  BY CommonLength
<1>0. (\A j \in 1..Len(a) : a[j] \in Nat) /\ (\A j \in 1..Len(b) : b[j] \in Nat)
  OBVIOUS
<1>2. Equal(a, b) <=> a = b
  <2>1. Equal(a, b) => a = b
    BY <1>1, DiffFound, SeqEqual DEF Equal
  <2>2. a = b => Equal(a, b)
    BY DiffFound DEF Equal
  <2> QED BY <2>1, <2>2
<1>3. ~ (Less(a, b) /\ Less(b, a))
  <2>1. ASSUME NEW k \in Nat, LessAt(a, b, k), NEW m \in Nat, LessAt(b, a, m)
        PROVE  FALSE
    <3>1. /\ k \in 1..Len(a) /\ k \in 1..Len(b) /\ m \in 1..Len(a) /\ m \in 1..Len(b)
          /\ a[k] \in Nat /\ b[k] \in Nat /\ a[m] \in Nat /\ b[m] \in Nat
      BY <1>0, <2>1, Zenon DEF LessAt
    <3>2. CASE k < m
      BY <2>1, <3>1, <3>2 DEF LessAt
    <3>3. CASE m < k
      BY <2>1, <3>1, <3>3 DEF LessAt
    <3>4. CASE k = m
      BY <2>1, <3>1, <3>4 DEF LessAt
    <3> QED BY <3>2, <3>3, <3>4
  <2>2. ASSUME NEW k \in Nat, LessAt(a, b, k)
        PROVE  ~ Begins(b, a)
    BY <2>2 DEF LessAt, Begins
  <2>3. ASSUME NEW k \in Nat, LessAt(b, a, k)
        PROVE  ~ Begins(a, b)
    BY <1>1, <2>3 DEF LessAt, Begins
  <2>4. ~ (Begins(a, b) /\ Begins(b, a))
    BY DEF Begins
  <2> QED BY <2>1, <2>2, <2>3, <2>4, LessIs
<1>4. ~ Equal(a, b) => Less(a, b) \/ Less(b, a)
  <2>1. CASE FirstDiff(a, b) # {}
    <3>1. PICK k \in FirstDiff(a, b) : TRUE
      BY <2>1
    <3>2. /\ k \in 1..Common(a, b) /\ a[k] # b[k] /\ k \in Nat
          /\ a[k] \in Nat /\ b[k] \in Nat /\ \A j \in 1..k - 1 : a[j] = b[j]
      BY <1>1, <3>1 DEF FirstDiff
    <3>3. LessAt(a, b, k) \/ LessAt(b, a, k)
      BY <1>1, <3>2 DEF LessAt
    <3> QED BY <3>2, <3>3, LessIs
  <2>2. CASE FirstDiff(a, b) = {} /\ Len(a) # Len(b)
    <3>1. \A k \in 1..Common(a, b) : a[k] = b[k]
      BY <2>2, DiffFound
    <3>2. Begins(a, b) \/ Begins(b, a)
      BY <1>1, <2>2, <3>1 DEF Begins
    <3> QED BY <3>2, LessIs
  <2> QED BY <2>1, <2>2 DEF Equal
<1>5. Equal(a, b) => ~ Less(a, b)
  BY <1>2, <1>3
<1>6. ASSUME NEW c \in Seq(Nat), Less(a, b), Less(b, c)
      PROVE  Less(a, c)
  <2>1. /\ Common(b, c) = IF Len(b) <= Len(c) THEN Len(b) ELSE Len(c)
        /\ Common(a, c) = IF Len(a) <= Len(c) THEN Len(a) ELSE Len(c)
    BY CommonLength
  <2>0. \A j \in 1..Len(c) : c[j] \in Nat
    OBVIOUS
  <2>2. ASSUME NEW k \in Nat, LessAt(a, b, k), NEW m \in Nat, LessAt(b, c, m)
        PROVE  Less(a, c)
    <3>1. /\ k \in 1..Len(a) /\ k \in 1..Len(b) /\ m \in 1..Len(b) /\ m \in 1..Len(c)
          /\ a[k] \in Nat /\ b[k] \in Nat /\ b[m] \in Nat /\ c[m] \in Nat
      BY <1>0, <2>0, <2>2, Zenon DEF LessAt
    <3>2. CASE k < m
      <4>1. a[k] < c[k] /\ k \in 1..Len(c)
        BY <2>2, <3>1, <3>2 DEF LessAt
      <4>2. \A j \in 1..k - 1 : j \in 1..m - 1
        BY <3>2
      <4>3. LessAt(a, c, k)
        BY <2>2, <3>1, <4>1, <4>2 DEF LessAt
      <4> QED BY <4>3, LessIs
    <3>3. CASE m < k
      <4>1. a[m] < c[m] /\ m \in 1..Len(a)
        BY <2>2, <3>1, <3>3 DEF LessAt
      <4>2. \A j \in 1..m - 1 : j \in 1..k - 1
        BY <3>3
      <4>3. LessAt(a, c, m)
        BY <2>2, <3>1, <4>1, <4>2 DEF LessAt
      <4> QED BY <4>3, LessIs
    <3>4. CASE k = m
      <4>1. LessAt(a, c, k)
        BY <2>2, <3>1, <3>4 DEF LessAt
      <4> QED BY <4>1, LessIs
    <3> QED BY <3>2, <3>3, <3>4
  <2>3. ASSUME NEW k \in Nat, LessAt(a, b, k), Begins(b, c)
        PROVE  Less(a, c)
    <3>1. LessAt(a, c, k)
      BY <2>3 DEF LessAt, Begins
    <3> QED BY <3>1, LessIs
  <2>4. ASSUME Begins(a, b), NEW m \in Nat, LessAt(b, c, m)
        PROVE  Less(a, c)
    <3>1. LessAt(a, c, m) \/ Begins(a, c)
      <4>1. m <= Len(a) => LessAt(a, c, m)
        BY <2>4 DEF LessAt, Begins
      <4>2. m > Len(a) => Begins(a, c)
        BY <2>4 DEF LessAt, Begins
      <4> QED BY <4>1, <4>2
    <3> QED BY <3>1, LessIs
  <2>5. ASSUME Begins(a, b), Begins(b, c)
        PROVE  Less(a, c)
    <3>1. Begins(a, c)
      BY <2>5 DEF Begins
    <3> QED BY <3>1, LessIs
  <2> QED BY <1>6, <2>2, <2>3, <2>4, <2>5, LessIs
<1> QED BY <1>2, <1>3, <1>4, <1>5, <1>6

-----------------------------------------------------------------------------
(* Timeouts and vectors of buffers.                                          *)

\* A timeout of any sign comes back out of the timeval as it went in, and only -1
\* is taken for none, for every integer and not only the ones drawn.
THEOREM TimeoutKept ==
    ASSUME NEW v \in Int
    PROVE  SetTimeout(v) = v /\ (Infinite(SetTimeout(v)) <=> v = -1)
<1>1. ASSUME NEW w \in Int, NEW n \in Nat \ {0}
      PROVE  Quot(w, n) \in Int
  BY DEF Quot
<1>2. Quot(v, 1000) \in Int
  BY <1>1
<1>3. Rem(v, 1000) \in Int
  BY <1>2 DEF Rem
<1>4. Quot(Rem(v, 1000) * 1000, 1000) = Rem(v, 1000)
  BY <1>3 DEF Quot
<1>5. SetTimeout(v) = Quot(v, 1000) * 1000 + Rem(v, 1000)
  BY <1>4 DEF SetTimeout, Kept, Timeval
<1>6. SetTimeout(v) = v
  BY <1>2, <1>5 DEF Rem
<1> QED BY <1>6 DEF Infinite

\* A prefix, place by place.
LEMMA PrefixIs ==
    ASSUME NEW S, NEW s \in Seq(S), NEW t \in Seq(S)
    PROVE  IsPrefix(s, t) <=> Len(s) <= Len(t) /\ \A j \in 1..Len(s) : s[j] = t[j]
<1>1. ASSUME Len(s) <= Len(t)
      PROVE  SubSeq(s, 1, Len(s)) = SubSeq(t, 1, Len(s)) <=> \A j \in 1..Len(s) : s[j] = t[j]
  <2>1. /\ Len(SubSeq(s, 1, Len(s))) = Len(s) /\ Len(SubSeq(t, 1, Len(s))) = Len(s)
        /\ SubSeq(s, 1, Len(s)) \in Seq(S) /\ SubSeq(t, 1, Len(s)) \in Seq(S)
        /\ \A j \in 1..Len(s) : /\ SubSeq(s, 1, Len(s))[j] = s[j]
                                /\ SubSeq(t, 1, Len(s))[j] = t[j]
    BY <1>1
  <2> HIDE <1>1
  <2> QED BY <2>1, SeqEqual
<1> QED BY <1>1 DEF IsPrefix

\* What begins a sequence still begins it when something is put behind.
LEMMA PrefixOfConcat ==
    ASSUME NEW S, NEW s \in Seq(S), NEW t \in Seq(S), NEW u \in Seq(S), IsPrefix(s, t)
    PROVE  IsPrefix(s, t \o u)
<1>1. /\ t \o u \in Seq(S) /\ Len(t \o u) = Len(t) + Len(u)
      /\ \A j \in 1..Len(t) : (t \o u)[j] = t[j]
  OBVIOUS
<1>2. Len(s) <= Len(t) /\ \A j \in 1..Len(s) : s[j] = t[j]
  BY PrefixIs
<1>3. Len(s) <= Len(t \o u)
  BY <1>1, <1>2
<1>4. \A j \in 1..Len(s) : s[j] = (t \o u)[j]
  BY <1>1, <1>2
<1> QED BY <1>1, <1>3, <1>4, PrefixIs

\* Two sequences, one with a beginning of what the other has behind the same.
LEMMA ConcatPrefix ==
    ASSUME NEW S, NEW s \in Seq(S), NEW x \in Seq(S), NEW y \in Seq(S),
           Len(x) <= Len(y), \A j \in 1..Len(x) : x[j] = y[j]
    PROVE  IsPrefix(s \o x, s \o y)
<1>1. /\ s \o x \in Seq(S) /\ s \o y \in Seq(S)
      /\ Len(s \o x) = Len(s) + Len(x) /\ Len(s \o y) = Len(s) + Len(y)
      /\ Len(s) \in Nat /\ Len(x) \in Nat /\ Len(y) \in Nat
  OBVIOUS
<1>2. ASSUME NEW j \in 1..(Len(s) + Len(x))
      PROVE  (s \o x)[j] = (s \o y)[j]
  <2>1. CASE j <= Len(s)
    <3>1. (s \o x)[j] = s[j] /\ (s \o y)[j] = s[j]
      BY <2>1
    <3> QED BY <3>1
  <2>2. CASE j > Len(s)
    <3>1. (s \o x)[j] = x[j - Len(s)] /\ (s \o y)[j] = y[j - Len(s)]
      BY <2>2
    <3>2. j - Len(s) \in 1..Len(x)
      BY <2>2
    <3> QED BY <3>1, <3>2
  <2> QED BY <1>1, <2>1, <2>2
<1>3. Len(s \o x) <= Len(s \o y)
  BY <1>1
<1>4. \A j \in 1..Len(s \o x) : (s \o x)[j] = (s \o y)[j]
  BY <1>1, <1>2
<1> QED BY <1>1, <1>3, <1>4, PrefixIs

\* The beginnings of a concatenation of sequences.
Concat(f, seqs, n) == f[0] = <<>> /\ \A i \in 1..n : f[i] = f[i - 1] \o seqs[i]

\* FlattenSeq is the last of the concatenations of the first i sequences.
LEMMA FlattenIs ==
    ASSUME NEW S, NEW n \in Nat, NEW seqs \in [1..n -> Seq(S)]
    PROVE  \E f \in [0..n -> Seq(S)] : Concat(f, seqs, n) /\ FlattenSeq(seqs) = f[n]
<1> DEFINE next == [i \in 1..n |-> [s \in Seq(S) |-> s \o seqs[i]]]
<1>1. next \in [1..n -> [Seq(S) -> Seq(S)]]
  OBVIOUS
<1>2. <<>> \in Seq(S)
  OBVIOUS
<1>3. PICK f \in [0..n -> Seq(S)] : f[0] = <<>> /\ \A i \in 1..n : f[i] = next[i][f[i - 1]]
  <2> DEFINE X == Seq(S)
             e == <<>>
  <2>1. next \in [1..n -> [X -> X]] /\ e \in X
    BY <1>1, <1>2
  <2> HIDE DEF next, X, e
  <2>2. \A x \in X : \A m \in Nat : \A g \in [1..m -> [X -> X]] :
          \E f \in [0..m -> X] : f[0] = x /\ \A i \in 1..m : f[i] = g[i][f[i - 1]]
    BY LoopExists
  <2>3. \E f \in [0..n -> X] : f[0] = e /\ \A i \in 1..n : f[i] = next[i][f[i - 1]]
    BY <2>1, <2>2
  <2> QED BY <2>3 DEF X, e
<1>4. Concat(f, seqs, n)
  <2>1. ASSUME NEW i \in 1..n
        PROVE  f[i] = f[i - 1] \o seqs[i]
    <3>1. f[i - 1] \in Seq(S)
      OBVIOUS
    <3> QED BY <1>3, <3>1
  <2> QED BY <1>3, <2>1 DEF Concat
<1> HIDE DEF next
<1>5. Len(seqs) = n /\ DOMAIN seqs = 1..n
  OBVIOUS
<1>6. CASE n = 0
  <2>1. FlattenSeq(seqs) = seqs
    BY <1>5, <1>6 DEF FlattenSeq
  <2>2. seqs = <<>>
    BY <1>5, <1>6
  <2> QED BY <1>4, <1>6, <2>1, <2>2 DEF Concat
<1>7. CASE n # 0
  <2> DEFINE Eq(g) == g = [i \in 1..n |-> IF i = 1 THEN seqs[i] ELSE g[i - 1] \o seqs[i]]
             h == [i \in 1..n |-> f[i]]
  <2>1. Eq(h)
    <3>1. ASSUME NEW i \in 1..n
          PROVE  f[i] = IF i = 1 THEN seqs[i] ELSE h[i - 1] \o seqs[i]
      <4>1. CASE i = 1
        <5>1. f[i] = f[i - 1] \o seqs[i] /\ f[0] = <<>>
          BY <1>4 DEF Concat
        <5>2. i - 1 = 0
          BY <4>1
        <5>3. f[i] = <<>> \o seqs[i]
          BY <5>1, <5>2, Zenon
        <5>4. seqs[i] \in Seq(S)
          OBVIOUS
        <5> QED BY <4>1, <5>3, <5>4
      <4>2. CASE i # 1
        <5>1. i - 1 \in 1..n
          BY <4>2
        <5>2. h[i - 1] = f[i - 1]
          BY <5>1
        <5>3. f[i] = f[i - 1] \o seqs[i]
          BY <1>4 DEF Concat
        <5> QED BY <4>2, <5>2, <5>3
      <4> QED BY <4>1, <4>2
    <3> QED BY <3>1
  <2>2. ASSUME NEW g, Eq(g)
        PROVE  g[n] = f[n]
    <3> DEFINE M == {m \in Nat : m + 1 > n \/ g[m + 1] = f[m + 1]}
    <3>1. \A i \in 1..n : g[i] = IF i = 1 THEN seqs[i] ELSE g[i - 1] \o seqs[i]
      BY <2>2
    <3>2. \A i \in 1..n : f[i] = IF i = 1 THEN seqs[i] ELSE f[i - 1] \o seqs[i]
      <4> TAKE i \in 1..n
      <4>1. CASE i = 1
        <5>1. f[i] = f[i - 1] \o seqs[i] /\ f[0] = <<>>
          BY <1>4 DEF Concat
        <5>2. i - 1 = 0
          BY <4>1
        <5>3. f[i] = <<>> \o seqs[i]
          BY <5>1, <5>2, Zenon
        <5>4. seqs[i] \in Seq(S)
          OBVIOUS
        <5> QED BY <4>1, <5>3, <5>4
      <4>2. CASE i # 1
        BY <1>4, <4>2 DEF Concat
      <4> QED BY <4>1, <4>2
    <3> HIDE DEF Eq
    <3>3. 0 \in M
      <4>1. 1 \in 1..n
        BY <1>7
      <4>2. g[1] = f[1]
        BY <3>1, <3>2, <4>1
      <4> QED BY <4>2
    <3>4. ASSUME NEW m \in Nat, m \in M
          PROVE  m + 1 \in M
      <4>1. CASE m + 2 <= n
        <5>1. m + 2 \in 1..n /\ m + 2 # 1 /\ (m + 2) - 1 = m + 1 /\ (m + 1) + 1 = m + 2
          BY <4>1
        <5>2. g[m + 1] = f[m + 1]
          BY <3>4, <4>1
        <5>3. g[m + 2] = f[m + 2]
          BY <3>1, <3>2, <5>1, <5>2
        <5> QED BY <5>1, <5>3
      <4>2. CASE m + 2 > n
        BY <4>2
      <4> QED BY <4>1, <4>2
    <3> HIDE DEF M
    <3>5. n - 1 \in M
      <4>1. n - 1 \in Nat
        BY <1>7
      <4>2. Nat \subseteq M
        BY <3>3, <3>4, SetInduction
      <4> QED BY <4>1, <4>2
    <3> QED BY <1>7, <3>5 DEF M
  <2> DEFINE G == CHOOSE g : Eq(g)
  <2>3. Eq(G)
    <3>1. \E g : Eq(g)
      BY <2>1
    <3> QED BY <3>1
  <2>4. FlattenSeq(seqs) = G[n]
    BY <1>5, <1>7 DEF FlattenSeq
  <2> HIDE DEF G, Eq, h
  <2> QED BY <1>4, <2>2, <2>3, <2>4
<1> QED BY <1>6, <1>7

\* Each of these concatenations begins the last.
LEMMA ConcatGrows ==
    ASSUME NEW S, NEW n \in Nat, NEW seqs \in [1..n -> Seq(S)],
           NEW f \in [0..n -> Seq(S)], Concat(f, seqs, n), NEW i \in 0..n
    PROVE  IsPrefix(f[i], f[n])
<1> DEFINE M == {m \in Nat : i + m > n \/ IsPrefix(f[i], f[i + m])}
<1>1. 0 \in M
  <2>1. f[i] \in Seq(S) /\ i + 0 = i
    OBVIOUS
  <2>2. IsPrefix(f[i], f[i])
    BY <2>1, PrefixIs
  <2> QED BY <2>1, <2>2
<1>2. ASSUME NEW m \in Nat, m \in M
      PROVE  m + 1 \in M
  <2>1. CASE i + (m + 1) <= n
    <3> DEFINE j == i + m
    <3>1. j \in 0..n /\ j + 1 \in 1..n /\ (j + 1) - 1 = j /\ i + (m + 1) = j + 1
      BY <2>1
    <3>2. IsPrefix(f[i], f[j])
      BY <1>2, <2>1
    <3>3. f[j + 1] = f[j] \o seqs[j + 1]
      BY <3>1 DEF Concat
    <3> HIDE DEF j
    <3>4. f[i] \in Seq(S) /\ f[j] \in Seq(S) /\ seqs[j + 1] \in Seq(S)
      BY <3>1
    <3>5. IsPrefix(f[i], f[j] \o seqs[j + 1])
      BY <3>2, <3>4, PrefixOfConcat
    <3>6. IsPrefix(f[i], f[i + (m + 1)])
      BY <3>1, <3>3, <3>5
    <3> QED BY <3>6
  <2>2. CASE i + (m + 1) > n
    BY <2>2
  <2> QED BY <2>1, <2>2
<1> HIDE DEF M
<1>3. n - i \in M
  <2>1. n - i \in Nat
    OBVIOUS
  <2>2. Nat \subseteq M
    BY <1>1, <1>2, SetInduction
  <2> QED BY <2>1, <2>2
<1> QED BY <1>3 DEF M

\* The states of the loop over the buffers.
Place == Nat \X Nat
Moving == [bytes : Seq(Place), returns : Nat, over : BOOLEAN]
Buffer(i, k) == [j \in 1..k |-> <<i, j>>]

\* The bytes that moved of one buffer.
LEMMA BufferType ==
    ASSUME NEW i \in Nat, NEW k \in Nat
    PROVE  Buffer(i, k) \in Seq(Place) /\ Len(Buffer(i, k)) = k
BY DEF Buffer, Place

\* One turn of the loop over the buffers: done, failed, or moved in part or whole.
LEMMA NextBufferIs ==
    ASSUME NEW n \in Nat, NEW sizes \in [1..n -> Nat], NEW moved \in [1..n -> Nat],
           NEW t \in Moving, NEW i \in 1..n
    PROVE  /\ NextBuffer(t, i, sizes, moved) \in Moving
           /\ t.over => NextBuffer(t, i, sizes, moved) = t
           /\ ~t.over /\ moved[i] = 0 =>
                NextBuffer(t, i, sizes, moved) = [bytes |-> t.bytes, returns |-> 0, over |-> TRUE]
           /\ ~t.over /\ moved[i] # 0 =>
                NextBuffer(t, i, sizes, moved) =
                  [bytes |-> t.bytes \o Buffer(i, moved[i]),
                   returns |-> t.returns + moved[i], over |-> moved[i] # sizes[i]]
<1> DEFINE u == NextBuffer(t, i, sizes, moved)
<1>1. t.over => u = t
  BY DEF NextBuffer
<1>2. ~t.over /\ moved[i] = 0 => u = [bytes |-> t.bytes, returns |-> 0, over |-> TRUE]
  BY DEF NextBuffer, Moving
<1>3. ~t.over /\ moved[i] # 0 =>
        u = [bytes |-> t.bytes \o Buffer(i, moved[i]),
             returns |-> t.returns + moved[i], over |-> moved[i] # sizes[i]]
  BY DEF NextBuffer, Buffer
<1>4. t.bytes \in Seq(Place) /\ t.bytes \o Buffer(i, moved[i]) \in Seq(Place)
  <2>1. i \in Nat /\ moved[i] \in Nat
    OBVIOUS
  <2>2. Buffer(i, moved[i]) \in Seq(Place) /\ t.bytes \in Seq(Place)
    BY <2>1, BufferType DEF Moving
  <2> QED BY <2>2
<1>5. t.returns \in Nat /\ t.returns + moved[i] \in Nat /\ t.over \in BOOLEAN
  BY DEF Moving
<1> HIDE DEF u
<1>6. u \in Moving
  <2>1. CASE t.over
    BY <1>1, <2>1
  <2>2. CASE ~t.over /\ moved[i] = 0
    <3>1. [bytes |-> t.bytes, returns |-> 0, over |-> TRUE] \in Moving
      BY <1>4 DEF Moving
    <3> QED BY <1>2, <2>2, <3>1
  <2>3. CASE ~t.over /\ moved[i] # 0
    <3> DEFINE x == t.bytes \o Buffer(i, moved[i])
               r == t.returns + moved[i]
               o == moved[i] # sizes[i]
    <3>1. x \in Seq(Place) /\ r \in Nat /\ o \in BOOLEAN
      BY <1>4, <1>5
    <3>2. u = [bytes |-> x, returns |-> r, over |-> o]
      BY <1>3, <2>3
    <3> HIDE DEF x, r, o
    <3>3. [bytes |-> x, returns |-> r, over |-> o] \in Moving
      BY <3>1 DEF Moving
    <3> QED BY <3>2, <3>3
  <2> QED BY <1>5, <2>1, <2>2, <2>3
<1> QED BY <1>1, <1>2, <1>3, <1>6 DEF u

\* LoopExists for the states of the loop over the buffers.
LEMMA MovingLoop ==
    ASSUME NEW init \in Moving, NEW n \in Nat, NEW next \in [1..n -> [Moving -> Moving]]
    PROVE  \E f \in [0..n -> Moving] :
             f[0] = init /\ \A i \in 1..n : f[i] = next[i][f[i - 1]]
BY LoopExists

\* Vector is the state of its loop after the last buffer.
LEMMA VectorLoop ==
    ASSUME NEW n \in Nat, NEW sizes \in [1..n -> Nat], NEW moved \in [1..n -> Nat]
    PROVE  \E f : /\ f[0] = [bytes |-> <<>>, returns |-> 0, over |-> FALSE]
                  /\ \A i \in 1..n : f[i] = NextBuffer(f[i - 1], i, sizes, moved)
                  /\ Vector(sizes, moved) = f[n]
<1> DEFINE init == [bytes |-> <<>>, returns |-> 0, over |-> FALSE]
           Eq(f) == f = [i \in 0..n |-> IF i = 0 THEN init
                                        ELSE NextBuffer(f[i - 1], i, sizes, moved)]
           next == [i \in 1..n |-> [t \in Moving |-> NextBuffer(t, i, sizes, moved)]]
<1>1. init \in Moving
  BY DEF Moving
<1>2. next \in [1..n -> [Moving -> Moving]]
  <2>1. ASSUME NEW i \in 1..n, NEW t \in Moving
        PROVE  NextBuffer(t, i, sizes, moved) \in Moving
    BY NextBufferIs
  <2> QED BY <2>1
<1>3. \E f : Eq(f)
  <2> HIDE DEF init
  <2>1. PICK f \in [0..n -> Moving] : f[0] = init /\ \A i \in 1..n : f[i] = next[i][f[i - 1]]
    <3> HIDE DEF next, Eq
    <3> QED BY <1>1, <1>2, MovingLoop
  <2>2. ASSUME NEW i \in 0..n
        PROVE  f[i] = IF i = 0 THEN init ELSE NextBuffer(f[i - 1], i, sizes, moved)
    <3>1. CASE i # 0
      <4>1. i \in 1..n /\ f[i - 1] \in Moving
        BY <3>1
      <4>2. f[i] = next[i][f[i - 1]]
        BY <2>1, <4>1
      <4>3. next[i][f[i - 1]] = NextBuffer(f[i - 1], i, sizes, moved)
        BY <4>1
      <4> QED BY <3>1, <4>2, <4>3
    <3> QED BY <2>1, <3>1
  <2> HIDE DEF next
  <2>3. Eq(f)
    BY <2>2
  <2> QED BY <2>3
<1> DEFINE F == CHOOSE f : Eq(f)
<1>4. Eq(F)
  <2> HIDE DEF Eq
  <2> QED BY <1>3
<1>5. Vector(sizes, moved) = F[n]
  <2>1. Len(sizes) = n
    OBVIOUS
  <2> QED BY <2>1 DEF Vector
<1> HIDE DEF F
<1>6. F[0] = init /\ \A i \in 1..n : F[i] = NextBuffer(F[i - 1], i, sizes, moved)
  <2>1. \A i \in 0..n : F[i] = IF i = 0 THEN init ELSE NextBuffer(F[i - 1], i, sizes, moved)
    BY <1>4
  <2> HIDE DEF Eq, next, init
  <2> QED BY <2>1
<1> QED BY <1>5, <1>6

\* SSLSocket::send and recv of any vector of buffers move a beginning of it,
\* without a hole, and return its length, or 0 if a later buffer failed.
THEOREM VectorMoves ==
    ASSUME NEW n \in Nat, NEW sizes \in [1..n -> Nat], NEW moved \in [1..n -> Nat],
           \A i \in 1..n : moved[i] <= sizes[i]
    PROVE  LET t == Vector(sizes, moved) IN
           /\ IsPrefix(t.bytes, Bytes(sizes))
           /\ t.returns \in {Len(t.bytes), 0}
           /\ t.returns = 0 /\ t.bytes # <<>> => \E i \in DOMAIN moved \ {1} : moved[i] = 0
<1>0. \A t \in Moving : \A i \in 1..n :
        /\ NextBuffer(t, i, sizes, moved) \in Moving
        /\ t.over => NextBuffer(t, i, sizes, moved) = t
        /\ ~t.over /\ moved[i] = 0 =>
             NextBuffer(t, i, sizes, moved) = [bytes |-> t.bytes, returns |-> 0, over |-> TRUE]
        /\ ~t.over /\ moved[i] # 0 =>
             NextBuffer(t, i, sizes, moved) =
               [bytes |-> t.bytes \o Buffer(i, moved[i]),
                returns |-> t.returns + moved[i], over |-> moved[i] # sizes[i]]
  BY NextBufferIs
<1> DEFINE seqs == [i \in 1..n |-> Buffer(i, sizes[i])]
<1>1. seqs \in [1..n -> Seq(Place)]
  BY BufferType
<1>2. PICK b \in [0..n -> Seq(Place)] : Concat(b, seqs, n) /\ FlattenSeq(seqs) = b[n]
  <2> HIDE DEF seqs
  <2> QED BY <1>1, FlattenIs
<1>3. Bytes(sizes) = b[n]
  BY <1>2 DEF Bytes, Buffer
<1>4. PICK f : /\ f[0] = [bytes |-> <<>>, returns |-> 0, over |-> FALSE]
               /\ \A i \in 1..n : f[i] = NextBuffer(f[i - 1], i, sizes, moved)
               /\ Vector(sizes, moved) = f[n]
  BY VectorLoop
<1> DEFINE Good(t, i) ==
             /\ t \in Moving
             /\ ~t.over => t.bytes = b[i] /\ t.returns = Len(t.bytes)
             /\ IsPrefix(t.bytes, b[i])
             /\ t.returns \in {Len(t.bytes), 0}
             /\ t.returns = 0 /\ t.bytes # <<>> => \E j \in DOMAIN moved \ {1} : moved[j] = 0
           M == {i \in Nat : i > n \/ Good(f[i], i)}
<1>5. 0 \in M
  <2>1. b[0] = <<>> /\ <<>> \in Seq(Place)
    BY <1>2 DEF Concat
  <2>2. IsPrefix(<<>>, b[0])
    BY <2>1, PrefixIs
  <2>3. f[0] \in Moving /\ f[0].bytes = <<>> /\ f[0].returns = 0
    BY <1>4 DEF Moving
  <2>4. Good(f[0], 0)
    BY <2>1, <2>2, <2>3
  <2> QED BY <2>4
<1>6. ASSUME NEW m \in Nat, m \in M
      PROVE  m + 1 \in M
  <2>1. CASE m + 1 <= n
    <3> DEFINE i == m + 1
               t == f[m]
               u == f[m + 1]
    <3>1. i \in 1..n /\ i - 1 = m /\ m \in 0..n /\ i \in 0..n /\ i \in Nat
      BY <2>1
    <3>2. Good(t, m)
      BY <1>6, <2>1
    <3>3. u = NextBuffer(t, i, sizes, moved)
      BY <1>4, <3>1
    <3>4. moved[i] \in Nat /\ sizes[i] \in Nat /\ moved[i] <= sizes[i] /\ i \in DOMAIN moved
      BY <3>1
    <3>5. b[i] = b[m] \o Buffer(i, sizes[i]) /\ b[m] \in Seq(Place) /\ b[i] \in Seq(Place)
      BY <1>2, <3>1 DEF Concat
    <3> HIDE DEF t, u, i, seqs, M
    <3>6. Buffer(i, sizes[i]) \in Seq(Place) /\ Buffer(i, moved[i]) \in Seq(Place)
      BY <3>1, <3>4, BufferType
    <3>7. t \in Moving /\ t.bytes \in Seq(Place) /\ t.returns \in Nat /\ t.over \in BOOLEAN
      BY <3>2 DEF Moving
    <3>8. IsPrefix(t.bytes, b[i])
      BY <3>2, <3>5, <3>6, <3>7, PrefixOfConcat
    <3>12. /\ u \in Moving
           /\ t.over => u = t
           /\ ~t.over /\ moved[i] = 0 => u = [bytes |-> t.bytes, returns |-> 0, over |-> TRUE]
           /\ ~t.over /\ moved[i] # 0 =>
                u = [bytes |-> t.bytes \o Buffer(i, moved[i]),
                     returns |-> t.returns + moved[i], over |-> moved[i] # sizes[i]]
      <4>1. i \in 1..n /\ t \in Moving
        BY <3>1, <3>7
      <4> QED BY <3>3, <4>1, <1>0, Zenon
    <3>9. CASE t.over
      <4>1. u = t
        BY <3>9, <3>12
      <4>2. Good(u, i)
        BY <3>2, <3>8, <3>9, <4>1
      <4> QED BY <3>1, <4>2 DEF M, u, i
    <3>10. CASE ~t.over /\ moved[i] = 0
      <4>1. u = [bytes |-> t.bytes, returns |-> 0, over |-> TRUE] /\ u \in Moving
        BY <3>10, <3>12
      <4>2. u.bytes # <<>> => i # 1
        <5>1. i = 1 => t.bytes = b[0]
          BY <3>1, <3>2, <3>10
        <5> QED BY <1>2, <4>1, <5>1 DEF Concat
      <4>3. u.bytes = t.bytes /\ u.returns = 0 /\ u.over
        BY <4>1
      <4>4. Good(u, i)
        BY <3>4, <3>8, <3>10, <4>1, <4>2, <4>3
      <4> QED BY <3>1, <4>4 DEF M, u, i
    <3>11. CASE ~t.over /\ moved[i] # 0
      <4>1. /\ u = [bytes |-> t.bytes \o Buffer(i, moved[i]),
                    returns |-> t.returns + moved[i], over |-> moved[i] # sizes[i]]
            /\ u \in Moving
        BY <3>11, <3>12
      <4>2. /\ u.bytes = t.bytes \o Buffer(i, moved[i])
            /\ u.returns = t.returns + moved[i] /\ u.over = (moved[i] # sizes[i])
        BY <4>1
      <4>3. t.bytes = b[m] /\ t.returns = Len(t.bytes)
        BY <3>2, <3>11
      <4>4. u.returns = Len(u.bytes)
        BY <3>1, <3>4, <3>6, <3>7, <4>2, <4>3, BufferType
      <4>5. ~u.over => u.bytes = b[i]
        BY <3>5, <4>2, <4>3
      <4>6. IsPrefix(u.bytes, b[i])
        <5> DEFINE x == Buffer(i, moved[i])
                   y == Buffer(i, sizes[i])
        <5>1. /\ Len(Buffer(i, moved[i])) = moved[i] /\ Len(Buffer(i, sizes[i])) = sizes[i]
              /\ \A j \in 1..moved[i] : Buffer(i, moved[i])[j] = Buffer(i, sizes[i])[j]
          BY <3>4 DEF Buffer
        <5>2. u.bytes = b[m] \o Buffer(i, moved[i]) /\ u.bytes \in Seq(Place)
          BY <3>5, <3>6, <4>2, <4>3
        <5>3. IsPrefix(b[m] \o x, b[m] \o y)
          <6>1. /\ x \in Seq(Place) /\ y \in Seq(Place) /\ b[m] \in Seq(Place)
                /\ Len(x) <= Len(y) /\ \A j \in 1..Len(x) : x[j] = y[j]
            BY <3>4, <3>5, <3>6, <5>1
          <6> HIDE DEF x, y
          <6> QED BY <6>1, ConcatPrefix
        <5> QED BY <3>5, <5>2, <5>3
      <4>7. u.returns # 0
        BY <3>4, <3>7, <3>11, <4>2
      <4>8. Good(u, i)
        BY <4>1, <4>4, <4>5, <4>6, <4>7
      <4> QED BY <3>1, <4>8 DEF M, u, i
    <3> QED BY <3>7, <3>9, <3>10, <3>11
  <2>2. CASE m + 1 > n
    BY <2>2
  <2> QED BY <2>1, <2>2
<1> HIDE DEF M
<1>7. n \in M
  BY <1>5, <1>6, SetInduction
<1>8. Good(f[n], n)
  BY <1>7 DEF M
<1> QED BY <1>3, <1>4, <1>8

-----------------------------------------------------------------------------
(* Texts.                                                                    *)

\* The bytes IPv4Address::insert prints are those of the address, in order.
THEOREM Insert4Bytes ==
    ASSUME NEW s \in SUBSET (0 .. 31)
    PROVE  Insert4(s) = [k \in 1 .. 4 |-> Byte(s, k - 1)]
<1>1. ASSUME NEW k \in 1 .. 4
      PROVE  Byte(byteswap(s), 4 - k) = Byte(s, k - 1)
  <2>1. \A c \in 0 .. 31 : Swap(c) \div 8 = 3 - c \div 8 /\ Swap(c) % 8 = c % 8
    BY DEF Swap
  <2>2. \A c \in 0 .. 31 : 3 - c \div 8 = 4 - k <=> c \div 8 = k - 1
    OBVIOUS
  <2>3. \A c \in s : (Swap(c) \div 8 = 4 - k <=> c \div 8 = k - 1) /\ Swap(c) % 8 = c % 8
    BY <2>1, <2>2
  <2>4. byteswap(s) = {Swap(c) : c \in s}
    BY DEF byteswap, Swap
  <2>5. {b % 8 : b \in {c \in {Swap(d) : d \in s} : c \div 8 = 4 - k}}
        = {b % 8 : b \in {c \in s : c \div 8 = k - 1}}
    BY <2>3
  <2> QED BY <2>4, <2>5 DEF Byte
<1>2. Insert4(s) = [k \in 1 .. 4 |-> Byte(byteswap(s), 4 - k)]
  BY DEF Insert4
<1> QED BY <1>1, <1>2

\* memchr finds the first c from place i on.
LEMMA FindIs ==
    ASSUME NEW S, NEW s \in Seq(S), NEW c, NEW i \in Nat \ {0}
    PROVE  /\ (\A k \in i .. Len(s) : s[k] # c) => Find(s, c, i) = 0
           /\ \A m \in i .. Len(s) :
                s[m] = c /\ (\A k \in i .. m - 1 : s[k] # c) => Find(s, c, i) = m
<1> DEFINE at == {k \in i .. Len(s) : s[k] = c}
<1>1. Find(s, c, i) = IF at = {} THEN 0 ELSE Min(at)
  BY DEF Find
<1>2. (\A k \in i .. Len(s) : s[k] # c) => at = {}
  OBVIOUS
<1>3. ASSUME NEW m \in i .. Len(s), s[m] = c, \A k \in i .. m - 1 : s[k] # c
      PROVE  Find(s, c, i) = m
  <2>1. at \subseteq Nat /\ m \in at
    BY <1>3
  <2> DEFINE T == at
  <2> HIDE DEF at
  <2>2. Min(at) \in at /\ \A k \in at : Min(at) <= k
    BY <2>1, MinIsLeast
  <2>3. \A k \in at : k \in i .. Len(s) /\ s[k] = c
    BY DEF at
  <2>4. Min(at) <= m /\ Min(at) \in i .. Len(s) /\ ~ (Min(at) \in i .. m - 1)
    BY <1>3, <2>1, <2>2, <2>3
  <2> QED BY <1>1, <2>1, <2>4
<1> QED BY <1>1, <1>2, <1>3

\* The array an address holds, its first n characters and the n - 1 behind the first.
LEMMA HeldPath ==
    ASSUME NEW C, "0" \in C, NEW path \in Seq(C), Len(path) <= PathMax
    PROVE  LET sun == [k \in 1 .. PathMax |-> IF k <= Len(path) THEN path[k] ELSE "0"] IN
           /\ sun \in Seq(C) /\ Len(sun) = PathMax
           /\ \A k \in 1 .. Len(path) : sun[k] = path[k]
           /\ Len(path) < PathMax => sun[Len(path) + 1] = "0"
           /\ SubSeq(sun, 1, Len(path)) = path
           /\ path # <<>> => SubSeq(sun, 2, Len(path)) = Tail(path)
<1> DEFINE sun == [k \in 1 .. PathMax |-> IF k <= Len(path) THEN path[k] ELSE "0"]
<1>0. PathMax \in Nat \ {0} /\ Len(path) \in Nat /\ \A k \in 1 .. Len(path) : path[k] \in C
  BY AddressAssumption
<1>1. sun \in Seq(C) /\ Len(sun) = PathMax
  <2>1. ASSUME NEW k \in 1 .. PathMax
        PROVE  (IF k <= Len(path) THEN path[k] ELSE "0") \in C
    <3>1. k <= Len(path) => k \in 1 .. Len(path)
      BY <1>0
    <3> QED BY <1>0, <3>1, Zenon
  <2>2. sun \in [1 .. PathMax -> C]
    BY <2>1
  <2> QED BY <1>0, <2>2
<1>2. \A k \in 1 .. Len(path) : sun[k] = path[k]
  <2>1. \A k \in 1 .. Len(path) : k \in 1 .. PathMax
    BY <1>0
  <2> QED BY <1>0, <2>1
<1>3. Len(path) < PathMax => sun[Len(path) + 1] = "0"
  <2>1. Len(path) < PathMax => Len(path) + 1 \in 1 .. PathMax /\ ~ (Len(path) + 1 <= Len(path))
    BY <1>0
  <2> QED BY <2>1
<1> HIDE DEF sun
<1>4. SubSeq(sun, 1, Len(path)) = path
  <2> DEFINE t == SubSeq(sun, 1, Len(path))
  <2>1. t \in Seq(C) /\ Len(t) = Len(path) /\ \A k \in 1 .. Len(path) : t[k] = path[k]
    BY <1>0, <1>1, <1>2
  <2> HIDE DEF t
  <2>2. t = path
    BY <2>1, SeqEqual
  <2> QED BY <2>2 DEF t
<1>5. ASSUME path # <<>>
      PROVE  SubSeq(sun, 2, Len(path)) = Tail(path)
  <2> DEFINE t == SubSeq(sun, 2, Len(path))
             u == Tail(path)
             n == Len(path) - 1
  <2>1. n \in Nat /\ \A k \in 1 .. n : k + 1 \in 1 .. Len(path)
    BY <1>0, <1>5
  <2>2. t \in Seq(C) /\ Len(t) = n /\ \A k \in 1 .. n : t[k] = sun[k + 1]
    <3>1. \A k \in 2 .. Len(path) : sun[k] \in C
      BY <1>0, <1>1
    <3>2. Len(path) - 2 + 1 = n /\ \A k \in 1 .. n : 2 + k - 1 = k + 1
      BY <1>0
    <3>3. t = [k \in 1 .. Len(path) - 2 + 1 |-> sun[2 + k - 1]]
      BY DEF SubSeq
    <3>4. t = [k \in 1 .. n |-> sun[k + 1]]
      BY <3>2, <3>3
    <3>5. \A k \in 1 .. n : sun[k + 1] \in C
      BY <1>0, <3>1
    <3> HIDE DEF n, t
    <3> QED BY <2>1, <3>4, <3>5
  <2>3. u \in Seq(C) /\ Len(u) = n /\ \A k \in 1 .. n : u[k] = path[k + 1]
    BY <1>0, <1>5, <2>1
  <2> HIDE DEF t, u, n
  <2>4. t = u
    BY <1>2, <2>1, <2>2, <2>3, SeqEqual
  <2> QED BY <2>4 DEF t, u
<1> QED BY <1>1, <1>2, <1>3, <1>4, <1>5 DEF sun

\* UnixAddress::getPath of any path that fits: an ordinary one as it was given, an
\* abstract one, zeros inside it included, with its zero character written as the two
\* characters \0, the empty path as those two; a path longer than sun_path is refused.
THEOREM PathReadBack ==
    ASSUME NEW C, "0" \in C, NEW path \in Seq(C)
    PROVE  /\ path # <<>> /\ Len(path) < PathMax /\ "0" \notin Range(path)
                => getPath(UnixAddress(path)) = path
           /\ Len(path) <= PathMax /\ Abstract(path)
                => getPath(UnixAddress(path)) = Escape \o Tail(path)
           /\ path = <<>> => getPath(UnixAddress(path)) = Escape
           /\ Len(path) > PathMax => UnixAddress(path) = NULL
<1> DEFINE sun == [k \in 1 .. PathMax |-> IF k <= Len(path) THEN path[k] ELSE "0"]
<1>0. PathMax \in Nat \ {0} /\ Len(path) \in Nat
  BY AddressAssumption
<1>1. Len(path) > PathMax => UnixAddress(path) = NULL
  BY <1>0 DEF UnixAddress, Needed
<1>2. ASSUME Needed(path) <= PathMax
      PROVE  /\ UnixAddress(path).sun = sun /\ UnixAddress(path).length = Needed(path)
             /\ Needed(path) \in Nat
  <2>1. UnixAddress(path) = [sun |-> sun, length |-> Needed(path)] /\ Needed(path) \in Nat
    BY <1>0, <1>2 DEF UnixAddress, Needed
  <2> HIDE DEF sun
  <2> QED BY <2>1
<1>3. ASSUME Len(path) <= PathMax
      PROVE  /\ sun \in Seq(C) /\ Len(sun) = PathMax
             /\ \A k \in 1 .. Len(path) : sun[k] = path[k]
             /\ Len(path) < PathMax => sun[Len(path) + 1] = "0"
             /\ SubSeq(sun, 1, Len(path)) = path
             /\ path # <<>> => SubSeq(sun, 2, Len(path)) = Tail(path)
  BY <1>3, HeldPath
<1> HIDE DEF sun
<1>4. ASSUME path # <<>>, Len(path) < PathMax, "0" \notin Range(path)
      PROVE  getPath(UnixAddress(path)) = path
  <2>1. \A k \in 1 .. Len(path) : path[k] # "0"
    BY <1>4 DEF Range
  <2>2. 1 \in 1 .. Len(path) /\ Len(path) <= PathMax
    BY <1>0, <1>4
  <2>3. sun[1] # "0" /\ \A k \in 1 .. Len(path) : sun[k] # "0"
    BY <1>3, <2>1, <2>2
  <2>4. Needed(path) <= PathMax
    BY <1>0, <1>4, <2>1, <2>2 DEF Needed, Abstract
  <2>5. Find(sun, "0", 1) = Len(path) + 1
    <3>1. Len(path) + 1 \in 1 .. Len(sun) /\ (Len(path) + 1) - 1 = Len(path)
      BY <1>0, <1>3, <1>4, <2>2
    <3>2. sun[Len(path) + 1] = "0" /\ sun \in Seq(C)
      BY <1>3, <1>4, <2>2
    <3> QED BY <2>3, <3>1, <3>2, FindIs
  <2>6. Len(path) + 1 # 0 /\ (Len(path) + 1) - 1 = Len(path)
    BY <1>0
  <2>7. SubSeq(sun, 1, Len(path)) = path
    BY <1>3, <2>2
  <2> QED BY <1>2, <2>3, <2>4, <2>5, <2>6, <2>7 DEF getPath
<1>5. ASSUME Len(path) <= PathMax, Abstract(path)
      PROVE  getPath(UnixAddress(path)) = Escape \o Tail(path)
  <2>1. path # <<>> /\ 1 \in 1 .. Len(path) /\ path[1] = "0" /\ Needed(path) = Len(path)
    BY <1>0, <1>5 DEF Abstract, Needed
  <2>2. sun[1] = "0" /\ SubSeq(sun, 2, Len(path)) = Tail(path)
    BY <1>3, <1>5, <2>1
  <2>3. Needed(path) > 0
    BY <1>0, <2>1
  <2> QED BY <1>2, <1>5, <2>1, <2>2, <2>3 DEF getPath
<1>6. ASSUME path = <<>>
      PROVE  getPath(UnixAddress(path)) = Escape
  <2>1. Len(path) = 0 /\ Needed(path) = 1 /\ 1 <= PathMax
    BY <1>0, <1>6 DEF Abstract, Needed
  <2>2. sun \in Seq(C) /\ sun[1] = "0"
    BY <1>0, <1>3, <2>1
  <2>3. SubSeq(sun, 2, 1) = <<>>
    BY <2>2
  <2>4. Escape \o <<>> = Escape
    BY DEF Escape
  <2>5. UnixAddress(path).sun = sun /\ UnixAddress(path).length = 1
    BY <1>2, <2>1
  <2>6. getPath(UnixAddress(path)) = Escape \o SubSeq(sun, 2, 1)
    BY <2>2, <2>5 DEF getPath
  <2> QED BY <2>3, <2>4, <2>6
<1> QED BY <1>1, <1>4, <1>5, <1>6

\* A text and what stands behind it, place by place.
LEMMA ConcatIs ==
    ASSUME NEW S, NEW x \in Seq(S), NEW y \in Seq(S)
    PROVE  /\ x \o y \in Seq(S) /\ Len(x \o y) = Len(x) + Len(y)
           /\ \A j \in 1 .. Len(x) : (x \o y)[j] = x[j]
           /\ \A j \in 1 .. Len(y) : (x \o y)[Len(x) + j] = y[j]
<1>1. x \o y \in Seq(S) /\ Len(x \o y) = Len(x) + Len(y)
  OBVIOUS
<1>2. \A j \in 1 .. Len(x) : (x \o y)[j] = x[j]
  OBVIOUS
<1>3. ASSUME NEW j \in 1 .. Len(y)
      PROVE  (x \o y)[Len(x) + j] = y[j]
  <2>1. Len(x) + j \in 1 .. Len(x \o y) /\ Len(x) + j > Len(x) /\ (Len(x) + j) - Len(x) = j
    BY <1>1
  <2> QED BY <2>1
<1> QED BY <1>1, <1>2, <1>3

\* A character before or behind a text.
LEMMA CharIs ==
    ASSUME NEW S, NEW c \in S, NEW x \in Seq(S)
    PROVE  /\ <<c>> \in Seq(S) /\ Len(<<c>>) = 1 /\ <<c>>[1] = c
           /\ <<c>> \o x \in Seq(S) /\ Len(<<c>> \o x) = Len(x) + 1 /\ (<<c>> \o x)[1] = c
           /\ \A j \in 2 .. Len(x) + 1 : (<<c>> \o x)[j] = x[j - 1]
           /\ x \o <<c>> \in Seq(S) /\ Len(x \o <<c>>) = Len(x) + 1
           /\ (x \o <<c>>)[Len(x) + 1] = c
           /\ \A j \in 1 .. Len(x) : (x \o <<c>>)[j] = x[j]
OBVIOUS

\* The parts of a concatenation.
LEMMA ConcatParts ==
    ASSUME NEW S, NEW x \in Seq(S), NEW y \in Seq(S)
    PROVE  /\ SubSeq(x \o y, 1, Len(x)) = x
           /\ From(x \o y, Len(x) + 1) = y
<1>1. /\ x \o y \in Seq(S) /\ Len(x \o y) = Len(x) + Len(y)
      /\ \A j \in 1 .. Len(x) : (x \o y)[j] = x[j]
      /\ \A j \in 1 .. Len(y) : (x \o y)[Len(x) + j] = y[j]
  BY ConcatIs
<1> DEFINE z == x \o y
<1>2. z \in Seq(S) /\ Len(z) = Len(x) + Len(y) /\ Len(x) \in Nat /\ Len(y) \in Nat
  BY <1>1
<1>3. \A j \in 1 .. Len(x) : z[j] = x[j]
  BY <1>1
<1>4. \A j \in 1 .. Len(y) : z[Len(x) + j] = y[j]
  BY <1>1
<1> HIDE DEF z
<1>5. SubSeq(z, 1, Len(x)) = x
  <2> DEFINE t == SubSeq(z, 1, Len(x))
  <2>1. t \in Seq(S) /\ Len(t) = Len(x) /\ \A k \in 1 .. Len(x) : t[k] = x[k]
    BY <1>2, <1>3
  <2> HIDE DEF t
  <2>2. t = x
    BY <2>1, SeqEqual
  <2> QED BY <2>2 DEF t
<1>6. SubSeq(z, Len(x) + 1, Len(z)) = y
  <2> DEFINE t == SubSeq(z, Len(x) + 1, Len(z))
  <2>1. t \in Seq(S) /\ Len(t) = Len(y)
    BY <1>2
  <2>2. ASSUME NEW k \in 1 .. Len(y)
        PROVE  t[k] = y[k]
    <3>1. t[k] = z[k + (Len(x) + 1) - 1]
      BY <1>2
    <3>2. k + (Len(x) + 1) - 1 = Len(x) + k
      BY <1>2
    <3> QED BY <1>4, <3>1, <3>2
  <2> HIDE DEF t
  <2>3. t = y
    BY <2>1, <2>2, SeqEqual
  <2> QED BY <2>3 DEF t
<1> QED BY <1>5, <1>6 DEF From, z

\* A part of a text, place by place.
LEMMA PartIs ==
    ASSUME NEW S, NEW s \in Seq(S), NEW i \in Nat \ {0}, NEW j \in Nat, i <= j + 1, j <= Len(s)
    PROVE  /\ SubSeq(s, i, j) \in Seq(S) /\ Len(SubSeq(s, i, j)) = j + 1 - i
           /\ \A k \in 1 .. j + 1 - i : SubSeq(s, i, j)[k] = s[k + i - 1]
OBVIOUS

\* What stands behind the node for that service.
Behind(port, p) ==
  IF p = NULL THEN Len(port) = 0
  ELSE Len(port) = Len(p) + 1 /\ port[1] = ":" /\ \A k \in 1 .. Len(p) : port[k + 1] = p[k]
InBrackets(y, n) ==
  /\ Len(y) = Len(n) + 2 /\ y[1] = "[" /\ y[Len(n) + 2] = "]"
  /\ \A j \in 2 .. Len(n) + 1 : y[j] = n[j - 1]
Without(n, c) == \A k \in 1 .. Len(n) : n[k] # c

\* A node in brackets, before what stands for the port.
LEMMA Bracketed ==
    ASSUME NEW C, NEW n \in Seq(C), n # <<>>, NEW p \in Seq(C), NEW port \in Seq(C),
           NEW y \in Seq(C), InBrackets(y, n), Without(n, "]"), Behind(port, p)
    PROVE  Lookup(y \o port) = [node |-> n, service |-> p]
<1> DEFINE c == Len(n) + 2
           h == y \o port
           close == Find(h, "]", 2)
           port6 == IF close # 0 /\ close < Len(h) /\ h[close + 1] = ":"
                    THEN From(h, close + 2) ELSE NULL
<1>1. /\ Len(n) \in Nat \ {0} /\ Len(p) \in Nat /\ Len(port) \in Nat
      /\ c \in Nat /\ c > 2 /\ c = Len(n) + 2
  OBVIOUS
<1>0. Len(y) = c /\ y[1] = "[" /\ y[c] = "]" /\ \A j \in 2 .. c - 1 : y[j] = n[j - 1]
  <2>1. c - 1 = Len(n) + 1
    BY <1>1
  <2> QED BY <2>1, Zenon DEF InBrackets
<1> HIDE DEF c
<1>2. /\ h \in Seq(C) /\ Len(h) = c + Len(port)
      /\ \A j \in 1 .. c : h[j] = y[j]
      /\ \A j \in 1 .. Len(port) : h[c + j] = port[j]
  <2>1. /\ h \in Seq(C) /\ Len(h) = Len(y) + Len(port)
        /\ \A j \in 1 .. Len(y) : h[j] = y[j]
        /\ \A j \in 1 .. Len(port) : h[Len(y) + j] = port[j]
    <3> HIDE DEF close, port6
    <3> QED BY ConcatIs
  <2>2. Len(y) = c
    BY <1>0
  <2> QED BY <2>1, <2>2
<1> HIDE DEF h
<1>3. h[1] = "[" /\ h # <<>> /\ Len(h) >= c
  <2>1. 1 \in 1 .. c /\ Len(h) >= c
    BY <1>1, <1>2
  <2>2. h[1] = "["
    BY <1>0, <1>2, <2>1
  <2>3. h # <<>>
    BY <1>1, <2>1
  <2> QED BY <2>1, <2>2, <2>3
<1>4. close = c
  <2>1. c \in 2 .. Len(h) /\ h[c] = "]"
    BY <1>0, <1>1, <1>2, <1>3
  <2>2. ASSUME NEW k \in 2 .. c - 1
        PROVE  h[k] # "]"
    <3>1. k \in 1 .. c /\ k - 1 \in 1 .. Len(n)
      BY <1>1
    <3>2. h[k] = n[k - 1]
      BY <1>0, <1>2, <3>1
    <3> QED BY <3>1, <3>2 DEF Without
  <2>3. \A m \in 2 .. Len(h) :
          h[m] = "]" /\ (\A k \in 2 .. m - 1 : h[k] # "]") => Find(h, "]", 2) = m
    <3>1. 2 \in Nat \ {0} /\ h \in Seq(C)
      BY <1>2
    <3> QED BY <3>1, FindIs, Zenon
  <2> QED BY <2>1, <2>2, <2>3
<1>5. SubSeq(h, 2, c - 1) = n
  <2> DEFINE t == SubSeq(h, 2, c - 1)
  <2>1. /\ t \in Seq(C) /\ Len(t) = (c - 1) + 1 - 2
        /\ \A k \in 1 .. (c - 1) + 1 - 2 : t[k] = h[k + 2 - 1]
    <3>1. h \in Seq(C) /\ 2 \in Nat \ {0} /\ c - 1 \in Nat /\ 2 <= (c - 1) + 1 /\ c - 1 <= Len(h)
      BY <1>1, <1>2, <1>3
    <3> QED BY <3>1, PartIs
  <2> HIDE DEF t
  <2>2. (c - 1) + 1 - 2 = Len(n)
    BY <1>1
  <2>3. ASSUME NEW k \in 1 .. Len(n)
        PROVE  t[k] = n[k]
    <3>1. k + 2 - 1 \in 1 .. c /\ k + 2 - 1 \in 2 .. c - 1 /\ (k + 2 - 1) - 1 = k
      BY <1>1
    <3>2. h[k + 2 - 1] = n[k]
      BY <1>0, <1>2, <3>1
    <3> QED BY <2>1, <2>2, <3>2
  <2>4. t = n
    BY <2>1, <2>2, <2>3, SeqEqual
  <2> QED BY <2>4 DEF t
<1>6. port6 = p
  <2>1. CASE p = NULL
    <3>1. ~ (close < Len(h))
      BY <1>1, <1>2, <1>4, <2>1 DEF Behind
    <3> QED BY <2>1, <3>1
  <2>2. CASE p # NULL
    <3>0. /\ Len(port) = Len(p) + 1 /\ port[1] = ":"
          /\ \A k \in 1 .. Len(p) : port[k + 1] = p[k]
      BY <2>2, Zenon DEF Behind
    <3>1. 1 \in 1 .. Len(port) /\ port[1] = ":" /\ Len(h) = c + Len(p) + 1
      BY <1>1, <1>2, <3>0
    <3>2. h[c + 1] = ":"
      BY <1>2, <3>1
    <3>3. From(h, c + 2) = p
      <4> DEFINE t == SubSeq(h, c + 2, Len(h))
      <4>1. /\ t \in Seq(C) /\ Len(t) = Len(h) + 1 - (c + 2)
            /\ \A k \in 1 .. Len(h) + 1 - (c + 2) : t[k] = h[k + (c + 2) - 1]
        <5>1. h \in Seq(C) /\ c + 2 \in Nat \ {0} /\ Len(h) \in Nat /\ c + 2 <= Len(h) + 1
          BY <1>1, <1>2, <3>1
        <5> QED BY <5>1, PartIs
      <4> HIDE DEF t
      <4>2. Len(h) + 1 - (c + 2) = Len(p)
        BY <1>1, <3>1
      <4>3. ASSUME NEW k \in 1 .. Len(p)
            PROVE  t[k] = p[k]
        <5>1. k + (c + 2) - 1 = c + (k + 1) /\ k + 1 \in 1 .. Len(port)
          BY <1>1, <3>0
        <5>2. h[c + (k + 1)] = port[k + 1] /\ port[k + 1] = p[k]
          BY <1>2, <3>0, <5>1
        <5> QED BY <4>1, <4>2, <5>1, <5>2
      <4>4. t = p
        BY <4>1, <4>2, <4>3, SeqEqual
      <4> QED BY <4>4 DEF t, From
    <3>4. c # 0 /\ c < Len(h)
      BY <1>1, <3>1
    <3> QED BY <1>4, <3>2, <3>3, <3>4
  <2> QED BY <2>1, <2>2
<1>7. Lookup(h) = [node |-> n, service |-> p]
  <2>1. SubSeq(h, 2, close - 1) = n /\ close # 0
    BY <1>1, <1>4, <1>5
  <2> QED BY <1>3, <1>6, <2>1 DEF Lookup
<1> QED BY <1>7 DEF h

\* A node without brackets or colon, before what stands for the port.
LEMMA Unbracketed ==
    ASSUME NEW C, ":" \in C, NEW n \in Seq(C), n # <<>>, NEW p \in Seq(C), NEW port \in Seq(C),
           Without(n, "["), Without(n, ":"), Without(p, ":"), Behind(port, p)
    PROVE  Lookup(n \o port) = [node |-> n, service |-> p]
<1>1. Len(n) \in Nat \ {0} /\ Len(p) \in Nat /\ Len(port) \in Nat
  OBVIOUS
<1>2. /\ p = NULL => Len(port) = 0
      /\ p # NULL => /\ Len(port) = Len(p) + 1 /\ port[1] = ":"
                      /\ \A k \in 1 .. Len(p) : port[k + 1] = p[k]
  BY Zenon DEF Behind
<1>3. p # NULL => \A k \in 2 .. Len(port) : port[k] # ":"
  <2>1. ASSUME p # NULL, NEW k \in 2 .. Len(port)
        PROVE  port[k] # ":"
    <3>1. k - 1 \in 1 .. Len(p) /\ (k - 1) + 1 = k
      BY <1>1, <1>2, <2>1
    <3> QED BY <1>2, <2>1, <3>1 DEF Without
  <2> QED BY <2>1
<1>4. Lookup(n \o port) = [node |-> n, service |-> p]
  <2> DEFINE h == n \o port
             colon == Find(h, ":", 1)
             single == colon # 0 /\ Find(h, ":", colon + 1) = 0
             node4 == IF single THEN SubSeq(h, 1, colon - 1) ELSE <<>>
             port4 == IF colon = 0 THEN NULL ELSE From(h, IF single THEN colon + 1 ELSE colon)
  <2>1. /\ h \in Seq(C) /\ Len(h) = Len(n) + Len(port)
        /\ \A j \in 1 .. Len(n) : h[j] = n[j]
        /\ \A j \in 1 .. Len(port) : h[Len(n) + j] = port[j]
    BY ConcatIs
  <2>2. SubSeq(h, 1, Len(n)) = n
    BY ConcatParts
  <2>3. h # <<>> /\ h[1] # "["
    <3> HIDE DEF h
    <3>1. 1 \in 1 .. Len(n) /\ Len(h) # 0
      BY <1>1, <2>1
    <3> QED BY <2>1, <3>1 DEF Without
  <2>4. Lookup(h) = [node |-> IF node4 = <<>> THEN h ELSE node4, service |-> port4]
    <3> HIDE DEF h
    <3> QED BY <2>3 DEF Lookup
  <2>5. CASE p = NULL
    <3>1. h = n
      BY <1>1, <1>2, <2>5
    <3>2. colon = 0
      <4>1. (\A k \in 1 .. Len(n) : n[k] # ":") => Find(n, ":", 1) = 0
        BY FindIs
      <4> QED BY <3>1, <4>1 DEF Without
    <3>3. node4 = <<>> /\ port4 = NULL
      BY <3>2
    <3> QED BY <2>4, <2>5, <3>1, <3>3
  <2>6. CASE p # NULL
    <3>1. h[Len(n) + 1] = ":" /\ Len(n) + 1 \in 1 .. Len(h) /\ Len(h) = Len(n) + Len(p) + 1
      <4> HIDE DEF h
      <4>1. 1 \in 1 .. Len(port) /\ port[1] = ":" /\ Len(port) = Len(p) + 1
        BY <1>1, <1>2, <2>6
      <4>2. h[Len(n) + 1] = port[1]
        BY <2>1, <4>1, Zenon
      <4> QED BY <1>1, <2>1, <4>1, <4>2
    <3>2. ASSUME NEW k \in Len(n) + 2 .. Len(h)
          PROVE  h[k] # ":"
      <4>1. k - Len(n) \in 2 .. Len(port) /\ k - Len(n) \in 1 .. Len(port)
        BY <1>1, <1>2, <2>1
      <4>2. h[Len(n) + (k - Len(n))] = port[k - Len(n)] /\ Len(n) + (k - Len(n)) = k
        BY <1>1, <2>1, <4>1
      <4> QED BY <1>3, <2>6, <4>1, <4>2
    <3>3. \A k \in 1 .. Len(n) : h[k] # ":"
      BY <2>1 DEF Without
    <3>4. From(h, Len(n) + 2) = p
      <4> DEFINE c == Len(n) + 1
                 t == SubSeq(h, c + 1, Len(h))
      <4> HIDE DEF h
      <4>0. c \in Nat /\ Len(h) = c + Len(p) /\ c + 1 = Len(n) + 2
        BY <1>1, <3>1
      <4>1. /\ t \in Seq(C) /\ Len(t) = Len(h) + 1 - (c + 1)
            /\ \A k \in 1 .. Len(h) + 1 - (c + 1) : t[k] = h[k + (c + 1) - 1]
        <5>1. h \in Seq(C) /\ c + 1 \in Nat \ {0} /\ Len(h) \in Nat /\ c + 1 <= Len(h) + 1
          BY <1>1, <2>1, <4>0
        <5> QED BY <5>1, PartIs
      <4> HIDE DEF t
      <4>2. Len(h) + 1 - (c + 1) = Len(p)
        BY <1>1, <4>0
      <4>3. ASSUME NEW k \in 1 .. Len(p)
            PROVE  t[k] = p[k]
        <5>1. k + (c + 1) - 1 = Len(n) + (k + 1) /\ k + 1 \in 1 .. Len(port)
          BY <1>1, <1>2, <2>6
        <5>2. h[Len(n) + (k + 1)] = port[k + 1] /\ port[k + 1] = p[k]
          BY <1>2, <2>1, <2>6, <5>1
        <5> QED BY <4>1, <4>2, <5>1, <5>2
      <4>4. t = p
        BY <4>1, <4>2, <4>3, SeqEqual
      <4> QED BY <4>0, <4>4 DEF t, From
    <3> HIDE DEF h
    <3>5. colon = Len(n) + 1
      <4>1. (Len(n) + 1) - 1 = Len(n)
        BY <1>1
      <4>2. h \in Seq(C)
        BY <2>1
      <4>3. \A m \in 1 .. Len(h) :
              h[m] = ":" /\ (\A k \in 1 .. m - 1 : h[k] # ":") => Find(h, ":", 1) = m
        BY <4>2, FindIs
      <4> QED BY <3>1, <3>3, <4>1, <4>3
    <3>6. Find(h, ":", colon + 1) = 0
      <4> DEFINE i == Len(n) + 2
      <4>1. colon + 1 = i /\ i \in Nat \ {0}
        BY <1>1, <3>5
      <4>2. h \in Seq(C) /\ \A k \in i .. Len(h) : h[k] # ":"
        BY <2>1, <3>2
      <4> HIDE DEF i
      <4>3. (\A k \in i .. Len(h) : h[k] # ":") => Find(h, ":", i) = 0
        BY <4>1, <4>2, FindIs
      <4> QED BY <4>1, <4>2, <4>3
    <3>7. single /\ colon - 1 = Len(n) /\ colon + 1 = Len(n) + 2 /\ colon # 0
      BY <1>1, <3>5, <3>6
    <3>8. node4 = n /\ port4 = p
      BY <2>2, <3>4, <3>7
    <3> HIDE DEF colon, single, node4, port4
    <3> QED BY <2>4, <3>8 DEF h
  <2> QED BY <2>5, <2>6
<1> QED BY <1>4

\* The text of a port, none for no port, and a node in brackets.
Port(p) == IF p = NULL THEN <<>> ELSE <<":">> \o p
Brackets(n) == <<"[">> \o n \o <<"]">>

\* A colon and a port, or nothing, stands for that port.
LEMMA PortIs ==
    ASSUME NEW C, ":" \in C, NEW p \in Seq(C)
    PROVE  Port(p) \in Seq(C) /\ Behind(Port(p), p)
<1> DEFINE q == <<":">> \o p
<1>1. /\ q \in Seq(C) /\ Len(q) = Len(p) + 1 /\ q[1] = ":"
      /\ \A j \in 2 .. Len(p) + 1 : q[j] = p[j - 1]
  BY CharIs
<1> HIDE DEF q
<1>2. ASSUME NEW k \in 1 .. Len(p)
      PROVE  q[k + 1] = p[k]
  <2>1. k + 1 \in 2 .. Len(p) + 1 /\ (k + 1) - 1 = k
    OBVIOUS
  <2> QED BY <1>1, <2>1
<1>3. <<>> \in Seq(C) /\ Len(<<>>) = 0
  OBVIOUS
<1>4. Port(p) = IF p = NULL THEN <<>> ELSE q
  BY DEF Port, q
<1> QED BY <1>1, <1>2, <1>3, <1>4, Zenon DEF Behind

\* A node between brackets.
LEMMA BracketsIs ==
    ASSUME NEW C, "[" \in C, "]" \in C, NEW n \in Seq(C)
    PROVE  Brackets(n) \in Seq(C) /\ InBrackets(Brackets(n), n)
<1> DEFINE x == <<"[">> \o n
           y == x \o <<"]">>
<1>1. /\ x \in Seq(C) /\ Len(x) = Len(n) + 1 /\ x[1] = "["
      /\ \A j \in 2 .. Len(n) + 1 : x[j] = n[j - 1]
  BY CharIs
<1> HIDE DEF x
<1>2. /\ y \in Seq(C) /\ Len(y) = Len(x) + 1 /\ y[Len(x) + 1] = "]"
      /\ \A j \in 1 .. Len(x) : y[j] = x[j]
  BY <1>1, CharIs
<1> HIDE DEF y
<1>3. Len(y) = Len(n) + 2 /\ y[Len(n) + 2] = "]" /\ y[1] = "["
  <2>1. Len(x) + 1 = Len(n) + 2 /\ 1 \in 1 .. Len(x)
    BY <1>1
  <2> QED BY <1>1, <1>2, <2>1
<1>4. \A j \in 2 .. Len(n) + 1 : y[j] = n[j - 1]
  <2>1. \A j \in 2 .. Len(n) + 1 : j \in 1 .. Len(x)
    BY <1>1
  <2> QED BY <1>1, <1>2, <2>1
<1> QED BY <1>2, <1>3, <1>4 DEF InBrackets, Brackets, x, y

\* Address::Lookup takes any host apart into the node and the port it was made
\* of: a node in brackets or without a colon, with or without a port.
THEOREM LookupParts ==
    ASSUME NEW C, {"[", "]", ":"} \subseteq C, NEW n \in Seq(C), n # <<>>, NEW p \in Seq(C),
           Without(n, "["), Without(n, "]"), Without(p, ":")
    PROVE  /\ Lookup(Brackets(n) \o Port(p)) = [node |-> n, service |-> p]
           /\ Without(n, ":") => Lookup(n \o Port(p)) = [node |-> n, service |-> p]
<1>1. "[" \in C /\ "]" \in C /\ ":" \in C
  OBVIOUS
<1>2. Port(p) \in Seq(C) /\ Behind(Port(p), p)
  BY <1>1, PortIs
<1>3. Brackets(n) \in Seq(C) /\ InBrackets(Brackets(n), n)
  BY <1>1, BracketsIs
<1>4. Lookup(Brackets(n) \o Port(p)) = [node |-> n, service |-> p]
  BY <1>2, <1>3, Bracketed
<1>5. Without(n, ":") => Lookup(n \o Port(p)) = [node |-> n, service |-> p]
  BY <1>1, <1>2, Unbracketed
<1> QED BY <1>4, <1>5

-----------------------------------------------------------------------------
(* IPv6 addresses as text.                                                   *)

\* A group of two bytes, and the values of eight of them.
Pair == (0 .. 255) \X (0 .. 255)
Value(g) == [k \in 1 .. 8 |-> 256 * g[k][1] + g[k][2]]

\* The two bytes of a group, swapped.
LEMMA GroupIs ==
    ASSUME NEW e \in Pair
    PROVE  /\ Swap16(Loaded(e)) = 256 * e[1] + e[2]
           /\ Loaded(e) = 0 <=> 256 * e[1] + e[2] = 0
<1> DEFINE a == e[1]
           b == e[2]
<1>1. a \in 0 .. 255 /\ b \in 0 .. 255
  BY DEF Pair
<1> HIDE DEF a, b
<1>2. (a + 256 * b) % 256 = a /\ (a + 256 * b) \div 256 = b
  BY <1>1
<1>3. Loaded(e) = a + 256 * b
  BY DEF Loaded, a, b
<1>4. Swap16(Loaded(e)) = 256 * a + b
  BY <1>2, <1>3 DEF Swap16
<1>5. Loaded(e) = 0 <=> 256 * a + b = 0
  BY <1>1, <1>3
<1> QED BY <1>4, <1>5 DEF a, b

\* Groups with a colon between them.
LEMMA JoinedIs ==
    ASSUME NEW s \in Seq(Int)
    PROVE  /\ Joined(s) \in Seq(Int)
           /\ Len(Joined(s)) = IF s = <<>> THEN 0 ELSE 2 * Len(s) - 1
           /\ \A k \in 1 .. Len(Joined(s)) :
                Joined(s)[k] = IF k % 2 = 1 THEN s[(k + 1) \div 2] ELSE Colon
<1> DEFINE n == IF s = <<>> THEN 0 ELSE 2 * Len(s) - 1
           J == [k \in 1 .. n |-> IF k % 2 = 1 THEN s[(k + 1) \div 2] ELSE Colon]
<1>1. n \in Nat /\ (n > 0 => n = 2 * Len(s) - 1)
  OBVIOUS
<1>2. Joined(s) = J
  BY DEF Joined
<1> HIDE DEF n
<1>3. ASSUME NEW k \in 1 .. n
      PROVE  (IF k % 2 = 1 THEN s[(k + 1) \div 2] ELSE Colon) \in Int
  <2>1. k % 2 = 1 => (k + 1) \div 2 \in 1 .. Len(s)
    BY <1>1
  <2>2. Colon \in Int
    BY DEF Colon
  <2>3. k % 2 = 1 => s[(k + 1) \div 2] \in Int
    BY <2>1
  <2> QED BY <2>2, <2>3
<1>4. J \in [1 .. n -> Int]
  BY <1>3
<1>5. J \in Seq(Int) /\ Len(J) = n
  <2> DEFINE f == J
  <2>1. f \in [1 .. n -> Int]
    BY <1>4
  <2> HIDE DEF f
  <2>2. f \in Seq(Int) /\ Len(f) = n
    BY <1>1, <2>1
  <2> QED BY <2>2 DEF f
<1> QED BY <1>2, <1>5 DEF n

\* No groups give no text.
LEMMA JoinedNone == Joined(<<>>) = <<>>
<1>1. <<>> \in Seq(Int)
  OBVIOUS
<1>2. Joined(<<>>) \in Seq(Int) /\ Len(Joined(<<>>)) = 0
  BY <1>1, JoinedIs
<1> QED BY <1>2

\* One group is its own text.
LEMMA JoinedOne ==
    ASSUME NEW x \in Int
    PROVE  Joined(<<x>>) = <<x>>
<1> DEFINE s == <<x>>
           J == Joined(s)
<1>1. s \in Seq(Int) /\ Len(s) = 1 /\ s[1] = x /\ s # <<>>
  OBVIOUS
<1> HIDE DEF s
<1>2. J \in Seq(Int) /\ Len(J) = 1 /\ \A k \in 1 .. Len(J) : J[k] = IF k % 2 = 1 THEN s[(k + 1) \div 2] ELSE Colon
  <2>1. /\ J \in Seq(Int) /\ Len(J) = IF s = <<>> THEN 0 ELSE 2 * Len(s) - 1
        /\ \A k \in 1 .. Len(J) : J[k] = IF k % 2 = 1 THEN s[(k + 1) \div 2] ELSE Colon
    BY <1>1, JoinedIs
  <2>2. 2 * Len(s) - 1 = 1
    BY <1>1
  <2> QED BY <1>1, <2>1, <2>2
<1> HIDE DEF J
<1>3. J[1] = x
  BY <1>1, <1>2
<1>4. J = s
  BY <1>1, <1>2, <1>3, SeqEqual
<1> QED BY <1>4 DEF J, s

\* One group more is written behind a colon.
LEMMA JoinedMore ==
    ASSUME NEW s \in Seq(Int), s # <<>>, NEW x \in Int
    PROVE  Joined(Append(s, x)) = Joined(s) \o <<Colon>> \o <<x>>
<1> DEFINE t == Append(s, x)
           J == Joined(s)
           K == Joined(t)
           c == J \o <<Colon>>
           r == c \o <<x>>
           n == 2 * Len(s) - 1
<1>0. Colon \in Int
  BY DEF Colon
<1>1. /\ Len(s) \in Nat \ {0} /\ n \in Nat \ {0}
      /\ t \in Seq(Int) /\ Len(t) = Len(s) + 1 /\ t # <<>>
      /\ t[Len(s) + 1] = x /\ \A k \in 1 .. Len(s) : t[k] = s[k]
  OBVIOUS
<1> HIDE DEF t
<1>2. /\ J \in Seq(Int) /\ Len(J) = n
      /\ \A k \in 1 .. Len(J) : J[k] = IF k % 2 = 1 THEN s[(k + 1) \div 2] ELSE Colon
  BY JoinedIs
<1>3. /\ K \in Seq(Int) /\ Len(K) = 2 * Len(t) - 1
      /\ \A k \in 1 .. Len(K) : K[k] = IF k % 2 = 1 THEN t[(k + 1) \div 2] ELSE Colon
  BY <1>1, JoinedIs
<1> HIDE DEF J, K
<1>4. /\ c \in Seq(Int) /\ Len(c) = Len(J) + 1 /\ c[Len(J) + 1] = Colon
      /\ \A j \in 1 .. Len(J) : c[j] = J[j]
  BY <1>0, <1>2, CharIs
<1> HIDE DEF c
<1>5. /\ r \in Seq(Int) /\ Len(r) = Len(c) + 1 /\ r[Len(c) + 1] = x
      /\ \A j \in 1 .. Len(c) : r[j] = c[j]
  BY <1>4, CharIs
<1> HIDE DEF r
<1>6. Len(K) = n + 2 /\ Len(r) = n + 2 /\ Len(c) = n + 1
  BY <1>1, <1>2, <1>3, <1>4, <1>5
<1>7. ASSUME NEW k \in 1 .. n + 2
      PROVE  K[k] = r[k]
  <2>1. CASE k <= n
    <3>1. k \in 1 .. Len(J) /\ k \in 1 .. Len(c) /\ k \in 1 .. Len(K)
      BY <1>1, <1>2, <1>6, <2>1
    <3>2. r[k] = J[k]
      BY <1>4, <1>5, <3>1
    <3>3. k % 2 = 1 => (k + 1) \div 2 \in 1 .. Len(s)
      BY <1>1, <2>1
    <3>4. k % 2 = 1 => t[(k + 1) \div 2] = s[(k + 1) \div 2]
      BY <1>1, <3>3
    <3> QED BY <1>2, <1>3, <3>1, <3>2, <3>4
  <2>2. CASE k = n + 1
    <3>1. k \in 1 .. Len(c) /\ k = Len(J) + 1 /\ k \in 1 .. Len(K) /\ ~ (k % 2 = 1)
      BY <1>1, <1>2, <1>6, <2>2
    <3>2. r[k] = Colon
      BY <1>4, <1>5, <3>1
    <3> QED BY <1>3, <3>1, <3>2
  <2>3. CASE k = n + 2
    <3>1. k \in 1 .. Len(K) /\ k = Len(c) + 1 /\ k % 2 = 1 /\ (k + 1) \div 2 = Len(s) + 1
      BY <1>1, <1>6, <2>3
    <3>2. r[k] = x /\ K[k] = t[Len(s) + 1]
      BY <1>3, <1>5, <3>1
    <3> QED BY <1>1, <3>2
  <2> QED BY <2>1, <2>2, <2>3
<1>8. K = r
  BY <1>3, <1>5, <1>6, <1>7, SeqEqual
<1> QED BY <1>8 DEF K, r, c, J, t

\* The text of groups a to b.
Text(v, a, b) == Joined(SubSeq(v, a, b))

\* Texts of groups a to b: none, one, and one more.
LEMMA TextIs ==
    ASSUME NEW v \in Seq(Int), NEW a \in Nat \ {0}, NEW b \in Nat, b <= Len(v), a <= b + 1
    PROVE  /\ Text(v, a, b) \in Seq(Int)
           /\ b + 1 = a => Text(v, a, b) = <<>>
           /\ b = a => Text(v, a, b) = <<v[a]>>
           /\ a <= b /\ b < Len(v) =>
                Text(v, a, b + 1) = Text(v, a, b) \o <<Colon>> \o <<v[b + 1]>>
<1> DEFINE s == SubSeq(v, a, b)
<1>1. /\ s \in Seq(Int) /\ Len(s) = b + 1 - a
      /\ \A k \in 1 .. b + 1 - a : s[k] = v[k + a - 1]
  BY PartIs
<1>2. Text(v, a, b) \in Seq(Int)
  <2> HIDE DEF s
  <2>1. Joined(s) \in Seq(Int)
    BY <1>1, JoinedIs
  <2> QED BY <2>1 DEF Text, s
<1> HIDE DEF s
<1>3. b + 1 = a => Text(v, a, b) = <<>>
  <2>1. b + 1 = a => s = <<>>
    BY <1>1
  <2> QED BY <2>1, JoinedNone DEF Text, s
<1>4. ASSUME b = a
      PROVE  Text(v, a, b) = <<v[a]>>
  <2>1. v[a] \in Int
    BY <1>4
  <2>2. Len(s) = 1 /\ s[1] = v[a]
    BY <1>1, <1>4
  <2>3. s = <<v[a]>>
    BY <1>1, <2>2
  <2>4. Joined(<<v[a]>>) = <<v[a]>>
    BY <2>1, JoinedOne
  <2> QED BY <2>3, <2>4 DEF Text, s
<1>5. ASSUME a <= b, b < Len(v)
      PROVE  Text(v, a, b + 1) = Text(v, a, b) \o <<Colon>> \o <<v[b + 1]>>
  <2> DEFINE t == SubSeq(v, a, b + 1)
             x == v[b + 1]
             u == Append(s, x)
  <2>1. x \in Int
    BY <1>5
  <2>2. /\ t \in Seq(Int) /\ Len(t) = (b + 1) + 1 - a
        /\ \A k \in 1 .. (b + 1) + 1 - a : t[k] = v[k + a - 1]
    <3>1. b + 1 \in Nat /\ b + 1 <= Len(v) /\ a <= (b + 1) + 1
      BY <1>5
    <3> QED BY <3>1, PartIs
  <2> HIDE DEF t, x
  <2>3. /\ u \in Seq(Int) /\ Len(u) = Len(s) + 1 /\ u[Len(s) + 1] = x
        /\ \A k \in 1 .. Len(s) : u[k] = s[k]
    BY <1>1, <2>1
  <2>4. Joined(u) = Joined(s) \o <<Colon>> \o <<x>>
    <3>1. s # <<>>
      BY <1>1, <1>5
    <3> QED BY <1>1, <2>1, <3>1, JoinedMore
  <2> HIDE DEF u
  <2>5. ASSUME NEW k \in 1 .. Len(t)
        PROVE  t[k] = u[k]
    <3>1. CASE k <= Len(s)
      <4>1. k \in 1 .. b + 1 - a /\ k \in 1 .. Len(s) /\ k \in 1 .. (b + 1) + 1 - a
        BY <1>1, <2>2, <3>1
      <4> QED BY <1>1, <2>2, <2>3, <4>1
    <3>2. CASE k > Len(s)
      <4>1. k = Len(s) + 1 /\ k + a - 1 = b + 1 /\ k \in 1 .. (b + 1) + 1 - a
        BY <1>1, <1>5, <2>2, <3>2
      <4> QED BY <2>2, <2>3, <4>1 DEF x
    <3> QED BY <1>1, <2>2, <3>1, <3>2
  <2>6. Len(t) = Len(u)
    BY <1>1, <2>2, <2>3
  <2>7. t = u
    BY <2>2, <2>3, <2>5, <2>6, SeqEqual
  <2> QED BY <2>4, <2>7 DEF Text, s, t, x
<1> QED BY <1>2, <1>3, <1>4, <1>5

\* The states of the loop of IPv6Address::insert.
Writing == [out : Seq(Int), used : BOOLEAN]

\* One turn of the loop, by what the group and the one before are.
LEMMA NextGroupIs ==
    ASSUME NEW g \in [1 .. 8 -> Pair], NEW t \in Writing, NEW i \in 1 .. 8
    PROVE  LET v == Value(g)
               u == NextGroup(t, g, i)
               gap == i > 1 /\ v[i - 1] = 0 /\ ~t.used IN
           /\ v[i] = 0 /\ ~t.used => u = t
           /\ ~ (v[i] = 0 /\ ~t.used) =>
                /\ i = 1 => u = [out |-> t.out \o <<v[i]>>, used |-> t.used]
                /\ i > 1 /\ ~gap => u = [out |-> t.out \o <<Colon>> \o <<v[i]>>, used |-> t.used]
                /\ gap => u = [out |-> t.out \o <<Colon>> \o <<Colon>> \o <<v[i]>>, used |-> TRUE]
<1> DEFINE v == Value(g)
           u == NextGroup(t, g, i)
           gap == i > 1 /\ v[i - 1] = 0 /\ ~t.used
           w == Swap16(Loaded(g[i]))
<1>1. \A k \in 1 .. 8 : Swap16(Loaded(g[k])) = v[k] /\ (Loaded(g[k]) = 0 <=> v[k] = 0)
  <2>1. \A k \in 1 .. 8 : v[k] = 256 * g[k][1] + g[k][2] /\ g[k] \in Pair
    BY DEF Value
  <2> HIDE DEF v
  <2> QED BY <2>1, GroupIs
<1>2. t.out \in Seq(Int) /\ t.used \in BOOLEAN
  BY DEF Writing
<1>3. i > 1 => i - 1 \in 1 .. 8
  OBVIOUS
<1>4. (i > 1 /\ Loaded(g[i - 1]) = 0 /\ ~t.used) <=> gap
  BY <1>1, <1>3
<1> HIDE DEF v, gap
<1>5. u = IF Loaded(g[i]) = 0 /\ ~t.used THEN t
          ELSE [out |-> t.out \o (IF gap THEN <<Colon>> ELSE <<>>)
                              \o (IF i > 1 THEN <<Colon>> ELSE <<>>) \o <<w>>,
                used |-> t.used \/ gap]
  BY <1>4, Zenon DEF NextGroup
<1>6. w = v[i] /\ (Loaded(g[i]) = 0 <=> v[i] = 0)
  BY <1>1
<1> HIDE DEF u, w
<1>7. v[i] = 0 /\ ~t.used => u = t
  BY <1>5, <1>6
<1>8. ASSUME ~ (v[i] = 0 /\ ~t.used)
      PROVE  /\ i = 1 => u = [out |-> t.out \o <<v[i]>>, used |-> t.used]
             /\ i > 1 /\ ~gap => u = [out |-> t.out \o <<Colon>> \o <<v[i]>>, used |-> t.used]
             /\ gap => u = [out |-> t.out \o <<Colon>> \o <<Colon>> \o <<v[i]>>, used |-> TRUE]
  <2>1. u = [out |-> t.out \o (IF gap THEN <<Colon>> ELSE <<>>)
                           \o (IF i > 1 THEN <<Colon>> ELSE <<>>) \o <<v[i]>>,
             used |-> t.used \/ gap]
    BY <1>5, <1>6, <1>8
  <2>2. gap => i > 1
    BY DEF gap
  <2>3. t.out \o <<>> = t.out
    BY <1>2
  <2>4. CASE i = 1
    <3>1. ~ (i > 1) /\ ~gap
      BY <2>2, <2>4
    <3>2. u = [out |-> t.out \o <<>> \o <<>> \o <<v[i]>>, used |-> t.used \/ gap]
      BY <2>1, <3>1, Zenon
    <3>3. (t.used \/ gap) = t.used
      BY <1>2, <3>1
    <3> QED BY <2>3, <2>4, <3>1, <3>2, <3>3, Zenon
  <2>5. CASE i > 1 /\ ~gap
    <3>1. u = [out |-> t.out \o <<>> \o <<Colon>> \o <<v[i]>>, used |-> t.used \/ gap]
      BY <2>1, <2>5, Zenon
    <3>2. (t.used \/ gap) = t.used
      BY <1>2, <2>5
    <3>3. ~ (i = 1)
      BY <2>5
    <3> QED BY <2>3, <2>5, <3>1, <3>2, <3>3, Zenon
  <2>6. CASE gap
    <3>1. u = [out |-> t.out \o <<Colon>> \o <<Colon>> \o <<v[i]>>, used |-> t.used \/ gap]
      BY <2>1, <2>2, <2>6, Zenon
    <3>2. (t.used \/ gap) = TRUE
      BY <1>2, <2>6
    <3>3. ~ (i = 1)
      BY <2>2, <2>6
    <3> QED BY <2>6, <3>1, <3>2, <3>3, Zenon
  <2> QED BY <2>4, <2>5, <2>6
<1> QED BY <1>7, <1>8 DEF u, v, gap

\* What has been written of the first i groups: all of them but zeros at the
\* end, or those up to j and from m on, with :: for the zeros between.
Plain(v, t, i, j) ==
  /\ t.out = Text(v, 1, j)
  /\ \A k \in j + 1 .. i : v[k] = 0
  /\ j > 0 => v[j] # 0
Short(v, t, i, j, m) ==
  /\ t.out = Text(v, 1, j) \o <<Colon, Colon>> \o Text(v, m, i)
  /\ \A k \in j + 1 .. m - 1 : v[k] = 0
Written(v, t, i) ==
  /\ t \in Writing
  /\ ~t.used => \E j \in 0 .. i : Plain(v, t, i, j)
  /\ t.used => \E j \in 0 .. 6 : \E m \in j + 2 .. i : Short(v, t, i, j, m)

\* The values of the eight groups.
LEMMA ValueIs ==
    ASSUME NEW g \in [1 .. 8 -> Pair]
    PROVE  Value(g) \in Seq(Int) /\ Len(Value(g)) = 8 /\ \A k \in 1 .. 8 : Value(g)[k] \in Int
<1>1. ASSUME NEW k \in 1 .. 8
      PROVE  256 * g[k][1] + g[k][2] \in Int
  <2>1. g[k] \in Pair
    OBVIOUS
  <2>2. g[k][1] \in 0 .. 255 /\ g[k][2] \in 0 .. 255
    BY <2>1 DEF Pair
  <2> DEFINE a == g[k][1]
             c == g[k][2]
  <2> HIDE DEF a, c
  <2>3. a \in 0 .. 255 /\ c \in 0 .. 255
    BY <2>2 DEF a, c
  <2>4. 256 * a + c \in Int
    BY <2>3
  <2> QED BY <2>4 DEF a, c
<1>2. Value(g) \in [1 .. 8 -> Int]
  BY <1>1 DEF Value
<1> DEFINE v == Value(g)
<1> HIDE DEF v
<1>3. v \in [1 .. 8 -> Int] => v \in Seq(Int) /\ Len(v) = 8 /\ \A k \in 1 .. 8 : v[k] \in Int
  <2>1. ASSUME v \in [1 .. 8 -> Int]
        PROVE  v \in Seq(Int) /\ Len(v) = 8 /\ \A k \in 1 .. 8 : v[k] \in Int
    <3> DEFINE n == 8
    <3>1. n \in Nat /\ v \in [1 .. n -> Int]
      BY <2>1
    <3> HIDE DEF n
    <3>2. v \in Seq(Int) /\ Len(v) = n /\ \A k \in 1 .. n : v[k] \in Int
      BY <3>1
    <3> QED BY <3>2 DEF n
  <2> QED BY <2>1
<1> QED BY <1>2, <1>3 DEF v

\* \o as an operator of its own, to rewrite by.
Cat(a, b) == a \o b

\* Concatenations may be regrouped.
LEMMA CatAssociative ==
    ASSUME NEW S, NEW p \in Seq(S), NEW y \in Seq(S), NEW z \in Seq(S)
    PROVE  Cat(p, y) \in Seq(S) /\ Cat(Cat(p, y), z) = Cat(p, Cat(y, z))
<1>1. p \o y \in Seq(S)
  OBVIOUS
<1>2. (p \o y) \o z = p \o (y \o z)
  BY ConcatAssociative
<1> QED BY <1>1, <1>2 DEF Cat

\* The same for four sequences.
LEMMA CatFour ==
    ASSUME NEW S, NEW p \in Seq(S), NEW y \in Seq(S), NEW z \in Seq(S), NEW w \in Seq(S)
    PROVE  Cat(Cat(Cat(p, y), z), w) = Cat(p, Cat(Cat(y, z), w))
BY CatAssociative

\* One turn of the loop of IPv6Address::insert keeps what is written of the groups
\* before: all of them, or "::" in the place of a run of zeros.
LEMMA NextGroupWrites ==
    ASSUME NEW g \in [1 .. 8 -> Pair], NEW t, NEW n \in 0 .. 7, Written(Value(g), t, n)
    PROVE  Written(Value(g), NextGroup(t, g, n + 1), n + 1)
<1> DEFINE v == Value(g)
           i == n + 1
           u == NextGroup(t, g, i)
           gap == i > 1 /\ v[i - 1] = 0 /\ ~t.used
<1>1. v \in Seq(Int) /\ Len(v) = 8 /\ v[i] \in Int /\ <<v[i]>> \in Seq(Int)
  <2>1. i \in 1 .. 8
    OBVIOUS
  <2> HIDE DEF v
  <2>2. v \in Seq(Int) /\ Len(v) = 8 /\ v[i] \in Int
    BY <2>1, ValueIs DEF v
  <2> QED BY <2>2
<1>2. i \in 1 .. 8 /\ i \in Nat /\ i - 1 = n
  OBVIOUS
<1>3. t \in Writing /\ t.out \in Seq(Int) /\ t.used \in BOOLEAN
  BY DEF Written, Writing
<1>4. /\ v[i] = 0 /\ ~t.used => u = t
      /\ ~ (v[i] = 0 /\ ~t.used) =>
           /\ i = 1 => u = [out |-> t.out \o <<v[i]>>, used |-> t.used]
           /\ i > 1 /\ ~gap => u = [out |-> t.out \o <<Colon>> \o <<v[i]>>, used |-> t.used]
           /\ gap => u = [out |-> t.out \o <<Colon>> \o <<Colon>> \o <<v[i]>>, used |-> TRUE]
  BY <1>2, <1>3, NextGroupIs
<1>5. ~t.used => \E j \in 0 .. n : Plain(v, t, n, j)
  BY DEF Written
<1>6. t.used => \E j \in 0 .. 6 : \E m \in j + 2 .. n : Short(v, t, n, j, m)
  BY DEF Written
<1>9. Colon \in Int /\ <<Colon>> \in Seq(Int)
  BY DEF Colon
<1> HIDE DEF v, i, u, gap
\* A zero group before any gap is not written yet.
<1>10. ASSUME v[i] = 0, ~t.used
       PROVE  Written(v, u, i)
  <2>1. PICK j \in 0 .. n : Plain(v, t, n, j)
    BY <1>5, <1>10
  <2>2. u = t /\ j \in 0 .. i
    BY <1>2, <1>4, <1>10
  <2>3. Plain(v, t, i, j)
    <3>1. \A k \in j + 1 .. i : k \in j + 1 .. n \/ k = i
      BY <1>2
    <3> QED BY <1>10, <2>1, <3>1 DEF Plain
  <2> QED BY <1>3, <1>10, <2>2, <2>3 DEF Written
\* A group right behind the written ones.
<1>11. ASSUME v[i] # 0, ~t.used, ~gap
       PROVE  Written(v, u, i)
  <2>1. PICK j \in 0 .. n : Plain(v, t, n, j)
    BY <1>5, <1>11
  <2>2. j = n
    <3>1. CASE i = 1
      BY <1>2, <3>1
    <3>2. CASE i > 1
      <4>1. v[n] # 0
        BY <1>2, <1>11, <3>2 DEF gap
      <4> QED BY <1>2, <2>1, <3>2, <4>1 DEF Plain
    <3> QED BY <1>2, <3>1, <3>2
  <2>3. t.out = Text(v, 1, n)
    BY <2>1, <2>2 DEF Plain
  <2>4. u.out = Text(v, 1, i) /\ u.used = FALSE /\ u \in Writing
    <3>1. CASE i = 1
      <4>1. n \in Nat /\ n <= Len(v) /\ 1 <= n + 1 /\ n + 1 = 1 /\ 1 \in Nat \ {0}
        BY <1>1, <1>2, <3>1
      <4>2. Text(v, 1, n) = <<>>
        BY <1>1, <4>1, TextIs
      <4>3. Text(v, 1, i) = <<v[i]>>
        <5>1. 1 \in Nat \ {0} /\ i \in Nat /\ i <= Len(v) /\ 1 <= i + 1 /\ i = 1
          BY <1>1, <1>2, <3>1
        <5> QED BY <1>1, <5>1, TextIs
      <4>4. u = [out |-> t.out \o <<v[i]>>, used |-> t.used]
        BY <1>4, <1>11, <3>1
      <4>5. t.out \o <<v[i]>> = <<v[i]>>
        <5> DEFINE w == <<v[i]>>
        <5>1. w \in Seq(Int)
          BY <1>1
        <5> HIDE DEF w
        <5>2. <<>> \o w = w
          BY <5>1
        <5> QED BY <2>3, <4>2, <5>2 DEF w
      <4>6. u.out = <<v[i]>> /\ u.used = FALSE
        BY <1>3, <1>11, <4>4, <4>5
      <4>7. u \in Writing
        BY <1>1, <1>3, <4>4, <4>5 DEF Writing
      <4> QED BY <4>3, <4>6, <4>7
    <3>2. CASE i > 1
      <4>1. n \in Nat /\ n <= Len(v) /\ 1 <= n + 1 /\ 1 <= n /\ n < Len(v) /\ 1 \in Nat \ {0} /\ n + 1 = i
        BY <1>1, <1>2, <3>2
      <4>2. Text(v, 1, i) = Text(v, 1, n) \o <<Colon>> \o <<v[i]>>
        BY <1>1, <4>1, TextIs
      <4>3. u = [out |-> t.out \o <<Colon>> \o <<v[i]>>, used |-> t.used]
        BY <1>4, <1>11, <3>2
      <4>4. t.out \o <<Colon>> \o <<v[i]>> \in Seq(Int)
        BY <1>1, <1>3, <1>9
      <4>5. u.out = Text(v, 1, i) /\ u.used = FALSE
        BY <1>3, <1>11, <2>3, <4>2, <4>3
      <4>6. u \in Writing
        BY <1>3, <4>3, <4>4 DEF Writing
      <4> QED BY <4>5, <4>6
    <3>3. i = 1 \/ i > 1
      BY <1>2
    <3> QED BY <3>1, <3>2, <3>3, Zenon
  <2>5. Plain(v, u, i, i) /\ i \in 0 .. i
    BY <1>2, <1>11, <2>4 DEF Plain
  <2> QED BY <2>4, <2>5 DEF Written
\* The first group behind zeros: here the zeros become ::.
<1>12. ASSUME v[i] # 0, ~t.used, gap
       PROVE  Written(v, u, i)
  <2>1. PICK j \in 0 .. n : Plain(v, t, n, j)
    BY <1>5, <1>12
  <2>2. j < n /\ j \in 0 .. 6 /\ i \in j + 2 .. i
    <3>1. v[n] = 0 /\ n > 0
      BY <1>2, <1>12 DEF gap
    <3> QED BY <1>2, <2>1, <3>1 DEF Plain
  <2>3. u = [out |-> t.out \o <<Colon>> \o <<Colon>> \o <<v[i]>>, used |-> TRUE]
    BY <1>4, <1>12
  <2>4. t.out \o <<Colon>> \o <<Colon>> \o <<v[i]>> \in Seq(Int)
    BY <1>1, <1>3, <1>9
  <2>5. t.out \o <<Colon>> \o <<Colon>> = t.out \o <<Colon, Colon>>
    BY <1>3, <1>9
  <2>6. Text(v, i, i) = <<v[i]>>
    <3>1. i \in Nat \ {0} /\ i \in Nat /\ i <= Len(v) /\ i <= i + 1
      BY <1>1, <1>2
    <3> QED BY <1>1, <3>1, TextIs
  <2>7. u.out = Text(v, 1, j) \o <<Colon, Colon>> \o Text(v, i, i)
    BY <2>1, <2>3, <2>5, <2>6 DEF Plain
  <2>8. Short(v, u, i, j, i)
    <3>1. i - 1 = n
      BY <1>2
    <3> QED BY <2>1, <2>7, <3>1 DEF Plain, Short
  <2>9. u \in Writing /\ u.used
    BY <2>3, <2>4 DEF Writing
  <2> QED BY <2>2, <2>8, <2>9 DEF Written
\* Every group behind the ::.
<1>13. ASSUME t.used
       PROVE  Written(v, u, i)
  <2>0. PICK j \in 0 .. 6 : \E m \in j + 2 .. n : Short(v, t, n, j, m)
    BY <1>6, <1>13
  <2>1. PICK m \in j + 2 .. n : Short(v, t, n, j, m)
    BY <2>0
  <2>2. m \in j + 2 .. i /\ i > 1 /\ ~gap /\ m \in Nat \ {0} /\ m <= n
    BY <1>2, <1>13, <2>1 DEF gap
  <2>3. u = [out |-> t.out \o <<Colon>> \o <<v[i]>>, used |-> t.used]
    BY <1>4, <1>13, <2>2
  <2>4. t.out \o <<Colon>> \o <<v[i]>> \in Seq(Int)
    BY <1>1, <1>3, <1>9
  <2> DEFINE x == Text(v, 1, j)
             c == <<Colon, Colon>>
             y == Text(v, m, n)
             z == <<Colon>>
             w == <<v[i]>>
  <2>5. x \in Seq(Int) /\ y \in Seq(Int) /\ c \in Seq(Int) /\ z \in Seq(Int) /\ w \in Seq(Int)
    <3>1. 1 \in Nat \ {0} /\ j \in Nat /\ j <= Len(v) /\ 1 <= j + 1
      BY <1>1
    <3>2. n \in Nat /\ n <= Len(v) /\ m <= n + 1 /\ m \in Nat \ {0}
      BY <1>1, <1>2, <2>2
    <3>3. x \in Seq(Int)
      BY <1>1, <3>1, TextIs
    <3>4. y \in Seq(Int)
      BY <1>1, <3>2, TextIs
    <3> QED BY <1>1, <1>9, <3>3, <3>4
  <2>6. Text(v, m, i) = y \o z \o w
    <3>1. n \in Nat /\ n <= Len(v) /\ m <= n + 1 /\ m \in Nat \ {0} /\ m <= n /\ n < Len(v) /\ n + 1 = i
      BY <1>1, <1>2, <2>2
    <3> QED BY <1>1, <3>1, TextIs
  <2>7. t.out = x \o c \o y
    BY <2>1 DEF Short
  <2> HIDE DEF x, c, y, z, w
  <2>8. (x \o c \o y) \o z \o w = x \o c \o (y \o z \o w)
    <3> DEFINE p == x \o c
    <3>1. p \in Seq(Int)
      BY <2>5
    <3> HIDE DEF p
    <3>2. Cat(Cat(Cat(p, y), z), w) = Cat(p, Cat(Cat(y, z), w))
      BY <2>5, <3>1, CatFour
    <3> QED BY <3>2 DEF p, Cat
  <2>9. u.out = x \o c \o Text(v, m, i)
    BY <2>3, <2>6, <2>7, <2>8 DEF z, w
  <2>10. Short(v, u, i, j, m)
    BY <2>1, <2>9 DEF Short, x, c
  <2>11. u \in Writing /\ u.used
    BY <1>3, <1>13, <2>3, <2>4 DEF Writing
  <2> QED BY <2>2, <2>10, <2>11 DEF Written
<1>14. Written(v, u, i)
  BY <1>3, <1>10, <1>11, <1>12, <1>13
<1> QED BY <1>14 DEF v, u, i

\* LoopExists for the states of the loop of IPv6Address::insert.
LEMMA WritingLoop ==
    ASSUME NEW init \in Writing, NEW n \in Nat, NEW next \in [1..n -> [Writing -> Writing]]
    PROVE  \E f \in [0..n -> Writing] :
             f[0] = init /\ \A i \in 1..n : f[i] = next[i][f[i - 1]]
BY LoopExists

\* IPv6Address::insert writes any eight groups of two bytes so that RFC 4291 reads
\* them back: all groups, or "::" once in the place of zeros only.
THEOREM Insert6Reads ==
    ASSUME NEW g \in [1 .. 8 -> Pair]
    PROVE  Reads(Insert6(g), Value(g))
<1> DEFINE v == Value(g)
           init == [out |-> <<>>, used |-> FALSE]
           Eq(f) == f = [i \in 0 .. 8 |-> IF i = 0 THEN init ELSE NextGroup(f[i - 1], g, i)]
           next == [i \in 1 .. 8 |-> [t \in Writing |-> NextGroup(t, g, i)]]
           F == CHOOSE f : Eq(f)
<1>1. init \in Writing
  BY DEF Writing
<1>0. v \in Seq(Int) /\ Len(v) = 8 /\ (\A k \in 1 .. 8 : v[k] \in Int) /\ Colon \in Int
  BY ValueIs DEF Colon
<1> HIDE DEF v
<1>2. ASSUME NEW i \in 1 .. 8, NEW t \in Writing
      PROVE  NextGroup(t, g, i) \in Writing
  <2> DEFINE u == NextGroup(t, g, i)
             gap == i > 1 /\ v[i - 1] = 0 /\ ~t.used
  <2>1. /\ v[i] = 0 /\ ~t.used => u = t
        /\ ~ (v[i] = 0 /\ ~t.used) =>
             /\ i = 1 => u = [out |-> t.out \o <<v[i]>>, used |-> t.used]
             /\ i > 1 /\ ~gap => u = [out |-> t.out \o <<Colon>> \o <<v[i]>>, used |-> t.used]
             /\ gap => u = [out |-> t.out \o <<Colon>> \o <<Colon>> \o <<v[i]>>, used |-> TRUE]
    BY NextGroupIs DEF v
  <2>2. /\ t.out \in Seq(Int) /\ t.used \in BOOLEAN /\ v[i] \in Int
        /\ <<v[i]>> \in Seq(Int) /\ <<Colon>> \in Seq(Int)
    BY <1>0 DEF Writing
  <2>3. /\ t.out \o <<v[i]>> \in Seq(Int)
        /\ t.out \o <<Colon>> \o <<v[i]>> \in Seq(Int)
        /\ t.out \o <<Colon>> \o <<Colon>> \o <<v[i]>> \in Seq(Int)
    BY <2>2
  <2>4. /\ [out |-> t.out \o <<v[i]>>, used |-> t.used] \in Writing
        /\ [out |-> t.out \o <<Colon>> \o <<v[i]>>, used |-> t.used] \in Writing
        /\ [out |-> t.out \o <<Colon>> \o <<Colon>> \o <<v[i]>>, used |-> TRUE] \in Writing
    BY <2>2, <2>3 DEF Writing
  <2>5. i = 1 \/ i > 1
    OBVIOUS
  <2> HIDE DEF u, gap
  <2>6. u \in Writing
    BY <2>1, <2>4, <2>5, Zenon
  <2> QED BY <2>6 DEF u
<1>3. next \in [1 .. 8 -> [Writing -> Writing]]
  BY <1>2
<1>4. \E f : Eq(f)
  <2> HIDE DEF init
  <2>1. PICK f \in [0 .. 8 -> Writing] : f[0] = init /\ \A i \in 1 .. 8 : f[i] = next[i][f[i - 1]]
    <3> DEFINE n == 8
    <3>1. n \in Nat /\ next \in [1 .. n -> [Writing -> Writing]]
      BY <1>3
    <3> HIDE DEF next, Eq, n
    <3>2. \E f \in [0 .. n -> Writing] : f[0] = init /\ \A i \in 1 .. n : f[i] = next[i][f[i - 1]]
      BY <1>1, <3>1, WritingLoop
    <3> QED BY <3>2 DEF n
  <2>2. ASSUME NEW i \in 0 .. 8
        PROVE  f[i] = IF i = 0 THEN init ELSE NextGroup(f[i - 1], g, i)
    <3>1. CASE i # 0
      <4>1. i \in 1 .. 8 /\ f[i - 1] \in Writing
        BY <3>1
      <4>2. f[i] = next[i][f[i - 1]]
        BY <2>1, <4>1
      <4>3. next[i][f[i - 1]] = NextGroup(f[i - 1], g, i)
        BY <4>1
      <4> QED BY <3>1, <4>2, <4>3
    <3> QED BY <2>1, <3>1
  <2> HIDE DEF next
  <2>3. Eq(f)
    BY <2>2
  <2> QED BY <2>3
<1>5. Eq(F)
  <2> HIDE DEF Eq
  <2> QED BY <1>4
<1>6. Insert6(g) = IF ~F[8].used /\ Loaded(g[8]) = 0 THEN F[8].out \o <<Colon, Colon>> ELSE F[8].out
  BY DEF Insert6
<1> HIDE DEF F
<1>7. F[0] = init /\ \A i \in 1 .. 8 : F[i] = NextGroup(F[i - 1], g, i)
  <2>1. \A i \in 0 .. 8 : F[i] = IF i = 0 THEN init ELSE NextGroup(F[i - 1], g, i)
    BY <1>5
  <2> HIDE DEF Eq, next, init
  <2> QED BY <2>1
<1> HIDE DEF Eq, next
<1>8. Written(v, F[8], 8)
  <2> DEFINE M == {n \in Nat : n > 8 \/ Written(v, F[n], n)}
  <2>1. 0 \in M
    <3>1. Text(v, 1, 0) = <<>>
      <4>1. 1 \in Nat \ {0} /\ 0 \in Nat /\ 0 <= Len(v) /\ 1 <= 0 + 1 /\ 0 + 1 = 1
        BY <1>0
      <4> QED BY <1>0, <4>1, TextIs
    <3>2. F[0].out = <<>> /\ F[0].used = FALSE
      BY <1>7
    <3>3. Plain(v, F[0], 0, 0)
      BY <3>1, <3>2 DEF Plain
    <3>4. Written(v, F[0], 0)
      BY <1>1, <1>7, <3>2, <3>3 DEF Written
    <3> QED BY <3>4
  <2>2. ASSUME NEW n \in Nat, n \in M
        PROVE  n + 1 \in M
    <3>1. CASE n + 1 <= 8
      <4>1. n \in 0 .. 7 /\ n + 1 \in 1 .. 8 /\ (n + 1) - 1 = n
        BY <3>1
      <4>2. Written(v, F[n], n)
        BY <2>2, <3>1
      <4>3. Written(v, NextGroup(F[n], g, n + 1), n + 1)
        BY <4>1, <4>2, NextGroupWrites DEF v
      <4>4. F[n + 1] = NextGroup(F[n], g, n + 1)
        BY <1>7, <4>1
      <4> QED BY <4>3, <4>4
    <3>2. CASE n + 1 > 8
      BY <3>2
    <3> QED BY <3>1, <3>2
  <2> HIDE DEF M
  <2>3. 8 \in M
    BY <2>1, <2>2, SetInduction
  <2> QED BY <2>3 DEF M
<1> DEFINE t == F[8]
<1>9. Loaded(g[8]) = 0 <=> v[8] = 0
  <2>1. v[8] = 256 * g[8][1] + g[8][2] /\ g[8] \in Pair
    BY DEF v, Value
  <2> QED BY <2>1, GroupIs
<1>10. t.used \in BOOLEAN /\ SubSeq(v, 1, 8) = v
  <2>1. t.used \in BOOLEAN
    BY <1>8 DEF Written, Writing
  <2> DEFINE s == SubSeq(v, 1, 8)
  <2>2. s \in Seq(Int) /\ Len(s) = 8 /\ \A k \in 1 .. 8 : s[k] = v[k]
    BY <1>0
  <2> HIDE DEF s
  <2>3. s = v
    BY <1>0, <2>2, SeqEqual
  <2> QED BY <2>1, <2>3 DEF s
<1> HIDE DEF t
<1>11. CASE t.used
  <2>1. PICK j \in 0 .. 6 : \E m \in j + 2 .. 8 : Short(v, t, 8, j, m)
    BY <1>8, <1>11 DEF Written, t
  <2>2. PICK m \in j + 2 .. 8 : Short(v, t, 8, j, m)
    BY <2>1
  <2>3. j \in 0 .. 7 /\ m \in j + 2 .. 9
    OBVIOUS
  <2>4. /\ \A k \in j + 1 .. m - 1 : v[k] = 0
        /\ t.out = Joined(SubSeq(v, 1, j)) \o <<Colon, Colon>> \o Joined(SubSeq(v, m, 8))
    BY <2>2 DEF Short, Text
  <2>5. Insert6(g) = t.out
    BY <1>6, <1>11 DEF t
  <2> QED BY <2>3, <2>4, <2>5, Zenon DEF Reads, v
<1>12. CASE ~t.used
  <2>1. PICK j \in 0 .. 8 : Plain(v, t, 8, j)
    BY <1>8, <1>12 DEF Written, t
  <2>2. CASE v[8] = 0
    <3>1. j \in 0 .. 7 /\ 9 \in j + 2 .. 9 /\ 9 - 1 = 8
      BY <2>1, <2>2 DEF Plain
    <3>2. t.out = Joined(SubSeq(v, 1, j)) /\ \A k \in j + 1 .. 9 - 1 : v[k] = 0
      BY <2>1, <3>1 DEF Plain, Text
    <3>3. Joined(SubSeq(v, 9, 8)) = <<>>
      <4>1. 9 \in Nat \ {0} /\ 8 \in Nat /\ 8 <= Len(v) /\ 9 <= 8 + 1 /\ 8 + 1 = 9
        BY <1>0
      <4> QED BY <1>0, <4>1, TextIs DEF Text
    <3>4. Insert6(g) = t.out \o <<Colon, Colon>>
      BY <1>6, <1>9, <1>12, <2>2 DEF t
    <3>5. (t.out \o <<Colon, Colon>>) \o <<>> = t.out \o <<Colon, Colon>>
      <4>1. t.out \in Seq(Int) /\ <<Colon, Colon>> \in Seq(Int)
        BY <1>0, <1>8 DEF Written, Writing, t
      <4> QED BY <4>1
    <3>6. Insert6(g) = Joined(SubSeq(v, 1, j)) \o <<Colon, Colon>> \o Joined(SubSeq(v, 9, 8))
      BY <3>2, <3>3, <3>4, <3>5
    <3> QED BY <3>1, <3>2, <3>6, Zenon DEF Reads, v
  <2>3. CASE v[8] # 0
    <3>1. j = 8
      BY <2>1, <2>3 DEF Plain
    <3>2. t.out = Joined(v)
      BY <1>10, <2>1, <3>1 DEF Plain, Text
    <3>3. Insert6(g) = t.out
      BY <1>6, <1>9, <2>3 DEF t
    <3> QED BY <3>2, <3>3 DEF Reads, v
  <2> QED BY <2>2, <2>3
<1> QED BY <1>11, <1>12

-----------------------------------------------------------------------------
(* What is looked up.                                                        *)

\* LookupAnyIPAddress gives an address of any answer, and an IP one if there is
\* one; LookupAny gives none only of an empty answer.
THEOREM LookupChooses ==
    ASSUME NEW answer \in Seq(Families)
    PROVE  /\ LookupAnyIPAddress(answer) = "nullptr" <=> Range(answer) \subseteq {"packet"}
           /\ LookupAnyIPAddress(answer) \in Range(answer) \cup {"nullptr"}
           /\ LookupAny(answer) = "nullptr" <=> answer = <<>>
<1> DEFINE results == Results(answer)
           ip == {k \in DOMAIN results : results[k] # "unknown"}
<1>1. DOMAIN results = 1 .. Len(answer) /\ \A k \in 1 .. Len(answer) : results[k] = Create(answer[k])
  BY DEF Results
<1>2. \A k \in 1 .. Len(answer) :
        /\ answer[k] \in Families
        /\ results[k] # "nullptr"
        /\ results[k] # "unknown" <=> answer[k] \in {"inet", "inet6"}
        /\ results[k] # "unknown" => results[k] = answer[k]
  <2>1. \A k \in 1 .. Len(answer) : answer[k] \in Families
    OBVIOUS
  <2> HIDE DEF results
  <2> QED BY <1>1, <2>1 DEF Create, Families
<1>3. LookupAnyIPAddress(answer) = IF ip = {} THEN "nullptr" ELSE results[Min(ip)]
  BY DEF LookupAnyIPAddress
<1>4. LookupAny(answer) = IF results = <<>> THEN "nullptr" ELSE results[1]
  BY DEF LookupAny, First
<1>5. results = <<>> <=> answer = <<>>
  <2>1. answer = <<>> <=> Len(answer) = 0
    OBVIOUS
  <2>2. ASSUME Len(answer) = 0
        PROVE  results = <<>>
    BY <2>2 DEF Results
  <2>3. ASSUME results = <<>>
        PROVE  Len(answer) = 0
    <3>1. DOMAIN results = {}
      BY <2>3
    <3> QED BY <1>1, <3>1
  <2> QED BY <2>1, <2>2, <2>3
<1> HIDE DEF results
<1>6. Range(answer) = {answer[k] : k \in 1 .. Len(answer)}
  BY DEF Range
<1>7. ip = {k \in 1 .. Len(answer) : answer[k] \in {"inet", "inet6"}}
  BY <1>1, <1>2
<1>8. ip \subseteq Nat
  BY <1>7
<1>9. ip = {} <=> Range(answer) \subseteq {"packet"}
  BY <1>2, <1>6, <1>7 DEF Families
<1>10. ip # {} => /\ results[Min(ip)] # "nullptr"
                  /\ results[Min(ip)] \in Range(answer)
  <2>1. ip # {} => Min(ip) \in ip
    BY <1>8, MinIsLeast
  <2> HIDE DEF ip
  <2> QED BY <1>2, <1>6, <1>7, <2>1
<1>11. LookupAny(answer) = "nullptr" <=> answer = <<>>
  <2>1. answer # <<>> => 1 \in 1 .. Len(answer)
    OBVIOUS
  <2> QED BY <1>2, <1>4, <1>5, <2>1
<1> HIDE DEF ip
<1> QED BY <1>3, <1>9, <1>10, <1>11

-----------------------------------------------------------------------------
(* Interfaces.                                                               *)

\* Induction over sequences: what holds of the empty one, and of one more element,
\* holds of all.
LEMMA SeqInduction ==
    ASSUME NEW S, NEW T, <<>> \in T, \A s \in Seq(S) : \A e \in S : s \in T => Append(s, e) \in T
    PROVE  Seq(S) \subseteq T
<1> DEFINE M == {n \in Nat : \A s \in Seq(S) : Len(s) = n => s \in T}
<1>1. 0 \in M
  <2>1. \A s \in Seq(S) : Len(s) = 0 => s = <<>>
    OBVIOUS
  <2> QED BY <2>1
<1>2. ASSUME NEW n \in Nat, n \in M
      PROVE  n + 1 \in M
  <2>1. ASSUME NEW s \in Seq(S), Len(s) = n + 1
        PROVE  s \in T
    <3> DEFINE r == SubSeq(s, 1, n)
               e == s[n + 1]
    <3>1. e \in S
      BY <2>1
    <3>2. r \in Seq(S) /\ Len(r) = n /\ \A k \in 1 .. n : r[k] = s[k]
      BY <2>1
    <3>3. r \in T
      BY <1>2, <3>2
    <3> HIDE DEF r, e
    <3> DEFINE a == Append(r, e)
    <3>4. a \in T
      BY <3>1, <3>2, <3>3
    <3>5. a \in Seq(S) /\ Len(a) = n + 1 /\ a[n + 1] = e /\ \A k \in 1 .. n : a[k] = r[k]
      BY <3>1, <3>2
    <3> HIDE DEF a
    <3>6. a = s
      <4>1. \A k \in 1 .. n + 1 : a[k] = s[k]
        BY <3>2, <3>5 DEF e
      <4> QED BY <2>1, <3>5, <4>1, SeqEqual
    <3> QED BY <3>4, <3>6
  <2> QED BY <2>1
<1> HIDE DEF M
<1>3. Nat \subseteq M
  BY <1>1, <1>2, SetInduction
<1> QED BY <1>3 DEF M

\* The states of a loop that appends the values x[i] with i in keep to a sequence,
\* for i from 1 to n.
Collect(f, n, keep, x) ==
  /\ f[0] = <<>>
  /\ \A i \in 1 .. n : f[i] = IF i \in keep THEN Append(f[i - 1], x[i]) ELSE f[i - 1]

\* Such a loop has states, which are sequences of values.
LEMMA CollectExists ==
    ASSUME NEW S, NEW n \in Nat, NEW keep, NEW x, \A i \in 1 .. n : x[i] \in S
    PROVE  \E f \in [0 .. n -> Seq(S)] : Collect(f, n, keep, x)
<1> DEFINE X == Seq(S)
           e == <<>>
           next == [i \in 1 .. n |-> [q \in X |-> IF i \in keep THEN Append(q, x[i]) ELSE q]]
<1>1. e \in X /\ next \in [1 .. n -> [X -> X]]
  <2>1. \A i \in 1 .. n : \A q \in X : Append(q, x[i]) \in X
    OBVIOUS
  <2>2. e \in X
    OBVIOUS
  <2> HIDE DEF X
  <2> QED BY <2>1, <2>2
<1> HIDE DEF X, e
<1>2. \E f \in [0 .. n -> X] : f[0] = e /\ \A i \in 1 .. n : f[i] = next[i][f[i - 1]]
  <2> HIDE DEF next
  <2>1. \A q \in X : \A m \in Nat : \A g \in [1 .. m -> [X -> X]] :
          \E f \in [0 .. m -> X] : f[0] = q /\ \A i \in 1 .. m : f[i] = g[i][f[i - 1]]
    BY LoopExists
  <2> QED BY <1>1, <2>1
<1>3. PICK f \in [0 .. n -> X] : f[0] = e /\ \A i \in 1 .. n : f[i] = next[i][f[i - 1]]
  BY <1>2
<1>4. ASSUME NEW i \in 1 .. n
      PROVE  f[i] = IF i \in keep THEN Append(f[i - 1], x[i]) ELSE f[i - 1]
  <2>1. f[i - 1] \in X
    OBVIOUS
  <2>2. next[i][f[i - 1]] = IF i \in keep THEN Append(f[i - 1], x[i]) ELSE f[i - 1]
    BY <2>1
  <2> QED BY <1>3, <2>2
<1> HIDE DEF next
<1> QED BY <1>3, <1>4 DEF Collect, X, e

\* Two such loops over the same values go through the same states.
LEMMA CollectUnique ==
    ASSUME NEW n \in Nat, NEW f, NEW g, NEW keep, NEW x, NEW keep2, NEW x2,
           Collect(f, n, keep, x), Collect(g, n, keep2, x2),
           \A i \in 1 .. n : (i \in keep <=> i \in keep2) /\ x[i] = x2[i]
    PROVE  \A i \in 0 .. n : f[i] = g[i]
<1> DEFINE M == {i \in Nat : i > n \/ f[i] = g[i]}
<1>1. 0 \in M
  BY DEF Collect
<1>2. ASSUME NEW i \in Nat, i \in M
      PROVE  i + 1 \in M
  <2>1. CASE i + 1 <= n
    <3>1. i + 1 \in 1 .. n /\ (i + 1) - 1 = i /\ f[i] = g[i]
      BY <1>2, <2>1
    <3>2. f[i + 1] = IF i + 1 \in keep THEN Append(f[i], x[i + 1]) ELSE f[i]
      BY <3>1 DEF Collect
    <3>3. g[i + 1] = IF i + 1 \in keep2 THEN Append(g[i], x2[i + 1]) ELSE g[i]
      BY <3>1 DEF Collect
    <3> QED BY <3>1, <3>2, <3>3
  <2>2. CASE i + 1 > n
    BY <2>2
  <2> QED BY <2>1, <2>2
<1> HIDE DEF M
<1>3. Nat \subseteq M
  BY <1>1, <1>2, SetInduction
<1> QED BY <1>3 DEF M

\* The last state of the loop for one value more.
LEMMA CollectMore ==
    ASSUME NEW S, NEW n \in Nat, NEW keep, NEW x, NEW keep2, NEW x2, NEW f, NEW g,
           \A i \in 1 .. n : x[i] \in S,
           Collect(f, n, keep, x), Collect(g, n + 1, keep2, x2),
           \A i \in 1 .. n : (i \in keep <=> i \in keep2) /\ x[i] = x2[i]
    PROVE  /\ f[n] \in Seq(S)
           /\ g[n + 1] = IF n + 1 \in keep2 THEN Append(f[n], x2[n + 1]) ELSE f[n]
<1>1. Collect(g, n, keep2, x2)
  BY DEF Collect
<1>2. \A i \in 0 .. n : f[i] = g[i]
  BY <1>1, CollectUnique
<1>3. f[n] = g[n] /\ n + 1 \in 1 .. n + 1 /\ (n + 1) - 1 = n
  BY <1>2
<1>4. g[n + 1] = IF n + 1 \in keep2 THEN Append(g[n], x2[n + 1]) ELSE g[n]
  BY <1>3 DEF Collect
<1>5. PICK h \in [0 .. n -> Seq(S)] : Collect(h, n, keep, x)
  BY CollectExists
<1>6. \A i \in 0 .. n : f[i] = h[i]
  BY <1>5, CollectUnique
<1>7. f[n] \in Seq(S)
  BY <1>6
<1> QED BY <1>3, <1>4, <1>7

\* The indices in s of the records with that value in that field.
Having(s, field, value) == {i \in 1 .. Len(s) : s[i][field] = value}

\* Where is the last state of such a loop over the records.
LEMMA WhereIs ==
    ASSUME NEW S, NEW s \in Seq(S), NEW field, NEW value
    PROVE  \E f : /\ Collect(f, Len(s), Having(s, field, value), s)
                  /\ Where(s, field, value) = f[Len(s)]
<1> DEFINE n == Len(s)
           keep == Having(s, field, value)
           Eq(f) == f = [i \in 0 .. n |-> IF i = 0 THEN <<>>
                           ELSE IF s[i][field] = value THEN Append(f[i - 1], s[i]) ELSE f[i - 1]]
           F == CHOOSE f : Eq(f)
<1>0. n \in Nat /\ \A i \in 1 .. n : s[i] \in S
  OBVIOUS
<1>1. \A i \in 1 .. n : i \in keep <=> s[i][field] = value
  BY DEF Having
<1>2. Where(s, field, value) = F[n]
  BY DEF Where
<1> HIDE DEF n, keep
<1>3. \E f : Eq(f)
  <2>1. PICK f \in [0 .. n -> Seq(S)] : Collect(f, n, keep, s)
    BY <1>0, CollectExists
  <2>2. ASSUME NEW i \in 0 .. n
        PROVE  f[i] = IF i = 0 THEN <<>>
                      ELSE IF s[i][field] = value THEN Append(f[i - 1], s[i]) ELSE f[i - 1]
    <3>1. i # 0 => i \in 1 .. n
      BY <1>0
    <3> QED BY <1>1, <2>1, <3>1 DEF Collect
  <2>3. Eq(f)
    BY <2>2
  <2> QED BY <2>3
<1>4. Eq(F)
  <2> HIDE DEF Eq
  <2> QED BY <1>3
<1> HIDE DEF F
<1>5. \A i \in 0 .. n : F[i] = IF i = 0 THEN <<>>
        ELSE IF s[i][field] = value THEN Append(F[i - 1], s[i]) ELSE F[i - 1]
  BY <1>4
<1> HIDE DEF Eq
<1>6. Collect(F, n, keep, s)
  <2>1. F[0] = <<>>
    <3>1. 0 \in 0 .. n
      BY <1>0
    <3> QED BY <1>5, <3>1, Zenon
  <2>2. ASSUME NEW i \in 1 .. n
        PROVE  F[i] = IF i \in keep THEN Append(F[i - 1], s[i]) ELSE F[i - 1]
    <3>1. i \in 0 .. n /\ i # 0
      BY <1>0
    <3> QED BY <1>1, <1>5, <3>1
  <2> QED BY <2>1, <2>2 DEF Collect
<1> QED BY <1>2, <1>6 DEF n, keep

\* There are no records among none.
LEMMA WhereEmpty ==
    ASSUME NEW field, NEW value
    PROVE  Where(<<>>, field, value) = <<>>
<1>1. <<>> \in Seq({}) /\ Len(<<>>) = 0
  OBVIOUS
<1>2. PICK f : /\ Collect(f, Len(<<>>), Having(<<>>, field, value), <<>>)
               /\ Where(<<>>, field, value) = f[Len(<<>>)]
  BY <1>1, WhereIs
<1> QED BY <1>1, <1>2 DEF Collect

\* A record more is appended if it has the value.
LEMMA WhereAppend ==
    ASSUME NEW S, NEW s \in Seq(S), NEW e \in S, NEW field, NEW value
    PROVE  /\ Where(s, field, value) \in Seq(S)
           /\ Where(Append(s, e), field, value) =
                IF e[field] = value THEN Append(Where(s, field, value), e)
                ELSE Where(s, field, value)
<1> DEFINE n == Len(s)
           t == Append(s, e)
           keep == Having(s, field, value)
           keep2 == Having(t, field, value)
<1>1. /\ n \in Nat /\ t \in Seq(S) /\ Len(t) = n + 1 /\ t[n + 1] = e
      /\ \A i \in 1 .. n : s[i] \in S /\ t[i] = s[i]
  OBVIOUS
<1> HIDE DEF t
<1>2. PICK f : Collect(f, n, keep, s) /\ Where(s, field, value) = f[n]
  BY WhereIs
<1>3. PICK g : Collect(g, Len(t), keep2, t) /\ Where(t, field, value) = g[Len(t)]
  BY <1>1, WhereIs
<1>4. \A i \in 1 .. n : (i \in keep <=> i \in keep2) /\ s[i] = t[i]
  BY <1>1 DEF Having
<1>5. n + 1 \in keep2 <=> e[field] = value
  BY <1>1 DEF Having
<1> HIDE DEF keep, keep2, n
<1>6. Collect(g, n + 1, keep2, t)
  BY <1>1, <1>3
<1>7. /\ f[n] \in Seq(S)
      /\ g[n + 1] = IF n + 1 \in keep2 THEN Append(f[n], t[n + 1]) ELSE f[n]
  <2>1. /\ n \in Nat /\ (\A i \in 1 .. n : s[i] \in S)
        /\ Collect(f, n, keep, s) /\ Collect(g, n + 1, keep2, t)
        /\ \A i \in 1 .. n : (i \in keep <=> i \in keep2) /\ s[i] = t[i]
    BY <1>1, <1>2, <1>4, <1>6
  <2> QED BY <2>1, CollectMore
<1> QED BY <1>1, <1>2, <1>3, <1>5, <1>7 DEF t

\* The entry of an interface address.
Given(e) == [name |-> e.name, family |-> e.family, len |-> PrefixLen(e)]
IsKept(e, family) == Asked(e, family) /\ e.family \in {"inet", "inet6"}
Keeping(s, family) == {i \in 1 .. Len(s) : IsKept(s[i], family)}
Gives(s) == [i \in 1 .. Len(s) |-> Given(s[i])]

\* AllInterfaceAddresses is the last state of such a loop over the entries.
LEMMA AllIs ==
    ASSUME NEW S, NEW s \in Seq(S), NEW family
    PROVE  \E f : /\ Collect(f, Len(s), Keeping(s, family), Gives(s))
                  /\ AllInterfaceAddresses(s, family) = f[Len(s)]
<1> DEFINE n == Len(s)
           keep == Keeping(s, family)
           x == Gives(s)
           R == {Given(e) : e \in S}
           Eq(f) == f = [i \in 0 .. n |-> IF i = 0 THEN <<>>
                           ELSE IF Asked(s[i], family) /\ s[i].family \in {"inet", "inet6"}
                           THEN Append(f[i - 1], [name |-> s[i].name, family |-> s[i].family,
                                                  len |-> PrefixLen(s[i])])
                           ELSE f[i - 1]]
           F == CHOOSE f : Eq(f)
<1>1. n \in Nat /\ \A i \in 1 .. n : s[i] \in S
  OBVIOUS
<1>2. AllInterfaceAddresses(s, family) = F[n]
  BY DEF AllInterfaceAddresses
<1>3. \A i \in 1 .. n : i \in keep <=> IsKept(s[i], family)
  BY DEF Keeping
<1>4. \A i \in 1 .. n : x[i] = Given(s[i])
  BY DEF Gives
<1>5. \A i \in 1 .. n : x[i] \in R
  BY <1>1, <1>4
<1> HIDE DEF n, keep, x, R
<1>6. ASSUME NEW f
      PROVE  Eq(f) <=> f = [i \in 0 .. n |-> IF i = 0 THEN <<>>
                              ELSE IF IsKept(s[i], family) THEN Append(f[i - 1], Given(s[i]))
                              ELSE f[i - 1]]
  BY DEF IsKept, Given
<1> HIDE DEF Eq
<1>7. \E f : Eq(f)
  <2>1. PICK f \in [0 .. n -> Seq(R)] : Collect(f, n, keep, x)
    BY <1>1, <1>5, CollectExists
  <2>2. ASSUME NEW i \in 0 .. n
        PROVE  f[i] = IF i = 0 THEN <<>>
                      ELSE IF IsKept(s[i], family) THEN Append(f[i - 1], Given(s[i]))
                      ELSE f[i - 1]
    <3>1. i # 0 => i \in 1 .. n
      BY <1>1
    <3> QED BY <1>3, <1>4, <2>1, <3>1 DEF Collect
  <2>3. f = [i \in 0 .. n |-> IF i = 0 THEN <<>>
                              ELSE IF IsKept(s[i], family) THEN Append(f[i - 1], Given(s[i]))
                              ELSE f[i - 1]]
    BY <2>2
  <2> QED BY <1>6, <2>3
<1>8. Eq(F)
  BY <1>7
<1> HIDE DEF F
<1>9. F = [i \in 0 .. n |-> IF i = 0 THEN <<>>
                             ELSE IF IsKept(s[i], family) THEN Append(F[i - 1], Given(s[i]))
                             ELSE F[i - 1]]
  BY <1>6, <1>8
<1>10. Collect(F, n, keep, x)
  <2>1. F[0] = <<>>
    <3>1. 0 \in 0 .. n
      BY <1>1
    <3> QED BY <1>9, <3>1
  <2>2. ASSUME NEW i \in 1 .. n
        PROVE  F[i] = IF i \in keep THEN Append(F[i - 1], x[i]) ELSE F[i - 1]
    <3>1. i \in 0 .. n /\ i # 0
      BY <1>1
    <3>2. F[i] = IF IsKept(s[i], family) THEN Append(F[i - 1], Given(s[i])) ELSE F[i - 1]
      BY <1>9, <3>1
    <3> QED BY <1>3, <1>4, <3>2
  <2> QED BY <2>1, <2>2 DEF Collect
<1> QED BY <1>2, <1>10 DEF n, keep, x

\* An entry more is kept if it is an IP one of a family that is asked for.
LEMMA AllAppend ==
    ASSUME NEW S, NEW s \in Seq(S), NEW e \in S, NEW family
    PROVE  /\ AllInterfaceAddresses(<<>>, family) = <<>>
           /\ AllInterfaceAddresses(s, family) \in Seq({Given(a) : a \in S})
           /\ AllInterfaceAddresses(Append(s, e), family) =
                IF IsKept(e, family) THEN Append(AllInterfaceAddresses(s, family), Given(e))
                ELSE AllInterfaceAddresses(s, family)
<1> DEFINE n == Len(s)
           t == Append(s, e)
           keep == Keeping(s, family)
           keep2 == Keeping(t, family)
           x == Gives(s)
           x2 == Gives(t)
           R == {Given(a) : a \in S}
<1>1. /\ n \in Nat /\ t \in Seq(S) /\ Len(t) = n + 1 /\ t[n + 1] = e
      /\ \A i \in 1 .. n : s[i] \in S /\ t[i] = s[i]
  OBVIOUS
<1> HIDE DEF t
<1>2. PICK f : Collect(f, n, keep, x) /\ AllInterfaceAddresses(s, family) = f[n]
  BY AllIs
<1>3. PICK g : Collect(g, Len(t), keep2, x2) /\ AllInterfaceAddresses(t, family) = g[Len(t)]
  BY <1>1, AllIs
<1>4. \A i \in 1 .. n : (i \in keep <=> i \in keep2) /\ x[i] = x2[i] /\ x[i] \in R
  <2>1. \A i \in 1 .. n : x[i] = Given(s[i])
    BY DEF Gives
  <2>2. \A i \in 1 .. n : x2[i] = Given(s[i])
    BY <1>1 DEF Gives
  <2>3. \A i \in 1 .. n : i \in keep <=> i \in keep2
    BY <1>1 DEF Keeping
  <2>4. \A i \in 1 .. n : Given(s[i]) \in R
    BY <1>1
  <2> HIDE DEF keep, keep2, x, x2, R, n
  <2> QED BY <2>1, <2>2, <2>3, <2>4
<1>5. (n + 1 \in keep2 <=> IsKept(e, family)) /\ x2[n + 1] = Given(e)
  <2>1. n + 1 \in 1 .. Len(t)
    BY <1>1
  <2> QED BY <1>1, <2>1 DEF Keeping, Gives
<1>0. AllInterfaceAddresses(<<>>, family) = <<>>
  <2>1. <<>> \in Seq({}) /\ Len(<<>>) = 0
    OBVIOUS
  <2>2. PICK h : /\ Collect(h, Len(<<>>), Keeping(<<>>, family), Gives(<<>>))
                 /\ AllInterfaceAddresses(<<>>, family) = h[Len(<<>>)]
    BY <2>1, AllIs
  <2> QED BY <2>1, <2>2 DEF Collect
<1> HIDE DEF keep, keep2, n, x, x2, R
<1>6. Collect(g, n + 1, keep2, x2)
  BY <1>1, <1>3
<1>7. /\ f[n] \in Seq(R)
      /\ g[n + 1] = IF n + 1 \in keep2 THEN Append(f[n], x2[n + 1]) ELSE f[n]
  <2>1. /\ n \in Nat /\ (\A i \in 1 .. n : x[i] \in R)
        /\ Collect(f, n, keep, x) /\ Collect(g, n + 1, keep2, x2)
        /\ \A i \in 1 .. n : (i \in keep <=> i \in keep2) /\ x[i] = x2[i]
    BY <1>1, <1>2, <1>4, <1>6
  <2> QED BY <2>1, CollectMore
<1> QED BY <1>0, <1>1, <1>2, <1>3, <1>5, <1>7 DEF t, R

\* Of any family, of one family of them, and of one family when that is what is asked for.
OfAny(s, iface) == Where(AllInterfaceAddresses(s, "unspec"), "name", iface)
OfThose(s, iface, f) == Where(OfAny(s, iface), "family", f)
OfOne(s, iface, f) == Where(AllInterfaceAddresses(s, f), "name", iface)
IP == {"inet", "inet6"}
Is(e, iface, f) == e.name = iface /\ e.family = f

\* An entry more is found if it is an IP one of the interface.
LEMMA FoundAppend ==
    ASSUME NEW S, NEW s \in Seq(S), NEW e \in S, NEW iface, NEW f \in IP
    PROVE  /\ OfAny(Append(s, e), iface) = IF e.name = iface /\ e.family \in IP
                THEN Append(OfAny(s, iface), Given(e)) ELSE OfAny(s, iface)
           /\ OfThose(Append(s, e), iface, f) = IF Is(e, iface, f)
                THEN Append(OfThose(s, iface, f), Given(e)) ELSE OfThose(s, iface, f)
           /\ OfOne(Append(s, e), iface, f) = IF Is(e, iface, f)
                THEN Append(OfOne(s, iface, f), Given(e)) ELSE OfOne(s, iface, f)
           /\ OfAny(s, iface) \in Seq({Given(a) : a \in S})
           /\ OfThose(s, iface, f) \in Seq({Given(a) : a \in S})
<1> DEFINE R == {Given(a) : a \in S}
           g == Given(e)
           any == AllInterfaceAddresses(s, "unspec")
           one == AllInterfaceAddresses(s, f)
<1>1. g \in R /\ g["name"] = e.name /\ g["family"] = e.family
  BY DEF Given
<1>2. IsKept(e, "unspec") <=> e.family \in IP
  BY DEF IsKept, Asked, IP
<1>3. IsKept(e, f) <=> e.family = f
  BY DEF IsKept, Asked, IP
<1>4. /\ any \in Seq(R)
      /\ AllInterfaceAddresses(Append(s, e), "unspec") =
           IF e.family \in IP THEN Append(any, g) ELSE any
  BY <1>2, AllAppend
<1>5. /\ one \in Seq(R)
      /\ AllInterfaceAddresses(Append(s, e), f) =
           IF e.family = f THEN Append(one, g) ELSE one
  <2>1. /\ one \in Seq(R)
        /\ AllInterfaceAddresses(Append(s, e), f) =
             IF IsKept(e, f) THEN Append(one, g) ELSE one
    BY AllAppend
  <2> HIDE DEF R, g, one
  <2> QED BY <1>3, <2>1
<1> HIDE DEF R, g, any, one
<1>6. /\ Where(any, "name", iface) \in Seq(R)
      /\ Where(Append(any, g), "name", iface) =
           IF e.name = iface THEN Append(Where(any, "name", iface), g) ELSE Where(any, "name", iface)
  BY <1>1, <1>4, WhereAppend
<1>7. /\ Where(one, "name", iface) \in Seq(R)
      /\ Where(Append(one, g), "name", iface) =
           IF e.name = iface THEN Append(Where(one, "name", iface), g) ELSE Where(one, "name", iface)
  BY <1>1, <1>5, WhereAppend
<1>8. OfAny(s, iface) = Where(any, "name", iface) /\ OfOne(s, iface, f) = Where(one, "name", iface)
  BY DEF OfAny, OfOne, any, one
<1>9. OfAny(Append(s, e), iface) =
        IF e.name = iface /\ e.family \in IP THEN Append(OfAny(s, iface), g) ELSE OfAny(s, iface)
  BY <1>4, <1>6, <1>8 DEF OfAny
<1>10. OfOne(Append(s, e), iface, f) =
         IF Is(e, iface, f) THEN Append(OfOne(s, iface, f), g) ELSE OfOne(s, iface, f)
  BY <1>5, <1>7, <1>8 DEF OfOne, Is
<1>11. /\ OfThose(s, iface, f) \in Seq(R)
       /\ Where(Append(OfAny(s, iface), g), "family", f) =
            IF e.family = f THEN Append(OfThose(s, iface, f), g) ELSE OfThose(s, iface, f)
  <2>1. OfAny(s, iface) \in Seq(R)
    BY <1>6, <1>8
  <2> QED BY <1>1, <2>1, WhereAppend DEF OfThose
<1>12. OfThose(Append(s, e), iface, f) =
         IF Is(e, iface, f) THEN Append(OfThose(s, iface, f), g) ELSE OfThose(s, iface, f)
  BY <1>9, <1>11 DEF OfThose, Is, IP
<1> QED BY <1>6, <1>8, <1>9, <1>10, <1>11, <1>12 DEF g, R

\* Nothing is found in an empty list.
LEMMA FoundEmpty ==
    ASSUME NEW iface, NEW f
    PROVE  /\ OfAny(<<>>, iface) = <<>>
           /\ OfThose(<<>>, iface, f) = <<>>
           /\ OfOne(<<>>, iface, f) = <<>>
<1>1. <<>> \in Seq({0}) /\ 0 \in {0}
  OBVIOUS
<1>2. \A g : AllInterfaceAddresses(<<>>, g) = <<>>
  BY <1>1, AllAppend
<1> QED BY <1>2, WhereEmpty DEF OfAny, OfThose, OfOne

-----------------------------------------------------------------------------
(* Counting in sequences.                                                    *)

\* How many members of a sequence are in a set.
Count(q, G) == Cardinality({k \in DOMAIN q : q[k] \in G})

\* One element more counts if it is in the set.
LEMMA CountAppend ==
    ASSUME NEW S, NEW q \in Seq(S), NEW e \in S, NEW G
    PROVE  /\ Count(q, G) \in Nat
           /\ Count(Append(q, e), G) = IF e \in G THEN Count(q, G) + 1 ELSE Count(q, G)
<1> DEFINE n == Len(q)
           t == Append(q, e)
           at == {k \in DOMAIN q : q[k] \in G}
<1>1. n \in Nat /\ DOMAIN q = 1 .. n /\ DOMAIN t = 1 .. n + 1 /\ t[n + 1] = e
  OBVIOUS
<1>2. \A k \in 1 .. n : t[k] = q[k]
  OBVIOUS
<1> HIDE DEF n, t
<1>3. IsFiniteSet(at)
  <2>1. IsFiniteSet(1 .. n)
    BY <1>1, FS_Interval
  <2> QED BY <1>1, <2>1, FS_Subset
<1>4. {k \in DOMAIN t : t[k] \in G} = IF e \in G THEN at \cup {n + 1} ELSE at
  BY <1>1, <1>2
<1>5. n + 1 \notin at
  BY <1>1
<1> HIDE DEF at
<1>6. Cardinality(at) \in Nat
  BY <1>3, FS_CardinalityType
<1>7. Cardinality(at \cup {n + 1}) = Cardinality(at) + 1
  BY <1>3, <1>5, FS_AddElement
<1> QED BY <1>4, <1>6, <1>7 DEF Count, at, t

\* There is none in the empty sequence.
LEMMA CountEmpty ==
    ASSUME NEW G
    PROVE  Count(<<>>, G) = 0
<1>1. {k \in DOMAIN <<>> : <<>>[k] \in G} = {}
  OBVIOUS
<1> QED BY <1>1, FS_EmptySet DEF Count

\* The entries of interfaces with names in N, whatever the length of their prefix.
Listed(N) == {Entry(n, f, p) : n \in N, f \in Families, p \in 1 .. 32}

\* What is kept of an entry of an IP family tells which one it was: the length
\* counted in its mask is that of its prefix.
LEMMA EntryIs ==
    ASSUME NEW N, NEW e \in Listed(N), NEW iface, NEW f \in IP, NEW p \in 1 .. 32
    PROVE  e = Entry(iface, f, p) <=> Is(e, iface, f) /\ Given(e).len = p
<1>1. PICK n \in N, h \in Families, q \in 1 .. 32 : e = Entry(n, h, q)
  BY DEF Listed
<1>2. e.name = n /\ e.family = h
  BY <1>1 DEF Entry
<1>3. \A m, g, r : Entry(m, g, r).name = m /\ Entry(m, g, r).family = g
  BY DEF Entry
<1>4. ASSUME h \in IP
      PROVE  Given(e).len = q
  <2>1. Given(e).len = PrefixLen(e)
    BY DEF Given
  <2>2. CASE h = "inet"
    <3>1. PrefixLen(e) = PrefixLen4(Ipv4SubnetMask(q))
      BY <1>1, <1>2, <2>2 DEF PrefixLen, Entry
    <3>2. q \in 1 .. 32
      OBVIOUS
    <3> QED BY <2>1, <3>1, <3>2, SubnetMask4
  <2>3. CASE h = "inet6"
    <3>1. PrefixLen(e) = PrefixLen6(Ipv6SubnetMask(q))
      BY <1>1, <1>2, <2>3 DEF PrefixLen, Entry
    <3>2. q \in 0 .. 128
      OBVIOUS
    <3> QED BY <2>1, <3>1, <3>2, SubnetMask6
  <2> QED BY <1>4, <2>2, <2>3 DEF IP
<1>5. ASSUME Is(e, iface, f)
      PROVE  e = Entry(iface, f, q) /\ Given(e).len = q
  BY <1>1, <1>2, <1>4, <1>5 DEF Is
<1>6. ASSUME e = Entry(iface, f, p)
      PROVE  Is(e, iface, f) /\ Given(e).len = p
  <2>1. Is(e, iface, f)
    BY <1>3, <1>6 DEF Is
  <2>2. Given(e).len = PrefixLen(e)
    BY DEF Given
  <2>3. CASE f = "inet"
    <3>1. PrefixLen(e) = PrefixLen4(Ipv4SubnetMask(p))
      BY <1>6, <2>3 DEF PrefixLen, Entry
    <3>2. p \in 1 .. 32
      OBVIOUS
    <3>3. PrefixLen4(Ipv4SubnetMask(p)) = p
      BY <3>2, SubnetMask4
    <3> QED BY <2>1, <2>2, <3>1, <3>3
  <2>4. CASE f = "inet6"
    <3>1. PrefixLen(e) = PrefixLen6(Ipv6SubnetMask(p))
      BY <1>6, <2>4 DEF PrefixLen, Entry
    <3>2. p \in 0 .. 128
      OBVIOUS
    <3>3. PrefixLen6(Ipv6SubnetMask(p)) = p
      BY <3>2, SubnetMask6
    <3> QED BY <2>1, <2>2, <3>1, <3>3
  <2> QED BY <2>3, <2>4 DEF IP
<1> QED BY <1>5, <1>6

\* The members of a result whose prefix has that length.
Sized(N, p) == {r \in {Given(a) : a \in Listed(N)} : r.len = p}

\* What is found in a list of any length, family by family and entry by entry.
LEMMA FoundOnce ==
    ASSUME NEW N, NEW iface, NEW s \in Seq(Listed(N))
    PROVE  /\ OfAny(s, iface) \in Seq({Given(a) : a \in Listed(N)})
           /\ \A f \in IP : /\ OfThose(s, iface, f) \in Seq({Given(a) : a \in Listed(N)})
                            /\ OfOne(s, iface, f) = OfThose(s, iface, f)
           /\ Len(OfAny(s, iface)) =
                Len(OfThose(s, iface, "inet")) + Len(OfThose(s, iface, "inet6"))
           /\ \A f \in IP, p \in 1 .. 32 :
                Count(OfThose(s, iface, f), Sized(N, p)) = Count(s, {Entry(iface, f, p)})
<1> DEFINE R == {Given(a) : a \in Listed(N)}
           Same(t) == \A f \in IP : OfOne(t, iface, f) = OfThose(t, iface, f)
           Sum(t) == Len(OfAny(t, iface)) =
                       Len(OfThose(t, iface, "inet")) + Len(OfThose(t, iface, "inet6"))
           Each(t) == \A f \in IP, p \in 1 .. 32 :
                        Count(OfThose(t, iface, f), Sized(N, p)) = Count(t, {Entry(iface, f, p)})
           T == {t \in Seq(Listed(N)) : Same(t) /\ Sum(t) /\ Each(t)}
<1>1. <<>> \in T
  <2>1. Same(<<>>)
    BY FoundEmpty
  <2>2. Sum(<<>>)
    <3>1. OfAny(<<>>, iface) = <<>> /\ \A f \in IP : OfThose(<<>>, iface, f) = <<>>
      BY FoundEmpty
    <3>2. Len(<<>>) = 0 /\ "inet" \in IP /\ "inet6" \in IP
      BY DEF IP
    <3> QED BY <3>1, <3>2
  <2>3. Each(<<>>)
    BY FoundEmpty, CountEmpty
  <2>4. <<>> \in Seq(Listed(N))
    OBVIOUS
  <2> HIDE DEF Same, Sum, Each
  <2> QED BY <2>1, <2>2, <2>3, <2>4
<1>2. ASSUME NEW t \in Seq(Listed(N)), NEW e \in Listed(N), t \in T
      PROVE  Append(t, e) \in T
  <2> DEFINE u == Append(t, e)
             g == Given(e)
  <2>1. g \in R
    OBVIOUS
  <2>2. \A f \in IP :
          /\ OfAny(u, iface) = IF e.name = iface /\ e.family \in IP
               THEN Append(OfAny(t, iface), g) ELSE OfAny(t, iface)
          /\ OfThose(u, iface, f) = IF Is(e, iface, f)
               THEN Append(OfThose(t, iface, f), g) ELSE OfThose(t, iface, f)
          /\ OfOne(u, iface, f) = IF Is(e, iface, f)
               THEN Append(OfOne(t, iface, f), g) ELSE OfOne(t, iface, f)
          /\ OfAny(t, iface) \in Seq(R)
          /\ OfThose(t, iface, f) \in Seq(R)
    BY FoundAppend
  <2>3. \A f \in IP, p \in 1 .. 32 :
          e = Entry(iface, f, p) <=> Is(e, iface, f) /\ g.len = p
    BY EntryIs
  <2>4. u \in Seq(Listed(N))
    OBVIOUS
  <2>5. Same(t) /\ Sum(t) /\ Each(t)
    BY <1>2
  <2>6. \A f \in IP, p \in 1 .. 32 :
          Count(u, {Entry(iface, f, p)}) = IF e = Entry(iface, f, p)
            THEN Count(t, {Entry(iface, f, p)}) + 1 ELSE Count(t, {Entry(iface, f, p)})
    BY CountAppend
  <2> HIDE DEF R, g, u
  <2>7. Same(u)
    <3> SUFFICES ASSUME NEW f \in IP
                 PROVE  OfOne(u, iface, f) = OfThose(u, iface, f)
      OBVIOUS
    <3>1. OfOne(t, iface, f) = OfThose(t, iface, f)
      BY <2>5
    <3> QED BY <2>2, <3>1
  <2>8. Sum(u)
    <3>1. "inet" \in IP /\ "inet6" \in IP
      BY DEF IP
    <3> DEFINE any == OfAny(t, iface)
               v4 == OfThose(t, iface, "inet")
               v6 == OfThose(t, iface, "inet6")
    <3>2. any \in Seq(R) /\ v4 \in Seq(R) /\ v6 \in Seq(R) /\ Len(any) = Len(v4) + Len(v6)
      BY <2>2, <2>5, <3>1
    <3>3. /\ OfAny(u, iface) = IF e.name = iface /\ e.family \in IP THEN Append(any, g) ELSE any
          /\ OfThose(u, iface, "inet") = IF Is(e, iface, "inet") THEN Append(v4, g) ELSE v4
          /\ OfThose(u, iface, "inet6") = IF Is(e, iface, "inet6") THEN Append(v6, g) ELSE v6
      BY <2>2, <3>1
    <3> HIDE DEF any, v4, v6
    <3>4. /\ Len(any) \in Nat /\ Len(v4) \in Nat /\ Len(v6) \in Nat
          /\ Len(Append(any, g)) = Len(any) + 1
          /\ Len(Append(v4, g)) = Len(v4) + 1
          /\ Len(Append(v6, g)) = Len(v6) + 1
      <4>1. \A q \in Seq(R) : Len(q) \in Nat /\ Len(Append(q, g)) = Len(q) + 1
        BY <2>1
      <4> QED BY <3>2, <4>1
    <3>5. /\ e.name = iface /\ e.family \in IP <=> Is(e, iface, "inet") \/ Is(e, iface, "inet6")
          /\ ~(Is(e, iface, "inet") /\ Is(e, iface, "inet6"))
      BY DEF Is, IP
    <3> QED BY <3>2, <3>3, <3>4, <3>5
  <2>9. Each(u)
    <3> SUFFICES ASSUME NEW f \in IP, NEW p \in 1 .. 32
                 PROVE  Count(OfThose(u, iface, f), Sized(N, p)) = Count(u, {Entry(iface, f, p)})
      OBVIOUS
    <3> DEFINE v == OfThose(t, iface, f)
    <3>1. Count(v, Sized(N, p)) = Count(t, {Entry(iface, f, p)}) /\ v \in Seq(R)
      BY <2>2, <2>5
    <3>2. OfThose(u, iface, f) = IF Is(e, iface, f) THEN Append(v, g) ELSE v
      BY <2>2
    <3> HIDE DEF v
    <3>3. Count(Append(v, g), Sized(N, p)) =
            IF g \in Sized(N, p) THEN Count(v, Sized(N, p)) + 1 ELSE Count(v, Sized(N, p))
      BY <2>1, <3>1, CountAppend
    <3>4. g \in Sized(N, p) <=> g.len = p
      BY <2>1 DEF Sized, R
    <3>5. e = Entry(iface, f, p) <=> Is(e, iface, f) /\ g.len = p
      BY <2>3
    <3>6. Count(u, {Entry(iface, f, p)}) = IF e = Entry(iface, f, p)
            THEN Count(t, {Entry(iface, f, p)}) + 1 ELSE Count(t, {Entry(iface, f, p)})
      BY <2>6
    <3> QED BY <3>1, <3>2, <3>3, <3>4, <3>5, <3>6
  <2> HIDE DEF Same, Sum, Each
  <2> QED BY <2>4, <2>7, <2>8, <2>9 DEF u
<1> HIDE DEF Same, Sum, Each
<1>3. Seq(Listed(N)) \subseteq T
  <2> HIDE DEF T
  <2> QED BY <1>1, <1>2, SeqInduction
<1>4. Same(s) /\ Sum(s) /\ Each(s)
  BY <1>3
<1>5. /\ OfAny(s, iface) \in Seq(R)
      /\ \A f \in IP : OfThose(s, iface, f) \in Seq(R)
  <2>1. CASE s = <<>>
    <3> HIDE DEF R
    <3>1. <<>> \in Seq(R)
      OBVIOUS
    <3> QED BY <2>1, <3>1, FoundEmpty
  <2>2. CASE s # <<>>
    <3>1. s[1] \in Listed(N)
      BY <2>2
    <3>2. "inet" \in IP
      BY DEF IP
    <3> QED BY <3>1, <3>2, FoundAppend
  <2> QED BY <2>1, <2>2
<1> QED BY <1>4, <1>5 DEF Same, Sum, Each

\* For no name and for "*" there is one wildcard of each family that is asked for.
LEMMA WildcardsFound ==
    ASSUME NEW f \in IP, NEW s, NEW iface \in AnyInterface
    PROVE  LET found(g) == GetInterfaceAddresses(s, iface, g) IN
           /\ found(f) = Where(found("unspec"), "family", f)
           /\ found(f) = Wildcard(f)
           /\ Len(found("unspec")) = 2
<1> DEFINE a == [name |-> "*", family |-> "inet", len |-> 0]
           b == [name |-> "*", family |-> "inet6", len |-> 0]
           R == {a, b}
           q == Append(<<>>, a)
           found(g) == GetInterfaceAddresses(s, iface, g)
<1>1. a \in R /\ b \in R /\ a["family"] = "inet" /\ b["family"] = "inet6"
  OBVIOUS
<1> HIDE DEF a, b
<1>2. /\ found("inet") = <<a>> \o <<>>
      /\ found("inet6") = <<>> \o <<b>>
      /\ found("unspec") = <<a>> \o <<b>>
  BY DEF GetInterfaceAddresses, Wildcard, a, b
<1>3. Wildcard("inet") = <<a>> /\ Wildcard("inet6") = <<b>>
  BY DEF Wildcard, a, b
<1> HIDE DEF found, R
<1>4. /\ <<a>> \o <<>> = <<a>> /\ <<>> \o <<b>> = <<b>>
      /\ <<a>> \o <<b>> = Append(q, b)
      /\ <<a>> = q /\ <<b>> = Append(<<>>, b) /\ q \in Seq(R) /\ Len(Append(q, b)) = 2
  BY <1>1
<1>5. /\ \A g : Where(q, "family", g) =
           IF g = "inet" THEN Append(<<>>, a) ELSE <<>>
      /\ \A g : Where(Append(q, b), "family", g) =
           IF g = "inet6" THEN Append(Where(q, "family", g), b) ELSE Where(q, "family", g)
  <2>1. <<>> \in Seq(R)
    OBVIOUS
  <2> HIDE DEF q
  <2>2. \A g : Where(Append(<<>>, a), "family", g) =
          IF a["family"] = g THEN Append(Where(<<>>, "family", g), a) ELSE Where(<<>>, "family", g)
    <3> DEFINE e == <<>>
    <3>1. e \in Seq(R)
      BY <2>1
    <3> HIDE DEF e
    <3>2. \A g : Where(Append(e, a), "family", g) =
            IF a["family"] = g THEN Append(Where(e, "family", g), a) ELSE Where(e, "family", g)
      BY <1>1, <3>1, WhereAppend
    <3> QED BY <3>2 DEF e
  <2>3. \A g : Where(Append(q, b), "family", g) =
          IF b["family"] = g THEN Append(Where(q, "family", g), b) ELSE Where(q, "family", g)
    BY <1>1, <1>4, WhereAppend
  <2> QED BY <1>1, <2>2, <2>3, WhereEmpty DEF q
<1>6. CASE f = "inet"
  BY <1>2, <1>3, <1>4, <1>5, <1>6 DEF found
<1>7. CASE f = "inet6"
  BY <1>2, <1>3, <1>4, <1>5, <1>7 DEF found
<1> QED BY <1>6, <1>7 DEF IP

\* What is found for any family is what is found for each, and of an interface, for
\* every length in P, as many as there are entries of that prefix.
FoundRight(s, iface, P) ==
  LET found(f) == GetInterfaceAddresses(s, iface, f)
      of(f) == Where(found("unspec"), "family", f) IN
  /\ \A f \in {"inet", "inet6"} : found(f) = of(f)
  /\ Len(found("unspec")) = Len(of("inet")) + Len(of("inet6"))
  /\ iface \in AnyInterface \/ \A f \in {"inet", "inet6"}, p \in P :
       Cardinality({k \in DOMAIN of(f) : of(f)[k].len = p}) =
       Cardinality({k \in DOMAIN s : s[k] = Entry(iface, f, p)})

\* GetInterfaceAddresses of any list of entries, with any names and prefixes: every
\* IP entry of the interface is found once, with its own prefix, and no other.
THEOREM InterfacesOnce ==
    ASSUME NEW N, NEW P, P \subseteq 1 .. 32, NEW s \in Seq(Listed(N)), NEW iface
    PROVE  FoundRight(s, iface, P)
<1> DEFINE found(f) == GetInterfaceAddresses(s, iface, f)
           of(f) == Where(found("unspec"), "family", f)
<1>1. CASE iface \in AnyInterface
  <2>1. \A f \in IP : found(f) = of(f) /\ found(f) = Wildcard(f)
    BY <1>1, WildcardsFound
  <2>2. Len(found("unspec")) = 2
    <3>1. "inet" \in IP
      BY DEF IP
    <3> QED BY <1>1, <3>1, WildcardsFound
  <2>3. \A f : Len(Wildcard(f)) = 1
    BY DEF Wildcard
  <2> HIDE DEF found, of
  <2>4. Len(of("inet")) = 1 /\ Len(of("inet6")) = 1
    BY <2>1, <2>3 DEF IP
  <2>5. Len(found("unspec")) = Len(of("inet")) + Len(of("inet6"))
    <3>1. 2 = 1 + 1
      OBVIOUS
    <3> QED BY <2>2, <2>4, <3>1, Zenon
  <2> QED BY <1>1, <2>1, <2>5 DEF IP, found, of, FoundRight
<1>2. CASE iface \notin AnyInterface
  <2> DEFINE R == {Given(a) : a \in Listed(N)}
  <2>1. \A f : found(f) = OfOne(s, iface, f)
    BY <1>2 DEF GetInterfaceAddresses, OfOne
  <2>2. found("unspec") = OfAny(s, iface)
    BY <1>2 DEF GetInterfaceAddresses, OfAny
  <2>3. \A f : of(f) = OfThose(s, iface, f)
    BY <2>2 DEF OfThose
  <2> HIDE DEF found, of, R
  <2>4. /\ \A f \in IP : /\ OfThose(s, iface, f) \in Seq(R)
                         /\ OfOne(s, iface, f) = OfThose(s, iface, f)
        /\ Len(OfAny(s, iface)) =
             Len(OfThose(s, iface, "inet")) + Len(OfThose(s, iface, "inet6"))
        /\ \A f \in IP, p \in 1 .. 32 :
             Count(OfThose(s, iface, f), Sized(N, p)) = Count(s, {Entry(iface, f, p)})
    BY FoundOnce DEF R
  <2>5. ASSUME NEW f \in IP, NEW p \in 1 .. 32
        PROVE  Cardinality({k \in DOMAIN of(f) : of(f)[k].len = p}) =
               Cardinality({k \in DOMAIN s : s[k] = Entry(iface, f, p)})
    <3>1. of(f) \in Seq(R)
      BY <2>3, <2>4
    <3>2. Count(of(f), Sized(N, p)) = Count(s, {Entry(iface, f, p)})
      BY <2>3, <2>4
    <3>3. \A k \in DOMAIN of(f) : of(f)[k] \in R
      BY <3>1
    <3>4. {k \in DOMAIN of(f) : of(f)[k] \in Sized(N, p)} = {k \in DOMAIN of(f) : of(f)[k].len = p}
      BY <3>3 DEF Sized, R
    <3>5. {k \in DOMAIN s : s[k] \in {Entry(iface, f, p)}} = {k \in DOMAIN s : s[k] = Entry(iface, f, p)}
      OBVIOUS
    <3> QED BY <3>2, <3>4, <3>5 DEF Count
  <2>6. \A f \in IP : found(f) = of(f)
    BY <2>1, <2>3, <2>4
  <2>7. Len(found("unspec")) = Len(of("inet")) + Len(of("inet6"))
    BY <2>2, <2>3, <2>4
  <2> QED BY <2>5, <2>6, <2>7 DEF IP, found, of, FoundRight
<1> QED BY <1>1, <1>2

-----------------------------------------------------------------------------
(* What is drawn.                                                            *)

\* The set each kind of input is drawn from.
Drawn ==
  /\ input.kind = "prefix" => input.of \in Words \X (0 .. 128)
  /\ input.kind = "groups" => input.of \in [1 .. 8 -> Groups]
  /\ input.kind = "host" => input.of \in (Texts({"h", ":"}, MaxText) \ {<<>>}) \X Ports
  /\ input.kind = "bytes" =>
       input.of \in Texts({0, 1, 255}, MaxBytes) \X Texts({0, 1, 255}, MaxBytes)
  /\ input.kind = "interfaces" => input.of \in Texts(Entries, 2) \X ({"lo", "eth"} \cup AnyInterface)
  /\ input.kind = "answer" => input.of \in Texts(Families, 3)
  /\ input.kind = "timeout" => input.of \in -2500 .. 2500
  /\ input.kind = "vector" => input.of \in Transfers
  /\ input.kind = "path" => input.of \in Texts({"0", "/"} \cup Range(Escape), MaxText)

\* Every input is one of those the model draws.
LEMMA DrawnHolds == Spec => []Drawn
<1>1. Init => Drawn
  BY DEF Init, Drawn
<1>2. ASSUME Drawn, [Next]_input
      PROVE  Drawn'
  <2>2. CASE UNCHANGED input
    BY <1>2, <2>2 DEF Drawn
  <2>3. CASE Draw("prefix", Words \X (0 .. 128))
    <3>1. input'.kind = "prefix" /\ input'.of \in Words \X (0 .. 128)
      BY <2>3 DEF Draw
    <3> QED BY <3>1 DEF Drawn
  <2>4. CASE Draw("groups", [1 .. 8 -> Groups])
    <3>1. input'.kind = "groups" /\ input'.of \in [1 .. 8 -> Groups]
      BY <2>4 DEF Draw
    <3> QED BY <3>1 DEF Drawn
  <2>5. CASE Draw("host", (Texts({"h", ":"}, MaxText) \ {<<>>}) \X Ports)
    <3>1. input'.kind = "host" /\ input'.of \in (Texts({"h", ":"}, MaxText) \ {<<>>}) \X Ports
      BY <2>5 DEF Draw
    <3> QED BY <3>1 DEF Drawn
  <2>6. CASE Draw("bytes", Texts({0, 1, 255}, MaxBytes) \X Texts({0, 1, 255}, MaxBytes))
    <3>1. input'.kind = "bytes" /\ input'.of \in Texts({0, 1, 255}, MaxBytes) \X Texts({0, 1, 255}, MaxBytes)
      BY <2>6 DEF Draw
    <3> QED BY <3>1 DEF Drawn
  <2>7. CASE Draw("interfaces", Texts(Entries, 2) \X ({"lo", "eth"} \cup AnyInterface))
    <3>1. input'.kind = "interfaces" /\ input'.of \in Texts(Entries, 2) \X ({"lo", "eth"} \cup AnyInterface)
      BY <2>7 DEF Draw
    <3> QED BY <3>1 DEF Drawn
  <2>8. CASE Draw("answer", Texts(Families, 3))
    <3>1. input'.kind = "answer" /\ input'.of \in Texts(Families, 3)
      BY <2>8 DEF Draw
    <3> QED BY <3>1 DEF Drawn
  <2>9. CASE Draw("timeout", -2500 .. 2500)
    <3>1. input'.kind = "timeout" /\ input'.of \in -2500 .. 2500
      BY <2>9 DEF Draw
    <3> QED BY <3>1 DEF Drawn
  <2>10. CASE Draw("vector", Transfers)
    <3>1. input'.kind = "vector" /\ input'.of \in Transfers
      BY <2>10 DEF Draw
    <3> QED BY <3>1 DEF Drawn
  <2>11. CASE Draw("path", Texts({"0", "/"} \cup Range(Escape), MaxText))
    <3>1. input'.kind = "path" /\ input'.of \in Texts({"0", "/"} \cup Range(Escape), MaxText)
      BY <2>11 DEF Draw
    <3> QED BY <3>1 DEF Drawn
  <2> QED
    BY <1>2, <2>2, <2>3, <2>4, <2>5, <2>6, <2>7, <2>8, <2>9, <2>10, <2>11 DEF Next
<1> QED BY <1>1, <1>2, PTL DEF Spec

\* A word, and an IPv6 address made of it.
LEMMA WordsTyped ==
    ASSUME NEW w \in Words
    PROVE  w \in SUBSET (0 .. 31) /\ Long(w) \in [0 .. 16 -> SUBSET (0 .. 7)]
<1>1. w \in SUBSET (0 .. 31)
  BY DEF Words
<1>2. ASSUME NEW k
      PROVE  Byte(w, k) \in SUBSET (0 .. 7)
  BY <1>1 DEF Byte
<1> QED BY <1>1, <1>2 DEF Long

\* Texts over C are sequences, over any larger set as well.
LEMMA TextsTyped ==
    ASSUME NEW C, NEW D, C \subseteq D, NEW n \in Nat, NEW t \in Texts(C, n)
    PROVE  t \in Seq(D) /\ Len(t) \in 0 .. n /\ t \in [1 .. Len(t) -> C] /\ DOMAIN t = 1 .. Len(t)
<1>1. PICK k \in 0 .. n : t \in [1 .. k -> C]
  BY DEF Texts
<1>2. k \in Nat /\ t \in [1 .. k -> D]
  BY <1>1
<1>3. t \in Seq(D) /\ Len(t) = k
  BY <1>2
<1> QED BY <1>1, <1>3

\* BitsRight: broadcast addresses and masks of every prefix, and the order of
\* addresses, for every input and every value of the constants.
THEOREM BitsHold == Spec => []BitsRight
<1>1. ASSUME Drawn
      PROVE  BroadcastIsLast
  <2> SUFFICES ASSUME input.kind = "prefix"
               PROVE  LET w == input.of[1]  p == input.of[2] IN
                      /\ p \in 1 .. 32 =>
                           Written4(Ipv4Broadcast(w, p)) = Written4(w) \cup (p + 1 .. 32)
                      /\ p # 128 =>
                           Written6(Ipv6Broadcast(Long(w), p)) = Written6(Long(w)) \cup (p + 1 .. 128)
    BY DEF BroadcastIsLast
  <2> DEFINE w == input.of[1]
             p == input.of[2]
  <2>1. w \in Words /\ p \in 0 .. 128
    BY <1>1 DEF Drawn
  <2>2. w \in SUBSET (0 .. 31) /\ Long(w) \in [0 .. 16 -> SUBSET (0 .. 7)]
    BY <2>1, WordsTyped
  <2>3. p # 128 => p \in 0 .. 127
    BY <2>1
  <2> HIDE DEF w, p
  <2>4. p \in 1 .. 32 => Written4(Ipv4Broadcast(w, p)) = Written4(w) \cup (p + 1 .. 32)
    BY <2>2, Broadcast4
  <2>5. p # 128 => Written6(Ipv6Broadcast(Long(w), p)) = Written6(Long(w)) \cup (p + 1 .. 128)
    BY <2>2, <2>3, Broadcast6
  <2> QED BY <2>4, <2>5 DEF w, p
<1>2. ASSUME Drawn
      PROVE  MasksCount
  <2> SUFFICES ASSUME input.kind = "prefix"
               PROVE  LET p == input.of[2] IN
                      /\ p \in 1 .. 32 => /\ Written4(Ipv4SubnetMask(p)) = 1 .. p
                                          /\ PrefixLen4(Ipv4SubnetMask(p)) = p
                      /\ Written6(Ipv6SubnetMask(p)) = 1 .. p
                      /\ PrefixLen6(Ipv6SubnetMask(p)) = p
    BY DEF MasksCount
  <2> DEFINE p == input.of[2]
  <2>1. p \in 0 .. 128
    BY <1>2 DEF Drawn
  <2> HIDE DEF p
  <2>2. p \in 1 .. 32 => /\ Written4(Ipv4SubnetMask(p)) = 1 .. p
                         /\ PrefixLen4(Ipv4SubnetMask(p)) = p
    BY SubnetMask4
  <2>3. /\ Written6(Ipv6SubnetMask(p)) = 1 .. p
        /\ PrefixLen6(Ipv6SubnetMask(p)) = p
    BY <2>1, SubnetMask6
  <2> QED BY <2>2, <2>3 DEF p
<1>3. ASSUME Drawn
      PROVE  LessOrders
  <2> SUFFICES ASSUME input.kind = "bytes"
               PROVE  LET a == input.of[1]  b == input.of[2] IN
                      /\ Equal(a, b) <=> a = b
                      /\ Less(a, b) <=> ~Less(b, a) /\ ~Equal(a, b)
                      /\ \A c \in Texts({0, 1, 255}, MaxBytes) :
                           Less(a, b) /\ Less(b, c) => Less(a, c)
    BY DEF LessOrders
  <2> DEFINE a == input.of[1]
             b == input.of[2]
             T == Texts({0, 1, 255}, MaxBytes)
  <2>1. a \in T /\ b \in T
    BY <1>3 DEF Drawn
  <2>2. \A c \in T : c \in Seq(Nat)
    <3>1. {0, 1, 255} \subseteq Nat /\ MaxBytes \in Nat
      BY MCAddressAssumption
    <3> QED BY <3>1, TextsTyped
  <2> HIDE DEF a, b, T
  <2>3. a \in Seq(Nat) /\ b \in Seq(Nat)
    BY <2>1, <2>2
  <2>4. /\ Equal(a, b) <=> a = b
        /\ Less(a, b) <=> ~Less(b, a) /\ ~Equal(a, b)
        /\ \A c \in Seq(Nat) : Less(a, b) /\ Less(b, c) => Less(a, c)
    BY <2>3, AddressOrder
  <2>5. \A c \in T : Less(a, b) /\ Less(b, c) => Less(a, c)
    BY <2>2, <2>4
  <2> QED BY <2>4, <2>5 DEF a, b, T
<1> QED BY <1>1, <1>2, <1>3, DrawnHolds, PTL DEF BitsRight

\* CallsExact: timeouts and vectors of buffers, for every input and every value of
\* the constants.
THEOREM CallsHold == Spec => []CallsExact
<1>1. ASSUME Drawn
      PROVE  TimeoutReadsBack
  <2>1. input.kind = "timeout" => input.of \in -2500 .. 2500
    BY <1>1 DEF Drawn
  <2> DEFINE v == input.of
  <2> HIDE DEF v
  <2>3. v \in Int => SetTimeout(v) = v /\ (Infinite(SetTimeout(v)) <=> v = -1)
    BY TimeoutKept
  <2>4. input.kind = "timeout" => SetTimeout(v) = v /\ (Infinite(SetTimeout(v)) <=> v = -1)
    <3>1. input.kind = "timeout" => v \in -2500 .. 2500
      BY <2>1 DEF v
    <3>2. v \in -2500 .. 2500 => v \in Int
      OBVIOUS
    <3> QED BY <2>3, <3>1, <3>2
  <2> QED BY <2>4 DEF TimeoutReadsBack, v
<1>2. ASSUME Drawn
      PROVE  VectorIsPrefix
  <2> SUFFICES ASSUME input.kind = "vector"
               PROVE  LET t == Vector(input.of[1], input.of[2]) IN
                      /\ IsPrefix(t.bytes, Bytes(input.of[1]))
                      /\ t.returns \in {Len(t.bytes), 0}
                      /\ t.returns = 0 /\ t.bytes # <<>> =>
                           \E i \in DOMAIN input.of[2] \ {1} : input.of[2][i] = 0
    BY DEF VectorIsPrefix
  <2> DEFINE s == input.of[1]
             m == input.of[2]
             n == Len(s)
  <2>1. /\ s \in Texts(1 .. 3, 3) /\ m \in Texts(0 .. 3, 3)
        /\ Len(m) = Len(s) /\ \A i \in DOMAIN s : m[i] <= s[i]
    BY <1>2 DEF Drawn, Transfers
  <2> HIDE DEF s, m
  <2>2. /\ Len(s) \in Nat /\ s \in [1 .. Len(s) -> 1 .. 3] /\ DOMAIN s = 1 .. Len(s)
        /\ m \in [1 .. Len(m) -> 0 .. 3]
    <3>1. 1 .. 3 \subseteq Nat /\ 0 .. 3 \subseteq Nat /\ 3 \in Nat
      OBVIOUS
    <3>2. Len(s) \in 0 .. 3 /\ s \in [1 .. Len(s) -> 1 .. 3] /\ DOMAIN s = 1 .. Len(s)
      BY <2>1, <3>1, TextsTyped
    <3>3. m \in [1 .. Len(m) -> 0 .. 3]
      BY <2>1, <3>1, TextsTyped
    <3> QED BY <3>2, <3>3
  <2>3. n \in Nat /\ s \in [1 .. n -> Nat] /\ m \in [1 .. n -> Nat] /\ \A i \in 1 .. n : m[i] <= s[i]
    BY <2>1, <2>2
  <2> HIDE DEF n
  <2>4. LET t == Vector(s, m) IN
        /\ IsPrefix(t.bytes, Bytes(s))
        /\ t.returns \in {Len(t.bytes), 0}
        /\ t.returns = 0 /\ t.bytes # <<>> => \E i \in DOMAIN m \ {1} : m[i] = 0
    BY <2>3, VectorMoves
  <2> QED BY <2>4 DEF s, m
<1> QED BY <1>1, <1>2, DrawnHolds, PTL DEF CallsExact

\* TextsRight: what is written to a text and read from one, the interfaces and the
\* answers, for every input and every value of the constants.
THEOREM TextsHold == Spec => []TextsRight
<1>1. ASSUME Drawn
      PROVE  TextReadsBack
  <2>1. ASSUME input.kind = "prefix"
        PROVE  Insert4(input.of[1]) = [k \in 1 .. 4 |-> Byte(input.of[1], k - 1)]
    <3>1. input.of[1] \in Words
      BY <1>1, <2>1 DEF Drawn
    <3>2. input.of[1] \in SUBSET (0 .. 31)
      BY <3>1, WordsTyped
    <3> QED BY <3>2, Insert4Bytes
  <2>2. ASSUME input.kind = "groups"
        PROVE  Reads(Insert6(input.of), [k \in 1 .. 8 |-> 256 * input.of[k][1] + input.of[k][2]])
    <3>1. input.of \in [1 .. 8 -> Groups]
      BY <1>1, <2>2 DEF Drawn
    <3>2. Groups \subseteq Pair
      BY DEF Groups, Pair
    <3>3. input.of \in [1 .. 8 -> Pair]
      BY <3>1, <3>2
    <3>4. Reads(Insert6(input.of), Value(input.of))
      BY <3>3, Insert6Reads
    <3> QED BY <3>4 DEF Value
  <2> QED BY <2>1, <2>2 DEF TextReadsBack
<1>2. ASSUME Drawn
      PROVE  PathsReadBack
  <2> SUFFICES ASSUME input.kind = "path"
               PROVE  LET path == input.of IN
                      /\ path # <<>> /\ Len(path) < PathMax /\ "0" \notin Range(path)
                           => getPath(UnixAddress(path)) = path
                      /\ Len(path) <= PathMax /\ Abstract(path)
                           => getPath(UnixAddress(path)) = Escape \o Tail(path)
                      /\ path = <<>> => getPath(UnixAddress(path)) = Escape
                      /\ Len(path) > PathMax => UnixAddress(path) = NULL
    BY DEF PathsReadBack
  <2> DEFINE path == input.of
             C == {"0", "/"} \cup Range(Escape)
  <2>1. path \in Texts(C, MaxText) /\ "0" \in C
    BY <1>2 DEF Drawn
  <2> HIDE DEF path, C
  <2>2. path \in Seq(C)
    BY <2>1, MCAddressAssumption, TextsTyped
  <2>3. /\ path # <<>> /\ Len(path) < PathMax /\ "0" \notin Range(path)
             => getPath(UnixAddress(path)) = path
        /\ Len(path) <= PathMax /\ Abstract(path)
             => getPath(UnixAddress(path)) = Escape \o Tail(path)
        /\ path = <<>> => getPath(UnixAddress(path)) = Escape
        /\ Len(path) > PathMax => UnixAddress(path) = NULL
    BY <2>1, <2>2, PathReadBack
  <2> QED BY <2>3 DEF path
<1>3. ASSUME Drawn
      PROVE  LookupForms
  <2> SUFFICES ASSUME input.kind = "host"
               PROVE  LET n == input.of[1]
                          p == input.of[2]
                          port == IF p = NULL THEN <<>> ELSE <<":">> \o p IN
                      /\ Lookup(<<"[">> \o n \o <<"]">> \o port) = [node |-> n, service |-> p]
                      /\ ":" \notin Range(n) => Lookup(n \o port) = [node |-> n, service |-> p]
    BY DEF LookupForms
  <2> DEFINE C == {"h", ":", "[", "]", "NULL"}
             n == input.of[1]
             p == input.of[2]
  <2>1. n \in Texts({"h", ":"}, MaxText) /\ n # <<>> /\ p \in Texts({"h"}, 2) \cup {NULL}
    BY <1>3 DEF Drawn, Ports
  <2>2. {"[", "]", ":"} \subseteq C /\ {"h", ":"} \subseteq C /\ {"h"} \subseteq C
    OBVIOUS
  <2> HIDE DEF n, p
  <2>3. n \in Seq(C) /\ n \in [1 .. Len(n) -> {"h", ":"}] /\ DOMAIN n = 1 .. Len(n)
    BY <2>1, <2>2, MCAddressAssumption, TextsTyped
  <2>4. Without(n, "[") /\ Without(n, "]")
    BY <2>3 DEF Without
  <2>5. p \in Seq(C) /\ Without(p, ":")
    <3>1. CASE p = NULL
      <4>1. "NULL" \in C /\ "NULL" # ":"
        OBVIOUS
      <4> HIDE DEF C
      <4> QED BY <3>1, <4>1 DEF NULL, Without
    <3>2. CASE p \in Texts({"h"}, 2)
      <4>1. p \in Seq(C) /\ p \in [1 .. Len(p) -> {"h"}]
        BY <2>2, <3>2, TextsTyped
      <4> QED BY <4>1 DEF Without
    <3> QED BY <2>1, <3>1, <3>2
  <2> HIDE DEF C
  <2>6. /\ Lookup(Brackets(n) \o Port(p)) = [node |-> n, service |-> p]
        /\ Without(n, ":") => Lookup(n \o Port(p)) = [node |-> n, service |-> p]
    BY <2>1, <2>2, <2>3, <2>4, <2>5, LookupParts
  <2>7. ":" \notin Range(n) => Without(n, ":")
    BY <2>3 DEF Range, Without
  <2>8. Brackets(n) = <<"[">> \o n \o <<"]">> /\ Port(p) = IF p = NULL THEN <<>> ELSE <<":">> \o p
    BY DEF Brackets, Port
  <2> QED BY <2>6, <2>7, <2>8 DEF n, p
<1>4. ASSUME Drawn
      PROVE  InterfacesFound
  <2>1. ASSUME input.kind = "interfaces"
        PROVE  LET found(f) == GetInterfaceAddresses(input.of[1], input.of[2], f)
                   of(f) == Where(found("unspec"), "family", f) IN
               /\ \A f \in {"inet", "inet6"} : found(f) = of(f)
               /\ Len(found("unspec")) = Len(of("inet")) + Len(of("inet6"))
               /\ input.of[2] \in AnyInterface \/ \A f \in {"inet", "inet6"}, p \in {8, 20} :
                    Cardinality({k \in DOMAIN of(f) : of(f)[k].len = p}) =
                    Cardinality({k \in DOMAIN input.of[1] :
                                   input.of[1][k] = Entry(input.of[2], f, p)})
    <3>1. input.of[1] \in Texts(Entries, 2)
      BY <1>4, <2>1 DEF Drawn
    <3> DEFINE L == Listed({"lo", "eth"})
    <3>2. Entries \subseteq L
      <4>1. {8, 20} \subseteq 1 .. 32
        OBVIOUS
      <4> QED BY <4>1 DEF Entries, Listed
    <3> HIDE DEF L
    <3>3. input.of[1] \in Seq(L)
      BY <3>1, <3>2, TextsTyped
    <3>4. input.of[1] \in Seq(Listed({"lo", "eth"}))
      BY <3>3 DEF L
    <3>5. {8, 20} \subseteq 1 .. 32
      OBVIOUS
    <3>6. FoundRight(input.of[1], input.of[2], {8, 20})
      BY <3>4, <3>5, InterfacesOnce
    <3> QED BY <3>6 DEF FoundRight
  <2>2. ASSUME input.kind = "answer"
        PROVE  /\ LookupAnyIPAddress(input.of) = "nullptr" <=> Range(input.of) \subseteq {"packet"}
               /\ LookupAnyIPAddress(input.of) \in Range(input.of) \cup {"nullptr"}
               /\ LookupAny(input.of) = "nullptr" <=> input.of = <<>>
    <3>1. input.of \in Texts(Families, 3)
      BY <1>4, <2>2 DEF Drawn
    <3>2. input.of \in Seq(Families)
      BY <3>1, TextsTyped
    <3> QED BY <3>2, LookupChooses
  <2> QED BY <2>1, <2>2 DEF InterfacesFound
<1> QED BY <1>1, <1>2, <1>3, <1>4, DrawnHolds, PTL DEF TextsRight

=============================================================================
