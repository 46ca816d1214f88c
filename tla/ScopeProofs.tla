----------------------------- MODULE ScopeProofs -----------------------------
(***************************************************************************)
(* Theorems about ScopeManager and ScopeGate, for address spaces, prefix     *)
(* lengths and blocked ranges of any size: parsing a scope keeps exactly the *)
(* addresses that were typed, and a tool is given no other.                  *)
(***************************************************************************)
EXTENDS ScopeGate, SequenceTheorems, FiniteSetTheorems, WellFoundedInduction, TLAPS

(* Arithmetic of aligned blocks *)

LEMMA Division ==
    ASSUME NEW a \in Nat, NEW s \in Nat \ {0}
    PROVE  /\ a \div s \in Nat /\ a % s \in 0 .. s - 1
           /\ a = ((a \div s) * s) + (a % s)
OBVIOUS

LEMMA Products ==
    ASSUME NEW a \in Int, NEW b \in Int, NEW c \in Nat, a <= b
    PROVE  a * c <= b * c
OBVIOUS

\* A quotient is the number of the block an address lies in.
LEMMA Quotient ==
    ASSUME NEW a \in Nat, NEW s \in Nat \ {0}, NEW q \in Nat
    PROVE  a \div s = q <=> q * s <= a /\ a <= q * s + s - 1
OBVIOUS

LEMMA Multiple ==
    ASSUME NEW a \in Nat, NEW s \in Nat \ {0}
    PROVE  a % s = 0 <=> \E q \in Nat : a = q * s
<1>1. /\ a \div s \in Nat /\ a % s \in Nat
      /\ a = ((a \div s) * s) + (a % s)
  BY Division
<1>2. ASSUME NEW q \in Nat, a = q * s
      PROVE  a % s = 0
  <2>1. a \div s = q
    BY <1>2, Quotient
  <2> QED  BY <1>1, <1>2, <2>1
<1>3. ASSUME a % s = 0
      PROVE  \E q \in Nat : a = q * s
  <2>1. a = (a \div s) * s
    BY <1>1, <1>3
  <2> QED  BY <1>1, <2>1
<1> QED  BY <1>2, <1>3

LEMMA Least ==
    ASSUME NEW T, T \subseteq Nat, T # {}
    PROVE  \E m \in T : \A n \in T : m <= n
<1>1. PICK m \in T : \A n \in T : ~ (<<n, m>> \in OpToRel(<, Nat))
  BY WFMin, NatLessThanWellFounded
<1>2. \A n \in T : ~ (n < m)
  BY <1>1 DEF OpToRel
<1> QED  BY <1>2

\* Of two aligned blocks that share a number the smaller lies in the larger, if
\* the larger size is a multiple of the smaller.
LEMMA Nested ==
    ASSUME NEW i \in Nat, NEW j \in Nat, NEW k \in Nat, NEW s \in Nat, NEW x \in Nat,
           i * s <= x, x < i * s + s, j * (k * s) <= x, x < j * (k * s) + k * s
    PROVE  j * (k * s) <= i * s /\ i * s + s <= j * (k * s) + k * s
<1>1. /\ j * k \in Nat /\ (j * k) * s = j * (k * s) /\ (i + 1) * s = i * s + s
      /\ (j * k + k) * s = j * (k * s) + k * s
      /\ i * s \in Nat /\ j * (k * s) \in Nat /\ k * s \in Nat
  OBVIOUS
<1>2. j * k <= i
  <2> SUFFICES ASSUME i + 1 <= j * k PROVE FALSE
    BY <1>1
  <2>1. (i + 1) * s <= (j * k) * s
    BY <1>1, Products
  <2> QED  BY <1>1, <2>1
<1>3. i + 1 <= j * k + k
  <2> SUFFICES ASSUME j * k + k <= i PROVE FALSE
    BY <1>1
  <2>1. (j * k + k) * s <= i * s
    BY <1>1, Products
  <2> QED  BY <1>1, <2>1
<1>4. (j * k) * s <= i * s
  BY <1>1, <1>2, Products
<1>5. (i + 1) * s <= (j * k + k) * s
  BY <1>1, <1>3, Products
<1> QED  BY <1>1, <1>4, <1>5

-----------------------------------------------------------------------------
(* Addresses and networks *)

LEMMA AddressTypes ==
    ASSUME NEW x \in Address
    PROVE  /\ x.v \in Versions /\ x.a \in Nat /\ Space[x.v] \in Nat /\ x.a < Space[x.v]
           /\ x = [v |-> x.v, a |-> x.a]
<1>1. PICK v \in Versions : x \in [v : {v}, a : 0 .. Space[v] - 1]
  BY DEF Address
<1>2. Space[v] \in Nat
  BY SpaceAssumption
<1> QED  BY <1>1, <1>2

LEMMA IsAddress ==
    ASSUME NEW v \in Versions, NEW a \in Nat, a < Space[v]
    PROVE  [v |-> v, a |-> a] \in Address
<1>1. Space[v] \in Nat
  BY SpaceAssumption
<1>2. [v |-> v, a |-> a] \in [v : {v}, a : 0 .. Space[v] - 1]
  BY <1>1
<1> QED  BY <1>2 DEF Address

LEMMA AddressFinite == IsFiniteSet(Address)
<1>1. ASSUME NEW v \in Versions
      PROVE  IsFiniteSet([v : {v}, a : 0 .. Space[v] - 1])
  <2>1. IsFiniteSet(0 .. Space[v] - 1)
    <3>1. 0 \in Int /\ Space[v] - 1 \in Int
      BY SpaceAssumption
    <3> QED  BY <3>1, FS_Interval
  <2>2. [a \in 0 .. Space[v] - 1 |-> [v |-> v, a |-> a]] \in
            Surjection(0 .. Space[v] - 1, [v : {v}, a : 0 .. Space[v] - 1])
    BY DEF Surjection
  <2> QED  BY <2>1, <2>2, FS_Surjection
<1>2. Address = [v : {4}, a : 0 .. Space[4] - 1] \cup [v : {6}, a : 0 .. Space[6] - 1]
  BY DEF Address, Versions
<1> QED  BY <1>1, <1>2, FS_Union DEF Versions

LEMMA NetworkTypes ==
    ASSUME NEW n \in Network
    PROVE  /\ n.v \in Versions /\ n.base \in Nat /\ n.size \in Sizes /\ n.size \in Nat \ {0}
           /\ n.base % n.size = 0
           /\ Space[n.v] \in Nat /\ n.base + n.size <= Space[n.v]
           /\ n = [v |-> n.v, base |-> n.base, size |-> n.size]
<1>1. PICK v \in Versions : n \in [v : {v}, base : 0 .. Space[v] - 1, size : Sizes]
  BY DEF Network
<1>2. Space[v] \in Nat
  BY SpaceAssumption
<1>3. n.size \in Nat \ {0}
  BY <1>1, SizesAssumption
<1>4. n.base % n.size = 0 /\ n.base + n.size <= Space[n.v]
  BY DEF Network
<1> QED  BY <1>1, <1>2, <1>3, <1>4

LEMMA IsNetwork ==
    ASSUME NEW v \in Versions, NEW base \in Nat, NEW size \in Sizes,
           base % size = 0, base + size <= Space[v]
    PROVE  [v |-> v, base |-> base, size |-> size] \in Network
<1>1. Space[v] \in Nat /\ size \in Nat \ {0}
  BY SpaceAssumption, SizesAssumption
<1>2. [v |-> v, base |-> base, size |-> size] \in
          [v : {v}, base : 0 .. Space[v] - 1, size : Sizes]
  BY <1>1
<1> QED  BY <1>2 DEF Network

\* The addresses of a network: those of its version and block.
LEMMA NetworkAddresses ==
    ASSUME NEW n \in Network, NEW x
    PROVE  x \in AddressesOf(n) <=>
              /\ x \in Address /\ x.v = n.v
              /\ n.base <= x.a /\ x.a < n.base + n.size
<1>1. /\ n.v \in Versions /\ n.base \in Nat /\ n.size \in Nat \ {0}
      /\ Space[n.v] \in Nat /\ n.base + n.size <= Space[n.v]
  BY NetworkTypes
<1>2. ASSUME x \in AddressesOf(n)
      PROVE  /\ x \in Address /\ x.v = n.v
             /\ n.base <= x.a /\ x.a < n.base + n.size
  <2>1. PICK a \in n.base .. n.base + n.size - 1 : x = [v |-> n.v, a |-> a]
    BY <1>2 DEF AddressesOf, Span
  <2>2. a \in Nat /\ a < Space[n.v] /\ n.base <= a /\ a < n.base + n.size
    BY <1>1, <2>1
  <2> QED  BY <1>1, <2>1, <2>2, IsAddress
<1>3. ASSUME x \in Address, x.v = n.v, n.base <= x.a, x.a < n.base + n.size
      PROVE  x \in AddressesOf(n)
  <2>1. x = [v |-> n.v, a |-> x.a] /\ x.a \in Nat
    BY <1>3, AddressTypes
  <2>2. x.a \in n.base .. n.base + n.size - 1
    BY <1>1, <1>3, <2>1
  <2> QED  BY <2>1, <2>2 DEF AddressesOf, Span
<1> QED  BY <1>2, <1>3

\* No network is empty.
LEMMA NetworkHasAddress ==
    ASSUME NEW n \in Network
    PROVE  \E x \in AddressesOf(n) : x.v = n.v
<1>1. /\ n.v \in Versions /\ n.base \in Nat /\ n.size \in Nat \ {0}
      /\ Space[n.v] \in Nat /\ n.base + n.size <= Space[n.v]
  BY NetworkTypes
<1> DEFINE x == [v |-> n.v, a |-> n.base]
<1>2. x \in Address
  BY <1>1, IsAddress
<1>3. x \in AddressesOf(n) /\ x.v = n.v
  BY <1>1, <1>2, NetworkAddresses
<1> QED  BY <1>3

\* Networks are nested or apart.
LEMMA Laminar ==
    ASSUME NEW m \in Network, NEW n \in Network, Overlaps(m, n), n.size <= m.size
    PROVE  /\ \A x \in AddressesOf(n) : x \in AddressesOf(m)
           /\ m.size = n.size => m = n
<1>1. PICK x \in AddressesOf(m) : x \in AddressesOf(n)
  BY DEF Overlaps
<1>2. /\ x \in Address /\ x.v = m.v /\ x.v = n.v /\ x.a \in Nat
      /\ m.base <= x.a /\ x.a < m.base + m.size
      /\ n.base <= x.a /\ x.a < n.base + n.size
  BY <1>1, NetworkAddresses, AddressTypes
<1>3. /\ m.size \in Nat \ {0} /\ n.size \in Nat \ {0} /\ m.base \in Nat /\ n.base \in Nat
      /\ m = [v |-> m.v, base |-> m.base, size |-> m.size]
      /\ n = [v |-> n.v, base |-> n.base, size |-> n.size]
  BY NetworkTypes
<1>4. PICK i \in Nat : n.base = i * n.size
  BY <1>3, NetworkTypes, Multiple
<1>5. PICK j \in Nat : m.base = j * m.size
  BY <1>3, NetworkTypes, Multiple
<1>6. PICK k \in Nat : m.size = k * n.size
  <2>1. m.size % n.size = 0
    BY NetworkTypes, SizesAssumption
  <2> QED  BY <1>3, <2>1, Multiple
<1>7. m.base <= n.base /\ n.base + n.size <= m.base + m.size
  BY <1>2, <1>3, <1>4, <1>5, <1>6, Nested
<1>8. \A y \in AddressesOf(n) : y \in AddressesOf(m)
  <2> TAKE y \in AddressesOf(n)
  <2>1. /\ y \in Address /\ y.v = n.v /\ y.a \in Nat
        /\ n.base <= y.a /\ y.a < n.base + n.size
    BY NetworkAddresses, AddressTypes
  <2>2. m.base <= y.a /\ y.a < m.base + m.size
    BY <1>3, <1>7, <2>1
  <2> QED  BY <1>2, <2>1, <2>2, NetworkAddresses
<1>9. m.size = n.size => m = n
  BY <1>2, <1>3, <1>7
<1> QED  BY <1>8, <1>9

-----------------------------------------------------------------------------
(* parse *)

Disjoint(nets) == \A m, n \in nets : Overlaps(m, n) => m = n

LEMMA InCover ==
    ASSUME NEW nets, NEW x
    PROVE  x \in Cover(nets) <=> \E n \in nets : x \in AddressesOf(n)
BY DEF Cover

\* Among the blocks that hold an address of a set and fit into it, one is the
\* largest.
LEMMA LargestAt ==
    ASSUME NEW A, \A y \in A : y \in Address, NEW x \in A
    PROVE  \E n \in LargestBlocks(A) : x \in AddressesOf(n)
<1> DEFINE Fit == {n \in Network : AddressesOf(n) \subseteq A}
           At == {n \in Fit : x \in AddressesOf(n)}
           Rest == {Space[x.v] - n.size : n \in At}
<1>1. /\ x \in Address /\ x.v \in Versions /\ x.a \in Nat /\ Space[x.v] \in Nat
      /\ x.a < Space[x.v] /\ x = [v |-> x.v, a |-> x.a]
  BY AddressTypes
<1>2. At # {}
  <2>1. PICK one : one = [v |-> x.v, base |-> x.a, size |-> 1]
    OBVIOUS
  <2>2. one \in Network
    <3>1. x.a % 1 = 0 /\ 1 \in Sizes /\ x.a + 1 <= Space[x.v]
      BY <1>1, SizesAssumption
    <3> QED  BY <1>1, <2>1, <3>1, IsNetwork
  <2>3. ASSUME NEW y \in AddressesOf(one)
        PROVE  y = x
    <3>1. /\ y \in Address /\ y.v = x.v /\ y.a \in Nat /\ x.a <= y.a /\ y.a < x.a + 1
          /\ y = [v |-> y.v, a |-> y.a]
      BY <2>1, <2>2, NetworkAddresses, AddressTypes
    <3> QED  BY <1>1, <3>1
  <2>4. x \in AddressesOf(one)
    BY <1>1, <2>1, <2>2, NetworkAddresses
  <2> QED  BY <2>2, <2>3, <2>4
<1>3. ASSUME NEW n \in At
      PROVE  n.size \in Nat /\ n.size <= Space[x.v]
  <2>1. n \in Network /\ n.v = x.v
    BY NetworkAddresses
  <2>2. n.base \in Nat /\ n.size \in Nat \ {0} /\ n.base + n.size <= Space[n.v]
    BY <2>1, NetworkTypes
  <2> QED  BY <1>1, <2>1, <2>2
<1>4. PICK least \in Rest : \A r \in Rest : least <= r
  <2>1. Rest \subseteq Nat /\ Rest # {}
    BY <1>1, <1>2, <1>3
  <2> QED  BY <2>1, Least
<1>5. PICK n \in At : least = Space[x.v] - n.size
  BY <1>4
<1>6. ASSUME NEW m \in Fit, Overlaps(m, n)
      PROVE  m.size <= n.size
  <2>0. m.size \in Nat /\ n.size \in Nat
    BY NetworkTypes
  <2> SUFFICES ASSUME n.size <= m.size PROVE m.size <= n.size
    BY <2>0
  <2>1. x \in AddressesOf(m)
    BY <1>6, Laminar
  <2>2. least <= Space[x.v] - m.size
    BY <1>4, <2>1
  <2> QED  BY <1>1, <1>5, <2>0, <2>2
<1>7. n \in LargestBlocks(A)
  BY <1>6 DEF LargestBlocks
<1> QED  BY <1>7

\* summarize_address_range and collapse_addresses neither add nor lose an
\* address, and their blocks are apart.
LEMMA LargestBlocksExact ==
    ASSUME NEW A, \A x \in A : x \in Address
    PROVE  /\ \A n \in LargestBlocks(A) : n \in Network
           /\ Disjoint(LargestBlocks(A))
           /\ \A x : x \in Cover(LargestBlocks(A)) <=> x \in A
<1>1. \A n \in LargestBlocks(A) : n \in Network /\ AddressesOf(n) \subseteq A
  BY DEF LargestBlocks
<1>2. \A x : x \in Cover(LargestBlocks(A)) => x \in A
  BY <1>1, InCover
<1>3. \A x \in A : x \in Cover(LargestBlocks(A))
  BY LargestAt, InCover
<1>4. ASSUME NEW m \in LargestBlocks(A), NEW n \in LargestBlocks(A), Overlaps(m, n)
      PROVE  m = n
  <2>1. Overlaps(n, m)
    BY <1>4 DEF Overlaps
  <2>2. m.size <= n.size /\ n.size <= m.size
    BY <1>1, <1>4, <2>1 DEF LargestBlocks
  <2>3. m.size \in Nat /\ n.size \in Nat
    BY <1>1, NetworkTypes
  <2> QED  BY <1>1, <1>4, <2>2, <2>3, Laminar
<1> QED  BY <1>1, <1>2, <1>3, <1>4 DEF Disjoint

\* A line of a scope is parsed into networks with just its addresses.
LEMMA ParseTokenExact ==
    ASSUME NEW t \in Tokens, WellFormed(t)
    PROVE  /\ \A n \in ParseToken(t) : n \in Network
           /\ \A x : x \in Cover(ParseToken(t)) <=> x \in Meaning(t)
           /\ \A x \in Meaning(t) : x \in Address
<1>1. CASE t.kind = "net"
  <2>1. /\ t.v \in Versions /\ t.size \in Sizes /\ t.size \in Nat \ {0}
        /\ Space[t.v] \in Nat /\ t.a \in Nat /\ t.a < Space[t.v] /\ Space[t.v] % t.size = 0
    <3>1. t.v \in Versions /\ t.a \in 0 .. Space[t.v] - 1 /\ t.size \in Sizes
      BY <1>1, TokensAssumption
    <3>2. Space[t.v] % t.size = 0
      BY <1>1, TokensAssumption
    <3>3. Space[t.v] \in Nat /\ t.size \in Nat \ {0}
      BY <3>1, SpaceAssumption, SizesAssumption
    <3>4. t.a \in Nat /\ t.a < Space[t.v]
      BY <3>1, <3>3
    <3> QED  BY <3>1, <3>2, <3>3, <3>4
  <2>2. \A n : n \in ParseToken(t) <=>
               /\ n \in Network /\ n.v = t.v /\ n.size = t.size
               /\ n.base <= t.a /\ t.a < n.base + n.size
    <3>1. \A n \in Network : n.base \in Nat /\ n.size \in Nat
      BY NetworkTypes
    <3> QED  BY <1>1, <2>1, <3>1 DEF ParseToken
  <2>3. \A x : x \in Meaning(t) <=>
               /\ x \in Address /\ x.v = t.v /\ x.a \div t.size = t.a \div t.size
    BY <1>1 DEF Meaning
  <2>4. ASSUME NEW n \in ParseToken(t), NEW x \in AddressesOf(n)
        PROVE  x \in Meaning(t)
    <3>1. /\ n \in Network /\ n.v = t.v /\ n.size = t.size /\ n.base \in Nat
          /\ n.base <= t.a /\ t.a < n.base + t.size
      BY <2>2, NetworkTypes
    <3>2. /\ x \in Address /\ x.v = t.v /\ x.a \in Nat
          /\ n.base <= x.a /\ x.a < n.base + t.size
      BY <3>1, NetworkAddresses, AddressTypes
    <3>3. PICK q \in Nat : n.base = q * t.size
      BY <3>1, NetworkTypes, Multiple
    <3>4. x.a \div t.size = q
      <4>1. q * t.size <= x.a /\ x.a <= q * t.size + t.size - 1
        BY <2>1, <3>1, <3>2, <3>3
      <4> QED  BY <2>1, <3>2, <4>1, Quotient
    <3>5. t.a \div t.size = q
      <4>1. q * t.size <= t.a /\ t.a <= q * t.size + t.size - 1
        BY <2>1, <3>1, <3>3
      <4> QED  BY <2>1, <4>1, Quotient
    <3> QED  BY <2>3, <3>2, <3>4, <3>5
  <2>5. ASSUME NEW x \in Meaning(t)
        PROVE  \E n \in ParseToken(t) : x \in AddressesOf(n)
    <3>1. PICK q : q = t.a \div t.size
      OBVIOUS
    <3>2. q \in Nat /\ q * t.size \in Nat /\ q * t.size <= t.a /\ t.a < q * t.size + t.size
      <4>1. q \in Nat
        BY <2>1, <3>1, Division
      <4>2. q * t.size <= t.a /\ t.a <= q * t.size + t.size - 1
        BY <2>1, <3>1, <4>1, Quotient
      <4>3. q * t.size \in Nat
        BY <2>1, <4>1
      <4> QED  BY <2>1, <4>1, <4>2, <4>3
    <3>3. /\ x \in Address /\ x.v = t.v /\ x.a \in Nat
          /\ q * t.size <= x.a /\ x.a < q * t.size + t.size
      <4>1. x \in Address /\ x.v = t.v /\ x.a \in Nat /\ x.a \div t.size = q
        BY <2>3, <3>1, AddressTypes
      <4>2. q * t.size <= x.a /\ x.a <= q * t.size + t.size - 1
        BY <2>1, <3>2, <4>1, Quotient
      <4> QED  BY <2>1, <3>2, <4>1, <4>2
    <3>4. q * t.size + t.size <= Space[t.v]
      <4>1. PICK k \in Nat : Space[t.v] = k * t.size
        BY <2>1, Multiple
      <4>2. q + 1 <= k
        <5> SUFFICES ASSUME k <= q PROVE FALSE
          BY <3>2
        <5>1. k * t.size <= q * t.size
          BY <2>1, <3>2, Products
        <5> QED  BY <2>1, <3>2, <4>1, <5>1
      <4>3. (q + 1) * t.size <= k * t.size /\ (q + 1) * t.size = q * t.size + t.size
        BY <2>1, <3>2, <4>2, Products
      <4> QED  BY <4>1, <4>3
    <3>5. PICK n : n = [v |-> t.v, base |-> q * t.size, size |-> t.size]
      OBVIOUS
    <3>6. n \in Network
      <4>1. (q * t.size) % t.size = 0
        BY <2>1, <3>2, Multiple
      <4> QED  BY <2>1, <3>2, <3>4, <3>5, <4>1, IsNetwork
    <3>7. n \in ParseToken(t)
      BY <2>2, <3>2, <3>5, <3>6
    <3>8. x \in AddressesOf(n)
      BY <3>3, <3>5, <3>6, NetworkAddresses
    <3> QED  BY <3>7, <3>8
  <2> QED  BY <2>2, <2>3, <2>4, <2>5, InCover
<1>2. CASE t.kind # "net"
  <2>1. /\ t.kind = "range" /\ t.v = t.w /\ t.v \in Versions /\ t.a \in Nat /\ t.b \in Nat
        /\ Space[t.v] \in Nat /\ t.b < Space[t.v]
    BY <1>2, TokensAssumption, SpaceAssumption DEF WellFormed
  <2>2. PICK A : A = Span(t.v, t.a, t.b)
    OBVIOUS
  <2>3. \A x \in A : x \in Address
    <3> TAKE x \in A
    <3>1. PICK a \in t.a .. t.b : x = [v |-> t.v, a |-> a]
      BY <2>2 DEF Span
    <3> QED  BY <2>1, <3>1, IsAddress
  <2>4. ParseToken(t) = LargestBlocks(A) /\ Meaning(t) = A
    BY <1>2, <2>2 DEF ParseToken, Meaning
  <2> QED  BY <2>3, <2>4, LargestBlocksExact
<1> QED  BY <1>1, <1>2

\* Collapsing keeps the addresses, and leaves no overlap.
LEMMA CollapseExact ==
    ASSUME NEW nets, \A n \in nets : n \in Network
    PROVE  /\ \A n \in Collapse(nets) : n \in Network
           /\ Disjoint(Collapse(nets))
           /\ \A x : x \in Cover(Collapse(nets)) <=> x \in Cover(nets)
<1> DEFINE A(v) == Cover(OfVersion(nets, v))
<1>1. \A v : \A x : x \in A(v) <=> x \in Cover(nets) /\ x.v = v
  BY NetworkAddresses, InCover DEF OfVersion
<1>2. \A x \in Cover(nets) : x \in Address /\ x.v \in {4, 6}
  BY NetworkAddresses, InCover, AddressTypes DEF Versions
<1>3. ASSUME NEW v
      PROVE  /\ \A n \in LargestBlocks(A(v)) : n \in Network
             /\ Disjoint(LargestBlocks(A(v)))
             /\ \A x : x \in Cover(LargestBlocks(A(v))) <=> x \in A(v)
  BY <1>1, <1>2, LargestBlocksExact
<1>4. PICK F, S : F = LargestBlocks(A(4)) /\ S = LargestBlocks(A(6))
  OBVIOUS
<1>5. \A n : n \in Collapse(nets) <=> n \in F \/ n \in S
  BY <1>4 DEF Collapse
<1>6. ASSUME NEW n \in F, NEW x \in AddressesOf(n)
      PROVE  x.v = 4
  <2>1. x \in Cover(F)
    BY InCover
  <2>2. x \in A(4)
    BY <1>3, <1>4, <2>1
  <2> QED  BY <1>1, <2>2
<1>7. ASSUME NEW n \in S, NEW x \in AddressesOf(n)
      PROVE  x.v = 6
  <2>1. x \in Cover(S)
    BY InCover
  <2>2. x \in A(6)
    BY <1>3, <1>4, <2>1
  <2> QED  BY <1>1, <2>2
<1>8. Disjoint(Collapse(nets))
  <2>1. Disjoint(F) /\ Disjoint(S)
    BY <1>3, <1>4
  <2> QED  BY <1>5, <1>6, <1>7, <2>1 DEF Disjoint, Overlaps
<1>9. ASSUME NEW x
      PROVE  x \in Cover(Collapse(nets)) <=> x \in Cover(nets)
  <2>1. x \in Cover(Collapse(nets)) <=> x \in Cover(F) \/ x \in Cover(S)
    BY <1>5, InCover
  <2>2. (x \in Cover(F) <=> x \in A(4)) /\ (x \in Cover(S) <=> x \in A(6))
    BY <1>3, <1>4
  <2> QED  BY <1>1, <1>2, <2>1, <2>2
<1> QED  BY <1>3, <1>4, <1>5, <1>8, <1>9

\* The networks of an accepted scope hold what was typed, each address once.
LEMMA NetworksExact ==
    ASSUME NEW tokens \in SUBSET Tokens, NEW setting, Accepts(tokens, setting)
    PROVE  /\ \A n \in Networks(tokens) : n \in Network
           /\ Disjoint(Networks(tokens))
           /\ \A x : x \in Cover(Networks(tokens)) <=> \E t \in tokens : x \in Meaning(t)
<1>1. PICK nets : nets = UNION {ParseToken(t) : t \in tokens}
  OBVIOUS
<1>2. \A t \in tokens : t \in Tokens /\ WellFormed(t)
  BY DEF Accepts
<1>3. \A n : n \in nets <=> \E t \in tokens : n \in ParseToken(t)
  BY <1>1
<1>4. \A n \in nets : n \in Network
  BY <1>2, <1>3, ParseTokenExact
<1>5. \A x : x \in Cover(nets) <=> \E t \in tokens : x \in Meaning(t)
  BY <1>2, <1>3, ParseTokenExact, InCover
<1>6. Networks(tokens) = Collapse(nets)
  BY <1>1 DEF Networks
<1> QED  BY <1>4, <1>5, <1>6, CollapseExact

\* Where networks are apart, the sum of their sizes counts every address once.
LEMMA SumDisjoint ==
    ASSUME NEW nets, \A n \in nets : n \in Network, Disjoint(nets)
    PROVE  SumOfSizes(nets) = Cardinality(Cover(nets))
<1> DEFINE Pairs == UNION {{n} \X AddressesOf(n) : n \in nets}
           Home(x) == CHOOSE n \in nets : x \in AddressesOf(n)
           f == [x \in Cover(nets) |-> <<Home(x), x>>]
<1>1. ASSUME NEW x \in Cover(nets)
      PROVE  Home(x) \in nets /\ x \in AddressesOf(Home(x))
  <2>1. \E n \in nets : x \in AddressesOf(n)
    BY InCover
  <2> QED  BY <2>1
<1>2. \A n, x : <<n, x>> \in Pairs <=> n \in nets /\ x \in AddressesOf(n)
  OBVIOUS
<1>3. \A p \in Pairs : \E n, x : p = <<n, x>>
  OBVIOUS
<1>4. f \in [Cover(nets) -> Pairs]
  <2>1. \A x \in Cover(nets) : <<Home(x), x>> \in Pairs
    BY <1>1, <1>2
  <2> QED  BY <2>1
<1>5. \A x, y \in Cover(nets) : f[x] = f[y] => x = y
  <2> TAKE x, y \in Cover(nets)
  <2>1. f[x] = <<Home(x), x>> /\ f[y] = <<Home(y), y>>
    OBVIOUS
  <2> HIDE DEF f, Home
  <2> QED  BY <2>1
<1>6. \A p \in Pairs : \E x \in Cover(nets) : f[x] = p
  <2> TAKE p \in Pairs
  <2>1. PICK n, x : p = <<n, x>>
    BY <1>3
  <2>2. n \in nets /\ x \in AddressesOf(n)
    BY <1>2, <2>1
  <2>3. x \in Cover(nets)
    BY <2>2, InCover
  <2>4. Home(x) \in nets /\ x \in AddressesOf(Home(x))
    BY <1>1, <2>3
  <2>5. PICK h : h = Home(x)
    OBVIOUS
  <2>6. h = n
    <3>1. Overlaps(h, n)
      BY <2>2, <2>4, <2>5 DEF Overlaps
    <3> QED  BY <2>2, <2>4, <2>5, <3>1 DEF Disjoint
  <2>7. f[x] = <<h, x>>
    BY <2>3, <2>5
  <2> QED  BY <2>1, <2>3, <2>6, <2>7
<1>7. f \in Bijection(Cover(nets), Pairs)
  <2> HIDE DEF f, Pairs
  <2> QED  BY <1>4, <1>5, <1>6 DEF Bijection, Injection, Surjection, IsInjective
<1>8. IsFiniteSet(Cover(nets))
  <2>1. \A x \in Cover(nets) : x \in Address
    BY InCover, NetworkAddresses
  <2> QED  BY <2>1, AddressFinite, FS_Subset
<1>9. Cardinality(Cover(nets)) = Cardinality(Pairs)
  <2> HIDE DEF f, Pairs
  <2> QED  BY <1>7, <1>8, FS_Bijection DEF ExistsBijection
<1> QED  BY <1>9 DEF SumOfSizes

LEMMA VersionCover ==
    ASSUME NEW nets, \A n \in nets : n \in Network, NEW v
    PROVE  \A x : x \in Cover(OfVersion(nets, v)) <=> x \in Cover(nets) /\ x.v = v
BY NetworkAddresses, InCover DEF OfVersion

\* str(network) is read back as the network.
LEMMA StoredNetwork ==
    ASSUME NEW n \in Network
    PROVE  \A m : m \in ParseToken(AsToken(n)) <=> m = n
<1>1. /\ n.base \in Nat /\ n.size \in Nat \ {0}
      /\ n = [v |-> n.v, base |-> n.base, size |-> n.size]
  BY NetworkTypes
<1>2. PICK t : t = AsToken(n)
  OBVIOUS
<1>3. t.kind = "net" /\ t.v = n.v /\ t.a = n.base /\ t.size = n.size
  BY <1>2 DEF AsToken
<1>4. \A m : m \in ParseToken(t) <=>
             /\ m \in Network /\ m.v = n.v /\ m.size = n.size
             /\ n.base \in m.base .. m.base + m.size - 1
  BY <1>3 DEF ParseToken
<1>5. n.base \in n.base .. n.base + n.size - 1
  BY <1>1
<1>6. ASSUME NEW m \in Network, m.v = n.v, m.size = n.size,
             n.base \in m.base .. m.base + m.size - 1
      PROVE  m = n
  <2>1. /\ m.base \in Nat /\ m = [v |-> m.v, base |-> m.base, size |-> m.size]
    BY NetworkTypes
  <2>2. PICK i \in Nat : m.base = i * n.size
    BY <1>1, <1>6, <2>1, NetworkTypes, Multiple
  <2>3. PICK j \in Nat : n.base = j * n.size
    BY <1>1, NetworkTypes, Multiple
  <2>4. n.base \div n.size = i
    <3>1. i * n.size <= n.base /\ n.base <= i * n.size + n.size - 1
      BY <1>1, <1>6, <2>1, <2>2
    <3> QED  BY <1>1, <3>1, Quotient
  <2>5. n.base \div n.size = j
    <3>1. j * n.size <= n.base /\ n.base <= j * n.size + n.size - 1
      BY <1>1, <2>3
    <3> QED  BY <1>1, <3>1, Quotient
  <2>6. m.base = n.base
    BY <2>2, <2>3, <2>4, <2>5
  <2> QED  BY <1>1, <1>6, <2>1, <2>6
<1> QED  BY <1>2, <1>4, <1>5, <1>6

\* What create_scan accepts of a stored scope keeps to the settings.
LEMMA StoredMeets ==
    ASSUME NEW nets, \A n \in nets : n \in Network, NEW setting,
           Accepts(CidrList(nets), setting)
    PROVE  /\ \A n \in nets : ValidateNetwork(n, setting)
           /\ Cardinality(Cover(OfVersion(nets, 4))) <= setting.maxHosts
<1>1. \A n \in nets : ValidateNetwork(n, setting)
  <2> TAKE n \in nets
  <2>1. AsToken(n) \in CidrList(nets)
    BY DEF CidrList
  <2>2. n \in ParseToken(AsToken(n))
    BY StoredNetwork
  <2> QED  BY <2>1, <2>2 DEF Accepts
<1>2. PICK read : read = UNION {ParseToken(t) : t \in CidrList(nets)}
  OBVIOUS
<1>3. \A n : n \in read <=> n \in nets
  <2>1. \A n : n \in read <=> \E t \in CidrList(nets) : n \in ParseToken(t)
    BY <1>2
  <2>2. \A t : t \in CidrList(nets) <=> \E n \in nets : t = AsToken(n)
    BY DEF CidrList
  <2> QED  BY <2>1, <2>2, StoredNetwork
<1>4. read = nets
  BY <1>3
<1>5. Networks(CidrList(nets)) = Collapse(nets)
  BY <1>2, <1>4 DEF Networks
<1>6. PICK C : C = Collapse(nets)
  OBVIOUS
<1>7. /\ \A n \in C : n \in Network
      /\ Disjoint(C)
      /\ \A x : x \in Cover(C) <=> x \in Cover(nets)
  BY <1>6, CollapseExact
<1>8. Cover(OfVersion(C, 4)) = Cover(OfVersion(nets, 4))
  <2>1. \A x : x \in Cover(OfVersion(C, 4)) <=> x \in Cover(OfVersion(nets, 4))
    BY <1>7, VersionCover
  <2> QED  BY <2>1
<1>9. SumOfSizes(OfVersion(C, 4)) = Cardinality(Cover(OfVersion(C, 4)))
  <2>1. \A n \in OfVersion(C, 4) : n \in Network
    BY <1>7 DEF OfVersion
  <2>2. Disjoint(OfVersion(C, 4))
    BY <1>7 DEF OfVersion, Disjoint
  <2> QED  BY <2>1, <2>2, SumDisjoint
<1>10. SumOfSizes(OfVersion(C, 4)) <= setting.maxHosts
  BY <1>5, <1>6 DEF Accepts
<1> QED  BY <1>1, <1>8, <1>9, <1>10

\* An address of an accepted scope is of no blocked range, and of IPv6 only
\* where that is enabled.
LEMMA AcceptedIsValid ==
    ASSUME NEW tokens \in SUBSET Tokens, NEW setting, Accepts(tokens, setting),
           NEW x \in Cover(Networks(tokens))
    PROVE  /\ x \notin Cover(Blocked)
           /\ x.v = 6 => setting.ipv6
<1>1. PICK t \in tokens : x \in Meaning(t)
  BY NetworksExact
<1>2. PICK n \in ParseToken(t) : x \in AddressesOf(n)
  BY <1>1, ParseTokenExact, InCover DEF Accepts
<1>3. n \in Network
  BY <1>1, ParseTokenExact DEF Accepts
<1>4. ValidateNetwork(n, setting)
  BY <1>1, <1>2 DEF Accepts
<1>5. x.v = n.v
  BY <1>2, <1>3, NetworkAddresses
<1>6. \A b \in Blocked : x \notin AddressesOf(b)
  BY <1>2, <1>4 DEF ValidateNetwork, Overlaps
<1> QED  BY <1>4, <1>5, <1>6, InCover DEF ValidateNetwork

-----------------------------------------------------------------------------
(* A scope on its way to the tools *)

ScopeRow == [networks : SUBSET Network, typed : SUBSET Tokens, settings : Settings]
ScanRow == [scope : Nat, settings : Settings]
ToolCall == [scan : Nat, targets : SUBSET Address]

\* A stored scope is what one validate_scope made of what was typed.
ScopesInv ==
    /\ scopes \in Seq(ScopeRow)
    /\ \A k \in DOMAIN scopes :
          /\ Accepts(scopes[k].typed, scopes[k].settings)
          /\ scopes[k].networks = Networks(scopes[k].typed)

\* A scan was created from a stored scope that was still accepted.
ScansInv ==
    /\ scans \in Seq(ScanRow)
    /\ \A s \in DOMAIN scans :
          /\ scans[s].scope \in DOMAIN scopes
          /\ Accepts(CidrList(scopes[scans[s].scope].networks), scans[s].settings)

\* A tool was called for a scan, with addresses of its stored scope.
ToolInv ==
    /\ tool \in ToolCall
    /\ tool.scan # 0 =>
          /\ tool.scan \in DOMAIN scans
          /\ \A x \in tool.targets : x \in Cover(ScopeOf(tool.scan))

GateInv ==
    /\ settings \in Settings
    /\ ScopesInv /\ ScansInv /\ ToolInv
    /\ \A r \in refused : /\ r \in [scope : Nat, settings : Settings]
                          /\ r.scope \in DOMAIN scopes

LEMMA Appended ==
    ASSUME NEW S, NEW s \in Seq(S), NEW e \in S, NEW r, r = Append(s, e)
    PROVE  /\ r \in Seq(S)
           /\ \A i \in DOMAIN s : i \in DOMAIN r /\ r[i] = s[i]
           /\ \A i \in DOMAIN r : i \in DOMAIN s \/ r[i] = e
           /\ DOMAIN r \subseteq Nat \ {0}
<1>1. /\ r \in Seq(S) /\ Len(r) = Len(s) + 1 /\ Len(s) \in Nat
      /\ DOMAIN s = 1 .. Len(s) /\ DOMAIN r = 1 .. Len(r)
      /\ \A i \in 1 .. Len(s) : r[i] = s[i]
      /\ r[Len(s) + 1] = e
  BY AppendProperties, LenProperties
<1>2. \A i \in DOMAIN r : i \in DOMAIN s \/ i = Len(s) + 1
  BY <1>1
<1>3. \A i \in DOMAIN s : i \in DOMAIN r
  BY <1>1
<1>4. DOMAIN r \subseteq Nat \ {0}
  BY <1>1
<1> QED  BY <1>1, <1>2, <1>3, <1>4

LEMMA ScopeRows ==
    ASSUME ScopesInv, NEW k \in DOMAIN scopes
    PROVE  /\ k \in Nat /\ scopes[k].typed \in SUBSET Tokens
           /\ scopes[k].settings \in Settings
           /\ \A n \in scopes[k].networks : n \in Network
<1>1. k \in Nat /\ k \in 1 .. Len(scopes)
  BY LenProperties DEF ScopesInv
<1>2. scopes[k] \in ScopeRow
  BY <1>1, ElementOfSeq DEF ScopesInv
<1> QED  BY <1>1, <1>2 DEF ScopeRow

LEMMA ScanRows ==
    ASSUME ScansInv, NEW s \in DOMAIN scans
    PROVE  s \in Nat \ {0} /\ scans[s].settings \in Settings
<1>1. s \in Nat \ {0} /\ s \in 1 .. Len(scans)
  BY LenProperties DEF ScansInv
<1>2. scans[s] \in ScanRow
  BY <1>1, ElementOfSeq DEF ScansInv
<1> QED  BY <1>1, <1>2 DEF ScanRow

LEMMA GateInit == Init => GateInv
<1> SUFFICES ASSUME Init PROVE GateInv
  OBVIOUS
<1>1. \A S : <<>> \in Seq(S)
  BY EmptySeq
<1>2. DOMAIN <<>> = {}
  OBVIOUS
<1>3. ScopesInv
  BY <1>1, <1>2 DEF Init, ScopesInv
<1>4. ScansInv
  BY <1>1, <1>2 DEF Init, ScansInv
<1>5. ToolInv
  BY DEF Init, ToolInv, NoTool, ToolCall
<1> QED  BY <1>3, <1>4, <1>5 DEF Init, GateInv

\* validate_scope adds a row and changes no other.
LEMMA ValidateKeeps == GateInv /\ ValidateScope => GateInv'
<1> SUFFICES ASSUME GateInv, ValidateScope PROVE GateInv'
  OBVIOUS
<1>1. PICK tokens \in Inputs :
          /\ Accepts(tokens, settings)
          /\ scopes' = Append(scopes, [networks |-> Networks(tokens),
                                       typed |-> tokens, settings |-> settings])
  BY DEF ValidateScope
<1>2. PICK row : row = [networks |-> Networks(tokens), typed |-> tokens,
                        settings |-> settings]
  OBVIOUS
<1>3. /\ settings' = settings /\ scans' = scans /\ refused' = refused /\ tool' = tool
  BY DEF ValidateScope
<1>4. /\ settings \in Settings /\ tokens \in SUBSET Tokens
      /\ \A n \in Networks(tokens) : n \in Network
  BY <1>1, NetworksExact DEF GateInv, Inputs
<1>5. row \in ScopeRow
  BY <1>2, <1>4 DEF ScopeRow
<1>6. /\ scopes' \in Seq(ScopeRow)
      /\ \A k \in DOMAIN scopes : k \in DOMAIN scopes' /\ scopes'[k] = scopes[k]
      /\ \A k \in DOMAIN scopes' : k \in DOMAIN scopes \/ scopes'[k] = row
  <2>1. scopes \in Seq(ScopeRow) /\ scopes' = Append(scopes, row)
    BY <1>1, <1>2 DEF GateInv, ScopesInv
  <2> QED  BY <1>5, <2>1, Appended
<1>7. ScopesInv'
  <2>1. \A k \in DOMAIN scopes' :
           /\ Accepts(scopes'[k].typed, scopes'[k].settings)
           /\ scopes'[k].networks = Networks(scopes'[k].typed)
    BY <1>1, <1>2, <1>6 DEF GateInv, ScopesInv
  <2> QED  BY <1>6, <2>1 DEF ScopesInv
<1>8. ScansInv'
  BY <1>3, <1>6 DEF GateInv, ScansInv
<1>9. ToolInv'
  BY <1>3, <1>6 DEF GateInv, ScansInv, ToolInv, ScopeOf
<1> QED  BY <1>3, <1>6, <1>7, <1>8, <1>9 DEF GateInv

LEMMA CreateKeeps == GateInv /\ CreateScan => GateInv'
<1> SUFFICES ASSUME GateInv, CreateScan PROVE GateInv'
  OBVIOUS
<1>1. PICK k \in DOMAIN scopes :
          /\ StillAccepted(k)
          /\ scans' = Append(scans, [scope |-> k, settings |-> settings])
  BY DEF CreateScan
<1>2. PICK row : row = [scope |-> k, settings |-> settings]
  OBVIOUS
<1>3. settings' = settings /\ scopes' = scopes /\ refused' = refused /\ tool' = tool
  BY DEF CreateScan
<1>4. row \in ScanRow
  BY <1>2, ScopeRows DEF GateInv, ScanRow
<1>5. /\ scans' \in Seq(ScanRow)
      /\ \A s \in DOMAIN scans : s \in DOMAIN scans' /\ scans'[s] = scans[s]
      /\ \A s \in DOMAIN scans' : s \in DOMAIN scans \/ scans'[s] = row
  <2>1. scans \in Seq(ScanRow) /\ scans' = Append(scans, row)
    BY <1>1, <1>2 DEF GateInv, ScansInv
  <2> QED  BY <1>4, <2>1, Appended
<1>6. ScansInv'
  <2>1. Accepts(CidrList(scopes[k].networks), settings)
    BY <1>1 DEF StillAccepted
  <2>2. \A s \in DOMAIN scans' :
           /\ scans'[s].scope \in DOMAIN scopes
           /\ Accepts(CidrList(scopes[scans'[s].scope].networks), scans'[s].settings)
    BY <1>2, <1>5, <2>1 DEF GateInv, ScansInv
  <2> QED  BY <1>3, <1>5, <2>2 DEF ScansInv
<1>7. ToolInv'
  BY <1>3, <1>5 DEF GateInv, ToolInv, ScopeOf
<1> QED  BY <1>3, <1>6, <1>7 DEF GateInv, ScopesInv

LEMMA RunToolKeeps ==
    ASSUME GateInv, NEW s \in DOMAIN scans, NEW targets, RunTool(s, targets)
    PROVE  GateInv'
<1>1. /\ settings' = settings /\ scopes' = scopes /\ refused' = refused /\ scans' = scans
      /\ tool' = [scan |-> s, targets |-> FilterTargets(ScopeOf(s), targets)]
  BY DEF RunTool
<1>2. s \in Nat
  BY ScanRows DEF GateInv
<1>3. \A x \in FilterTargets(ScopeOf(s), targets) : x \in Address /\ x \in Cover(ScopeOf(s))
  BY DEF FilterTargets, IsInScope
<1>4. tool' \in ToolCall
  BY <1>1, <1>2, <1>3 DEF ToolCall
<1>5. ToolInv'
  <2>1. tool'.scan = s /\ tool'.targets = FilterTargets(ScopeOf(s), targets)
    BY <1>1
  <2>2. ScopeOf(s)' = ScopeOf(s)
    BY <1>1 DEF ScopeOf
  <2> QED  BY <1>1, <1>3, <1>4, <2>1, <2>2 DEF ToolInv, ScopeOf
<1> QED  BY <1>1, <1>5 DEF GateInv, ScopesInv, ScansInv

LEMMA GateStep == GateInv /\ [Next]_vars => GateInv'
<1> SUFFICES ASSUME GateInv, [Next]_vars PROVE GateInv'
  OBVIOUS
<1>1. CASE ValidateScope
  BY <1>1, ValidateKeeps
<1>2. CASE CreateScan
  BY <1>2, CreateKeeps
<1>3. CASE CreateScanRefused
  <2>1. PICK k \in DOMAIN scopes : refused' = refused \cup {[scope |-> k, settings |-> settings]}
    BY <1>3 DEF CreateScanRefused
  <2>2. settings' = settings /\ scopes' = scopes /\ scans' = scans /\ tool' = tool
    BY <1>3 DEF CreateScanRefused
  <2>3. k \in Nat /\ settings \in Settings
    BY ScopeRows DEF GateInv
  <2>4. \A r \in refused' : /\ r \in [scope : Nat, settings : Settings]
                            /\ r.scope \in DOMAIN scopes
    BY <2>1, <2>3 DEF GateInv
  <2> QED  BY <2>2, <2>4 DEF GateInv, ScopesInv, ScansInv, ToolInv, ScopeOf
<1>4. CASE Reconfigure
  BY <1>4 DEF Reconfigure, GateInv, ScopesInv, ScansInv, ToolInv, ScopeOf
<1>5. CASE DiscoverHosts
  BY <1>5, RunToolKeeps DEF DiscoverHosts
<1>6. CASE ProbeTargets
  BY <1>6, RunToolKeeps DEF ProbeTargets
<1>7. CASE UNCHANGED vars
  BY <1>7 DEF vars, GateInv, ScopesInv, ScansInv, ToolInv, ScopeOf
<1> QED  BY <1>1, <1>2, <1>3, <1>4, <1>5, <1>6, <1>7 DEF Next

LEMMA GateCorrect == Spec => []GateInv
BY GateInit, GateStep, PTL DEF Spec

\* Scopes, scans and tool calls have their types, and a scan names a stored
\* scope (models.py: scans.scope_id, scopes.cidr_list).
THEOREM TypeCorrect == Spec => []TypeOK
<1>1. GateInv => TypeOK
  <2> SUFFICES ASSUME GateInv PROVE TypeOK
    OBVIOUS
  <2>1. \A k \in DOMAIN scopes : scopes[k].networks \subseteq Network
    BY ScopeRows DEF GateInv
  <2>2. refused \subseteq [scope : DOMAIN scopes, settings : Settings]
    BY DEF GateInv
  <2>3. tool.scan \in {0} \cup DOMAIN scans /\ tool.targets \subseteq Address
    BY DEF GateInv, ToolInv, ToolCall
  <2> QED  BY <2>1, <2>2, <2>3 DEF TypeOK, GateInv, ScansInv
<1> QED  BY <1>1, GateCorrect, PTL

\* Whatever earlier tools reported and however the settings changed, no tool is
\* given an address its operator did not type, one of a blocked range, or an
\* IPv6 address typed while IPv6 was off (Scope.filter_targets and is_in_scope,
\* which every runner calls before it starts its tool).
THEOREM AuthorisedCorrect == Spec => []OnlyAuthorisedTouched
<1>1. GateInv => OnlyAuthorisedTouched
  <2> SUFFICES ASSUME GateInv, tool.scan # 0
               PROVE  LET k == scans[tool.scan].scope
                      IN  /\ tool.targets \subseteq TypedAddresses(k)
                          /\ tool.targets \cap Cover(Blocked) = {}
                          /\ \A t \in tool.targets : t.v = 6 => scopes[k].settings.ipv6
    BY DEF OnlyAuthorisedTouched
  <2>1. PICK k : k = scans[tool.scan].scope
    OBVIOUS
  <2>2. k \in DOMAIN scopes /\ \A x \in tool.targets : x \in Cover(scopes[k].networks)
    BY <2>1 DEF GateInv, ToolInv, ScansInv, ScopeOf
  <2>3. /\ scopes[k].typed \in SUBSET Tokens
        /\ Accepts(scopes[k].typed, scopes[k].settings)
        /\ scopes[k].networks = Networks(scopes[k].typed)
    BY <2>2, ScopeRows DEF GateInv, ScopesInv
  <2>4. ASSUME NEW x \in tool.targets
        PROVE  /\ x \in TypedAddresses(k) /\ x \notin Cover(Blocked)
               /\ x.v = 6 => scopes[k].settings.ipv6
    <3>1. x \in Cover(Networks(scopes[k].typed))
      BY <2>2, <2>3
    <3>2. \E t \in scopes[k].typed : x \in Meaning(t)
      BY <2>3, <3>1, NetworksExact
    <3> QED  BY <2>3, <3>1, <3>2, AcceptedIsValid DEF TypedAddresses
  <2> QED  BY <2>1, <2>4
<1> QED  BY <1>1, GateCorrect, PTL

\* What parse stores of a scope is what was typed, every address once: the
\* count shown for confirmation is the number of addresses.
THEOREM StoredScopeCorrect == Spec => []StoredScopeIsTyped
<1>1. GateInv => StoredScopeIsTyped
  <2> SUFFICES ASSUME GateInv, NEW k \in DOMAIN scopes
               PROVE  /\ Cover(scopes[k].networks) = TypedAddresses(k)
                      /\ SumOfSizes(scopes[k].networks) = Cardinality(TypedAddresses(k))
    BY DEF StoredScopeIsTyped
  <2>1. /\ scopes[k].typed \in SUBSET Tokens
        /\ Accepts(scopes[k].typed, scopes[k].settings)
        /\ scopes[k].networks = Networks(scopes[k].typed)
    BY ScopeRows DEF GateInv, ScopesInv
  <2>2. /\ \A n \in scopes[k].networks : n \in Network
        /\ Disjoint(scopes[k].networks)
        /\ \A x : x \in Cover(scopes[k].networks) <=> \E t \in scopes[k].typed : x \in Meaning(t)
    BY <2>1, NetworksExact
  <2>3. \A x : x \in TypedAddresses(k) <=> \E t \in scopes[k].typed : x \in Meaning(t)
    BY DEF TypedAddresses
  <2>4. Cover(scopes[k].networks) = TypedAddresses(k)
    <3>1. \A x : x \in Cover(scopes[k].networks) <=> x \in TypedAddresses(k)
      BY <2>2, <2>3
    <3> QED  BY <3>1
  <2>5. SumOfSizes(scopes[k].networks) = Cardinality(Cover(scopes[k].networks))
    BY <2>2, SumDisjoint
  <2> QED  BY <2>4, <2>5
<1> QED  BY <1>1, GateCorrect, PTL

\* The scope of a created scan keeps to the settings create_scan ran under: no
\* blocked range, no block that is too broad, IPv6 only where it is enabled, and
\* at most SCANNER_MAX_HOSTS IPv4 addresses.
THEOREM ScansMeetCorrect == Spec => []ScansMeetSettings
<1>1. GateInv => ScansMeetSettings
  <2> SUFFICES ASSUME GateInv, NEW s \in DOMAIN scans
               PROVE  LET nets == scopes[scans[s].scope].networks
                      IN  /\ \A n \in nets : ValidateNetwork(n, scans[s].settings)
                          /\ Cardinality(Cover(OfVersion(nets, 4))) <= scans[s].settings.maxHosts
    BY DEF ScansMeetSettings
  <2>1. PICK nets : nets = scopes[scans[s].scope].networks
    OBVIOUS
  <2>2. Accepts(CidrList(nets), scans[s].settings) /\ \A n \in nets : n \in Network
    BY <2>1, ScopeRows DEF GateInv, ScansInv
  <2> QED  BY <2>1, <2>2, StoredMeets
<1> QED  BY <1>1, GateCorrect, PTL
=============================================================================
