---------------------------- MODULE IpSetProofs ----------------------------
(***************************************************************************)
(* For every byte and address size and every list of prefixes: the machine *)
(* of the tests answers ip_in as CEL does, and the kernel does so exactly  *)
(* for the prefixes that end at a byte.                                    *)
(***************************************************************************)
EXTENDS IpSet, TLAPS

-----------------------------------------------------------------------------
(* Sizes and positions. *)

\* The proportions of the sizes.
LEMMA Sizes ==
    /\ ByteBits \in Nat /\ ByteBits >= 1
    /\ Mark \in Nat /\ Mark >= 1 /\ V4 \in Nat /\ V4 = 2 * Mark
    /\ Word = 4 * Mark /\ V6 = 8 * Mark
    /\ V6 - V4 - Mark = Word + Mark /\ V6 - V4 = Word + V4
  <1>1. V4 \in Nat /\ V4 >= 1 /\ V4 = 2 * (V4 \div 2)
    BY IpSetAssumption
  <1>2. Mark \in Nat /\ V4 = 2 * Mark
    BY <1>1 DEF Mark
  <1> QED BY <1>1, <1>2, IpSetAssumption DEF V6, Word

\* A multiple of a larger number is larger.
LEMMA Multiples ==
    ASSUME NEW x \in Nat, NEW y \in Nat
    PROVE  /\ x * ByteBits \in Nat
           /\ x <= y => x * ByteBits <= y * ByteBits
           /\ x < y => x * ByteBits + ByteBits <= y * ByteBits
  <1>1. PICK b \in Nat : b = ByteBits /\ b >= 1
    BY Sizes
  <1>2. x * b \in Nat
    BY <1>1
  <1>3. ASSUME x <= y PROVE x * b <= y * b
    <2>1. (y - x) \in Nat /\ (y - x) * b \in Nat
      BY <1>1, <1>3
    <2> QED BY <1>1, <1>3, <2>1
  <1>4. ASSUME x < y PROVE x * b + b <= y * b
    <2>1. (y - x - 1) \in Nat /\ (y - x - 1) * b \in Nat
      BY <1>1, <1>4
    <2> QED BY <1>1, <1>4, <2>1
  <1> QED BY <1>1, <1>2, <1>3, <1>4

\* Every bit has a byte and a place in it.
LEMMA Split ==
    ASSUME NEW n \in Nat
    PROVE  /\ (n \div ByteBits) \in Nat /\ (n % ByteBits) \in 0..(ByteBits - 1)
           /\ n = (n \div ByteBits) * ByteBits + (n % ByteBits)
  BY Sizes

\* Every byte and place has a bit.
LEMMA Place ==
    ASSUME NEW q \in Nat, NEW r \in 0..(ByteBits - 1)
    PROVE  /\ q * ByteBits + r \in Nat
           /\ (q * ByteBits + r) \div ByteBits = q
           /\ (q * ByteBits + r) % ByteBits = r
  BY Sizes

\* Bits before the end of m bytes are in one of these bytes, and the other way.
LEMMA Before ==
    ASSUME NEW n \in Nat, NEW m \in Nat
    PROVE  n < m * ByteBits <=> (n \div ByteBits) < m
  <1> DEFINE q == n \div ByteBits
             r == n % ByteBits
  <1>1. q \in Nat /\ r \in 0..(ByteBits - 1) /\ n = q * ByteBits + r
    BY Split
  <1> HIDE DEF q, r
  <1>2. q * ByteBits \in Nat /\ m * ByteBits \in Nat
    BY <1>1, Multiples
  <1>3. ASSUME q < m PROVE n < m * ByteBits
    BY <1>1, <1>2, <1>3, Multiples, Sizes
  <1>4. ASSUME ~(q < m) PROVE ~(n < m * ByteBits)
    BY <1>1, <1>2, <1>4, Multiples, Sizes
  <1> QED BY <1>3, <1>4 DEF q

\* Bytes are equal when their bits are.
LEMMA BytesEqual ==
    ASSUME NEW x \in Byte, NEW y \in Byte
    PROVE  x = y <=> \A k \in 0..(ByteBits - 1) : x[k] = y[k]
  <1>1. x = [k \in 0..(ByteBits - 1) |-> x[k]] /\ y = [k \in 0..(ByteBits - 1) |-> y[k]]
    BY DEF Byte
  <1> QED BY <1>1

-----------------------------------------------------------------------------
(* Addresses. *)

\* An address is an IPv4 or an IPv6 one.
LEMMA Addresses ==
    ASSUME NEW a \in Address
    PROVE  /\ Len(a) \in {V4, V6} /\ V4 < V6 /\ Len(a) \in Nat
           /\ a \in [1..Len(a) -> Byte]
           /\ \A i \in 1..Len(a) : a[i] \in Byte
  <1>1. ASSUME NEW n \in Nat, a \in [1..n -> Byte]
        PROVE  Len(a) = n /\ a \in [1..Len(a) -> Byte] /\ \A i \in 1..Len(a) : a[i] \in Byte
    BY <1>1
  <1>2. V4 \in Nat /\ V6 \in Nat /\ V4 < V6
    BY Sizes
  <1> QED BY <1>1, <1>2 DEF Address

\* The two bytes of a mapped address, by their bits.
LEMMA ZeroAndOnes ==
    /\ Zero \in Byte /\ Ones \in Byte /\ Zero # Ones
    /\ \A k \in 0..(ByteBits - 1) : Zero[k] = 0 /\ Ones[k] = 1
  <1>1. 0 \in 0..(ByteBits - 1)
    BY Sizes
  <1> QED BY <1>1 DEF Zero, Ones, Byte

\* A mapped address is unmapped to its last bytes, any other is left as it is.
LEMMA Unmapped ==
    ASSUME NEW a \in Address
    PROVE  /\ Unmap(a) \in Address
           /\ Is4In6(a) => /\ Len(a) = V6 /\ Len(Unmap(a)) = V4
                           /\ \A i \in 1..V4 : Unmap(a)[i] = a[Word + V4 + i]
           /\ ~Is4In6(a) => Unmap(a) = a
  <1>1. CASE Is4In6(a)
    <2>1. Len(a) = V6 /\ a \in Seq(Byte) /\ a \in [1..V6 -> Byte]
      BY <1>1, Addresses DEF Is4In6
    <2> DEFINE u == SubSeq(a, V6 - V4 + 1, V6)
    <2>2. u = [i \in 1..V4 |-> a[Word + V4 + i]]
      <3>1. V6 - V4 + 1 \in 1..(V6 + 1) /\ V6 \in 0..V6 /\ V6 - (V6 - V4 + 1) + 1 = V4
        BY Sizes
      <3>2. u = [i \in 1..V4 |-> a[i + (V6 - V4 + 1) - 1]]
        BY <2>1, <3>1, Sizes
      <3>3. \A i \in 1..V4 : i + (V6 - V4 + 1) - 1 = Word + V4 + i
        BY Sizes
      <3> QED BY <3>2, <3>3
    <2>3. \A i \in 1..V4 : Word + V4 + i \in 1..V6
      BY Sizes
    <2>4. u \in [1..V4 -> Byte]
      BY <2>1, <2>2, <2>3
    <2>5. u \in Address /\ Len(u) = V4
      BY <2>4, Sizes DEF Address
    <2> HIDE DEF u
    <2>6. Unmap(a) = u
      BY <1>1 DEF Unmap, u
    <2> QED BY <1>1, <2>1, <2>2, <2>5, <2>6
  <1>2. CASE ~Is4In6(a)
    BY <1>2 DEF Unmap
  <1> QED BY <1>1, <1>2

-----------------------------------------------------------------------------
(* Bits and bytes. *)

\* What CEL compares, bit by bit from the most significant one: bytes, and the
\* high bits of the next byte.
LEMMA HighBits ==
    ASSUME NEW p, NEW b, NEW len \in Nat, NEW n \in Nat, n <= len * ByteBits,
           \A i \in 1..len : p[i] \in Byte /\ b[i] \in Byte
    PROVE  (\A k \in 0..(n - 1) : Bit(p, k) = Bit(b, k)) <=> prefixMatch(p, b, n)
  <1> DEFINE whole == n \div ByteBits
             rem == n % ByteBits
  <1>1. /\ whole \in Nat /\ rem \in 0..(ByteBits - 1) /\ n = whole * ByteBits + rem
        /\ ByteBits \in Nat /\ ByteBits >= 1 /\ whole * ByteBits \in Nat
    BY Split, Sizes, Multiples
  <1>2. prefixMatch(p, b, n) <=>
          /\ \A i \in 1..whole : p[i] = b[i]
          /\ \A k \in (ByteBits - rem)..(ByteBits - 1) : p[whole + 1][k] = b[whole + 1][k]
    BY DEF prefixMatch
  <1> HIDE DEF whole, rem
  <1>3. whole <= len
    BY <1>1, Multiples
  <1>4. ASSUME \A k \in 0..(n - 1) : Bit(p, k) = Bit(b, k)
        PROVE  prefixMatch(p, b, n)
    <2>1. ASSUME NEW i \in 1..whole PROVE p[i] = b[i]
      <3>1. SUFFICES ASSUME NEW k \in 0..(ByteBits - 1) PROVE p[i][k] = b[i][k]
        BY <1>1, <1>3, BytesEqual
      <3> DEFINE m == (i - 1) * ByteBits + (ByteBits - 1 - k)
      <3>2. /\ i - 1 \in Nat /\ ByteBits - 1 - k \in 0..(ByteBits - 1) /\ i - 1 < whole
            /\ (i - 1) + 1 = i /\ ByteBits - 1 - (ByteBits - 1 - k) = k
        BY <1>1
      <3>3. m \in Nat /\ m \div ByteBits = i - 1 /\ m % ByteBits = ByteBits - 1 - k
        BY <3>2, Place
      <3>4. (i - 1) * ByteBits \in Nat /\ (i - 1) * ByteBits + ByteBits <= whole * ByteBits
        BY <1>1, <3>2, Multiples
      <3>5. m \in 0..(n - 1)
        BY <1>1, <3>2, <3>3, <3>4
      <3> HIDE DEF m
      <3>6. Bit(p, m) = p[i][k] /\ Bit(b, m) = b[i][k]
        BY <3>2, <3>3 DEF Bit
      <3> QED BY <1>4, <3>5, <3>6
    <2>2. ASSUME NEW k \in (ByteBits - rem)..(ByteBits - 1)
          PROVE  p[whole + 1][k] = b[whole + 1][k]
      <3> DEFINE m == whole * ByteBits + (ByteBits - 1 - k)
      <3>2. /\ ByteBits - 1 - k \in 0..(ByteBits - 1) /\ ByteBits - 1 - k < rem
            /\ ByteBits - 1 - (ByteBits - 1 - k) = k
        BY <1>1
      <3>3. m \in Nat /\ m \div ByteBits = whole /\ m % ByteBits = ByteBits - 1 - k
        BY <1>1, <3>2, Place
      <3>5. m \in 0..(n - 1)
        BY <1>1, <3>2, <3>3
      <3> HIDE DEF m
      <3>6. Bit(p, m) = p[whole + 1][k] /\ Bit(b, m) = b[whole + 1][k]
        BY <3>2, <3>3 DEF Bit
      <3> QED BY <1>4, <3>5, <3>6
    <2> QED BY <1>2, <2>1, <2>2
  <1>5. ASSUME prefixMatch(p, b, n), NEW m \in 0..(n - 1)
        PROVE  Bit(p, m) = Bit(b, m)
    <2> DEFINE q == m \div ByteBits
               r == m % ByteBits
    <2>1. q \in Nat /\ r \in 0..(ByteBits - 1) /\ m = q * ByteBits + r /\ m \in Nat
      BY <1>1, Split
    <2>2. Bit(p, m) = p[q + 1][ByteBits - 1 - r] /\ Bit(b, m) = b[q + 1][ByteBits - 1 - r]
      BY DEF Bit
    <2> HIDE DEF q, r
    <2>3. CASE q < whole
      <3>1. q + 1 \in 1..whole
        BY <1>1, <2>1, <2>3
      <3> QED BY <1>2, <1>5, <2>2, <3>1
    <2>4. CASE ~(q < whole)
      <3>1. q = whole
        <4>1. SUFFICES ASSUME whole < q PROVE FALSE
          BY <1>1, <2>1, <2>4
        <4>2. whole * ByteBits + ByteBits <= q * ByteBits /\ q * ByteBits \in Nat
          BY <1>1, <2>1, <4>1, Multiples
        <4> QED BY <1>1, <2>1, <4>2
      <3>2. ByteBits - 1 - r \in (ByteBits - rem)..(ByteBits - 1)
        BY <1>1, <2>1, <3>1
      <3> QED BY <1>2, <1>5, <2>2, <3>1, <3>2
    <2> QED BY <2>3, <2>4
  <1> QED BY <1>4, <1>5

-----------------------------------------------------------------------------
(* The userspace machine. *)

\* What the compiler puts into a predicate of one prefix.
LEMMA Arrays ==
    ASSUME NEW cs \in Seq(Cidr), NEW i \in DOMAIN cs
    PROVE  /\ cs[i] \in Cidr /\ i \in DOMAIN PrefixArrays(cs)
           /\ PrefixArrays(cs)[i].fam = (IF Is4(cs[i].addr) THEN 4 ELSE 6)
           /\ PrefixArrays(cs)[i].plen = cs[i].bits
           /\ PrefixArrays(cs)[i].addr = Pad(cs[i].addr)
  BY DEF PrefixArrays

\* A padded address has the bytes of the address first.
LEMMA Padded ==
    ASSUME NEW a \in Address
    PROVE  /\ Pad(a) \in [1..V6 -> Byte]
           /\ \A i \in 1..Len(a) : Pad(a)[i] = a[i]
  <1>1. \A i \in 1..V6 : (IF i <= Len(a) THEN a[i] ELSE Zero) \in Byte
    BY Addresses, ZeroAndOnes, Sizes
  <1>2. \A i \in 1..Len(a) : i \in 1..V6 /\ i <= Len(a)
    BY Addresses, Sizes
  <1> QED BY <1>1, <1>2 DEF Pad

\* A parsed prefix is not the string that is none.
LEMMA Parsed ==
    ASSUME NEW c \in Cidr
    PROVE  IsCidr(c) /\ c.addr \in Address /\ c.bits \in Nat
  <1>1. c.addr \in Address /\ c.bits \in Nat
    BY DEF Cidr
  <1>2. Len(c.addr) >= 1
    BY <1>1, Addresses, Sizes
  <1>3. c.addr # << >>
    BY <1>2
  <1> QED BY <1>1, <1>3 DEF IsCidr, NotACidr

\* One prefix that is not a mapped one: CEL compares families and bytes.
LEMMA CelMatches ==
    ASSUME NEW c \in Cidr, ~Is4In6(c.addr), NEW b \in Address
    PROVE  PrefixContains(c, b) <=>
             /\ Len(c.addr) = Len(b)
             /\ c.bits <= Len(b) * ByteBits
             /\ prefixMatch(c.addr, b, c.bits)
  <1>1. Unmap(c.addr) = c.addr /\ c.addr \in Address /\ c.bits \in Nat
    BY Unmapped, Parsed
  <1>2. PrefixContains(c, b) <=>
          /\ Len(c.addr) = Len(b)
          /\ c.bits <= Len(c.addr) * ByteBits
          /\ \A n \in 0..(c.bits - 1) : Bit(c.addr, n) = Bit(b, n)
    BY <1>1 DEF PrefixContains
  <1>3. ASSUME Len(c.addr) = Len(b), c.bits <= Len(b) * ByteBits
        PROVE  (\A n \in 0..(c.bits - 1) : Bit(c.addr, n) = Bit(b, n)) <=> prefixMatch(c.addr, b, c.bits)
    <2>1. Len(b) \in Nat /\ \A i \in 1..Len(b) : c.addr[i] \in Byte /\ b[i] \in Byte
      BY <1>1, <1>3, Addresses
    <2> QED BY <1>1, <1>3, <2>1, HighBits
  <1> QED BY <1>2, <1>3

\* Padding adds nothing to what is compared.
LEMMA PadMatches ==
    ASSUME NEW a \in Address, NEW b, NEW n \in Nat, n <= Len(a) * ByteBits
    PROVE  prefixMatch(Pad(a), b, n) <=> prefixMatch(a, b, n)
  <1> DEFINE whole == n \div ByteBits
             rem == n % ByteBits
  <1>1. /\ whole \in Nat /\ rem \in 0..(ByteBits - 1) /\ n = whole * ByteBits + rem
        /\ ByteBits \in Nat /\ whole * ByteBits \in Nat /\ Len(a) \in Nat
    BY Split, Sizes, Multiples, Addresses
  <1>2. \A x : prefixMatch(x, b, n) <=>
          /\ \A i \in 1..whole : x[i] = b[i]
          /\ \A k \in (ByteBits - rem)..(ByteBits - 1) : x[whole + 1][k] = b[whole + 1][k]
    BY DEF prefixMatch
  <1> HIDE DEF whole, rem
  <1>3. whole <= Len(a) /\ (rem > 0 => whole < Len(a))
    BY <1>1, Multiples
  <1>4. \A i \in 1..whole : Pad(a)[i] = a[i]
    BY <1>1, <1>3, Padded
  <1>5. CASE rem = 0
    <2>1. \A k \in (ByteBits - rem)..(ByteBits - 1) : FALSE
      BY <1>1, <1>5
    <2> QED BY <1>2, <1>4, <2>1
  <1>6. CASE rem > 0
    <2>1. Pad(a)[whole + 1] = a[whole + 1]
      BY <1>1, <1>3, <1>6, Padded
    <2> QED BY <1>2, <1>4, <2>1
  <1> QED BY <1>1, <1>5, <1>6

\* evIPInSet: for every address and every list of prefixes of any lengths, none of
\* them v4-mapped, the machine of the tests finds what CEL's ip_in finds.
THEOREM MachineIsExact ==
    \A a \in Address, cs \in Seq(Cidr) :
        (\A i \in DOMAIN cs : ~Is4In6(cs[i].addr)) =>
            (evIPInSet(a, PrefixArrays(cs)) <=> AddrInCIDRs(a, cs))
  <1> SUFFICES ASSUME NEW a \in Address, NEW cs \in Seq(Cidr), \A i \in DOMAIN cs : ~Is4In6(cs[i].addr)
               PROVE  evIPInSet(a, PrefixArrays(cs)) <=> AddrInCIDRs(a, cs)
    OBVIOUS
  <1> DEFINE b == Unmap(a)
             Hit(q) == /\ q.fam = 4 <=> Is4(b)
                       /\ q.plen <= Len(b) * ByteBits
                       /\ prefixMatch(q.addr, b, q.plen)
  <1>1. b \in Address
    BY Unmapped
  <1>2. evIPInSet(a, PrefixArrays(cs)) <=> \E i \in DOMAIN cs : Hit(PrefixArrays(cs)[i])
    BY DEF evIPInSet, PrefixArrays
  <1>3. AddrInCIDRs(a, cs) <=> \E i \in DOMAIN cs : PrefixContains(cs[i], b)
    BY Parsed DEF AddrInCIDRs
  <1> HIDE DEF b
  <1>4. ASSUME NEW i \in DOMAIN cs
        PROVE  Hit(PrefixArrays(cs)[i]) <=> PrefixContains(cs[i], b)
    <2> DEFINE c == cs[i]
    <2>1. c \in Cidr /\ c.addr \in Address /\ c.bits \in Nat /\ ~Is4In6(c.addr)
      BY Parsed
    <2>2. Hit(PrefixArrays(cs)[i]) <=>
            /\ (IF Is4(c.addr) THEN 4 ELSE 6) = 4 <=> Is4(b)
            /\ c.bits <= Len(b) * ByteBits
            /\ prefixMatch(Pad(c.addr), b, c.bits)
      BY Arrays
    <2> HIDE DEF c
    <2>3. ((IF Is4(c.addr) THEN 4 ELSE 6) = 4 <=> Is4(b)) <=> Len(c.addr) = Len(b)
      BY <1>1, <2>1, Addresses DEF Is4
    <2>4. Len(c.addr) = Len(b) /\ c.bits <= Len(b) * ByteBits
          => (prefixMatch(Pad(c.addr), b, c.bits) <=> prefixMatch(c.addr, b, c.bits))
      BY <2>1, PadMatches
    <2>5. PrefixContains(c, b) <=>
            /\ Len(c.addr) = Len(b)
            /\ c.bits <= Len(b) * ByteBits
            /\ prefixMatch(c.addr, b, c.bits)
      BY <1>1, <2>1, CelMatches
    <2> QED BY <2>2, <2>3, <2>4, <2>5 DEF c
  <1> QED BY <1>2, <1>3, <1>4

-----------------------------------------------------------------------------
(* The kernel. *)

\* The bytes l + 1 to m of two sequences, counted from s and t: their bits agree;
\* they agree; they are bytes.
SameBits(f, g, s, t, l, m) ==
    \A k \in (l * ByteBits)..(m * ByteBits - 1) :
        f[s + (k \div ByteBits) + 1][k % ByteBits] = g[t + (k \div ByteBits) + 1][k % ByteBits]
SameBytes(f, g, s, t, l, m) == \A i \in (l + 1)..m : f[s + i] = g[t + i]
AreBytes(f, g, s, t, l, m) == \A i \in (l + 1)..m : f[s + i] \in Byte /\ g[t + i] \in Byte

\* Words agree on whole bytes when these bytes are equal.
LEMMA LowBits ==
    ASSUME NEW f, NEW g, NEW s \in Nat, NEW t \in Nat, NEW l \in Nat, NEW m \in Nat,
           AreBytes(f, g, s, t, l, m)
    PROVE  SameBits(f, g, s, t, l, m) <=> SameBytes(f, g, s, t, l, m)
  <1> DEFINE Same(k) ==
               f[s + (k \div ByteBits) + 1][k % ByteBits] = g[t + (k \div ByteBits) + 1][k % ByteBits]
  <1> USE DEF AreBytes
  <1>0. l * ByteBits \in Nat /\ m * ByteBits \in Nat /\ ByteBits \in Nat /\ ByteBits >= 1
    BY Multiples, Sizes
  <1>1. ASSUME \A k \in (l * ByteBits)..(m * ByteBits - 1) : Same(k), NEW i \in (l + 1)..m
        PROVE  f[s + i] = g[t + i]
    <2>1. SUFFICES ASSUME NEW j \in 0..(ByteBits - 1) PROVE f[s + i][j] = g[t + i][j]
      BY BytesEqual
    <2> DEFINE k == (i - 1) * ByteBits + j
    <2>2. i - 1 \in Nat /\ i - 1 < m /\ l <= i - 1 /\ s + (i - 1) + 1 = s + i /\ t + (i - 1) + 1 = t + i
      OBVIOUS
    <2>3. k \in Nat /\ k \div ByteBits = i - 1 /\ k % ByteBits = j
      BY <2>2, Place
    <2>4. /\ (i - 1) * ByteBits \in Nat /\ l * ByteBits <= (i - 1) * ByteBits
          /\ (i - 1) * ByteBits + ByteBits <= m * ByteBits
      BY <2>2, Multiples
    <2>5. k \in (l * ByteBits)..(m * ByteBits - 1)
      BY <1>0, <2>3, <2>4
    <2> HIDE DEF k
    <2>6. Same(k)
      BY <1>1, <2>5
    <2> QED BY <2>2, <2>3, <2>6
  <1>2. ASSUME \A i \in (l + 1)..m : f[s + i] = g[t + i], NEW k \in (l * ByteBits)..(m * ByteBits - 1)
        PROVE  Same(k)
    <2>1. k \in Nat /\ (k \div ByteBits) \in Nat /\ (k \div ByteBits) < m /\ ~((k \div ByteBits) < l)
      BY <1>0, Before, Split
    <2> DEFINE i == (k \div ByteBits) + 1
    <2>2. i \in (l + 1)..m /\ s + (k \div ByteBits) + 1 = s + i /\ t + (k \div ByteBits) + 1 = t + i
      BY <2>1
    <2> QED BY <1>2, <2>2
  <1> QED BY <1>1, <1>2 DEF SameBits, SameBytes

\* What the kernel compares of two addresses: the low bits first within each byte.
LowMatch(p, b, n) ==
    \A k \in 0..(n - 1) : p[(k \div ByteBits) + 1][k % ByteBits] = b[(k \div ByteBits) + 1][k % ByteBits]

\* The words, bit by bit.
LEMMA Loaded ==
    ASSUME NEW x, NEW n \in {0, 1}, NEW k \in Nat, k < Word * ByteBits
    PROVE  Load(x, n)[k] = x[n * Word + (k \div ByteBits) + 1][k % ByteBits]
  <1>1. k \in 0..(Word * ByteBits - 1)
    BY Sizes, Multiples
  <1> QED BY <1>1 DEF Load

\* The kernel's test for an IPv4 address finds the IPv4 and the mapped ones.
LEMMA KernelIs4 ==
    ASSUME NEW a \in Address
    PROVE  is4(a) <=> Is4(Unmap(a))
  <1>1. CASE Len(a) = V4
    BY <1>1, Unmapped, Addresses DEF is4, Is4, Is4In6
  <1>2. CASE Len(a) = V6
    <2> DEFINE O == [i \in 1..V6 |-> Ones]
               Z == [i \in 1..V6 |-> Zero]
    <2>0. /\ \A i \in 1..V6 : a[i] \in Byte /\ O[i] \in Byte /\ Z[i] \in Byte /\ O[i] = Ones /\ Z[i] = Zero
          /\ \A i \in 1..V6, k \in 0..(ByteBits - 1) : O[i][k] = 1 /\ Z[i][k] = 0
      BY <1>2, Addresses, ZeroAndOnes
    <2> HIDE DEF O, Z
    <2>a. /\ Word \in Nat /\ Mark \in Nat /\ 2 * Mark \in Nat /\ 0 * ByteBits = 0 /\ 0 * Word = 0 /\ 1 * Word = Word
          /\ Word * ByteBits \in Nat /\ Mark * ByteBits \in Nat /\ (2 * Mark) * ByteBits \in Nat
          /\ Mark * ByteBits <= Word * ByteBits /\ (2 * Mark) * ByteBits <= Word * ByteBits
          /\ 2 * Mark * ByteBits = (2 * Mark) * ByteBits
      BY Sizes, Multiples
    <2>1. (\A k \in 0..(Word * ByteBits - 1) : Load(a, 0)[k] = 0) <=> \A i \in 1..Word : a[i] = Zero
      <3>1. ASSUME NEW k \in 0..(Word * ByteBits - 1)
            PROVE  Load(a, 0)[k] = 0 <=>
                   a[0 + (k \div ByteBits) + 1][k % ByteBits] = Z[0 + (k \div ByteBits) + 1][k % ByteBits]
        <4>1. k \in Nat /\ k < Word * ByteBits /\ (k \div ByteBits) \in Nat /\ (k % ByteBits) \in 0..(ByteBits - 1)
              /\ (k \div ByteBits) < Word
          BY <2>a, Split, Before
        <4>2. 0 + (k \div ByteBits) + 1 \in 1..V6
          BY <4>1, Sizes
        <4> QED BY <2>0, <2>a, <4>1, <4>2, Loaded
      <3>2. \A i \in (0 + 1)..Word : a[0 + i] \in Byte /\ Z[0 + i] \in Byte /\ Z[0 + i] = Zero /\ 0 + i = i
        BY <2>0, Sizes
      <3>3. AreBytes(a, Z, 0, 0, 0, Word)
        BY <3>2 DEF AreBytes
      <3>4. SameBits(a, Z, 0, 0, 0, Word) <=> SameBytes(a, Z, 0, 0, 0, Word)
        BY <2>a, <3>3, LowBits
      <3>5. SameBytes(a, Z, 0, 0, 0, Word) <=> \A i \in (0 + 1)..Word : a[0 + i] = Z[0 + i]
        BY DEF SameBytes
      <3>6. SameBits(a, Z, 0, 0, 0, Word) <=>
              \A k \in 0..(Word * ByteBits - 1) :
               a[0 + (k \div ByteBits) + 1][k % ByteBits] = Z[0 + (k \div ByteBits) + 1][k % ByteBits]
        BY <2>a DEF SameBits
      <3>7. 0 + 1 = 1
        OBVIOUS
      <3> QED BY <2>a, <3>1, <3>2, <3>4, <3>5, <3>6, <3>7
    <2>2. (\A k \in 0..(Mark * ByteBits - 1) : Load(a, 1)[k] = 0) <=> \A i \in 1..Mark : a[Word + i] = Zero
      <3>1. ASSUME NEW k \in 0..(Mark * ByteBits - 1)
            PROVE  Load(a, 1)[k] = 0 <=>
                   a[Word + (k \div ByteBits) + 1][k % ByteBits] = Z[Word + (k \div ByteBits) + 1][k % ByteBits]
        <4>1. k \in Nat /\ k < Word * ByteBits /\ (k \div ByteBits) \in Nat /\ (k % ByteBits) \in 0..(ByteBits - 1)
              /\ (k \div ByteBits) < Mark
          BY <2>a, Split, Before
        <4>2. Word + (k \div ByteBits) + 1 \in 1..V6
          BY <4>1, Sizes
        <4> QED BY <2>0, <2>a, <4>1, <4>2, Loaded
      <3>2. \A i \in (0 + 1)..Mark : a[Word + i] \in Byte /\ Z[Word + i] \in Byte /\ Z[Word + i] = Zero
        BY <2>0, Sizes
      <3>3. AreBytes(a, Z, Word, Word, 0, Mark)
        BY <3>2 DEF AreBytes
      <3>4. SameBits(a, Z, Word, Word, 0, Mark) <=> SameBytes(a, Z, Word, Word, 0, Mark)
        BY <2>a, <3>3, LowBits
      <3>5. SameBytes(a, Z, Word, Word, 0, Mark) <=> \A i \in (0 + 1)..Mark : a[Word + i] = Z[Word + i]
        BY DEF SameBytes
      <3>6. SameBits(a, Z, Word, Word, 0, Mark) <=>
              \A k \in 0..(Mark * ByteBits - 1) :
               a[Word + (k \div ByteBits) + 1][k % ByteBits] = Z[Word + (k \div ByteBits) + 1][k % ByteBits]
        BY <2>a DEF SameBits
      <3>7. 0 + 1 = 1
        OBVIOUS
      <3> QED BY <2>a, <3>1, <3>2, <3>4, <3>5, <3>6, <3>7
    <2>3. (\A k \in (Mark * ByteBits)..(2 * Mark * ByteBits - 1) : Load(a, 1)[k] = 1)
          <=> \A i \in (Mark + 1)..(2 * Mark) : a[Word + i] = Ones
      <3>1. ASSUME NEW k \in (Mark * ByteBits)..((2 * Mark) * ByteBits - 1)
            PROVE  Load(a, 1)[k] = 1 <=>
                   a[Word + (k \div ByteBits) + 1][k % ByteBits] = O[Word + (k \div ByteBits) + 1][k % ByteBits]
        <4>1. k \in Nat /\ k < Word * ByteBits /\ (k \div ByteBits) \in Nat /\ (k % ByteBits) \in 0..(ByteBits - 1)
              /\ (k \div ByteBits) < 2 * Mark
          BY <2>a, Split, Before
        <4>2. Word + (k \div ByteBits) + 1 \in 1..V6
          BY <4>1, Sizes
        <4> QED BY <2>0, <2>a, <4>1, <4>2, Loaded
      <3>2. \A i \in (Mark + 1)..(2 * Mark) : a[Word + i] \in Byte /\ O[Word + i] \in Byte /\ O[Word + i] = Ones
        BY <2>0, Sizes
      <3>3. AreBytes(a, O, Word, Word, Mark, 2 * Mark)
        BY <3>2 DEF AreBytes
      <3>4. SameBits(a, O, Word, Word, Mark, 2 * Mark) <=> SameBytes(a, O, Word, Word, Mark, 2 * Mark)
        BY <2>a, <3>3, LowBits
      <3>5. SameBytes(a, O, Word, Word, Mark, 2 * Mark) <=> \A i \in (Mark + 1)..(2 * Mark) : a[Word + i] = O[Word + i]
        BY DEF SameBytes
      <3>6. SameBits(a, O, Word, Word, Mark, 2 * Mark) <=>
              \A k \in (Mark * ByteBits)..((2 * Mark) * ByteBits - 1) :
               a[Word + (k \div ByteBits) + 1][k % ByteBits] = O[Word + (k \div ByteBits) + 1][k % ByteBits]
        BY <2>a DEF SameBits
      <3>7. 0 + 1 = 1
        OBVIOUS
      <3> QED BY <2>a, <3>1, <3>2, <3>4, <3>5, <3>6, <3>7
    <2>4. is4(a) <=> /\ \A i \in 1..Word : a[i] = Zero
                     /\ \A i \in 1..Mark : a[Word + i] = Zero
                     /\ \A i \in (Mark + 1)..(2 * Mark) : a[Word + i] = Ones
      BY <1>2, <2>1, <2>2, <2>3, Addresses DEF is4, Is4
    <2>5. (\A i \in 1..(Word + Mark) : a[i] = Zero) <=>
            /\ \A i \in 1..Word : a[i] = Zero
            /\ \A i \in 1..Mark : a[Word + i] = Zero
      <3>1. \A i \in 1..(Word + Mark) : i \in 1..Word \/ (i - Word \in 1..Mark /\ Word + (i - Word) = i)
        BY <2>a
      <3>2. /\ \A i \in 1..Word : i \in 1..(Word + Mark)
            /\ \A i \in 1..Mark : Word + i \in 1..(Word + Mark)
        BY <2>a
      <3> QED BY <3>1, <3>2
    <2>6. (\A i \in (Word + Mark + 1)..(Word + V4) : a[i] = Ones) <=>
            \A i \in (Mark + 1)..(2 * Mark) : a[Word + i] = Ones
      <3>1. /\ \A i \in (Word + Mark + 1)..(Word + V4) : i - Word \in (Mark + 1)..(2 * Mark) /\ Word + (i - Word) = i
            /\ \A i \in (Mark + 1)..(2 * Mark) : Word + i \in (Word + Mark + 1)..(Word + V4)
        BY Sizes
      <3> QED BY <3>1
    <2>7. Is4In6(a) <=> /\ \A i \in 1..(Word + Mark) : a[i] = Zero
                        /\ \A i \in (Word + Mark + 1)..(Word + V4) : a[i] = Ones
      BY <1>2, Sizes DEF Is4In6
    <2>8. Is4In6(a) <=> Is4(Unmap(a))
      BY <1>2, Unmapped, Addresses DEF Is4
    <2> QED BY <2>4, <2>5, <2>6, <2>7, <2>8
  <1> QED BY <1>1, <1>2, Addresses

\* Moving on by whole bytes.
LEMMA Shifted ==
    ASSUME NEW k \in Nat, NEW m \in Nat
    PROVE  /\ k + m * ByteBits \in Nat
           /\ (k + m * ByteBits) \div ByteBits = (k \div ByteBits) + m
           /\ (k + m * ByteBits) % ByteBits = k % ByteBits
  <1> DEFINE q == k \div ByteBits
             r == k % ByteBits
  <1>1. q \in Nat /\ r \in 0..(ByteBits - 1) /\ k = q * ByteBits + r
    BY Split
  <1> HIDE DEF q, r
  <1>2. (q + m) * ByteBits = q * ByteBits + m * ByteBits /\ q + m \in Nat
        /\ q * ByteBits \in Nat /\ m * ByteBits \in Nat
    BY <1>1, Sizes, Multiples
  <1>3. k + m * ByteBits = (q + m) * ByteBits + r
    BY <1>1, <1>2
  <1> QED BY <1>1, <1>2, <1>3, Place DEF q, r

\* IPv4: the words hold what LowMatch compares.
LEMMA Kernel4 ==
    ASSUME NEW p \in Address, Len(p) = V4, NEW a \in Address, is4(a),
           NEW n \in Nat, n <= V4 * ByteBits
    PROVE  SameLow(Load(Pad(p), 0), aw4(a), n) <=> LowMatch(p, Unmap(a), n)
  <1>0. /\ V4 * ByteBits \in Nat /\ Word * ByteBits \in Nat /\ V4 * ByteBits <= Word * ByteBits
        /\ V4 * ByteBits + V4 * ByteBits = Word * ByteBits /\ 0 * Word = 0 /\ 1 * Word = Word
        /\ V4 \in Nat /\ Word \in Nat
    BY Sizes, Multiples
  <1>1. SUFFICES ASSUME NEW k \in 0..(n - 1)
                 PROVE  /\ Load(Pad(p), 0)[k] = p[(k \div ByteBits) + 1][k % ByteBits]
                        /\ aw4(a)[k] = Unmap(a)[(k \div ByteBits) + 1][k % ByteBits]
    BY DEF SameLow, LowMatch
  <1> DEFINE q == k \div ByteBits
             r == k % ByteBits
  <1>2. k \in Nat /\ k < V4 * ByteBits /\ k < Word * ByteBits /\ q \in Nat /\ q < V4 /\ q + 1 \in 1..V4
        /\ 0 * Word + q + 1 = q + 1
    <2>1. k \in Nat /\ k < V4 * ByteBits /\ k < Word * ByteBits
      BY <1>0
    <2>2. q \in Nat
      BY <2>1, Split
    <2>3. q < V4
      BY <1>0, <2>1, Before
    <2> HIDE DEF q
    <2> QED BY <1>0, <2>1, <2>2, <2>3
  <1>3. \A x \in Address : Len(x) = V4 => Load(Pad(x), 0)[k] = x[q + 1][r]
    <2> TAKE x \in Address
    <2> HAVE Len(x) = V4
    <2>1. Load(Pad(x), 0)[k] = Pad(x)[0 * Word + q + 1][r]
      BY <1>2, Loaded
    <2> QED BY <1>2, <2>1, Padded
  <1>4. CASE Is4(a)
    <2>1. aw4(a) = Load(Pad(a), 0) /\ Len(a) = V4 /\ Unmap(a) = a
      BY <1>4, Unmapped, Addresses DEF aw4, Is4, Is4In6
    <2> QED BY <1>3, <2>1
  <1>5. CASE ~Is4(a)
    <2>1. Is4In6(a)
      BY <1>5, KernelIs4, Unmapped
    <2>2. k \in 0..(V4 * ByteBits - 1)
      BY <1>0, <1>2
    <2>3. aw4(a)[k] = Load(a, 1)[k + V4 * ByteBits]
      BY <1>5, <2>2 DEF aw4
    <2>4. /\ k + V4 * ByteBits \in Nat /\ k + V4 * ByteBits < Word * ByteBits
          /\ (k + V4 * ByteBits) \div ByteBits = q + V4 /\ (k + V4 * ByteBits) % ByteBits = r
      BY <1>0, <1>2, Shifted
    <2>5. Load(a, 1)[k + V4 * ByteBits] = a[1 * Word + (q + V4) + 1][r]
      BY <2>4, Loaded
    <2>6. 1 * Word + (q + V4) + 1 = Word + V4 + (q + 1)
      BY <1>0, <1>2
    <2>7. Unmap(a)[q + 1] = a[Word + V4 + (q + 1)]
      BY <1>2, <2>1, Unmapped
    <2> QED BY <1>3, <2>3, <2>5, <2>6, <2>7
  <1> QED BY <1>4, <1>5

\* IPv6: one word, or the first and a part of the second.
LEMMA Kernel6 ==
    ASSUME NEW p \in Address, Len(p) = V6, NEW a \in Address, Len(a) = V6,
           NEW n \in Nat, n <= V6 * ByteBits
    PROVE  (\/ /\ n <= Word * ByteBits
               /\ SameLow(Load(Pad(p), 0), Load(a, 0), n)
            \/ /\ n > Word * ByteBits
               /\ Load(Pad(p), 0) = Load(a, 0)
               /\ SameLow(Load(Pad(p), 1), Load(a, 1), n - Word * ByteBits)) <=> LowMatch(p, a, n)
  <1> DEFINE w == Word * ByteBits
             At(x, k) == x[(k \div ByteBits) + 1][k % ByteBits]
  <1>0. /\ w \in Nat /\ w + w = V6 * ByteBits /\ 0 * Word = 0 /\ 1 * Word = Word /\ Word \in Nat
        /\ V6 * ByteBits \in Nat /\ V6 \in Nat
    BY Sizes, Multiples
  <1>1. \A k \in Nat : k < V6 * ByteBits => At(Pad(p), k) = At(p, k)
    <2> TAKE k \in Nat
    <2> HAVE k < V6 * ByteBits
    <2> DEFINE q == k \div ByteBits
    <2>0. q \in Nat /\ q < V6
      BY <1>0, Split, Before
    <2> HIDE DEF q
    <2>1. q + 1 \in 1..V6
      BY <1>0, <2>0
    <2> USE DEF q
    <2> QED BY <2>1, Padded
  <1>2. \A x, k : k \in Nat /\ k < w => Load(x, 0)[k] = At(x, k)
    <2> TAKE x, k
    <2> HAVE k \in Nat /\ k < w
    <2>1. Load(x, 0)[k] = x[0 * Word + (k \div ByteBits) + 1][k % ByteBits]
      BY Loaded
    <2>2. 0 * Word + (k \div ByteBits) + 1 = (k \div ByteBits) + 1
      BY <1>0, Split
    <2> QED BY <2>1, <2>2
  <1>3. \A x, k : k \in Nat /\ k < w => Load(x, 1)[k] = At(x, k + w)
    <2> TAKE x, k
    <2> HAVE k \in Nat /\ k < w
    <2>1. Load(x, 1)[k] = x[1 * Word + (k \div ByteBits) + 1][k % ByteBits]
      BY Loaded
    <2>2. (k + w) \div ByteBits = (k \div ByteBits) + Word /\ (k + w) % ByteBits = k % ByteBits
      BY <1>0, Shifted
    <2>3. 1 * Word + (k \div ByteBits) + 1 = ((k \div ByteBits) + Word) + 1
      BY <1>0, Split
    <2> QED BY <2>1, <2>2, <2>3
  <1>4. LowMatch(p, a, n) <=> \A k \in 0..(n - 1) : At(p, k) = At(a, k)
    BY DEF LowMatch
  <1>5. Load(Pad(p), 0) = Load(a, 0) <=> \A k \in 0..(w - 1) : Load(Pad(p), 0)[k] = Load(a, 0)[k]
    <2>1. \A x : Load(x, 0) = [k \in 0..(w - 1) |-> Load(x, 0)[k]]
      BY DEF Load
    <2> QED BY <2>1
  <1> HIDE DEF w, At
  <1>6. CASE n <= w
    <2>1. \A k \in 0..(n - 1) : k \in Nat /\ k < w /\ k < V6 * ByteBits
      BY <1>0, <1>6
    <2>2. SameLow(Load(Pad(p), 0), Load(a, 0), n) <=> \A k \in 0..(n - 1) : At(p, k) = At(a, k)
      BY <1>1, <1>2, <2>1 DEF SameLow
    <2>3. ~(n > w)
      BY <1>0, <1>6
    <2> QED BY <1>4, <1>6, <2>2, <2>3 DEF w
  <1>7. CASE n > w
    <2>1. \A k \in 0..(w - 1) : k \in Nat /\ k < w /\ k < V6 * ByteBits
      BY <1>0
    <2>2. Load(Pad(p), 0) = Load(a, 0) <=> \A k \in 0..(w - 1) : At(p, k) = At(a, k)
      BY <1>1, <1>2, <1>5, <2>1
    <2>3. \A k \in 0..(n - w - 1) : k \in Nat /\ k < w /\ k + w \in Nat /\ k + w < V6 * ByteBits
      BY <1>0, <1>7
    <2>4. SameLow(Load(Pad(p), 1), Load(a, 1), n - w)
          <=> \A k \in 0..(n - w - 1) : At(p, k + w) = At(a, k + w)
      BY <1>1, <1>3, <2>3 DEF SameLow
    <2>5. (\A k \in 0..(n - 1) : At(p, k) = At(a, k)) <=>
            /\ \A k \in 0..(w - 1) : At(p, k) = At(a, k)
            /\ \A k \in 0..(n - w - 1) : At(p, k + w) = At(a, k + w)
      <3>1. \A k \in 0..(n - 1) : k \in 0..(w - 1) \/ (k - w \in 0..(n - w - 1) /\ (k - w) + w = k)
        BY <1>0, <1>7
      <3>2. /\ \A k \in 0..(w - 1) : k \in 0..(n - 1)
            /\ \A k \in 0..(n - w - 1) : k + w \in 0..(n - 1)
        BY <1>0, <1>7
      <3> QED BY <3>1, <3>2
    <2>6. ~(n <= w)
      BY <1>0, <1>7
    <2> QED BY <1>4, <1>7, <2>2, <2>4, <2>5, <2>6 DEF w
  <1> QED BY <1>0, <1>6, <1>7

\* One prefix in the kernel, of any length.
LEMMA KernelMatches ==
    ASSUME NEW cs \in Seq(Cidr), NEW i \in DOMAIN cs, NEW a \in Address
    PROVE  InPrefix4(PrefixArrays(cs)[i], a) \/ InPrefix6(PrefixArrays(cs)[i], a) <=>
             /\ Len(cs[i].addr) = Len(Unmap(a))
             /\ cs[i].bits <= Len(Unmap(a)) * ByteBits
             /\ LowMatch(cs[i].addr, Unmap(a), cs[i].bits)
  <1> DEFINE c == cs[i]
             x == PrefixArrays(cs)[i]
  <1>1. /\ x.fam = (IF Is4(c.addr) THEN 4 ELSE 6) /\ x.plen = c.bits /\ x.addr = Pad(c.addr)
        /\ c.addr \in Address /\ c.bits \in Nat
    BY Arrays, Parsed
  <1> HIDE DEF c, x
  <1>2. Unmap(a) \in Address /\ V4 < V6 /\ V4 \in Nat /\ V6 \in Nat
    BY Unmapped, Sizes
  <1>3. CASE Is4(c.addr)
    <2>1. ~InPrefix6(x, a) /\ x.fam = 4 /\ Len(c.addr) = V4
      BY <1>1, <1>3 DEF InPrefix6, Is4
    <2>2. InPrefix4(x, a) <=> /\ is4(a) /\ c.bits <= V4 * ByteBits
                              /\ SameLow(Load(Pad(c.addr), 0), aw4(a), c.bits)
      BY <1>1, <2>1 DEF InPrefix4
    <2>3. is4(a) <=> Len(c.addr) = Len(Unmap(a))
      BY <2>1, KernelIs4 DEF Is4
    <2>4. is4(a) /\ c.bits <= V4 * ByteBits =>
            (SameLow(Load(Pad(c.addr), 0), aw4(a), c.bits) <=> LowMatch(c.addr, Unmap(a), c.bits))
      BY <1>1, <2>1, Kernel4
    <2> QED BY <2>1, <2>2, <2>3, <2>4 DEF c, x
  <1>4. CASE ~Is4(c.addr)
    <2>1. ~InPrefix4(x, a) /\ x.fam = 6 /\ Len(c.addr) = V6
      BY <1>1, <1>4, Addresses DEF InPrefix4, Is4
    <2>2. ~is4(a) <=> Len(c.addr) = Len(Unmap(a))
      BY <1>2, <2>1, KernelIs4, Addresses DEF Is4
    <2>3. ~is4(a) => Unmap(a) = a /\ Len(a) = V6
      BY <1>2, <2>1, <2>2, Unmapped
    <2>4. InPrefix6(x, a) <=>
            /\ ~is4(a) /\ c.bits <= V6 * ByteBits
            /\ \/ /\ c.bits <= Word * ByteBits
                  /\ SameLow(Load(Pad(c.addr), 0), Load(a, 0), c.bits)
               \/ /\ c.bits > Word * ByteBits
                  /\ Load(Pad(c.addr), 0) = Load(a, 0)
                  /\ SameLow(Load(Pad(c.addr), 1), Load(a, 1), c.bits - Word * ByteBits)
      BY <1>1, <2>1 DEF InPrefix6
    <2>5. ~is4(a) /\ c.bits <= V6 * ByteBits => (InPrefix6(x, a) <=> LowMatch(c.addr, a, c.bits))
      BY <1>1, <2>1, <2>3, <2>4, Kernel6
    <2>6. InPrefix6(x, a) => ~is4(a) /\ c.bits <= V6 * ByteBits
      BY <2>4
    <2> QED BY <2>1, <2>2, <2>3, <2>5, <2>6 DEF c, x
  <1> QED BY <1>3, <1>4

\* On whole bytes it does not matter in which order bits are compared.
LEMMA WholeBytesMatch ==
    ASSUME NEW p, NEW b, NEW len \in Nat, NEW n \in Nat, n <= len * ByteBits, n % ByteBits = 0,
           \A i \in 1..len : p[i] \in Byte /\ b[i] \in Byte
    PROVE  LowMatch(p, b, n) <=> prefixMatch(p, b, n)
  <1> DEFINE m == n \div ByteBits
  <1>1. m \in Nat /\ n = m * ByteBits /\ m * ByteBits \in Nat /\ ByteBits \in Nat /\ ByteBits >= 1
    BY Split, Sizes, Multiples
  <1>2. prefixMatch(p, b, n) <=> \A i \in 1..m : p[i] = b[i]
    <2>1. \A k \in (ByteBits - 0)..(ByteBits - 1) : FALSE
      BY <1>1
    <2> QED BY <2>1 DEF prefixMatch
  <1> HIDE DEF m
  <1>3. m <= len
    BY <1>1, Multiples
  <1>4. AreBytes(p, b, 0, 0, 0, m)
    BY <1>1, <1>3 DEF AreBytes
  <1>5. SameBits(p, b, 0, 0, 0, m) <=> SameBytes(p, b, 0, 0, 0, m)
    BY <1>1, <1>4, LowBits
  <1>6. SameBytes(p, b, 0, 0, 0, m) <=> \A i \in 1..m : p[i] = b[i]
    BY <1>1 DEF SameBytes
  <1>7. SameBits(p, b, 0, 0, 0, m) <=> LowMatch(p, b, n)
    <2>1. 0 * ByteBits = 0 /\ \A k \in 0..(n - 1) : 0 + (k \div ByteBits) + 1 = (k \div ByteBits) + 1
      BY <1>1, Split
    <2>2. (0 * ByteBits)..(m * ByteBits - 1) = 0..(n - 1)
      BY <1>1, <2>1
    <2>3. SameBits(p, b, 0, 0, 0, m) <=>
            \A k \in 0..(n - 1) :
               p[0 + (k \div ByteBits) + 1][k % ByteBits] = b[0 + (k \div ByteBits) + 1][k % ByteBits]
      BY <2>2, Zenon DEF SameBits
    <2> QED BY <2>1, <2>3 DEF LowMatch
  <1> QED BY <1>2, <1>5, <1>6, <1>7

\* ko_ip_in_set: for every address and every list of prefixes that end at a byte,
\* none of them v4-mapped, the kernel finds what CEL's ip_in finds.
THEOREM KernelIsExactOnWholeBytes ==
    \A a \in Address, cs \in Seq(Cidr) :
        (\A i \in DOMAIN cs : ~Is4In6(cs[i].addr) /\ cs[i].bits % ByteBits = 0) =>
            (ko_ip_in_set(a, PrefixArrays(cs)) <=> AddrInCIDRs(a, cs))
  <1> SUFFICES ASSUME NEW a \in Address, NEW cs \in Seq(Cidr),
                      \A i \in DOMAIN cs : ~Is4In6(cs[i].addr) /\ cs[i].bits % ByteBits = 0
               PROVE  ko_ip_in_set(a, PrefixArrays(cs)) <=> AddrInCIDRs(a, cs)
    OBVIOUS
  <1> DEFINE b == Unmap(a)
             Hit(q) == InPrefix4(q, a) \/ InPrefix6(q, a)
  <1>1. b \in Address
    BY Unmapped
  <1>2. ko_ip_in_set(a, PrefixArrays(cs)) <=> \E i \in DOMAIN cs : Hit(PrefixArrays(cs)[i])
    BY DEF ko_ip_in_set, PrefixArrays
  <1>3. AddrInCIDRs(a, cs) <=> \E i \in DOMAIN cs : PrefixContains(cs[i], b)
    BY Parsed DEF AddrInCIDRs
  <1>4. ASSUME NEW i \in DOMAIN cs
        PROVE  Hit(PrefixArrays(cs)[i]) <=> PrefixContains(cs[i], b)
    <2>1. cs[i] \in Cidr /\ cs[i].addr \in Address /\ cs[i].bits \in Nat
      BY Parsed
    <2>2. Hit(PrefixArrays(cs)[i]) <=>
            /\ Len(cs[i].addr) = Len(b)
            /\ cs[i].bits <= Len(b) * ByteBits
            /\ LowMatch(cs[i].addr, b, cs[i].bits)
      BY KernelMatches
    <2>3. PrefixContains(cs[i], b) <=>
            /\ Len(cs[i].addr) = Len(b)
            /\ cs[i].bits <= Len(b) * ByteBits
            /\ prefixMatch(cs[i].addr, b, cs[i].bits)
      BY <1>1, <2>1, CelMatches
    <2>4. ASSUME Len(cs[i].addr) = Len(b), cs[i].bits <= Len(b) * ByteBits
          PROVE  LowMatch(cs[i].addr, b, cs[i].bits) <=> prefixMatch(cs[i].addr, b, cs[i].bits)
      <3>1. Len(b) \in Nat /\ \A j \in 1..Len(b) : cs[i].addr[j] \in Byte /\ b[j] \in Byte
        BY <1>1, <2>1, <2>4, Addresses
      <3> HIDE DEF b
      <3> QED BY <2>1, <2>4, <3>1, WholeBytesMatch
    <2> QED BY <2>2, <2>3, <2>4
  <1> QED BY <1>2, <1>3, <1>4

-----------------------------------------------------------------------------
(* Prefixes that end inside a byte. *)

\* An address with one bit changed.
Flip(a, i, k) == [j \in 1..Len(a) |->
                     IF j = i THEN [l \in 0..(ByteBits - 1) |-> IF l = k THEN 1 - a[i][l] ELSE a[i][l]]
                     ELSE a[j]]

\* An address that differs in one bit.
LEMMA Flipped ==
    ASSUME NEW a \in Address, NEW i \in 1..Len(a), NEW k \in 0..(ByteBits - 1)
    PROVE  /\ Flip(a, i, k) \in Address /\ Len(Flip(a, i, k)) = Len(a)
           /\ \A j \in 1..Len(a) : j # i => Flip(a, i, k)[j] = a[j]
           /\ \A l \in 0..(ByteBits - 1) : l # k => Flip(a, i, k)[i][l] = a[i][l]
           /\ Flip(a, i, k)[i][k] # a[i][k]
  <1>1. Len(a) \in {V4, V6} /\ Len(a) \in Nat /\ \A j \in 1..Len(a) : a[j] \in Byte
    BY Addresses
  <1> DEFINE x == [l \in 0..(ByteBits - 1) |-> IF l = k THEN 1 - a[i][l] ELSE a[i][l]]
             f == Flip(a, i, k)
  <1>2. \A l \in 0..(ByteBits - 1) : a[i][l] \in {0, 1}
    BY <1>1 DEF Byte
  <1>3. \A l \in 0..(ByteBits - 1) : (IF l = k THEN 1 - a[i][l] ELSE a[i][l]) \in {0, 1}
    BY <1>2
  <1>4. x \in Byte
    BY <1>3 DEF Byte
  <1>5. x[k] # a[i][k] /\ \A l \in 0..(ByteBits - 1) : l # k => x[l] = a[i][l]
    BY <1>2
  <1>6. f = [j \in 1..Len(a) |-> IF j = i THEN x ELSE a[j]]
    BY DEF Flip
  <1> HIDE DEF x, f
  <1>7. f \in [1..Len(a) -> Byte] /\ f[i] = x /\ \A j \in 1..Len(a) : j # i => f[j] = a[j]
    BY <1>1, <1>4, <1>6
  <1>8. f \in Address /\ Len(f) = Len(a)
    BY <1>1, <1>7 DEF Address
  <1> QED BY <1>5, <1>7, <1>8 DEF f

\* Changing one bit or another of a byte does not make the address mapped both times.
LEMMA NotBothMapped ==
    ASSUME NEW a \in Address, ~Is4In6(a), NEW i \in 1..Len(a),
           NEW k \in 0..(ByteBits - 1), NEW l \in 0..(ByteBits - 1), k # l
    PROVE  ~Is4In6(Flip(a, i, k)) \/ ~Is4In6(Flip(a, i, l))
  <1> DEFINE x == Flip(a, i, k)
             y == Flip(a, i, l)
  <1>1. SUFFICES ASSUME Is4In6(x), Is4In6(y) PROVE FALSE
    OBVIOUS
  <1>2. /\ Len(x) = Len(a) /\ Len(y) = Len(a)
        /\ \A j \in 1..Len(a) : j # i => x[j] = a[j]
        /\ x[i][k] # a[i][k] /\ y[i][k] = a[i][k]
    <2>1. Len(x) = Len(a) /\ x[i][k] # a[i][k] /\ \A j \in 1..Len(a) : j # i => x[j] = a[j]
      BY Flipped
    <2>2. Len(y) = Len(a) /\ y[i][k] = a[i][k]
      BY Flipped
    <2> QED BY <2>1, <2>2
  <1> HIDE DEF x, y
  <1>3. Len(a) = V6
    BY <1>1, <1>2 DEF Is4In6
  <1>4. x[i] # y[i]
    BY <1>2
  <1>5. CASE i \in 1..(V6 - V4 - Mark)
    BY <1>1, <1>4, <1>5 DEF Is4In6
  <1>6. CASE i \in (V6 - V4 - Mark + 1)..(V6 - V4)
    BY <1>1, <1>4, <1>6 DEF Is4In6
  <1>7. CASE i > V6 - V4
    <2>1. /\ \A j \in 1..(V6 - V4 - Mark) : j \in 1..Len(a) /\ j # i
          /\ \A j \in (V6 - V4 - Mark + 1)..(V6 - V4) : j \in 1..Len(a) /\ j # i
      BY <1>3, <1>7, Sizes
    <2>2. Is4In6(a)
      BY <1>1, <1>2, <1>3, <2>1 DEF Is4In6
    <2> QED BY <2>2
  <1> QED BY <1>3, <1>5, <1>6, <1>7, Sizes

\* A prefix that ends inside a byte: the kernel overlooks a change of that byte's
\* highest bit, which CEL compares, and sees one of its lowest bit, which CEL does not.
LEMMA InsideAByte ==
    ASSUME NEW p \in Address, NEW n \in Nat, n <= Len(p) * ByteBits, n % ByteBits # 0
    PROVE  LET i == (n \div ByteBits) + 1
               high == Flip(p, i, ByteBits - 1)
               low == Flip(p, i, 0)
           IN  /\ i \in 1..Len(p) /\ ByteBits - 1 \in 0..(ByteBits - 1) /\ 0 \in 0..(ByteBits - 1) /\ ByteBits - 1 # 0
               /\ LowMatch(p, high, n) /\ ~prefixMatch(p, high, n)
               /\ ~LowMatch(p, low, n) /\ prefixMatch(p, low, n)
  <1> DEFINE q == n \div ByteBits
             r == n % ByteBits
             i == q + 1
             high == Flip(p, i, ByteBits - 1)
             low == Flip(p, i, 0)
  <1>1. /\ q \in Nat /\ r \in 1..(ByteBits - 1) /\ n = q * ByteBits + r /\ q * ByteBits \in Nat
        /\ ByteBits \in Nat /\ Len(p) \in Nat /\ Len(p) * ByteBits \in Nat
    <2>1. Len(p) \in Nat /\ ByteBits \in Nat /\ q \in Nat
      BY Addresses, Sizes, Split
    <2>2. r \in 0..(ByteBits - 1) /\ n = q * ByteBits + r
      BY Split
    <2>3. r # 0
      OBVIOUS
    <2> HIDE DEF q, r
    <2>4. q * ByteBits \in Nat /\ Len(p) * ByteBits \in Nat
      BY <2>1, Multiples
    <2> QED BY <2>1, <2>2, <2>3, <2>4
  <1>2. /\ prefixMatch(p, high, n) <=>
             /\ \A j \in 1..q : p[j] = high[j]
             /\ \A k \in (ByteBits - r)..(ByteBits - 1) : p[q + 1][k] = high[q + 1][k]
        /\ prefixMatch(p, low, n) <=>
             /\ \A j \in 1..q : p[j] = low[j]
             /\ \A k \in (ByteBits - r)..(ByteBits - 1) : p[q + 1][k] = low[q + 1][k]
    BY DEF prefixMatch
  <1> HIDE DEF q, r
  <1>3. q < Len(p)
    BY <1>1, Multiples
  <1>4. i \in 1..Len(p) /\ ByteBits - 1 \in 0..(ByteBits - 1) /\ 0 \in 0..(ByteBits - 1) /\ ByteBits - 1 # 0
    BY <1>1, <1>3
  <1>5. /\ \A j \in 1..Len(p) : j # i => high[j] = p[j] /\ low[j] = p[j]
        /\ \A l \in 0..(ByteBits - 1) : l # ByteBits - 1 => high[i][l] = p[i][l]
        /\ \A l \in 0..(ByteBits - 1) : l # 0 => low[i][l] = p[i][l]
        /\ high[i][ByteBits - 1] # p[i][ByteBits - 1] /\ low[i][0] # p[i][0]
    <2> HIDE DEF i
    <2>0. \A k \in 0..(ByteBits - 1) :
            LET f == Flip(p, i, k)
            IN  /\ \A j \in 1..Len(p) : j # i => f[j] = p[j]
                /\ \A l \in 0..(ByteBits - 1) : l # k => f[i][l] = p[i][l]
                /\ f[i][k] # p[i][k]
      BY <1>4, Flipped
    <2>1. /\ \A j \in 1..Len(p) : j # i => high[j] = p[j]
          /\ \A l \in 0..(ByteBits - 1) : l # ByteBits - 1 => high[i][l] = p[i][l]
          /\ high[i][ByteBits - 1] # p[i][ByteBits - 1]
      BY <1>4, <2>0
    <2>2. /\ \A j \in 1..Len(p) : j # i => low[j] = p[j]
          /\ \A l \in 0..(ByteBits - 1) : l # 0 => low[i][l] = p[i][l]
          /\ low[i][0] # p[i][0]
      BY <1>4, <2>0
    <2> QED BY <2>1, <2>2
  <1> HIDE DEF high, low
  <1>6. LowMatch(p, high, n)
    <2>1. SUFFICES ASSUME NEW k \in 0..(n - 1)
                   PROVE  p[(k \div ByteBits) + 1][k % ByteBits] = high[(k \div ByteBits) + 1][k % ByteBits]
      BY DEF LowMatch
    <2> DEFINE x == k \div ByteBits
               y == k % ByteBits
    <2>0. k \in Nat
      BY <1>1
    <2>1a. x \in Nat /\ y \in 0..(ByteBits - 1) /\ k = x * ByteBits + y
      BY <2>0, Split
    <2> HIDE DEF x, y
    <2>2. x \in Nat /\ y \in 0..(ByteBits - 1) /\ k = x * ByteBits + y /\ k \in Nat /\ x * ByteBits \in Nat
      BY <2>0, <2>1a, Multiples
    <2>3. x <= q
      BY <1>1, <2>2, Multiples
    <2>4. CASE x = q
      <3>1. y # ByteBits - 1
        BY <1>1, <2>2, <2>4
      <3> QED BY <1>5, <2>2, <2>4, <3>1 DEF x, y
    <2>5. CASE x # q
      <3>1. x + 1 \in 1..Len(p) /\ x + 1 # i
        BY <1>1, <1>3, <2>2, <2>3, <2>5
      <3> QED BY <1>5, <3>1 DEF x, y
    <2> QED BY <2>4, <2>5
  <1>7. ~prefixMatch(p, high, n)
    <2>1. ByteBits - 1 \in (ByteBits - r)..(ByteBits - 1)
      BY <1>1
    <2> QED BY <1>2, <1>5, <2>1
  <1>8. ~LowMatch(p, low, n)
    <2> DEFINE k == q * ByteBits + 0
    <2>1. k \in Nat /\ k \div ByteBits = q /\ k % ByteBits = 0
      BY <1>1, <1>4, Place
    <2>2. k \in 0..(n - 1)
      BY <1>1
    <2> HIDE DEF k
    <2> QED BY <1>5, <2>1, <2>2 DEF LowMatch
  <1>9. prefixMatch(p, low, n)
    <2>1. \A j \in 1..q : j \in 1..Len(p) /\ j # i
      BY <1>1, <1>3
    <2>2. \A k \in (ByteBits - r)..(ByteBits - 1) : k \in 0..(ByteBits - 1) /\ k # 0
      BY <1>1
    <2> QED BY <1>2, <1>5, <2>1, <2>2
  <1> QED BY <1>4, <1>6, <1>7, <1>8, <1>9 DEF q, high, low

\* ko_ip_in_set decides a prefix as CEL does for every address if and only if the
\* prefix ends at a byte: each prefix that does not, such as 172.16.0.0/12, is
\* decided wrongly for some address.
THEOREM KernelExactIffWholeBytes ==
    \A c \in Cidr :
        ~Is4In6(c.addr) /\ c.bits <= Len(c.addr) * ByteBits =>
            ((\A a \in Address : ko_ip_in_set(a, PrefixArrays(<< c >>)) <=> AddrInCIDRs(a, << c >>))
             <=> c.bits % ByteBits = 0)
  <1> SUFFICES ASSUME NEW c \in Cidr, ~Is4In6(c.addr), c.bits <= Len(c.addr) * ByteBits
               PROVE  (\A a \in Address : ko_ip_in_set(a, PrefixArrays(<< c >>)) <=> AddrInCIDRs(a, << c >>))
                      <=> c.bits % ByteBits = 0
    OBVIOUS
  <1> DEFINE cs == << c >>
  <1>0. cs \in Seq(Cidr) /\ DOMAIN cs = {1} /\ cs[1] = c
    OBVIOUS
  <1>1. c.addr \in Address /\ c.bits \in Nat
    BY Parsed
  <1> HIDE DEF cs
  <1>2. ASSUME c.bits % ByteBits = 0, NEW a \in Address
        PROVE  ko_ip_in_set(a, PrefixArrays(cs)) <=> AddrInCIDRs(a, cs)
    <2>1. \A j \in DOMAIN cs : ~Is4In6(cs[j].addr) /\ cs[j].bits % ByteBits = 0
      BY <1>0, <1>2
    <2> QED BY <1>0, <2>1, KernelIsExactOnWholeBytes
  <1>3. ASSUME c.bits % ByteBits # 0
        PROVE  \E a \in Address : ~(ko_ip_in_set(a, PrefixArrays(cs)) <=> AddrInCIDRs(a, cs))
    <2> DEFINE i == (c.bits \div ByteBits) + 1
               high == Flip(c.addr, i, ByteBits - 1)
               low == Flip(c.addr, i, 0)
    <2>1. /\ i \in 1..Len(c.addr) /\ ByteBits - 1 \in 0..(ByteBits - 1) /\ 0 \in 0..(ByteBits - 1) /\ ByteBits - 1 # 0
          /\ LowMatch(c.addr, high, c.bits) /\ ~prefixMatch(c.addr, high, c.bits)
          /\ ~LowMatch(c.addr, low, c.bits) /\ prefixMatch(c.addr, low, c.bits)
      BY <1>1, <1>3, InsideAByte
    <2>2. high \in Address /\ Len(high) = Len(c.addr) /\ low \in Address /\ Len(low) = Len(c.addr)
      BY <1>1, <2>1, Flipped
    <2>3. ~Is4In6(high) \/ ~Is4In6(low)
      BY <1>1, <2>1, NotBothMapped
    <2> HIDE DEF i, high, low
    <2>4. ASSUME NEW a \in Address, Len(a) = Len(c.addr), ~Is4In6(a)
          PROVE  /\ ko_ip_in_set(a, PrefixArrays(cs)) <=> LowMatch(c.addr, a, c.bits)
                 /\ AddrInCIDRs(a, cs) <=> prefixMatch(c.addr, a, c.bits)
      <3>1. Unmap(a) = a
        BY <2>4, Unmapped
      <3>2. InPrefix4(PrefixArrays(cs)[1], a) \/ InPrefix6(PrefixArrays(cs)[1], a) <=> LowMatch(c.addr, a, c.bits)
        BY <1>0, <2>4, <3>1, KernelMatches
      <3>3. DOMAIN PrefixArrays(cs) = {1}
        BY <1>0 DEF PrefixArrays
      <3>4. PrefixContains(c, a) <=> prefixMatch(c.addr, a, c.bits)
        BY <2>4, CelMatches
      <3>5. AddrInCIDRs(a, cs) <=> PrefixContains(c, a)
        BY <1>0, <3>1, Parsed DEF AddrInCIDRs
      <3> QED BY <3>2, <3>3, <3>4, <3>5 DEF ko_ip_in_set
    <2>5. CASE ~Is4In6(high)
      BY <2>1, <2>2, <2>4, <2>5
    <2>6. CASE ~Is4In6(low)
      BY <2>1, <2>2, <2>4, <2>6
    <2> QED BY <2>3, <2>5, <2>6
  <1> QED BY <1>2, <1>3 DEF cs
=============================================================================
