------------------------------- MODULE IpSet -------------------------------
(***************************************************************************)
(* ip_in(address, cidrs), three times: in CEL (AddrInCIDRs), which is the  *)
(* reference; in the kernel (ko_ip_in_set), which compares little-endian   *)
(* words; and in the userspace machine that the tests compare with CEL     *)
(* (evIPInSet), which compares bytes.  The compiler decides whether a list *)
(* of prefixes is pushed down to the kernel at all (InKernel).             *)
(*                                                                         *)
(* An address is a sequence of bytes in network order, a byte or a word is *)
(* the function of its bits, 0 the least significant one.  The sizes are   *)
(* constants, with the proportions of the code: a word holds two IPv4      *)
(* addresses, an IPv6 address is two words, and in a v4-mapped one the     *)
(* second word is half an IPv4 address of zeros, as much of ones, and the  *)
(* IPv4 address.                                                           *)
(***************************************************************************)
EXTENDS Integers, Sequences

CONSTANTS
    ByteBits,   \* bits of a byte (8)
    V4,         \* bytes of an IPv4 address (4)
    MaxIPSet    \* prefixes of one predicate (4)

Byte == [0..(ByteBits - 1) -> {0, 1}]
Zero == [k \in 0..(ByteBits - 1) |-> 0]
Ones == [k \in 0..(ByteBits - 1) |-> 1]
V6 == 4 * V4
Word == 2 * V4
Mark == V4 \div 2
Address == [1..V4 -> Byte] \cup [1..V6 -> Byte]

\* A parsed prefix (netip.ParsePrefix), or a string that is none.
NotACidr == [addr |-> << >>, bits |-> 0]
Cidr == [addr : Address, bits : 0..(V6 * ByteBits)]
IsCidr(c) == c # NotACidr

ASSUME IpSetAssumption ==
    /\ ByteBits \in Nat \ {0}
    /\ V4 \in Nat \ {0} /\ V4 % 2 = 0
    /\ MaxIPSet \in Nat \ {0}

-----------------------------------------------------------------------------
(* CEL. *)

Is4(a) == Len(a) = V4
Is4In6(a) ==
    /\ Len(a) = V6
    /\ \A i \in 1..(V6 - V4 - Mark) : a[i] = Zero
    /\ \A i \in (V6 - V4 - Mark + 1)..(V6 - V4) : a[i] = Ones
Unmap(a) == IF Is4In6(a) THEN SubSeq(a, V6 - V4 + 1, V6) ELSE a

\* The n-th bit of an address, the most significant bit of the first byte first.
Bit(a, n) == a[(n \div ByteBits) + 1][ByteBits - 1 - (n % ByteBits)]

\* A prefix of a v4-mapped address is unmapped with its length as it is, so that
\* it may be too long; Contains is then false.
PrefixContains(c, a) ==
    LET p == Unmap(c.addr) IN
    /\ Len(p) = Len(a)
    /\ c.bits <= Len(p) * ByteBits
    /\ \A n \in 0..(c.bits - 1) : Bit(p, n) = Bit(a, n)

AddrInCIDRs(a, cs) == \E i \in DOMAIN cs : IsCidr(cs[i]) /\ PrefixContains(cs[i], Unmap(a))

-----------------------------------------------------------------------------
(* The compiler. *)

\* Pred.Addr is an array of V6 bytes.
Pad(a) == [i \in 1..V6 |-> IF i <= Len(a) THEN a[i] ELSE Zero]

\* The list is left to CEL when it is empty (and not negated), too long, or has an
\* element that does not parse.
InKernel(cs, neg) ==
    /\ cs = << >> => neg
    /\ Len(cs) <= MaxIPSet
    /\ \A i \in DOMAIN cs : IsCidr(cs[i])

PrefixArrays(cs) ==
    [i \in DOMAIN cs |-> [fam |-> IF Is4(cs[i].addr) THEN 4 ELSE 6,
                          plen |-> cs[i].bits, addr |-> Pad(cs[i].addr)]]

-----------------------------------------------------------------------------
(* The kernel. *)

\* memcpy of the n-th word: the first byte is the least significant one.
Load(a, n) ==
    [k \in 0..(Word * ByteBits - 1) |-> a[n * Word + (k \div ByteBits) + 1][k % ByteBits]]

\* (x ^ y) << (width - n) is zero where the low n bits of x and y agree.
SameLow(x, y, n) == \A k \in 0..(n - 1) : x[k] = y[k]

\* An IPv4 socket, or a v4-mapped address: the words are compared with 0, under the
\* mask 0xffff, and under the next 16 bits with 0xffff.
is4(a) ==
    \/ Is4(a)
    \/ /\ \A k \in 0..(Word * ByteBits - 1) : Load(a, 0)[k] = 0
       /\ \A k \in 0..(Mark * ByteBits - 1) : Load(a, 1)[k] = 0
       /\ \A k \in (Mark * ByteBits)..(2 * Mark * ByteBits - 1) : Load(a, 1)[k] = 1

\* The IPv4 address, shifted out of the second word if it is a mapped one.
aw4(a) ==
    IF Is4(a) THEN Load(Pad(a), 0)
    ELSE [k \in 0..(V4 * ByteBits - 1) |-> Load(a, 1)[k + V4 * ByteBits]]

InPrefix4(p, a) ==
    /\ p.fam = 4 /\ is4(a)
    /\ p.plen <= V4 * ByteBits
    /\ SameLow(Load(p.addr, 0), aw4(a), p.plen)

InPrefix6(p, a) ==
    /\ p.fam = 6 /\ ~is4(a)
    /\ p.plen <= V6 * ByteBits
    /\ \/ /\ p.plen <= Word * ByteBits
          /\ SameLow(Load(p.addr, 0), Load(a, 0), p.plen)
       \/ /\ p.plen > Word * ByteBits
          /\ Load(p.addr, 0) = Load(a, 0)
          /\ SameLow(Load(p.addr, 1), Load(a, 1), p.plen - Word * ByteBits)

ko_ip_in_set(a, prefixes) ==
    \E i \in DOMAIN prefixes : InPrefix4(prefixes[i], a) \/ InPrefix6(prefixes[i], a)

-----------------------------------------------------------------------------
(* The userspace machine. *)

\* Mutation of prefixMatch: the last, partial byte is not compared.
prefixMatchBytes(p, b, plen) ==
    \A i \in 1..(plen \div ByteBits) : p[i] = b[i]

\* Whole bytes, then the high bits of the next one.
prefixMatch(p, b, plen) ==
    LET whole == plen \div ByteBits
        rem == plen % ByteBits
    IN  /\ \A i \in 1..whole : p[i] = b[i]
        /\ \A k \in (ByteBits - rem)..(ByteBits - 1) : p[whole + 1][k] = b[whole + 1][k]

evIPInSet(a, prefixes) ==
    LET b == Unmap(a) IN
    \E i \in DOMAIN prefixes :
        /\ prefixes[i].fam = 4 <=> Is4(b)
        /\ prefixes[i].plen <= Len(b) * ByteBits
        /\ prefixMatch(prefixes[i].addr, b, prefixes[i].plen)
=============================================================================
