-------------------------- MODULE MCFilterCompile --------------------------
(***************************************************************************)
(* FilterCompile for TLC: integers of three bits, bytes of two bits, IPv4  *)
(* addresses of two bytes.  One family of configurations compares          *)
(* statistics, types and attributes, the other addresses.                  *)
(***************************************************************************)
EXTENDS FilterCompile

MCTexts == << << "" >>, << "a" >>, << "a", "b" >>, << "b" >>, << "conn_closed" >>,
              << "conn_failed" >>, << "other" >>, << "probe" >>, << "retransmit" >> >>

A == Str(<< "a" >>)
B == Str(<< "b" >>)
AB == Str(<< "a", "b" >>)

\* Expressions: a comparison, and calls of && || ! at the end of their operands.
Leaf(e) == << e >>
Shift(x, n) == [i \in DOMAIN x |-> IF x[i].fn \in Connectives
                                    THEN Call(x[i].fn, [k \in DOMAIN x[i].args |-> x[i].args[k] + n]) ELSE x[i]]
Binary(fn, x, y) == x \o Shift(y, Len(x)) \o << Call(fn, << Len(x), Len(x) + Len(y) >>) >>
Negation(x) == Append(x, Call("!", << Len(x) >>))
Leaves(E) == {Leaf(e) : e \in E}
Not(X) == {Negation(x) : x \in X}

\* Comparisons of every kind the compiler tells apart.
Stats(fields, lits) == {Call(op, << Ident(f), Num(i) >>) : op \in Cmp, f \in fields, i \in lits}
Types == {Call(op, << Ident("ko_type"), x >>) : op \in {"==", "!="},
             x \in {typeConsts[1], typeConsts[3], TypeName[2], Str(<< "other" >>)}}
Attrs == {Call(op, << Ident(f), x >>) : op \in {"==", "!=", "<="}, f \in {"ko_namespace", "ko_pod"}, x \in {A, B}}
Ins == {Call("in", << Ident("ko_namespace"), Lst(l) >>) : l \in {<< >>, << A >>, << A, B >>}}
       \cup {Call("in", << Ident("ko_type"), Lst(l) >>) :
                l \in {<< >>, << typeConsts[2], TypeName[4] >>, << TypeName[1], Str(<< "other" >>) >>}}
       \cup {Call("in", << Ident("ko_segs_out"), Lst(<< Num(1) >>) >>)}
Vars == {Call("==", << Ident("ko_rtt_us"), Ident("ko_error") >>), Call("==", << typeConsts[4], Ident("ko_type") >>),
         Call("!=", << Num(1), Num(2) >>)}

Simple == Stats(statsFields, {0, 1, 3}) \cup Types \cup Attrs \cup Ins \cup Vars

\* Conjunctions, disjunctions and lists of two filters, of fewer comparisons.
Core == Stats({"ko_error"}, {1}) \cup {e \in Attrs \cup Ins : e.args[1] = Ident("ko_namespace")}
        \cup {Call("!=", << Ident("ko_type"), typeConsts[1] >>), Call("==", << Ident("ko_pod"), A >>)}
CoreX == Leaves(Core)
CoreNot == CoreX \cup Not(CoreX)
Pairs == {Binary("&&", x, y) : x, y \in CoreNot}
Deep == Not({Binary("&&", x, y) : x, y \in CoreX}) \cup {Binary("||", x, y) : x, y \in CoreX}
        \cup {Binary("&&", x, Negation(Negation(Binary("&&", y, x)))) : x, y \in CoreX}

\* A filter that fills the array, Limit elements with its marker, and a userspace
\* one whose marker no longer fits.
And(x, y) == Binary("&&", x, y)
Filling(x, y) == And(x, And(y, And(x, And(y, x))))
LongX == Leaves({Call(">", << Ident("ko_error"), Num(1) >>), Call("!=", << Ident("ko_type"), typeConsts[1] >>),
                 Call("==", << Ident("ko_namespace"), A >>), Call("==", << Ident("ko_pod"), A >>)})
LongConfigs == {<< Filling(x, y), Binary("||", x, y) >> : x, y \in LongX}

FieldConfigs == {<< x >> : x \in Leaves(Simple) \cup Not(Leaves(Simple)) \cup Not(Not(Leaves(Simple))) \cup Pairs \cup Deep}
                \cup {<< x, y >> : x, y \in CoreNot} \cup LongConfigs

\* Events: every statistic different, so that fields cannot be mixed up.
Addr(bytes) == [i \in DOMAIN bytes |-> [k \in 0..(ByteBits - 1) |-> (bytes[i] \div 2 ^ k) % 2]]
Plain4 == Addr(<< 1, 2 >>)
Event(t, ns, pod, n, loc, rem) ==
    [type |-> t, ko_namespace |-> ns, ko_container |-> << "" >>, ko_pod |-> pod,
     ko_rtt_us |-> n, ko_life_us |-> (n + 1) % 4, ko_retransmits |-> (n + 2) % 4,
     ko_segs_out |-> (n + 3) % 4, ko_error |-> n, ko_local_addr |-> loc, ko_remote_addr |-> rem]
FieldEvents == {Event(t, ns, pod, n, Plain4, Plain4) :
                   t \in 1..4, ns, pod \in {<< "" >>, << "a" >>, << "b" >>}, n \in 0..3}

-----------------------------------------------------------------------------
(* Addresses. *)

Bytes4 == [1..V4 -> 0..(2 ^ ByteBits - 1)]
All4 == {Addr(b) : b \in Bytes4}

\* The first word is zero or has one bit at either end of either outer byte; the
\* second one is any that looks like a mapped address, or nearly so.
Word0 == { << 0, 0, 0, 0 >>, << 1, 0, 0, 0 >>, << 2, 0, 0, 0 >>, << 0, 0, 0, 1 >>, << 0, 0, 0, 2 >> }
Some6 == {Addr(w \o << z, m >> \o b) : w \in Word0, z \in {0, 1}, m \in {0, 3}, b \in Bytes4}

PrefixesOf(addrs) == UNION {{[addr |-> a, bits |-> n] : n \in 0..(Len(a) * ByteBits)} : a \in addrs}
Prefix6 == {Addr(w \o << z, m, 1, 2 >>) : w \in Word0, z \in {0, 1}, m \in {0, 3}}
Single == PrefixesOf(All4) \cup PrefixesOf(Prefix6)

\* Longer lists are of a few prefixes only; "a" is none.
Few == {A} \cup {Prefix(c) : c \in { [addr |-> Addr(<< 1, 2 >>), bits |-> 2], [addr |-> Addr(<< 2, 0 >>), bits |-> 4],
                                     [addr |-> Addr(<< 2, 0, 0, 0, 0, 0, 0, 0 >>), bits |-> 2] }}
Lists == {Lst(l) : l \in {<< >>} \cup {<< Prefix(c) >> : c \in Single} \cup [1..2 -> Few] \cup [1..3 -> Few]}
         \cup {Ident("ko_loopback_cidrs"), Ident("ko_private_cidrs")}
MCLists == [ko_loopback_cidrs |-> Lst(<< Prefix([addr |-> Addr(<< 1, 0 >>), bits |-> 2]),
                                         Prefix([addr |-> Addr(<< 0, 0, 0, 0, 0, 0, 0, 1 >>), bits |-> 16]) >>),
            ko_private_cidrs |-> Lst(<< Prefix([addr |-> Addr(<< 2, 0 >>), bits |-> 2]),
                                        Prefix([addr |-> Addr(<< 3, 2 >>), bits |-> 3]) >>)]

InLists == {Call("ip_in", << Ident("ko_remote_addr"), l >>) : l \in Lists}
           \cup {Call("ip_in", << Ident("ko_local_addr"), Lst(<< x >>) >>) : x \in Few}
AddrConfigs == {<< x >> : x \in Leaves(InLists) \cup Not(Leaves(InLists))}

\* Both addresses of a connection are of one family.
AddrEvents == {Event(1, << "" >>, << "" >>, 0, Plain4, a) : a \in All4}
              \cup {Event(1, << "" >>, << "" >>, 0, Addr(<< 0, 0, 0, 0, 0, 3, 2, 1 >>), a) : a \in Some6}

-----------------------------------------------------------------------------
(* What the compiler accepts and does not translate as CEL means it. *)

Mirrored == {Call(op, << Num(i), Ident("ko_rtt_us") >>) : op \in Cmp, i \in {0, 1}}
            \cup {Call(op, << TypeName[4], Ident("ko_type") >>) : op \in {"==", "!="}}
Ordered == {Call(op, << Ident("ko_type"), typeConsts[4] >>) : op \in {"<", "<=", ">", ">="}}
Negative == {Call(op, << Ident("ko_error"), Num(-1) >>) : op \in Cmp}
MappedPrefix == Call("ip_in", << Ident("ko_remote_addr"),
                                 Lst(<< Prefix([addr |-> Addr(<< 0, 0, 0, 0, 0, 3, 1, 2 >>), bits |-> 2]) >>) >>)
InPods(l) == Call("in", << Ident("ko_pod"), Lst(l) >>)
OddConfigs ==
    {<< Leaf(e) >> : e \in Mirrored \cup Ordered \cup Negative \cup {MappedPrefix}}
    \cup {<< Leaf(InPods(<< AB >>)), Leaf(InPods(<< A, B >>)) >>}

MCConfigs == FieldConfigs \cup AddrConfigs
MCEventsOf(exprs) == IF exprs \in AddrConfigs THEN AddrEvents ELSE FieldEvents
=============================================================================
