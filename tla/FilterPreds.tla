----------------------------- MODULE FilterPreds -----------------------------
(***************************************************************************)
(* The comparisons a filter is made of, and the predicates the compiler    *)
(* makes of them: what a comparison means in CEL, the predicates of it or  *)
(* of its negation, the attribute atoms these refer to, and what they make *)
(* of an event.                                                            *)
(*                                                                         *)
(* Comparisons are type-checked CEL calls.  A string is the sequence of    *)
(* its words ("" is one empty word), or, in a list of CIDRs, a parsed      *)
(* prefix.  A bit mask is the set of its bits.  "not in" has been          *)
(* rewritten to a negation, lists for attributes hold plain strings, and   *)
(* addresses occur in ip_in only (compared as strings, with their port,    *)
(* they are always left to userspace).                                     *)
(***************************************************************************)
EXTENDS IpSet, SequencesExt

CONSTANTS
    IntBits,        \* bits of an integer (64)
    MaxAtoms,       \* bits of a verdict mask (64)
    Texts,          \* every plain string, in lexicographic order
    builtinLists    \* ko_loopback_cidrs, ko_private_cidrs

ASSUME FilterPredsAssumption ==
    /\ IntBits \in Nat \ {0} /\ MaxAtoms \in Nat
    /\ DOMAIN builtinLists = {"ko_loopback_cidrs", "ko_private_cidrs"}
    /\ \A n \in DOMAIN builtinLists : builtinLists[n].els \in Seq([kind : {"prefix"}, cidr : Cidr])

-----------------------------------------------------------------------------
(* Syntax. *)

Ident(n) == [kind |-> "ident", name |-> n]
Num(i) == [kind |-> "int", int |-> i]
Str(words) == [kind |-> "string", str |-> words]
Prefix(c) == [kind |-> "prefix", cidr |-> c]
Lst(els) == [kind |-> "list", els |-> els]
Call(fn, args) == [kind |-> "call", fn |-> fn, args |-> args]

IsIdent(e) == e.kind = "ident"
IsLiteral(e) == e.kind \in {"int", "string", "prefix"}

Cmp == {"==", "!=", "<", "<=", ">", ">="}
statsFields == {"ko_rtt_us", "ko_life_us", "ko_retransmits", "ko_segs_out", "ko_error"}
attrFields == {"ko_namespace", "ko_container", "ko_pod"}
addrFields == {"ko_local_addr", "ko_remote_addr"}

\* The event types 1 to 4: their names, and the variables that stand for these.
TypeName == << Str(<< "conn_failed" >>), Str(<< "conn_closed" >>), Str(<< "retransmit" >>), Str(<< "probe" >>) >>
typeConsts == << Ident("ko_type_conn_failed"), Ident("ko_type_conn_closed"),
                 Ident("ko_type_retransmit"), Ident("ko_type_probe") >>

-----------------------------------------------------------------------------
(* CEL. *)

\* The value of a variable or of a constant.
Scalar(e, v) ==
    CASE e \in Range(typeConsts) -> TypeName[CHOOSE t \in 1..4 : typeConsts[t] = e]
      [] IsIdent(e) /\ e.name = "ko_type" -> TypeName[v.type]
      [] IsIdent(e) /\ e.name \in statsFields -> Num(v[e.name])
      [] IsIdent(e) /\ e.name \in attrFields -> Str(v[e.name])
      [] IsLiteral(e) -> e

\* The values of a list.
Values(e, v) ==
    IF IsIdent(e) THEN builtinLists[e.name].els ELSE [i \in DOMAIN e.els |-> Scalar(e.els[i], v)]

Rank(x) == IF x.kind = "int" THEN x.int ELSE CHOOSE i \in DOMAIN Texts : Texts[i] = x.str

Compares(op, x, y) ==
    CASE op = "==" -> x = y
      [] op = "!=" -> x # y
      [] op = "<" -> Rank(x) < Rank(y)
      [] op = "<=" -> Rank(x) <= Rank(y)
      [] op = ">" -> Rank(x) > Rank(y)
      [] op = ">=" -> Rank(x) >= Rank(y)

\* netip.ParsePrefix of the strings of a list.
Cidrs(values) == [i \in DOMAIN values |-> IF values[i].kind = "prefix" THEN values[i].cidr ELSE NotACidr]

\* The value of a comparison.
CelLeaf(e, v) ==
    CASE e.fn \in Cmp -> Compares(e.fn, Scalar(e.args[1], v), Scalar(e.args[2], v))
      [] e.fn = "in" -> Scalar(e.args[1], v) \in Range(Values(e.args[2], v))
      [] e.fn = "ip_in" -> AddrInCIDRs(v[e.args[1].name], Cidrs(Values(e.args[2], v)))

-----------------------------------------------------------------------------
(* The compiler.  "atoms" is the list of attribute atoms so far; atoms stay in *)
(* it when the filter they belong to is left to userspace in the end.          *)

Fail(atoms) == [ok |-> FALSE, preds |-> << >>, atoms |-> atoms]
Done(preds, atoms) == [ok |-> TRUE, preds |-> preds, atoms |-> atoms]

CmpPred(field, op, val) == [kind |-> "CMP", field |-> field, op |-> op, val |-> val]
MaskPred(op, mask) == [kind |-> "CMP", op |-> op, mask |-> mask]
IpPred(field, neg, cs) == [kind |-> "IPSET", field |-> field, neg |-> neg, prefixes |-> PrefixArrays(cs)]

\* The type a constant or a string names; {} for any other expression.
typeBitOf(e) == {t \in 1..4 : e \in {typeConsts[t], TypeName[t]}}

\* The types of a list; {} when it is empty or an element is no type.
typeMaskOf(e) ==
    IF e.kind # "list" \/ \E i \in DOMAIN e.els : typeBitOf(e.els[i]) = {} THEN {}
    ELSE UNION {typeBitOf(e.els[i]) : i \in DOMAIN e.els}

\* The strings of a list, as far as it has them.
IsStrings(e) ==
    \/ IsIdent(e) /\ e.name \in DOMAIN builtinLists
    \/ e.kind = "list" /\ \A i \in DOMAIN e.els : e.els[i].kind \in {"string", "prefix"}
listOfStrings(e) == IF IsIdent(e) THEN builtinLists[e.name].els ELSE e.els

\* Mutation of flipCmp: the operands are swapped instead of the outcome negated.
flipCmpSwaps(op) ==
    CASE op = "==" -> "!=" [] op = "!=" -> "=="
      [] op = "<" -> ">" [] op = ">" -> "<" [] op = "<=" -> ">=" [] op = ">=" -> "<="

\* The opposite comparison.
flipCmp(op) ==
    CASE op = "==" -> "!=" [] op = "!=" -> "=="
      [] op = "<" -> ">=" [] op = ">=" -> "<" [] op = ">" -> "<=" [] op = "<=" -> ">"

\* An atom: an attribute compared with one string or with a list of strings.
Text == [kind : {"string"}, str : Seq(STRING)]
Atom == [field : attrFields, op : {"eq", "in"}, values : Seq(Text)]

\* Atoms are shared by their key, in which fmt.Sprint separates values by spaces.
AtomKey(a) == << a.field, a.op, FlattenSeq([i \in DOMAIN a.values |-> a.values[i].str]) >>

\* Adds an atom unless there is one with its key, and a predicate for it.
attrPred(field, op, values, neg, atoms) ==
    LET a == [field |-> field, op |-> op, values |-> values]
        same == {i \in DOMAIN atoms : AtomKey(atoms[i]) = AtomKey(a)}
        id == IF same = {} THEN Len(atoms) + 1 ELSE Min(same)
    IN  Done(<< [kind |-> "ATTR", a |-> id, neg |-> neg] >>,
             IF same = {} THEN Append(atoms, a) ELSE atoms)

\* Types can be equal or not; for any other comparison there is no predicate.
typePreds(op, bit) ==
    CASE op = "==" -> << MaskPred("in", bit) >>
      [] op = "!=" -> << MaskPred("not in", bit) >>
      [] OTHER -> << >>

\* A signed literal becomes an unsigned value.
cmpField(name, op, lit, atoms) ==
    CASE name \in statsFields /\ lit.kind = "int" ->
            Done(<< CmpPred(name, op, lit.int % 2 ^ IntBits) >>, atoms)
      [] name \in attrFields /\ lit.kind = "string" /\ op \in {"==", "!="} ->
            attrPred(name, "eq", << lit >>, op = "!=", atoms)
      [] OTHER -> Fail(atoms)

FieldPreds(name, op, e, atoms) ==
    CASE name = "ko_type" /\ typeBitOf(e) # {} -> Done(typePreds(op, typeBitOf(e)), atoms)
      [] (name # "ko_type" \/ typeBitOf(e) = {}) /\ IsLiteral(e) -> cmpField(name, op, e, atoms)
      [] OTHER -> Fail(atoms)

\* The field is on either side; on the right, the comparison is flipped.
cmpPreds(args, op, atoms) ==
    CASE IsIdent(args[1]) -> FieldPreds(args[1].name, op, args[2], atoms)
      [] ~IsIdent(args[1]) /\ IsIdent(args[2]) -> FieldPreds(args[2].name, flipCmp(op), args[1], atoms)
      [] OTHER -> Fail(atoms)

IsTypeList(args) == IsIdent(args[1]) /\ args[1].name = "ko_type" /\ typeMaskOf(args[2]) # {}
IsAttrList(args) ==
    /\ IsIdent(args[1]) /\ args[1].name \in attrFields
    /\ IsStrings(args[2]) /\ listOfStrings(args[2]) # << >>

inPreds(args, atoms) ==
    CASE IsTypeList(args) -> Done(<< MaskPred("in", typeMaskOf(args[2])) >>, atoms)
      [] IsAttrList(args) -> attrPred(args[1].name, "in", listOfStrings(args[2]), FALSE, atoms)
      [] OTHER -> Fail(atoms)

\* Not in: different from each value, and an atom for each.
negInPreds(args, atoms) ==
    CASE IsTypeList(args) -> Done(<< MaskPred("not in", typeMaskOf(args[2])) >>, atoms)
      [] IsAttrList(args) ->
            LET list == listOfStrings(args[2])
                upTo[n \in 0..Len(list)] ==
                    IF n = 0 THEN Done(<< >>, atoms)
                    ELSE LET c == upTo[n - 1]
                             r == attrPred(args[1].name, "eq", << list[n] >>, TRUE, c.atoms)
                         IN  Done(c.preds \o r.preds, r.atoms)
            IN  upTo[Len(list)]
      [] OTHER -> Fail(atoms)

ipInPreds(args, neg, atoms) ==
    IF /\ IsIdent(args[1]) /\ args[1].name \in addrFields
       /\ IsStrings(args[2])
       /\ InKernel(Cidrs(listOfStrings(args[2])), neg)
    THEN Done(<< IpPred(args[1].name, neg, Cidrs(listOfStrings(args[2]))) >>, atoms)
    ELSE Fail(atoms)

\* conj and negConj of a comparison; there are no predicates for anything else.
leafPreds(e, neg, atoms) ==
    CASE e.kind = "call" /\ e.fn \in Cmp -> cmpPreds(e.args, IF neg THEN flipCmp(e.fn) ELSE e.fn, atoms)
      [] e.kind = "call" /\ e.fn = "in" -> IF neg THEN negInPreds(e.args, atoms) ELSE inPreds(e.args, atoms)
      [] e.kind = "call" /\ e.fn = "ip_in" -> ipInPreds(e.args, neg, atoms)
      [] OTHER -> Fail(atoms)

-----------------------------------------------------------------------------
(* The verdict mask of a cgroup, and the predicates of an event. *)

\* The compiler makes atoms of two kinds only; their negation is in the predicate.
atomEval(a, v) ==
    \/ a.op = "eq" /\ v[a.field] = a.values[1].str
    \/ a.op = "in" /\ \E i \in DOMAIN a.values : v[a.field] = a.values[i].str

VerdictMask(atoms, v) == {i \in DOMAIN atoms : i <= MaxAtoms /\ atomEval(atoms[i], v)}

\* The comparisons of unsigned numbers and of masks, the same in the kernel and in Go.
CmpHolds(p, v) ==
    CASE p.op = "in" -> v.type \in p.mask
      [] p.op = "not in" -> v.type \notin p.mask
      [] OTHER -> Compares(p.op, Num(v[p.field]), Num(p.val))

\* A predicate of an event; inSet is what an IPSET one finds.
PredHolds(p, v, mask, inSet) ==
    CASE p.kind = "CMP" -> CmpHolds(p, v)
      [] p.kind = "IPSET" -> inSet = ~p.neg
      [] p.kind = "ATTR" -> (p.a \in mask) = ~p.neg
      [] p.kind = "END" -> TRUE

\* A predicate for the kernel, and for the machine of the tests.
KernelHolds(p, v, mask) ==
    PredHolds(p, v, mask, p.kind = "IPSET" /\ ko_ip_in_set(v[p.field], p.prefixes))
MachineHolds(p, v, mask) ==
    PredHolds(p, v, mask, p.kind = "IPSET" /\ evIPInSet(v[p.field], p.prefixes))

-----------------------------------------------------------------------------
(* What comparisons are translated as CEL means them. *)

\* The field is on the left.
FieldFirst(e) == e.fn \in Cmp => IsIdent(e.args[1])
\* Types are compared for equality only.
TypesEqual(e) == e.fn \in {"<", "<=", ">", ">="} => e.args[1] # Ident("ko_type")
NonNegative(e) == \A i \in DOMAIN e.args : e.args[i].kind = "int" => e.args[i].int >= 0
\* Strings without spaces.
OneWord(e) ==
    e.fn = "in" /\ e.args[2].kind = "list" =>
        \A i \in DOMAIN e.args[2].els : e.args[2].els[i].kind = "string" => Len(e.args[2].els[i].str) = 1
CidrsOf(e) == IF e.fn = "ip_in" THEN Range(Cidrs(listOfStrings(e.args[2]))) ELSE {}
PlainCidrs(e) == \A c \in CidrsOf(e) : ~Is4In6(c.addr)
WholeBytes(e) == \A c \in CidrsOf(e) : c.bits % ByteBits = 0

Plain(e) == FieldFirst(e) /\ TypesEqual(e) /\ NonNegative(e) /\ OneWord(e) /\ PlainCidrs(e)

\* What the type checker lets through: comparisons of variables and constants, lists
\* of these; only an address is looked for among CIDRs.
Scalars == [kind : {"ident"}, name : STRING] \cup [kind : {"int"}, int : {i \in Int : i < 2 ^ IntBits}]
           \cup [kind : {"string"}, str : Seq(STRING)] \cup [kind : {"prefix"}, cidr : Cidr]
IsList(e) == e.kind = "list" /\ e.els \in Seq(Scalars)
IsBuiltin(e) == IsIdent(e) /\ e.name \in DOMAIN builtinLists
TypeChecked(e) ==
    /\ e.kind = "call" /\ DOMAIN e.args = 1..2 /\ e.args[1] \in Scalars
    /\ \/ e.fn \in Cmp /\ e.args[2] \in Scalars
       \/ /\ e.fn = "in" /\ IsList(e.args[2])
          /\ \A i \in DOMAIN e.args[2].els : e.args[2].els[i].kind # "prefix"
       \/ e.fn = "ip_in" /\ (IsList(e.args[2]) \/ IsBuiltin(e.args[2]))

\* An event has a type, statistics, the attributes of its container and addresses.
IsEvent(v) ==
    /\ v.type \in 1..4
    /\ \A f \in statsFields : v[f] \in Nat
    /\ \A f \in attrFields : v[f] \in Seq(STRING)
    /\ \A f \in addrFields : v[f] \in Address
=============================================================================
