------------------------ MODULE FilterCompileProofs ------------------------
(***************************************************************************)
(* The compiled stream decides an event as CEL does: for every list of     *)
(* expressions, however long and however deep, whose comparisons are       *)
(* plain.                                                                  *)
(*                                                                         *)
(* FilterPredsProofs has the comparisons.  Here: the code of a call has    *)
(* the meaning of the call (CodeIsRight), so the predicates of each filter *)
(* have the meaning of its expression under the verdicts of all atoms      *)
(* (FiltersAreRight), the stream is their concatenation (StreamAt), and    *)
(* the walk, from one marker to the next, finds the first filter that      *)
(* holds or gives up (WalkIsRight).  The kernel's walk stops at the end of *)
(* the array; what it has found by then stays (ResultStays).               *)
(***************************************************************************)
EXTENDS FilterCompile, FilterPredsProofs

-----------------------------------------------------------------------------
(* The values of the calls of an expression. *)

\* The equations of Cel: f is the function of the values of the first n calls.
ValOf(f, x, v, i) ==
    CASE x[i].fn = "&&" -> f[x[i].args[1]] /\ f[x[i].args[2]]
      [] x[i].fn = "||" -> f[x[i].args[1]] \/ f[x[i].args[2]]
      [] x[i].fn = "!" -> ~f[x[i].args[1]]
      [] OTHER -> CelLeaf(x[i], v)
IsVals(f, x, v, n) == f = [i \in 1..n |-> ValOf(f, x, v, i)]

\* A value depends on earlier ones only.
LEMMA ValIsLocal ==
    ASSUME NEW x, IsExpr(x), NEW v, NEW i \in 1..Len(x), NEW f, NEW g, \A j \in 1..(i - 1) : f[j] = g[j]
    PROVE  ValOf(f, x, v, i) = ValOf(g, x, v, i)
  <1>1. \/ x[i].fn \in {"&&", "||"} /\ x[i].args[1] \in 1..(i - 1) /\ x[i].args[2] \in 1..(i - 1)
        \/ x[i].fn = "!" /\ x[i].args[1] \in 1..(i - 1)
        \/ x[i].fn \notin {"&&", "||", "!"}
    BY DEF IsExpr, Earlier, TypeChecked, Cmp
  <1>2. CASE x[i].fn \in {"&&", "||"} /\ x[i].args[1] \in 1..(i - 1) /\ x[i].args[2] \in 1..(i - 1)
    BY <1>2 DEF ValOf
  <1>3. CASE x[i].fn = "!" /\ x[i].args[1] \in 1..(i - 1)
    BY <1>3 DEF ValOf
  <1>4. CASE x[i].fn \notin {"&&", "||", "!"}
    BY <1>4 DEF ValOf
  <1> QED BY <1>1, <1>2, <1>3, <1>4

\* There are such values.
LEMMA ValsExist ==
    ASSUME NEW x, IsExpr(x), NEW v
    PROVE  \E f : IsVals(f, x, v, Len(x))
  <1> DEFINE Is(f, m) == IsVals(f, x, v, m)
             T == {m \in 0..Len(x) : ~(\E f : Is(f, m))}
  <1>0. Len(x) \in Nat /\ Len(x) \in 0..Len(x)
    BY DEF IsExpr
  <1>1. SUFFICES ASSUME T # {} PROVE FALSE
    BY <1>0
  <1>2. PICK n \in T : \A y \in T : n <= y
    <2>1. T \in SUBSET Nat
      BY <1>0
    <2> HIDE DEF T
    <2> QED BY <1>1, <2>1, Least
  <1>3. n \in 0..Len(x) /\ n \in Nat /\ ~(\E f : Is(f, n))
    BY <1>0
  <1>4. CASE n = 0
    <2> DEFINE g == [i \in 1..0 |-> TRUE]
    <2>1. g = [i \in 1..0 |-> ValOf(g, x, v, i)]
      OBVIOUS
    <2>2. Is(g, 0)
      BY <2>1 DEF IsVals
    <2> HIDE DEF g, Is
    <2> QED BY <1>3, <1>4, <2>2
  <1>5. CASE n # 0
    <2>1. n - 1 \in 0..Len(x) /\ n - 1 \notin T /\ n \in 1..Len(x)
      BY <1>0, <1>2, <1>3, <1>5
    <2>2. PICK f : Is(f, n - 1)
      BY <2>1
    <2> DEFINE g == [i \in 1..n |-> IF i <= n - 1 THEN f[i] ELSE ValOf(f, x, v, n)]
    <2>3. \A i \in 1..(n - 1) : g[i] = f[i] /\ f[i] = ValOf(f, x, v, i)
      BY <1>3, <2>2 DEF IsVals
    <2>4. g[n] = ValOf(f, x, v, n)
      BY <1>3, <1>5
    <2>5. ASSUME NEW i \in 1..n PROVE g[i] = ValOf(g, x, v, i)
      <3> HIDE DEF g, Is
      <3>1. i \in 1..Len(x) /\ \A j \in 1..(i - 1) : f[j] = g[j]
        BY <1>3, <2>1, <2>3
      <3>2. ValOf(f, x, v, i) = ValOf(g, x, v, i)
        BY <3>1, ValIsLocal
      <3>3. CASE i = n
        BY <2>4, <3>2, <3>3
      <3>4. CASE i \in 1..(n - 1)
        BY <2>3, <3>2, <3>4
      <3> QED BY <1>3, <3>3, <3>4
    <2>6. Is(g, n)
      BY <2>5 DEF IsVals
    <2> HIDE DEF g, Is
    <2> QED BY <1>3, <2>6
  <1> QED BY <1>4, <1>5

\* The value of the i-th call.
CelAt(x, v, i) == (CHOOSE f : IsVals(f, x, v, Len(x)))[i]

\* The value of each call in terms of its operands; Cel is the value of the last one.
LEMMA CelValues ==
    ASSUME NEW x, IsExpr(x), NEW v
    PROVE  /\ Cel(x, v) = CelAt(x, v, Len(x))
           /\ \A i \in 1..Len(x) :
                 /\ x[i].fn = "&&" => (CelAt(x, v, i) <=> CelAt(x, v, x[i].args[1]) /\ CelAt(x, v, x[i].args[2]))
                 /\ x[i].fn = "!" => (CelAt(x, v, i) <=> ~CelAt(x, v, x[i].args[1]))
                 /\ x[i].fn \notin Connectives => (CelAt(x, v, i) <=> CelLeaf(x[i], v))
  <1> DEFINE V == CHOOSE f : IsVals(f, x, v, Len(x))
  <1>1. Cel(x, v) = V[Len(x)]
    BY DEF Cel, IsVals, ValOf
  <1>2. IsVals(V, x, v, Len(x))
    BY ValsExist
  <1>3. \A i : CelAt(x, v, i) = V[i]
    BY DEF CelAt
  <1> HIDE DEF V
  <1>4. \A i \in 1..Len(x) : V[i] = ValOf(V, x, v, i)
    BY <1>2 DEF IsVals
  <1>5. \A i \in 1..Len(x) :
           /\ x[i].fn = "&&" => (V[i] <=> V[x[i].args[1]] /\ V[x[i].args[2]])
           /\ x[i].fn = "!" => (V[i] <=> ~V[x[i].args[1]])
           /\ x[i].fn \notin Connectives => (V[i] <=> CelLeaf(x[i], v))
    BY <1>4 DEF ValOf, Connectives
  <1> QED BY <1>1, <1>3, <1>5

-----------------------------------------------------------------------------
(* The code of the calls of an expression. *)

\* The equations of conj: f[i] is the code of the i-th call, for both signs and for
\* any atoms so far.
CodeAt(f, x, i, neg, atoms) ==
    CASE x[i].fn = "&&" /\ ~neg ->
            LET l == f[x[i].args[1]][FALSE][atoms]
            IN  Both(l, f[x[i].args[2]][FALSE][l.atoms])
      [] x[i].fn = "!" -> f[x[i].args[1]][~neg][atoms]
      [] OTHER -> leafPreds(x[i], neg, atoms)
CodeOf(f, x, i) == [neg \in BOOLEAN |-> [atoms \in Seq(Atom) |-> CodeAt(f, x, i, neg, atoms)]]
IsCode(f, x, n) == f = [i \in 1..n |-> CodeOf(f, x, i)]

\* The code of a call depends on that of earlier ones only.
LEMMA CodeIsLocal ==
    ASSUME NEW x, IsExpr(x), NEW i \in 1..Len(x), NEW f, NEW g, \A j \in 1..(i - 1) : f[j] = g[j]
    PROVE  CodeOf(f, x, i) = CodeOf(g, x, i)
  <1>1. \/ x[i].fn = "&&" /\ x[i].args[1] \in 1..(i - 1) /\ x[i].args[2] \in 1..(i - 1)
        \/ x[i].fn = "!" /\ x[i].args[1] \in 1..(i - 1)
        \/ x[i].fn \notin {"&&", "!"}
    BY DEF IsExpr, Earlier, TypeChecked, Cmp
  <1>2. ASSUME NEW neg, NEW atoms PROVE CodeAt(f, x, i, neg, atoms) = CodeAt(g, x, i, neg, atoms)
    <2>1. CASE x[i].fn = "&&" /\ x[i].args[1] \in 1..(i - 1) /\ x[i].args[2] \in 1..(i - 1)
      <3>1. f[x[i].args[1]] = g[x[i].args[1]] /\ f[x[i].args[2]] = g[x[i].args[2]]
        BY <2>1
      <3> QED BY <2>1, <3>1 DEF CodeAt
    <2>2. CASE x[i].fn = "!" /\ x[i].args[1] \in 1..(i - 1)
      <3>1. f[x[i].args[1]] = g[x[i].args[1]]
        BY <2>2
      <3> QED BY <2>2, <3>1 DEF CodeAt
    <2>3. CASE x[i].fn \notin {"&&", "!"}
      BY <2>3 DEF CodeAt
    <2> QED BY <1>1, <2>1, <2>2, <2>3
  <1> QED BY <1>2, Zenon DEF CodeOf

\* There is such code.
LEMMA CodeExists ==
    ASSUME NEW x, IsExpr(x)
    PROVE  \E f : IsCode(f, x, Len(x))
  <1> DEFINE Is(f, m) == IsCode(f, x, m)
             T == {m \in 0..Len(x) : ~(\E f : Is(f, m))}
  <1>0. Len(x) \in Nat /\ Len(x) \in 0..Len(x)
    BY DEF IsExpr
  <1>1. SUFFICES ASSUME T # {} PROVE FALSE
    BY <1>0
  <1>2. PICK n \in T : \A y \in T : n <= y
    <2>1. T \in SUBSET Nat
      BY <1>0
    <2> HIDE DEF T
    <2> QED BY <1>1, <2>1, Least
  <1>3. n \in 0..Len(x) /\ n \in Nat /\ ~(\E f : Is(f, n))
    BY <1>0
  <1>4. CASE n = 0
    <2> DEFINE g == [i \in 1..0 |-> TRUE]
    <2>1. g = [i \in 1..0 |-> CodeOf(g, x, i)]
      OBVIOUS
    <2>2. Is(g, 0)
      BY <2>1 DEF IsCode
    <2> HIDE DEF g, Is
    <2> QED BY <1>3, <1>4, <2>2
  <1>5. CASE n # 0
    <2>1. n - 1 \in 0..Len(x) /\ n - 1 \notin T /\ n \in 1..Len(x)
      BY <1>0, <1>2, <1>3, <1>5
    <2>2. PICK f : Is(f, n - 1)
      BY <2>1
    <2> DEFINE g == [i \in 1..n |-> IF i <= n - 1 THEN f[i] ELSE CodeOf(f, x, n)]
    <2>3. \A i \in 1..(n - 1) : g[i] = f[i] /\ f[i] = CodeOf(f, x, i)
      BY <1>3, <2>2 DEF IsCode
    <2>4. g[n] = CodeOf(f, x, n)
      BY <1>3, <1>5
    <2>5. ASSUME NEW i \in 1..n PROVE g[i] = CodeOf(g, x, i)
      <3> HIDE DEF g, Is
      <3>1. i \in 1..Len(x) /\ \A j \in 1..(i - 1) : f[j] = g[j]
        BY <1>3, <2>1, <2>3
      <3>2. CodeOf(f, x, i) = CodeOf(g, x, i)
        BY <3>1, CodeIsLocal
      <3>3. CASE i = n
        BY <2>4, <3>2, <3>3
      <3>4. CASE i \in 1..(n - 1)
        BY <2>3, <3>2, <3>4
      <3> QED BY <1>3, <3>3, <3>4
    <2>6. Is(g, n)
      BY <2>5 DEF IsCode
    <2> HIDE DEF g, Is
    <2> QED BY <1>3, <2>6
  <1> QED BY <1>4, <1>5

\* The code of the i-th call.
Code(x, i, neg, atoms) == (CHOOSE f : IsCode(f, x, Len(x)))[i][neg][atoms]

\* The code of each call in terms of that of its operands; conj is the code of the
\* last one.
LEMMA CodeValues ==
    ASSUME NEW x, IsExpr(x)
    PROVE  /\ \A atoms : conj(x, atoms) = Code(x, Len(x), FALSE, atoms)
           /\ \A i \in 1..Len(x), neg \in BOOLEAN, atoms \in Seq(Atom) :
                 /\ x[i].fn = "&&" /\ ~neg =>
                       Code(x, i, neg, atoms) =
                           Both(Code(x, x[i].args[1], FALSE, atoms),
                                Code(x, x[i].args[2], FALSE, Code(x, x[i].args[1], FALSE, atoms).atoms))
                 /\ x[i].fn = "!" => Code(x, i, neg, atoms) = Code(x, x[i].args[1], ~neg, atoms)
                 /\ ~(x[i].fn = "&&" /\ ~neg) /\ x[i].fn # "!" => Code(x, i, neg, atoms) = leafPreds(x[i], neg, atoms)
  <1> DEFINE K == CHOOSE f : IsCode(f, x, Len(x))
  <1>1. \A atoms : conj(x, atoms) = K[Len(x)][FALSE][atoms]
    BY DEF conj, IsCode, CodeOf, CodeAt
  <1>2. IsCode(K, x, Len(x))
    BY CodeExists
  <1>3. \A i, neg, atoms : Code(x, i, neg, atoms) = K[i][neg][atoms]
    BY DEF Code
  <1> HIDE DEF K
  <1>4. \A i \in 1..Len(x) : K[i] = CodeOf(K, x, i)
    BY <1>2 DEF IsCode
  <1>5. ASSUME NEW i \in 1..Len(x), NEW neg \in BOOLEAN, NEW atoms \in Seq(Atom)
        PROVE  K[i][neg][atoms] = CodeAt(K, x, i, neg, atoms)
    <2>1. K[i][neg] = [xs \in Seq(Atom) |-> CodeAt(K, x, i, neg, xs)]
      BY <1>4, Zenon DEF CodeOf
    <2> QED BY <2>1, Zenon
  <1>6. ASSUME NEW i \in 1..Len(x), NEW neg \in BOOLEAN, NEW atoms \in Seq(Atom)
        PROVE  /\ x[i].fn = "&&" /\ ~neg =>
                     Code(x, i, neg, atoms) =
                         Both(Code(x, x[i].args[1], FALSE, atoms),
                              Code(x, x[i].args[2], FALSE, Code(x, x[i].args[1], FALSE, atoms).atoms))
               /\ x[i].fn = "!" => Code(x, i, neg, atoms) = Code(x, x[i].args[1], ~neg, atoms)
               /\ ~(x[i].fn = "&&" /\ ~neg) /\ x[i].fn # "!" => Code(x, i, neg, atoms) = leafPreds(x[i], neg, atoms)
    <2>1. Code(x, i, neg, atoms) = CodeAt(K, x, i, neg, atoms)
      BY <1>3, <1>5
    <2>2. ASSUME x[i].fn = "&&", ~neg
          PROVE  Code(x, i, neg, atoms) =
                     Both(Code(x, x[i].args[1], FALSE, atoms),
                          Code(x, x[i].args[2], FALSE, Code(x, x[i].args[1], FALSE, atoms).atoms))
      <3>1. CodeAt(K, x, i, neg, atoms) =
                Both(K[x[i].args[1]][FALSE][atoms], K[x[i].args[2]][FALSE][K[x[i].args[1]][FALSE][atoms].atoms])
        BY <2>2 DEF CodeAt
      <3> QED BY <2>1, <3>1, Zenon DEF Code, K
    <2>3. ASSUME x[i].fn = "!" PROVE Code(x, i, neg, atoms) = Code(x, x[i].args[1], ~neg, atoms)
      <3>1. CodeAt(K, x, i, neg, atoms) = K[x[i].args[1]][~neg][atoms]
        BY <2>3 DEF CodeAt
      <3> QED BY <2>1, <3>1, Zenon DEF Code, K
    <2>4. ASSUME ~(x[i].fn = "&&" /\ ~neg), x[i].fn # "!" PROVE Code(x, i, neg, atoms) = leafPreds(x[i], neg, atoms)
      <3>1. CodeAt(K, x, i, neg, atoms) = leafPreds(x[i], neg, atoms)
        BY <2>4 DEF CodeAt
      <3> QED BY <2>1, <3>1
    <2> QED BY <2>2, <2>3, <2>4
  <1>7. \A atoms : conj(x, atoms) = Code(x, Len(x), FALSE, atoms)
    BY <1>1, Zenon DEF Code, K
  <1> QED BY <1>6, <1>7, Zenon

-----------------------------------------------------------------------------
(* The code means the call. *)

PlainExpr(x) == \A i \in 1..Len(x) : x[i].fn \notin Connectives => Plain(x[i])
WholeExpr(x) == \A i \in 1..Len(x) : x[i].fn \notin Connectives => WholeBytes(x[i])

\* An event, and a list of atoms that is at least so long.
Later(atoms, later, v) ==
    IsEvent(v) /\ later \in Seq(Atom) /\ Extends(atoms, later) /\ Len(later) <= MaxAtoms

\* The predicates hold of an event when the i-th call does, or when it does not.
Means(ps, x, i, neg, later, v) ==
    /\ MachineAll(ps, v, VerdictMask(later, v)) <=> (CelAt(x, v, i) <=> ~neg)
    /\ WholeExpr(x) => (KernelAll(ps, v, VerdictMask(later, v)) <=> (CelAt(x, v, i) <=> ~neg))

\* So for what was made of it, with the atoms as they should be.
Sure(r, atoms, x, i, neg) ==
    /\ IsAtoms(r.atoms) /\ Extends(atoms, r.atoms) /\ IsConj(r.preds)
    /\ r.ok => \A v, later : Later(r.atoms, later, v) => Means(r.preds, x, i, neg, later, v)

\* Failing is never wrong.
LEMMA FailSure ==
    ASSUME NEW atoms, IsAtoms(atoms), NEW x, NEW i, NEW neg
    PROVE  Sure(Fail(atoms), atoms, x, i, neg)
  <1>1. Extends(atoms, atoms)
    BY FailExact
  <1>2. Fail(atoms).atoms = atoms /\ Fail(atoms).preds = << >> /\ ~Fail(atoms).ok
    BY DEF Fail
  <1> QED BY <1>1, <1>2, SmallConj DEF Sure

\* &&: the predicates of both, under atoms that both have.
LEMMA BothSure ==
    ASSUME NEW x, NEW i, NEW a, NEW b, NEW atoms, IsAtoms(atoms), NEW l, NEW r, NEW neg \in BOOLEAN, ~neg,
           Sure(l, atoms, x, a, neg), Sure(r, l.atoms, x, b, neg),
           \A v : CelAt(x, v, i) <=> CelAt(x, v, a) /\ CelAt(x, v, b)
    PROVE  Sure(Both(l, r), atoms, x, i, neg)
  <1>1. /\ IsAtoms(l.atoms) /\ Extends(atoms, l.atoms) /\ IsConj(l.preds)
        /\ IsAtoms(r.atoms) /\ Extends(l.atoms, r.atoms) /\ IsConj(r.preds)
    BY DEF Sure
  <1>2. Len(atoms) \in Nat /\ Len(l.atoms) \in Nat /\ Len(r.atoms) \in Nat
    BY <1>1 DEF IsAtoms
  <1>3. Extends(atoms, r.atoms)
    BY <1>1, <1>2, ExtendsTwice
  <1>4. CASE ~(l.ok /\ r.ok)
    <2>1. PICK z : z = IF l.ok THEN r.atoms ELSE l.atoms
      OBVIOUS
    <2>2. Both(l, r) = Fail(z) /\ IsAtoms(z) /\ Extends(atoms, z)
      BY <1>1, <1>3, <1>4, <2>1 DEF Both
    <2>3. Fail(z).atoms = z /\ Fail(z).preds = << >> /\ ~Fail(z).ok
      BY DEF Fail
    <2> QED BY <2>2, <2>3, SmallConj DEF Sure
  <1>5. CASE l.ok /\ r.ok
    <2>1. PICK d : d = Both(l, r)
      OBVIOUS
    <2>2. d.ok /\ d.preds = l.preds \o r.preds /\ d.atoms = r.atoms
      BY <1>5, <2>1 DEF Both, Done
    <2>3. IsConj(d.preds)
      BY <1>1, <2>2, BothConj
    <2>4. ASSUME NEW v, NEW later, Later(r.atoms, later, v) PROVE Means(d.preds, x, i, neg, later, v)
      <3>1. Later(l.atoms, later, v)
        <4>1. Len(later) \in Nat
          BY <2>4 DEF Later
        <4>2. Extends(l.atoms, later)
          BY <1>1, <1>2, <2>4, <4>1, ExtendsTwice DEF Later
        <4> QED BY <2>4, <4>2 DEF Later
      <3>2. Means(l.preds, x, a, neg, later, v) /\ Means(r.preds, x, b, neg, later, v)
        BY <1>5, <2>4, <3>1 DEF Sure
      <3> DEFINE mask == VerdictMask(later, v)
      <3>3. /\ MachineAll(d.preds, v, mask) <=> MachineAll(l.preds, v, mask) /\ MachineAll(r.preds, v, mask)
            /\ KernelAll(d.preds, v, mask) <=> KernelAll(l.preds, v, mask) /\ KernelAll(r.preds, v, mask)
        BY <1>1, <2>2, BothConj
      <3>4. CelAt(x, v, i) <=> CelAt(x, v, a) /\ CelAt(x, v, b)
        OBVIOUS
      <3> QED BY <3>2, <3>3, <3>4 DEF Means
    <2>5. Sure(d, atoms, x, i, neg)
      BY <1>1, <1>3, <2>2, <2>3, <2>4 DEF Sure
    <2> QED BY <2>1, <2>5
  <1> QED BY <1>4, <1>5

\* A comparison.
LEMMA LeafSure ==
    ASSUME NEW x, IsExpr(x), PlainExpr(x), NEW i \in 1..Len(x), x[i].fn \notin Connectives,
           NEW neg \in BOOLEAN, NEW atoms, IsAtoms(atoms)
    PROVE  Sure(leafPreds(x[i], neg, atoms), atoms, x, i, neg)
  <1>1. PICK e : e = x[i]
    OBVIOUS
  <1>2. TypeChecked(e) /\ Plain(e) /\ (WholeExpr(x) => WholeBytes(e))
    BY <1>1 DEF IsExpr, PlainExpr, WholeExpr, Connectives
  <1>3. PICK r : r = leafPreds(e, neg, atoms)
    OBVIOUS
  <1>4. IsAtoms(r.atoms) /\ Extends(atoms, r.atoms)
    BY <1>2, <1>3, LeafAtoms
  <1>5. IsConj(r.preds)
    BY <1>2, <1>3, LeafConj
  <1>6. ASSUME r.ok, NEW v, NEW later, Later(r.atoms, later, v) PROVE Means(r.preds, x, i, neg, later, v)
    <2>1. Right(r, e, neg, later, v)
      BY <1>2, <1>3, <1>6, LeafIsExact DEF Later
    <2>2. CelAt(x, v, i) <=> CelLeaf(e, v)
      BY <1>1, CelValues
    <2> QED BY <1>2, <2>1, <2>2 DEF Means, Right
  <1>7. Sure(r, atoms, x, i, neg)
    BY <1>4, <1>5, <1>6 DEF Sure
  <1> QED BY <1>1, <1>3, <1>7

\* The equations again, call by call: a conjunction,
LEMMA CodeOfAnd ==
    ASSUME NEW x, IsExpr(x), NEW i \in 1..Len(x), NEW neg \in BOOLEAN, NEW atoms \in Seq(Atom), x[i].fn = "&&", ~neg,
           NEW l, l = Code(x, x[i].args[1], neg, atoms), NEW r, r = Code(x, x[i].args[2], neg, l.atoms)
    PROVE  Code(x, i, neg, atoms) = Both(l, r)
  <1>1. neg = FALSE
    OBVIOUS
  <1>2. Code(x, i, neg, atoms) = Both(Code(x, x[i].args[1], FALSE, atoms),
                                      Code(x, x[i].args[2], FALSE, Code(x, x[i].args[1], FALSE, atoms).atoms))
    BY CodeValues, Zenon
  <1>3. l = Code(x, x[i].args[1], FALSE, atoms)
    BY <1>1
  <1>4. r = Code(x, x[i].args[2], FALSE, l.atoms)
    BY <1>1
  <1> QED BY <1>2, <1>3, <1>4

\* a negation, which changes the sign,
LEMMA CodeOfNot ==
    ASSUME NEW x, IsExpr(x), NEW i \in 1..Len(x), NEW neg \in BOOLEAN, NEW atoms \in Seq(Atom), x[i].fn = "!",
           NEW minus \in BOOLEAN, minus = ~neg
    PROVE  Code(x, i, neg, atoms) = Code(x, x[i].args[1], minus, atoms)
  <1>1. Code(x, i, neg, atoms) = Code(x, x[i].args[1], ~neg, atoms)
    BY CodeValues, Zenon
  <1> QED BY <1>1, Zenon

\* and anything else.
LEMMA CodeOfLeaf ==
    ASSUME NEW x, IsExpr(x), NEW i \in 1..Len(x), NEW neg \in BOOLEAN, NEW atoms \in Seq(Atom),
           ~(x[i].fn = "&&" /\ ~neg), x[i].fn # "!"
    PROVE  Code(x, i, neg, atoms) = leafPreds(x[i], neg, atoms)
  BY CodeValues, Zenon

\* The code of a call, for both signs and all atoms.
CallSure(x, i) ==
    \A neg \in BOOLEAN : \A atoms : IsAtoms(atoms) => Sure(Code(x, i, neg, atoms), atoms, x, i, neg)

\* One more call.
LEMMA NextCall ==
    ASSUME NEW x, IsExpr(x), PlainExpr(x), NEW i \in 1..Len(x), \A j \in 1..(i - 1) : CallSure(x, j)
    PROVE  CallSure(x, i)
  <1> SUFFICES ASSUME NEW neg \in BOOLEAN, NEW atoms, IsAtoms(atoms)
               PROVE  Sure(Code(x, i, neg, atoms), atoms, x, i, neg)
    BY DEF CallSure
  <1>0. atoms \in Seq(Atom)
    BY DEF IsAtoms
  <1>1. CASE x[i].fn = "&&" /\ ~neg
    <2>1. PICK a \in 1..(i - 1), b \in 1..(i - 1) : a = x[i].args[1] /\ b = x[i].args[2]
      BY <1>1 DEF IsExpr, Earlier, TypeChecked, Cmp
    <2>2. PICK l : l = Code(x, a, neg, atoms)
      OBVIOUS
    <2>3. Sure(l, atoms, x, a, neg)
      BY <2>2 DEF CallSure
    <2>4. PICK r : r = Code(x, b, neg, l.atoms)
      OBVIOUS
    <2>5. Sure(r, l.atoms, x, b, neg)
      BY <2>3, <2>4 DEF CallSure, Sure
    <2>6. Code(x, i, neg, atoms) = Both(l, r)
      BY <1>0, <1>1, <2>1, <2>2, <2>4, CodeOfAnd
    <2>7. \A v : CelAt(x, v, i) <=> CelAt(x, v, a) /\ CelAt(x, v, b)
      BY <1>1, <2>1, CelValues
    <2>8. Sure(Both(l, r), atoms, x, i, neg)
      BY <1>1, <2>3, <2>5, <2>7, BothSure
    <2> QED BY <2>6, <2>8
  <1>2. CASE x[i].fn = "!"
    <2>1. PICK a \in 1..(i - 1) : a = x[i].args[1]
      BY <1>2 DEF IsExpr, Earlier, TypeChecked, Cmp
    <2>2. PICK minus \in BOOLEAN : minus = ~neg
      OBVIOUS
    <2>3. PICK r : r = Code(x, a, minus, atoms)
      OBVIOUS
    <2>4. Sure(r, atoms, x, a, minus)
      BY <2>3 DEF CallSure
    <2>5. Code(x, i, neg, atoms) = r
      BY <1>0, <1>2, <2>1, <2>2, <2>3, CodeOfNot
    <2>6. \A v : CelAt(x, v, i) <=> ~CelAt(x, v, a)
      <3> TAKE v
      <3>1. CelAt(x, v, i) <=> ~CelAt(x, v, x[i].args[1])
        <4>1. \A k \in 1..Len(x) : x[k].fn = "!" => (CelAt(x, v, k) <=> ~CelAt(x, v, x[k].args[1]))
          BY CelValues, Zenon
        <4> QED BY <1>2, <4>1
      <3> QED BY <2>1, <3>1
    <2>7. \A ps, v, later : Means(ps, x, a, minus, later, v) => Means(ps, x, i, neg, later, v)
      BY <2>2, <2>6 DEF Means
    <2>8. Sure(r, atoms, x, i, neg)
      BY <2>4, <2>7 DEF Sure
    <2> QED BY <2>5, <2>8
  <1>3. CASE x[i].fn = "||" \/ (x[i].fn = "&&" /\ neg)
    <2>1. leafPreds(x[i], neg, atoms) = Fail(atoms)
      BY <1>3 DEF leafPreds, Cmp
    <2>2. Code(x, i, neg, atoms) = Fail(atoms)
      BY <1>0, <1>3, <2>1, CodeOfLeaf
    <2> QED BY <2>2, FailSure
  <1>4. CASE x[i].fn \notin Connectives
    <2>1. Code(x, i, neg, atoms) = leafPreds(x[i], neg, atoms)
      BY <1>0, <1>4, CodeOfLeaf DEF Connectives
    <2> QED BY <1>4, <2>1, LeafSure
  <1> QED BY <1>1, <1>2, <1>3, <1>4 DEF Connectives

\* By induction over the calls, the code of an expression is right.
LEMMA CodeIsRight ==
    ASSUME NEW x, IsExpr(x), PlainExpr(x), NEW atoms, IsAtoms(atoms)
    PROVE  Sure(conj(x, atoms), atoms, x, Len(x), FALSE)
  <1> DEFINE T == {i \in 1..Len(x) : ~CallSure(x, i)}
  <1>0. Len(x) \in Nat /\ Len(x) \in 1..Len(x)
    BY DEF IsExpr
  <1>1. T = {}
    <2> SUFFICES ASSUME T # {} PROVE FALSE
      OBVIOUS
    <2>1. T \in SUBSET Nat
      BY <1>0
    <2> HIDE DEF T
    <2>2. PICK i \in T : \A j \in T : i <= j
      BY <2>1, Least
    <2>3. i \in 1..Len(x) /\ ~CallSure(x, i)
      BY <2>2 DEF T
    <2>4. ASSUME NEW j \in 1..(i - 1) PROVE CallSure(x, j)
      <3>1. j \in 1..Len(x) /\ ~(i <= j)
        BY <1>0, <2>3
      <3>2. j \notin T
        BY <2>2, <3>1
      <3> QED BY <3>1, <3>2 DEF T
    <2> QED BY <2>3, <2>4, NextCall
  <1>2. CallSure(x, Len(x))
    BY <1>0, <1>1
  <1>3. PICK neg \in BOOLEAN : neg = FALSE
    OBVIOUS
  <1>4. Sure(Code(x, Len(x), neg, atoms), atoms, x, Len(x), neg)
    BY <1>2 DEF CallSure
  <1>5. conj(x, atoms) = Code(x, Len(x), FALSE, atoms)
    BY CodeValues
  <1> QED BY <1>3, <1>4, <1>5

-----------------------------------------------------------------------------
(* The filters, with one list of atoms. *)

\* The predicates hold of an event when the expression does.
Same(ps, x, later, v) ==
    /\ MachineAll(ps, v, VerdictMask(later, v)) <=> Cel(x, v)
    /\ WholeExpr(x) => (KernelAll(ps, v, VerdictMask(later, v)) <=> Cel(x, v))

\* A filter is left to userspace, or its predicates are right.
FilterSure(f, x, atoms) ==
    /\ f.user \in BOOLEAN /\ IsConj(f.preds)
    /\ ~f.user => \A v, later : Later(atoms, later, v) => Same(f.preds, x, later, v)

\* The equations of CompileFilters.
NextFilter(exprs, n, c) ==
    LET r == conj(exprs[n], c.atoms)
    IN  [filters |-> Append(c.filters, IF r.ok THEN PushedDown(r.preds) ELSE Userspace), atoms |-> r.atoms]
NoFilters == [filters |-> << >>, atoms |-> << >>]
IsFilters(f, exprs, n) == f = [i \in 0..n |-> IF i = 0 THEN NoFilters ELSE NextFilter(exprs, i, f[i - 1])]

\* They have a solution.
LEMMA FiltersExist ==
    ASSUME NEW exprs, NEW n \in Nat
    PROVE  \E f : IsFilters(f, exprs, n)
  <1> DEFINE Is(f, m) == IsFilters(f, exprs, m)
             T == {m \in Nat : ~(\E f : Is(f, m))}
  <1>1. SUFFICES ASSUME T # {} PROVE FALSE
    OBVIOUS
  <1>2. PICK x \in T : \A y \in T : x <= y
    <2>1. T \in SUBSET Nat
      OBVIOUS
    <2> HIDE DEF T
    <2> QED BY <1>1, <2>1, Least
  <1>3. x \in Nat /\ ~(\E f : Is(f, x))
    OBVIOUS
  <1>4. CASE x = 0
    <2> DEFINE g == [i \in 0..0 |-> NoFilters]
    <2>1. \A i \in 0..0 : g[i] = IF i = 0 THEN NoFilters ELSE NextFilter(exprs, i, g[i - 1])
      OBVIOUS
    <2>2. Is(g, 0)
      BY <2>1 DEF IsFilters
    <2> HIDE DEF g, Is
    <2> QED BY <1>3, <1>4, <2>2
  <1>5. CASE x # 0
    <2>1. x - 1 \in Nat /\ x - 1 \notin T
      BY <1>2, <1>3, <1>5
    <2>2. PICK f : Is(f, x - 1)
      BY <2>1
    <2> DEFINE g == [i \in 0..x |-> IF i <= x - 1 THEN f[i] ELSE NextFilter(exprs, x, f[x - 1])]
    <2>3. \A i \in 0..(x - 1) : g[i] = f[i] /\ f[i] = IF i = 0 THEN NoFilters ELSE NextFilter(exprs, i, f[i - 1])
      BY <1>3, <2>1, <2>2 DEF IsFilters
    <2>4. g[x] = NextFilter(exprs, x, f[x - 1])
      BY <1>3
    <2>5. ASSUME NEW i \in 0..x
          PROVE  g[i] = IF i = 0 THEN NoFilters ELSE NextFilter(exprs, i, g[i - 1])
      <3> HIDE DEF g, Is
      <3>1. CASE i = 0
        BY <1>3, <1>5, <2>3, <3>1
      <3>2. CASE i # 0 /\ i <= x - 1
        <4>1. i \in 0..(x - 1) /\ i - 1 \in 0..(x - 1)
          BY <1>3, <3>2
        <4> QED BY <2>3, <3>2, <4>1
      <3>3. CASE i = x
        <4>1. x - 1 \in 0..(x - 1)
          BY <2>1
        <4> QED BY <1>5, <2>3, <2>4, <3>3, <4>1
      <3>4. i = 0 \/ (i # 0 /\ i <= x - 1) \/ i = x
        BY <1>3
      <3> QED BY <3>1, <3>2, <3>3, <3>4
    <2>6. Is(g, x)
      BY <2>5 DEF IsFilters
    <2> HIDE DEF g, Is
    <2> QED BY <1>3, <2>6
  <1> QED BY <1>4, <1>5

\* The first n filters.
FiltersSure(exprs, n, c) ==
    /\ IsAtoms(c.atoms) /\ Len(c.filters) = n /\ \E S : c.filters \in Seq(S)
    /\ \A j \in 1..n : FilterSure(c.filters[j], exprs[j], c.atoms)

\* Atoms that are added later change nothing.
LEMMA SureLater ==
    ASSUME NEW f, NEW x, NEW atoms, NEW more, IsAtoms(atoms), IsAtoms(more), Extends(atoms, more), FilterSure(f, x, atoms)
    PROVE  FilterSure(f, x, more)
  <1>1. ASSUME NEW v, NEW later, Later(more, later, v) PROVE Later(atoms, later, v)
    <2>1. Len(atoms) \in Nat /\ Len(more) \in Nat /\ Len(later) \in Nat
      BY <1>1 DEF IsAtoms, Later
    <2>2. Extends(atoms, later)
      BY <1>1, <2>1, ExtendsTwice DEF Later
    <2> QED BY <1>1, <2>2 DEF Later
  <1> QED BY <1>1 DEF FilterSure

\* An expression that is pushed down.
LEMMA ConjSure ==
    ASSUME NEW x, IsExpr(x), PlainExpr(x), NEW atoms, IsAtoms(atoms), NEW r, r = conj(x, atoms)
    PROVE  /\ IsAtoms(r.atoms) /\ Extends(atoms, r.atoms)
           /\ FilterSure(IF r.ok THEN PushedDown(r.preds) ELSE Userspace, x, r.atoms)
  <1>1. Sure(r, atoms, x, Len(x), FALSE)
    BY CodeIsRight
  <1>2. IsAtoms(r.atoms) /\ Extends(atoms, r.atoms) /\ IsConj(r.preds)
    BY <1>1 DEF Sure
  <1>3. CASE r.ok
    <2>1. PICK f : f = PushedDown(r.preds)
      OBVIOUS
    <2>2. f.user = FALSE /\ f.preds = r.preds
      BY <2>1 DEF PushedDown
    <2>3. ASSUME NEW v, NEW later, Later(r.atoms, later, v) PROVE Same(f.preds, x, later, v)
      <3>1. Means(r.preds, x, Len(x), FALSE, later, v)
        BY <1>1, <1>3, <2>3 DEF Sure
      <3>2. Cel(x, v) = CelAt(x, v, Len(x))
        BY CelValues
      <3> QED BY <2>2, <3>1, <3>2 DEF Means, Same
    <2>4. FilterSure(f, x, r.atoms)
      BY <1>2, <2>2, <2>3 DEF FilterSure
    <2> QED BY <1>2, <1>3, <2>1, <2>4
  <1>4. CASE ~r.ok
    <2>1. Userspace.user = TRUE /\ Userspace.preds = << >>
      BY DEF Userspace
    <2>2. FilterSure(Userspace, x, r.atoms)
      BY <2>1, SmallConj DEF FilterSure
    <2> QED BY <1>2, <1>4, <2>2
  <1> QED BY <1>3, <1>4

\* One more filter.
LEMMA NextFilterSure ==
    ASSUME NEW exprs, NEW n \in Nat, n > 0, IsExpr(exprs[n]), PlainExpr(exprs[n]),
           NEW c, FiltersSure(exprs, n - 1, c)
    PROVE  FiltersSure(exprs, n, NextFilter(exprs, n, c))
  <1>1. PICK r : r = conj(exprs[n], c.atoms)
    OBVIOUS
  <1>2. PICK f : f = IF r.ok THEN PushedDown(r.preds) ELSE Userspace
    OBVIOUS
  <1>3. PICK d : d = NextFilter(exprs, n, c)
    OBVIOUS
  <1>4. d.filters = Append(c.filters, f) /\ d.atoms = r.atoms
    BY <1>1, <1>2, <1>3 DEF NextFilter
  <1>5. IsAtoms(c.atoms)
    BY DEF FiltersSure
  <1>6. IsAtoms(r.atoms) /\ Extends(c.atoms, r.atoms) /\ FilterSure(f, exprs[n], r.atoms)
    BY <1>1, <1>2, <1>5, ConjSure
  <1>7. PICK S : c.filters \in Seq(S) /\ Len(c.filters) = n - 1
    BY DEF FiltersSure
  <1>8. PICK U : U = S \cup {f}
    OBVIOUS
  <1>9. c.filters \in Seq(U) /\ f \in U
    BY <1>7, <1>8, SeqMonotonic
  <1>10. /\ d.filters \in Seq(U) /\ Len(d.filters) = n /\ d.filters[n] = f
         /\ \A j \in 1..(n - 1) : d.filters[j] = c.filters[j]
    BY <1>4, <1>7, <1>9
  <1>11. ASSUME NEW j \in 1..n PROVE FilterSure(d.filters[j], exprs[j], d.atoms)
    <2>1. CASE j = n
      BY <1>4, <1>6, <1>10, <2>1
    <2>2. CASE j \in 1..(n - 1)
      <3>1. FilterSure(c.filters[j], exprs[j], c.atoms)
        BY <2>2 DEF FiltersSure
      <3>2. FilterSure(c.filters[j], exprs[j], r.atoms)
        BY <1>5, <1>6, <3>1, SureLater
      <3> QED BY <1>4, <1>10, <2>2, <3>2
    <2> QED BY <2>1, <2>2
  <1>12. FiltersSure(exprs, n, d)
    BY <1>4, <1>6, <1>10, <1>11 DEF FiltersSure
  <1> QED BY <1>3, <1>12

\* A configuration and what is known of it.
IsConfig(exprs) ==
    /\ Len(exprs) \in Nat /\ DOMAIN exprs = 1..Len(exprs)
    /\ \A n \in 1..Len(exprs) : IsExpr(exprs[n]) /\ PlainExpr(exprs[n])

\* By induction, all filters are right, under the atoms of all of them.
LEMMA FiltersAreRight ==
    ASSUME NEW exprs, IsConfig(exprs)
    PROVE  FiltersSure(exprs, Len(exprs), CompileFilters(exprs))
  <1> DEFINE N == Len(exprs)
             U == CHOOSE f : IsFilters(f, exprs, N)
  <1>0. N \in Nat
    BY DEF IsConfig
  <1>1. CompileFilters(exprs) = U[N]
    BY DEF CompileFilters, IsFilters, NextFilter, NoFilters
  <1>2. IsFilters(U, exprs, N)
    BY <1>0, FiltersExist
  <1> HIDE DEF U, N
  <1>3. \A i \in 0..N : U[i] = IF i = 0 THEN NoFilters ELSE NextFilter(exprs, i, U[i - 1])
    BY <1>2 DEF IsFilters
  <1> DEFINE T == {i \in 0..N : ~FiltersSure(exprs, i, U[i])}
  <1>4. T = {}
    <2> SUFFICES ASSUME T # {} PROVE FALSE
      OBVIOUS
    <2>1. T \in SUBSET Nat
      BY <1>0
    <2> HIDE DEF T
    <2>2. PICK i \in T : \A j \in T : i <= j
      BY <2>1, Least
    <2>3. i \in 0..N /\ ~FiltersSure(exprs, i, U[i])
      BY <2>2 DEF T
    <2>4. CASE i = 0
      <3>1. U[0] = NoFilters
        BY <1>0, <1>3
      <3>2. U[0].filters = << >> /\ U[0].atoms = << >>
        BY <3>1 DEF NoFilters
      <3>3. IsAtoms(<< >>)
        BY DEF IsAtoms
      <3>4. PICK S : S = {}
        OBVIOUS
      <3>5. << >> \in Seq(S) /\ Len(<< >>) = 0
        OBVIOUS
      <3>6. FiltersSure(exprs, 0, U[0])
        BY <3>2, <3>3, <3>5 DEF FiltersSure
      <3> QED BY <2>3, <2>4, <3>6
    <2>5. CASE i # 0
      <3>1. i \in Nat /\ i > 0 /\ i - 1 \in 0..N /\ ~(i <= i - 1) /\ i \in 1..N
        BY <1>0, <2>3, <2>5
      <3>2. FiltersSure(exprs, i - 1, U[i - 1])
        BY <2>2, <3>1 DEF T
      <3>3. IsExpr(exprs[i]) /\ PlainExpr(exprs[i])
        BY <3>1 DEF IsConfig, N
      <3>4. FiltersSure(exprs, i, NextFilter(exprs, i, U[i - 1]))
        BY <3>1, <3>2, <3>3, NextFilterSure
      <3> QED BY <1>3, <2>3, <2>5, <3>4
    <2> QED BY <2>4, <2>5
  <1>5. FiltersSure(exprs, N, U[N])
    BY <1>0, <1>4
  <1> QED BY <1>1, <1>5 DEF N

-----------------------------------------------------------------------------
(* The stream. *)

\* The equations of FlattenSeq.
FlatAt(g, segs, i) == IF i = 1 THEN segs[i] ELSE g[i - 1] \o segs[i]
IsFlat(g, segs, n) == g = [i \in 1..n |-> FlatAt(g, segs, i)]

\* They have a solution.
LEMMA FlatExists ==
    ASSUME NEW segs, NEW n \in Nat
    PROVE  \E g : IsFlat(g, segs, n)
  <1> DEFINE Is(f, m) == IsFlat(f, segs, m)
             T == {m \in Nat : ~(\E f : Is(f, m))}
  <1>1. SUFFICES ASSUME T # {} PROVE FALSE
    OBVIOUS
  <1>2. PICK x \in T : \A y \in T : x <= y
    <2>1. T \in SUBSET Nat
      OBVIOUS
    <2> HIDE DEF T
    <2> QED BY <1>1, <2>1, Least
  <1>3. x \in Nat /\ ~(\E f : Is(f, x))
    OBVIOUS
  <1>4. CASE x = 0
    <2> DEFINE g == [i \in 1..0 |-> segs[i]]
    <2>1. g = [i \in 1..0 |-> FlatAt(g, segs, i)]
      OBVIOUS
    <2>2. Is(g, 0)
      BY <2>1 DEF IsFlat
    <2> HIDE DEF g, Is
    <2> QED BY <1>3, <1>4, <2>2
  <1>5. CASE x # 0
    <2>1. x - 1 \in Nat /\ x - 1 \notin T
      BY <1>2, <1>3, <1>5
    <2>2. PICK f : Is(f, x - 1)
      BY <2>1
    <2> DEFINE g == [i \in 1..x |-> IF i <= x - 1 THEN f[i] ELSE FlatAt(f, segs, x)]
    <2>3. \A i \in 1..(x - 1) : g[i] = f[i] /\ f[i] = FlatAt(f, segs, i)
      BY <1>3, <2>1, <2>2 DEF IsFlat
    <2>4. g[x] = FlatAt(f, segs, x)
      BY <1>3, <1>5
    <2>5. ASSUME NEW i \in 1..x
          PROVE  g[i] = FlatAt(g, segs, i)
      <3> HIDE DEF g, Is
      <3>1. CASE i = 1
        <4>1. FlatAt(f, segs, i) = segs[i] /\ FlatAt(g, segs, i) = segs[i] /\ (i \in 1..(x - 1) \/ i = x)
          BY <1>3, <3>1 DEF FlatAt
        <4> QED BY <2>3, <2>4, <4>1
      <3>2. CASE i # 1
        <4>1. i - 1 \in 1..(x - 1) /\ (i \in 1..(x - 1) \/ i = x)
          BY <1>3, <3>2
        <4>2. g[i - 1] = f[i - 1]
          BY <2>3, <4>1
        <4>3. FlatAt(f, segs, i) = FlatAt(g, segs, i)
          BY <3>2, <4>2 DEF FlatAt
        <4> QED BY <2>3, <2>4, <4>1, <4>3
      <3> QED BY <3>1, <3>2
    <2>6. Is(g, x)
      BY <2>5 DEF IsFlat
    <2> HIDE DEF g, Is
    <2> QED BY <1>3, <2>6
  <1> QED BY <1>4, <1>5

\* The segments lie in the stream one behind the other, the k-th up to ends[k].
Laid(flat, segs, n, ends) ==
    /\ ends[0] = 0 /\ ends[n] = Len(flat) /\ DOMAIN flat = 1..Len(flat)
    /\ \A k \in 0..n : ends[k] \in Nat
    /\ \A k \in 1..n :
          /\ ends[k] = ends[k - 1] + Len(segs[k]) /\ ends[k] <= ends[n]
          /\ \A t \in 1..Len(segs[k]) : flat[ends[k - 1] + t] = segs[k][t]

\* A concatenation begins with its first part and goes on with its second.
LEMMA Joined ==
    ASSUME NEW S, NEW s \in Seq(S), NEW t \in Seq(S)
    PROVE  /\ s \o t \in Seq(S) /\ Len(s \o t) = Len(s) + Len(t) /\ Extends(s, s \o t)
           /\ \A i \in 1..Len(t) : (s \o t)[Len(s) + i] = t[i]
  <1>1. /\ s \o t \in Seq(S) /\ Len(s \o t) = Len(s) + Len(t) /\ Len(s) \in Nat /\ Len(t) \in Nat
        /\ \A i \in 1..(Len(s) + Len(t)) : (s \o t)[i] = IF i <= Len(s) THEN s[i] ELSE t[i - Len(s)]
    BY ConcatProperties
  <1>2. PICK u, l, m : u = s \o t /\ l = Len(s) /\ m = Len(t)
    OBVIOUS
  <1>3. l \in Nat /\ m \in Nat /\ \A i \in 1..(l + m) : u[i] = IF i <= l THEN s[i] ELSE t[i - l]
    BY <1>1, <1>2
  <1>4. \A i \in 1..l : u[i] = s[i]
    BY <1>3
  <1>5. ASSUME NEW i \in 1..m PROVE u[l + i] = t[i]
    <2>1. l + i \in 1..(l + m) /\ ~(l + i <= l) /\ (l + i) - l = i
      BY <1>3
    <2> QED BY <1>3, <2>1
  <1>6. Extends(s, u)
    BY <1>1, <1>2, <1>4 DEF Extends
  <1> QED BY <1>1, <1>2, <1>5, <1>6

\* Compile lays the segments so.
LEMMA StreamAt ==
    ASSUME NEW segs, NEW n \in Nat, n >= 1, Len(segs) = n, NEW S, \A k \in 1..n : segs[k] \in Seq(S)
    PROVE  \E ends : Laid(FlattenSeq(segs), segs, n, ends)
  <1> DEFINE G == CHOOSE g : IsFlat(g, segs, n)
  <1>1. FlattenSeq(segs) = G[n]
    BY DEF FlattenSeq, IsFlat, FlatAt
  <1>2. IsFlat(G, segs, n)
    BY FlatExists
  <1> HIDE DEF G
  <1>3. /\ G[1] = segs[1]
        /\ \A i \in 1..n : i # 1 => G[i] = G[i - 1] \o segs[i]
    <2>1. \A i \in 1..n : G[i] = FlatAt(G, segs, i)
      BY <1>2 DEF IsFlat
    <2>2. 1 \in 1..n
      OBVIOUS
    <2> QED BY <2>1, <2>2 DEF FlatAt
  <1>4. \A i \in 1..n : G[i] \in Seq(S)
    <2> DEFINE T == {i \in 1..n : G[i] \notin Seq(S)}
    <2> SUFFICES ASSUME T # {} PROVE FALSE
      OBVIOUS
    <2>1. T \in SUBSET Nat
      OBVIOUS
    <2> HIDE DEF T
    <2>2. PICK i \in T : \A j \in T : i <= j
      BY <2>1, Least
    <2>3. i \in 1..n /\ G[i] \notin Seq(S)
      BY <2>2 DEF T
    <2>4. CASE i = 1
      BY <1>3, <2>3, <2>4
    <2>5. CASE i # 1
      <3>1. i - 1 \in 1..n /\ ~(i <= i - 1)
        BY <2>3, <2>5
      <3>2. G[i - 1] \in Seq(S)
        BY <2>2, <3>1 DEF T
      <3>3. G[i - 1] \o segs[i] \in Seq(S)
        BY <2>3, <3>2, Joined
      <3> QED BY <1>3, <2>3, <2>5, <3>3
    <2> QED BY <2>4, <2>5
  <1>5. ASSUME NEW k \in 1..n, k # 1
        PROVE  /\ Len(G[k]) = Len(G[k - 1]) + Len(segs[k]) /\ Extends(G[k - 1], G[k])
               /\ \A t \in 1..Len(segs[k]) : G[k][Len(G[k - 1]) + t] = segs[k][t]
    <2>1. k - 1 \in 1..n /\ G[k] = G[k - 1] \o segs[k]
      <3>1. k - 1 \in 1..n
        BY <1>5
      <3>2. G[k] = G[k - 1] \o segs[k]
        BY <1>3, <1>5, Zenon
      <3> QED BY <3>1, <3>2, Zenon
    <2>2. PICK a, b : a = G[k - 1] /\ b = segs[k]
      OBVIOUS
    <2>3. a \in Seq(S) /\ b \in Seq(S)
      BY <1>4, <2>1, <2>2
    <2>4. PICK u : u = a \o b
      OBVIOUS
    <2>5. Len(u) = Len(a) + Len(b) /\ Extends(a, u) /\ \A t \in 1..Len(b) : u[Len(a) + t] = b[t]
      BY <2>3, <2>4, Joined, Zenon
    <2>6. u = G[k]
      BY <2>1, <2>2, <2>4
    <2> QED BY <2>2, <2>5, <2>6
  <1>6. \A k \in 1..n : Extends(G[k], G[n])
    <2> SUFFICES ASSUME NEW k \in 1..n PROVE Extends(G[k], G[n])
      OBVIOUS
    <2> DEFINE T == {m \in k..n : ~Extends(G[k], G[m])}
    <2>0. \A m \in k..n : m \in 1..n /\ m \in Nat /\ Len(G[m]) \in Nat
      BY <1>4
    <2>1. T = {}
      <3> SUFFICES ASSUME T # {} PROVE FALSE
        OBVIOUS
      <3>1. T \in SUBSET Nat
        BY <2>0
      <3> HIDE DEF T
      <3>2. PICK m \in T : \A j \in T : m <= j
        BY <3>1, Least
      <3>3. m \in k..n /\ ~Extends(G[k], G[m])
        BY <3>2 DEF T
      <3>4. CASE m = k
        <4>1. Extends(G[k], G[k])
          BY <2>0 DEF Extends
        <4> QED BY <3>3, <3>4, <4>1
      <3>5. CASE m # k
        <4>1. m - 1 \in k..n /\ ~(m <= m - 1) /\ m \in 1..n /\ m # 1
          BY <3>3, <3>5
        <4>2. Extends(G[k], G[m - 1])
          BY <3>2, <4>1 DEF T
        <4>3. Extends(G[m - 1], G[m])
          BY <1>5, <4>1
        <4>4. Len(G[k]) \in Nat /\ Len(G[m - 1]) \in Nat /\ Len(G[m]) \in Nat
          BY <2>0, <3>3, <4>1
        <4> QED BY <3>3, <4>2, <4>3, <4>4, ExtendsTwice
      <3> QED BY <3>4, <3>5
    <2>2. n \in k..n
      OBVIOUS
    <2> QED BY <2>1, <2>2
  <1> DEFINE ends == [k \in 0..n |-> IF k = 0 THEN 0 ELSE Len(G[k])]
  <1>7. ends[0] = 0 /\ \A k \in 1..n : ends[k] = Len(G[k]) /\ ends[k] \in Nat
    BY <1>4
  <1>8. ASSUME NEW k \in 1..n
        PROVE  /\ ends[k] = ends[k - 1] + Len(segs[k]) /\ ends[k] <= ends[n]
               /\ \A t \in 1..Len(segs[k]) : G[n][ends[k - 1] + t] = segs[k][t]
    <2> HIDE DEF ends
    <2>0. Len(segs[k]) \in Nat
      OBVIOUS
    <2>1. /\ ends[k - 1] \in Nat /\ ends[k] = ends[k - 1] + Len(segs[k])
          /\ \A t \in 1..Len(segs[k]) : G[k][ends[k - 1] + t] = segs[k][t]
      <3>1. CASE k = 1
        <4>1. G[k] = segs[k] /\ k - 1 = 0
          BY <1>3, <3>1
        <4> QED BY <1>7, <2>0, <4>1
      <3>2. CASE k # 1
        <4>1. k - 1 \in 1..n
          BY <3>2
        <4> QED BY <1>5, <1>7, <3>2, <4>1
      <3> QED BY <3>1, <3>2
    <2>2. ends[k] <= ends[n]
      BY <1>6, <1>7 DEF Extends
    <2>3. ASSUME NEW t \in 1..Len(segs[k]) PROVE G[n][ends[k - 1] + t] = segs[k][t]
      <3>1. PICK i : i = ends[k - 1] + t
        OBVIOUS
      <3>2. i \in 1..Len(G[k])
        BY <1>7, <2>0, <2>1, <3>1
      <3>3. G[n][i] = G[k][i]
        BY <1>6, <3>2 DEF Extends
      <3> QED BY <2>1, <3>1, <3>3
    <2> QED BY <2>1, <2>2, <2>3
  <1>9. DOMAIN G[n] = 1..Len(G[n]) /\ n \in 1..n
    BY <1>4
  <1>10. \A k \in 0..n : ends[k] \in Nat
    BY <1>7
  <1> HIDE DEF ends
  <1>11. Laid(G[n], segs, n, ends)
    BY <1>7, <1>8, <1>9, <1>10 DEF Laid
  <1> QED BY <1>1, <1>11

-----------------------------------------------------------------------------
(* The walk. *)

\* The equations of Walk.
WalkAt(f, flat, holds, entry, n) == IF n = 0 THEN Start ELSE WalkStep(f[n - 1], flat[n], holds[n], entry)
IsWalk(f, flat, holds, entry, m) == f = [n \in 0..m |-> WalkAt(f, flat, holds, entry, n)]

\* They have a solution.
LEMMA WalkExists ==
    ASSUME NEW flat, NEW holds, NEW entry, NEW n \in Nat
    PROVE  \E f : IsWalk(f, flat, holds, entry, n)
  <1> DEFINE Is(f, m) == IsWalk(f, flat, holds, entry, m)
             T == {m \in Nat : ~(\E f : Is(f, m))}
  <1>1. SUFFICES ASSUME T # {} PROVE FALSE
    OBVIOUS
  <1>2. PICK x \in T : \A y \in T : x <= y
    <2>1. T \in SUBSET Nat
      OBVIOUS
    <2> HIDE DEF T
    <2> QED BY <1>1, <2>1, Least
  <1>3. x \in Nat /\ ~(\E f : Is(f, x))
    OBVIOUS
  <1>4. CASE x = 0
    <2> DEFINE g == [i \in 0..0 |-> Start]
    <2>1. \A i \in 0..0 : g[i] = WalkAt(g, flat, holds, entry, i)
      BY DEF WalkAt
    <2>2. Is(g, 0)
      BY <2>1 DEF IsWalk
    <2> HIDE DEF g, Is
    <2> QED BY <1>3, <1>4, <2>2
  <1>5. CASE x # 0
    <2>1. x - 1 \in Nat /\ x - 1 \notin T
      BY <1>2, <1>3, <1>5
    <2>2. PICK f : Is(f, x - 1)
      BY <2>1
    <2> DEFINE g == [i \in 0..x |-> IF i <= x - 1 THEN f[i] ELSE WalkAt(f, flat, holds, entry, x)]
    <2>3. \A i \in 0..(x - 1) : g[i] = f[i] /\ f[i] = WalkAt(f, flat, holds, entry, i)
      BY <1>3, <2>1, <2>2 DEF IsWalk
    <2>4. g[x] = WalkAt(f, flat, holds, entry, x)
      BY <1>3
    <2>5. ASSUME NEW i \in 0..x
          PROVE  g[i] = WalkAt(g, flat, holds, entry, i)
      <3> HIDE DEF g, Is
      <3>1. WalkAt(f, flat, holds, entry, i) = WalkAt(g, flat, holds, entry, i)
        <4>1. CASE i = 0
          BY <4>1 DEF WalkAt
        <4>2. CASE i # 0
          <5>1. i - 1 \in 0..(x - 1)
            BY <1>3, <4>2
          <5>2. g[i - 1] = f[i - 1]
            BY <2>3, <5>1
          <5> QED BY <5>2 DEF WalkAt
        <4> QED BY <4>1, <4>2
      <3>2. i \in 0..(x - 1) \/ i = x
        BY <1>3
      <3> QED BY <2>3, <2>4, <3>1, <3>2
    <2>6. Is(g, x)
      BY <2>5 DEF IsWalk
    <2> HIDE DEF g, Is
    <2> QED BY <1>3, <2>6
  <1> QED BY <1>4, <1>5

WalkState == [res : {"TRUE", "FALSE", "UNKNOWN"}, ret : {"", "INDEX", "UNDECIDED"}, idx : Int]

\* Once there is a result it stays.
LEMMA ReturnedStays ==
    ASSUME NEW s, s.ret # "", NEW p, NEW h, NEW entry
    PROVE  WalkStep(s, p, h, entry) = s
  BY DEF WalkStep

\* The first filter that is true, of those up to the k-th.
FirstTrue(says, k, i) == \E m \in 1..k : i = m - 1 /\ says[m] /\ \A j \in 1..(m - 1) : ~says[j]

\* What the walk knows when it has passed k filters.
Passed(s, k, says) ==
    /\ s \in WalkState
    /\ s.ret = "INDEX" => FirstTrue(says, k, s.idx)
    /\ s.ret = "" => s.res = "TRUE" /\ \A j \in 1..k : ~says[j]

\* The t predicates behind e hold.
AllHold(holds, e, t) == \A i \in 1..t : holds[e + i]

\* And t predicates of the next one, which begins behind e.
Within(s, k, says, holds, e, t) ==
    /\ s \in WalkState
    /\ s.ret = "INDEX" => FirstTrue(says, k, s.idx)
    /\ s.ret = "" => /\ \A j \in 1..k : ~says[j]
                     /\ s.res = "TRUE" => AllHold(holds, e, t)
                     /\ s.res = "FALSE" => ~AllHold(holds, e, t)

\* One more predicate.
LEMMA WithinStep ==
    ASSUME NEW s, NEW k, NEW says, NEW holds, NEW e \in Nat, NEW t \in Nat, Within(s, k, says, holds, e, t),
           NEW p, p.kind # "END", NEW entry
    PROVE  Within(WalkStep(s, p, holds[e + (t + 1)], entry), k, says, holds, e, t + 1)
  <1>1. PICK h, u : h = holds[e + (t + 1)] /\ u = WalkStep(s, p, h, entry)
    OBVIOUS
  <1>2. s \in WalkState
    BY DEF Within
  <1>3. CASE s.ret # ""
    <2>1. u = s
      BY <1>1, <1>3, ReturnedStays
    <2> QED BY <1>1, <1>3, <2>1 DEF Within
  <1>4. CASE s.ret = ""
    <2>1. /\ u \in WalkState /\ u.ret = ""
          /\ u.res = "TRUE" => s.res = "TRUE" /\ h
          /\ u.res = "FALSE" => s.res = "FALSE" \/ ~h
      <3>1. CASE p.kind = "ATTR" /\ ~entry
        <4>1. u = [s EXCEPT !.res = IF @ = "TRUE" THEN "UNKNOWN" ELSE @]
          BY <1>1, <1>4, <3>1 DEF WalkStep
        <4> QED BY <1>2, <1>4, <4>1 DEF WalkState
      <3>2. CASE ~(p.kind = "ATTR" /\ ~entry)
        <4>1. u = [s EXCEPT !.res = IF h THEN @ ELSE "FALSE"]
          BY <1>1, <1>4, <3>2 DEF WalkStep
        <4> QED BY <1>2, <1>4, <4>1 DEF WalkState
      <3> QED BY <3>1, <3>2
    <2>2. AllHold(holds, e, t + 1) <=> AllHold(holds, e, t) /\ h
      <3>1. \A i \in 1..(t + 1) : i \in 1..t \/ i = t + 1
        OBVIOUS
      <3> QED BY <1>1, <3>1 DEF AllHold
    <2> QED BY <1>1, <1>4, <2>1, <2>2 DEF Within
  <1> QED BY <1>3, <1>4

\* The marker of the filter.
LEMMA PassedStep ==
    ASSUME NEW s, NEW k \in Nat, k >= 1, NEW says, NEW holds, NEW e \in Nat, NEW t \in Nat, Within(s, k - 1, says, holds, e, t),
           NEW p, p.kind = "END", p.user \in BOOLEAN, NEW m \in Int, m = k - 1, p.a = m, NEW h, NEW entry,
           ~p.user => (AllHold(holds, e, t) <=> says[k])
    PROVE  Passed(WalkStep(s, p, h, entry), k, says)
  <1>1. PICK u : u = WalkStep(s, p, h, entry)
    OBVIOUS
  <1>2. s \in WalkState
    BY DEF Within
  <1>3. \A i : FirstTrue(says, k - 1, i) => FirstTrue(says, k, i)
    BY DEF FirstTrue
  <1>4. CASE s.ret # ""
    <2>1. u = s
      BY <1>1, <1>4, ReturnedStays
    <2> QED BY <1>1, <1>3, <1>4, <2>1 DEF Within, Passed
  <1>5. CASE s.ret = ""
    <2>1. /\ u \in WalkState
          /\ \/ u.ret = "UNDECIDED"
             \/ u.ret = "INDEX" /\ u.idx = m /\ ~p.user /\ s.res = "TRUE"
             \/ u.ret = "" /\ u.res = "TRUE" /\ ~p.user /\ s.res = "FALSE"
      <3>1. CASE p.user \/ s.res = "UNKNOWN"
        <4>1. u = [s EXCEPT !.ret = "UNDECIDED"]
          BY <1>1, <1>5, <3>1 DEF WalkStep
        <4> QED BY <1>2, <4>1 DEF WalkState
      <3>2. CASE ~p.user /\ s.res = "TRUE"
        <4>1. u = [s EXCEPT !.ret = "INDEX", !.idx = p.a]
          BY <1>1, <1>5, <3>2 DEF WalkStep
        <4> QED BY <1>2, <3>2, <4>1 DEF WalkState
      <3>3. CASE ~p.user /\ s.res = "FALSE"
        <4>1. u = [s EXCEPT !.res = "TRUE"]
          BY <1>1, <1>5, <3>3 DEF WalkStep
        <4> QED BY <1>2, <1>5, <3>3, <4>1 DEF WalkState
      <3> QED BY <1>2, <3>1, <3>2, <3>3 DEF WalkState
    <2>2. \A j \in 1..(k - 1) : ~says[j]
      BY <1>5 DEF Within
    <2>3. CASE u.ret = "UNDECIDED"
      BY <1>1, <2>1, <2>3 DEF Passed
    <2>4. CASE u.ret = "INDEX" /\ u.idx = m /\ ~p.user /\ s.res = "TRUE"
      <3>1. says[k]
        BY <1>5, <2>4 DEF Within
      <3>2. FirstTrue(says, k, k - 1)
        BY <2>2, <3>1 DEF FirstTrue
      <3> QED BY <1>1, <2>1, <2>4, <3>2 DEF Passed
    <2>5. CASE u.ret = "" /\ u.res = "TRUE" /\ ~p.user /\ s.res = "FALSE"
      <3>1. ~says[k]
        BY <1>5, <2>5 DEF Within
      <3>2. \A j \in 1..k : ~says[j]
        BY <2>2, <3>1
      <3> QED BY <1>1, <2>1, <2>5, <3>2 DEF Passed
    <2> QED BY <2>1, <2>3, <2>4, <2>5
  <1> QED BY <1>4, <1>5

\* The states of a walk, and predicates that are no markers.
IsRun(W, flat, holds, entry, L) == \A n \in 1..L : W[n] = WalkStep(W[n - 1], flat[n], holds[n], entry)
NoMarker(flat, e, len) == \A t \in 1..len : flat[e + t].kind # "END"

\* Past one filter: len predicates behind e, and its marker.
LEMMA OneFilter ==
    ASSUME NEW W, NEW flat, NEW holds, NEW entry, NEW L \in Nat, NEW says,
           IsRun(W, flat, holds, entry, L),
           NEW k \in Nat, k >= 1, NEW e \in Nat, NEW len \in Nat, e + (len + 1) <= L, Passed(W[e], k - 1, says),
           NoMarker(flat, e, len), NEW p, p = flat[e + (len + 1)], p.kind = "END", p.user \in BOOLEAN, p.a = k - 1,
           ~p.user => (AllHold(holds, e, len) <=> says[k])
    PROVE  Passed(W[e + (len + 1)], k, says)
  <1> DEFINE T == {t \in 0..len : ~Within(W[e + t], k - 1, says, holds, e, t)}
  <1>1. ASSUME NEW t \in 0..len
        PROVE  /\ e + (t + 1) \in 1..L /\ (e + (t + 1)) - 1 = e + t
               /\ W[e + (t + 1)] = WalkStep(W[e + t], flat[e + (t + 1)], holds[e + (t + 1)], entry)
    <2>1. e + (t + 1) \in 1..L /\ (e + (t + 1)) - 1 = e + t
      OBVIOUS
    <2>2. PICK n \in 1..L : n = e + (t + 1)
      BY <2>1
    <2>3. W[n] = WalkStep(W[n - 1], flat[n], holds[n], entry)
      BY DEF IsRun
    <2>4. n - 1 = e + t
      BY <2>1, <2>2
    <2> QED BY <2>1, <2>2, <2>3, <2>4
  <1>2. T = {}
    <2> SUFFICES ASSUME T # {} PROVE FALSE
      OBVIOUS
    <2>1. T \in SUBSET Nat
      OBVIOUS
    <2> HIDE DEF T
    <2>2. PICK t \in T : \A j \in T : t <= j
      BY <2>1, Least
    <2>3. t \in 0..len /\ ~Within(W[e + t], k - 1, says, holds, e, t)
      BY <2>2 DEF T
    <2>4. CASE t = 0
      <3>1. e + t = e /\ AllHold(holds, e, t)
        BY <2>4 DEF AllHold
      <3>2. Within(W[e], k - 1, says, holds, e, t)
        BY <3>1 DEF Passed, Within
      <3> QED BY <2>3, <3>1, <3>2
    <2>5. CASE t # 0
      <3>1. PICK j \in 0..len : t = j + 1 /\ ~(t <= j) /\ j \in Nat
        <4>1. t - 1 \in 0..len /\ t = (t - 1) + 1 /\ ~(t <= t - 1) /\ t - 1 \in Nat
          BY <2>3, <2>5
        <4> QED BY <4>1
      <3>2. Within(W[e + j], k - 1, says, holds, e, j)
        BY <2>2, <3>1 DEF T
      <3>3. PICK q : q = flat[e + (j + 1)]
        OBVIOUS
      <3>4. q.kind # "END"
        <4>1. j + 1 \in 1..len
          BY <2>3, <3>1
        <4> QED BY <3>3, <4>1 DEF NoMarker
      <3>5. Within(WalkStep(W[e + j], q, holds[e + (j + 1)], entry), k - 1, says, holds, e, j + 1)
        BY <3>1, <3>2, <3>4, WithinStep
      <3>6. W[e + (j + 1)] = WalkStep(W[e + j], q, holds[e + (j + 1)], entry)
        BY <1>1, <3>3
      <3> QED BY <2>3, <3>1, <3>5, <3>6
    <2> QED BY <2>4, <2>5
  <1>3. len \in 0..len /\ len \notin T
    BY <1>2
  <1>4. Within(W[e + len], k - 1, says, holds, e, len)
    BY <1>3
  <1>5. PICK m \in Int : m = k - 1
    OBVIOUS
  <1>6. PICK h, s : h = holds[e + (len + 1)] /\ s = W[e + len]
    OBVIOUS
  <1>7. Passed(WalkStep(s, p, h, entry), k, says)
    <2>1. Within(s, k - 1, says, holds, e, len) /\ p.a = m
      BY <1>4, <1>5, <1>6
    <2> QED BY <1>5, <2>1, PassedStep
  <1> QED BY <1>1, <1>3, <1>6, <1>7

\* The segment of a filter: predicates, and behind them its marker.
IsSegment(seg, f, i, len) ==
    /\ \E S : seg \in Seq(S)
    /\ len \in Nat /\ DOMAIN f.preds = 1..len /\ Len(seg) = len + 1
    /\ \A t \in 1..len : seg[t] = f.preds[t] /\ seg[t].kind # "END"
    /\ seg[len + 1] = [kind |-> "END", a |-> i, user |-> f.user]

\* Compile's segments are so.
LEMMA SegmentShape ==
    ASSUME NEW f, IsConj(f.preds), NEW i
    PROVE  IsSegment(Segment(f, i), f, i, Len(f.preds))
  <1>1. PICK S : f.preds \in Seq(S) /\ \A p \in S : p.kind # "END"
    BY DEF IsConj
  <1>2. PICK m : m = [kind |-> "END", a |-> i, user |-> f.user]
    OBVIOUS
  <1>3. PICK U, ps, one : U = S \cup {m} /\ ps = f.preds /\ one = << m >>
    OBVIOUS
  <1>4. ps \in Seq(U) /\ one \in Seq(U) /\ Len(one) = 1 /\ one[1] = m
    BY <1>1, <1>3, SeqMonotonic
  <1>5. PICK seg : seg = ps \o one
    OBVIOUS
  <1>6. seg = Segment(f, i)
    BY <1>2, <1>3, <1>5 DEF Segment
  <1>7. seg \in Seq(U) /\ Len(seg) = Len(ps) + 1 /\ Extends(ps, seg) /\ seg[Len(ps) + 1] = m
    <2>1. /\ seg \in Seq(U) /\ Len(seg) = Len(ps) + Len(one) /\ Extends(ps, seg)
          /\ \A j \in 1..Len(one) : seg[Len(ps) + j] = one[j]
      BY <1>4, <1>5, Joined, Zenon
    <2>2. 1 \in 1..Len(one)
      BY <1>4
    <2> QED BY <1>4, <2>1, <2>2
  <1>8. Len(ps) \in Nat /\ DOMAIN ps = 1..Len(ps) /\ \A t \in 1..Len(ps) : ps[t].kind # "END"
    BY <1>1, <1>3
  <1>9. \A t \in 1..Len(ps) : seg[t] = ps[t]
    BY <1>7 DEF Extends
  <1>10. PICK len : len = Len(ps)
    OBVIOUS
  <1>11. \E V : seg \in Seq(V)
    BY <1>7
  <1>12. len \in Nat /\ DOMAIN f.preds = 1..len /\ Len(seg) = len + 1
    BY <1>3, <1>7, <1>8, <1>10
  <1>13. \A t \in 1..len : seg[t] = f.preds[t] /\ seg[t].kind # "END"
    BY <1>3, <1>8, <1>9, <1>10
  <1>14. seg[len + 1] = [kind |-> "END", a |-> i, user |-> f.user]
    BY <1>2, <1>7, <1>10
  <1>15. IsSegment(seg, f, i, len)
    BY <1>11, <1>12, <1>13, <1>14 DEF IsSegment
  <1> QED BY <1>3, <1>6, <1>10, <1>15

\* Filters, each left to userspace or a conjunction of predicates.
IsFilterList(filters, n) ==
    Len(filters) = n /\ \A k \in 1..n : filters[k].user \in BOOLEAN /\ IsConj(filters[k].preds)

\* What the predicates of each filter make of an event.
HoldsAre(filters, n, ends, holds, says) ==
    \A k \in 1..n : ~filters[k].user => (AllHold(holds, ends[k - 1], Len(filters[k].preds)) <=> says[k])

\* The filters one after the other.
SegmentsOf(filters) == [i \in 1..Len(filters) |-> Segment(filters[i], i - 1)]

\* They are laid in the compiled stream.
LEMMA CompileLays ==
    ASSUME NEW filters, NEW n \in Nat, n >= 1, IsFilterList(filters, n)
    PROVE  \E ends : Laid(Compile(filters), SegmentsOf(filters), n, ends)
  <1>1. PICK segs : segs = SegmentsOf(filters)
    OBVIOUS
  <1>2. Compile(filters) = FlattenSeq(segs)
    BY <1>1 DEF Compile, SegmentsOf
  <1>3. segs = [i \in 1..n |-> Segment(filters[i], i - 1)]
    BY <1>1 DEF SegmentsOf, IsFilterList
  <1>4. Len(segs) = n
    BY <1>3
  <1> DEFINE S == UNION {{segs[k][t] : t \in 1..Len(segs[k])} : k \in 1..n}
  <1>5. ASSUME NEW k \in 1..n PROVE segs[k] \in Seq(S)
    <2>1. PICK f, i, seg : f = filters[k] /\ i = k - 1 /\ seg = Segment(f, i)
      OBVIOUS
    <2>2. IsConj(f.preds) /\ segs[k] = seg
      BY <1>3, <2>1 DEF IsFilterList
    <2>3. IsSegment(seg, f, i, Len(f.preds))
      BY <2>1, <2>2, SegmentShape
    <2>4. PICK U : seg \in Seq(U)
      BY <2>3 DEF IsSegment
    <2>5. \A t \in 1..Len(segs[k]) : segs[k][t] \in S
      OBVIOUS
    <2> HIDE DEF S
    <2> QED BY <2>2, <2>4, <2>5
  <1> HIDE DEF S
  <1> QED BY <1>1, <1>2, <1>4, <1>5, StreamAt

\* From one marker to the next, the walk finds the first filter that holds, or
\* gives up, or finds that none does.
LEMMA WalkIsRight ==
    ASSUME NEW filters, NEW n \in Nat, n >= 1, IsFilterList(filters, n), NEW flat, NEW ends,
           Laid(flat, SegmentsOf(filters), n, ends),
           NEW holds, NEW entry, NEW says, HoldsAre(filters, n, ends, holds, says)
    PROVE  Passed(Walk(flat, holds, entry, Len(flat)), n, says)
  <1> DEFINE L == Len(flat)
             W == CHOOSE f : IsWalk(f, flat, holds, entry, L)
  <1>1. Walk(flat, holds, entry, Len(flat)) = W[L]
    BY DEF Walk, IsWalk, WalkAt
  <1>2. L \in Nat /\ L = ends[n]
    BY DEF Laid
  <1>3. IsWalk(W, flat, holds, entry, L)
    BY <1>2, WalkExists
  <1> HIDE DEF W, L
  <1>4. \A i \in 0..L : W[i] = WalkAt(W, flat, holds, entry, i)
    BY <1>3 DEF IsWalk
  <1>5. IsRun(W, flat, holds, entry, L)
    BY <1>2, <1>4 DEF IsRun, WalkAt
  <1>6. Passed(W[0], 0, says)
    <2>1. W[0] = Start
      BY <1>2, <1>4 DEF WalkAt
    <2>2. Start \in WalkState /\ Start.ret = "" /\ Start.res = "TRUE"
      BY DEF Start, None, WalkState
    <2>3. PICK s : s = Start
      OBVIOUS
    <2>4. s \in WalkState /\ s.ret = "" /\ s.res = "TRUE" /\ s.ret # "INDEX"
      BY <2>2, <2>3
    <2>5. Passed(s, 0, says)
      <3>1. \A j \in 1..0 : ~says[j]
        OBVIOUS
      <3> QED BY <2>4, <3>1, Zenon DEF Passed
    <2> QED BY <2>1, <2>3, <2>5
  <1> DEFINE T == {k \in 0..n : ~Passed(W[ends[k]], k, says)}
  <1>7. T = {}
    <2> SUFFICES ASSUME T # {} PROVE FALSE
      OBVIOUS
    <2>1. T \in SUBSET Nat
      OBVIOUS
    <2> HIDE DEF T
    <2>2. PICK k \in T : \A j \in T : k <= j
      BY <2>1, Least
    <2>3. k \in 0..n /\ ~Passed(W[ends[k]], k, says)
      BY <2>2 DEF T
    <2>4. CASE k = 0
      BY <1>6, <2>3, <2>4 DEF Laid
    <2>5. CASE k # 0
      <3>1. k \in 1..n /\ k \in Nat /\ k >= 1 /\ k - 1 \in 0..n /\ ~(k <= k - 1)
        BY <2>3, <2>5
      <3>2. Passed(W[ends[k - 1]], k - 1, says)
        BY <2>2, <3>1 DEF T
      <3>3. PICK f, i, e, seg : f = filters[k] /\ i = k - 1 /\ e = ends[k - 1] /\ seg = Segment(f, i)
        OBVIOUS
      <3>4. f.user \in BOOLEAN /\ IsConj(f.preds)
        BY <3>1, <3>3 DEF IsFilterList
      <3>5. SegmentsOf(filters)[k] = seg
        BY <3>1, <3>3 DEF SegmentsOf, IsFilterList
      <3>6. /\ e \in Nat /\ ends[k] = e + Len(seg) /\ ends[k] <= L
            /\ \A t \in 1..Len(seg) : flat[e + t] = seg[t]
        BY <1>2, <3>1, <3>3, <3>5 DEF Laid
      <3>7. PICK len : len = Len(f.preds)
        OBVIOUS
      <3>8. /\ len \in Nat /\ Len(seg) = len + 1
            /\ \A t \in 1..len : seg[t].kind # "END"
            /\ seg[len + 1] = [kind |-> "END", a |-> i, user |-> f.user]
        <4>1. IsSegment(seg, f, i, len)
          BY <3>3, <3>4, <3>7, SegmentShape
        <4> QED BY <4>1 DEF IsSegment
      <3>9. PICK p : p = flat[e + (len + 1)]
        OBVIOUS
      <3>10. p = [kind |-> "END", a |-> i, user |-> f.user]
        BY <3>6, <3>8, <3>9
      <3>11. p.kind = "END" /\ p.user \in BOOLEAN /\ p.user = f.user /\ p.a = k - 1
        BY <3>3, <3>4, <3>10
      <3>12. NoMarker(flat, e, len)
        <4> SUFFICES ASSUME NEW t \in 1..len PROVE flat[e + t].kind # "END"
          BY DEF NoMarker
        <4>1. t \in 1..Len(seg)
          BY <3>8
        <4> QED BY <3>6, <3>8, <4>1
      <3>13. ~p.user => (AllHold(holds, e, len) <=> says[k])
        BY <3>1, <3>3, <3>7, <3>11 DEF HoldsAre
      <3>14. e + (len + 1) <= L /\ ends[k] = e + (len + 1)
        BY <3>6, <3>8
      <3>15. Passed(W[e], k - 1, says)
        BY <3>2, <3>3
      <3>16. Passed(W[e + (len + 1)], k, says)
        BY <1>2, <1>5, <3>1, <3>6, <3>8, <3>9, <3>11, <3>12, <3>13, <3>14, <3>15, OneFilter
      <3> QED BY <2>3, <3>14, <3>16
    <2> QED BY <2>4, <2>5
  <1>8. Passed(W[ends[n]], n, says)
    BY <1>7
  <1> QED BY <1>1, <1>2, <1>8

\* The equations make a run.
LEMMA WalkIsRun ==
    ASSUME NEW W, NEW flat, NEW holds, NEW entry, NEW L \in Nat, IsWalk(W, flat, holds, entry, L)
    PROVE  IsRun(W, flat, holds, entry, L)
  <1>1. \A i \in 0..L : W[i] = WalkAt(W, flat, holds, entry, i)
    BY DEF IsWalk
  <1> QED BY <1>1 DEF IsRun, WalkAt

\* There is a result.
Returned(s) == s.ret # ""

\* It stays to the end of a run.
LEMMA RunKeepsResult ==
    ASSUME NEW W, NEW flat, NEW holds, NEW entry, NEW L \in Nat, IsRun(W, flat, holds, entry, L),
           NEW m \in Nat, m <= L, Returned(W[m])
    PROVE  W[L] = W[m]
  <1> DEFINE T == {k \in 0..L : m <= k /\ W[k] # W[m]}
  <1>1. T = {}
    <2> SUFFICES ASSUME T # {} PROVE FALSE
      OBVIOUS
    <2>1. T \in SUBSET Nat
      OBVIOUS
    <2> HIDE DEF T
    <2>2. PICK k \in T : \A j \in T : k <= j
      BY <2>1, Least
    <2>3. k \in 0..L /\ m <= k /\ W[k] # W[m]
      BY <2>2 DEF T
    <2>4. k \in 1..L /\ k - 1 \in 0..L /\ m <= k - 1 /\ ~(k <= k - 1)
      BY <2>3
    <2>5. W[k - 1] = W[m]
      BY <2>2, <2>4 DEF T
    <2>6. W[k] = WalkStep(W[m], flat[k], holds[k], entry)
      BY <2>4, <2>5 DEF IsRun
    <2>7. WalkStep(W[m], flat[k], holds[k], entry) = W[m]
      BY ReturnedStays DEF Returned
    <2> QED BY <2>3, <2>6, <2>7
  <1> QED BY <1>1

\* m elements of a stream, or all of them.
IsCut(flat, m) == Len(flat) \in Nat /\ m \in 0..Len(flat)

\* The walk that has a result after m elements has the same one at the end.
LEMMA ResultStays ==
    ASSUME NEW flat, NEW m, IsCut(flat, m), NEW holds, NEW entry, Returned(Walk(flat, holds, entry, m))
    PROVE  Walk(flat, holds, entry, Len(flat)) = Walk(flat, holds, entry, m)
  <1>1. PICK L : L = Len(flat)
    OBVIOUS
  <1>2. PICK W : W = CHOOSE f : IsWalk(f, flat, holds, entry, L)
    OBVIOUS
  <1>3. L \in Nat /\ m \in Nat /\ m <= L
    BY <1>1 DEF IsCut
  <1>4. Walk(flat, holds, entry, L) = W[L] /\ Walk(flat, holds, entry, m) = W[m]
    BY <1>1, <1>2 DEF Walk, IsWalk, WalkAt
  <1>5. IsWalk(W, flat, holds, entry, L)
    BY <1>2, <1>3, WalkExists
  <1>6. IsRun(W, flat, holds, entry, L)
    BY <1>3, <1>5, WalkIsRun
  <1> QED BY <1>1, <1>3, <1>4, <1>6, RunKeepsResult

-----------------------------------------------------------------------------
(* The kernel and the machine decide as CEL does. *)

\* Where the predicates of the k-th filter are.
LEMMA PredsAt ==
    ASSUME NEW filters, NEW n \in Nat, IsFilterList(filters, n), NEW flat, NEW ends, Laid(flat, SegmentsOf(filters), n, ends),
           NEW k \in 1..n
    PROVE  /\ DOMAIN filters[k].preds = 1..Len(filters[k].preds)
           /\ \A t \in 1..Len(filters[k].preds) :
                 ends[k - 1] + t \in DOMAIN flat /\ flat[ends[k - 1] + t] = filters[k].preds[t]
  <1>1. PICK f, i, e, seg : f = filters[k] /\ i = k - 1 /\ e = ends[k - 1] /\ seg = Segment(f, i)
    OBVIOUS
  <1>2. IsConj(f.preds)
    BY <1>1 DEF IsFilterList
  <1>3. SegmentsOf(filters)[k] = seg
    BY <1>1 DEF SegmentsOf, IsFilterList
  <1>4. k - 1 \in 0..n /\ n \in 0..n
    OBVIOUS
  <1>5. /\ e \in Nat /\ ends[k] = e + Len(seg) /\ ends[k] <= Len(flat) /\ DOMAIN flat = 1..Len(flat) /\ Len(flat) \in Nat
        /\ \A t \in 1..Len(seg) : flat[e + t] = seg[t]
    BY <1>1, <1>3, <1>4 DEF Laid
  <1>6. PICK len : len = Len(f.preds)
    OBVIOUS
  <1>7. /\ len \in Nat /\ Len(seg) = len + 1 /\ DOMAIN f.preds = 1..len
        /\ \A t \in 1..len : seg[t] = f.preds[t]
    <2>1. IsSegment(seg, f, i, len)
      BY <1>1, <1>2, <1>6, SegmentShape
    <2> QED BY <2>1 DEF IsSegment
  <1>8. ASSUME NEW t \in 1..len PROVE e + t \in DOMAIN flat /\ flat[e + t] = f.preds[t]
    <2>1. t \in 1..Len(seg)
      BY <1>7
    <2>2. e + t \in 1..Len(flat)
      BY <1>5, <1>7
    <2> QED BY <1>5, <1>7, <2>1, <2>2
  <1> QED BY <1>1, <1>6, <1>7, <1>8

\* The verdict of CEL on each expression.
CelSays(exprs, v) == [k \in 1..Len(exprs) |-> Cel(exprs[k], v)]

\* Evaluate is the first that holds.
LEMMA EvaluateFirst ==
    ASSUME NEW exprs, NEW n \in Nat, Len(exprs) = n, DOMAIN exprs = 1..n, NEW v
    PROVE  /\ (\A j \in 1..n : ~CelSays(exprs, v)[j]) => Evaluate(exprs, v) = None
           /\ \A i : FirstTrue(CelSays(exprs, v), n, i) => i = Evaluate(exprs, v)
  <1> DEFINE T == {j \in DOMAIN exprs : Cel(exprs[j], v)}
  <1>1. Evaluate(exprs, v) = IF T = {} THEN None ELSE Min(T) - 1
    BY DEF Evaluate
  <1>2. PICK says : says = CelSays(exprs, v)
    OBVIOUS
  <1>3. \A j \in 1..n : says[j] <=> j \in T
    BY <1>2 DEF CelSays
  <1>4. T \in SUBSET Nat /\ T \in SUBSET (1..n)
    OBVIOUS
  <1> HIDE DEF T
  <1>5. ASSUME \A j \in 1..n : ~says[j] PROVE Evaluate(exprs, v) = None
    <2>1. T = {}
      BY <1>3, <1>4, <1>5
    <2> QED BY <1>1, <2>1
  <1>6. ASSUME NEW i, FirstTrue(says, n, i) PROVE i = Evaluate(exprs, v)
    <2>1. PICK m \in 1..n : i = m - 1 /\ says[m] /\ \A j \in 1..(m - 1) : ~says[j]
      BY <1>6 DEF FirstTrue
    <2>2. m \in T
      BY <1>3, <2>1
    <2>3. Min(T) \in T /\ Min(T) <= m
      BY <1>4, <2>2, MinIn
    <2>4. Min(T) \in 1..n /\ says[Min(T)]
      BY <1>3, <1>4, <2>3
    <2>5. Min(T) \notin 1..(m - 1)
      BY <2>1, <2>4
    <2>6. Min(T) = m
      BY <2>3, <2>4, <2>5
    <2> QED BY <1>1, <2>1, <2>2, <2>6
  <1> QED BY <1>2, <1>5, <1>6

\* What was found for one configuration, event and machine.
AgreesOn(s, exprs, v) ==
    /\ s.ret = "INDEX" => s.idx = Evaluate(exprs, v)
    /\ s.ret = "" => Evaluate(exprs, v) = None

KernelOn(s, flat, exprs, v) ==
    /\ s.ret = "INDEX" => s.idx = Evaluate(exprs, v)
    /\ s.ret = "" /\ Len(flat) <= Limit => Evaluate(exprs, v) = None

\* A configuration that was accepted, and an event.
Given(exprs, c, v) ==
    /\ IsConfig(exprs) /\ c = CompileFilters(exprs) /\ Len(c.filters) >= 1 /\ Len(c.atoms) <= MaxAtoms /\ IsEvent(v)

\* What holds of the stream is what CEL says of the expressions.
LEMMA GivenFilters ==
    ASSUME NEW exprs, NEW c, NEW v, Given(exprs, c, v)
    PROVE  /\ Len(exprs) \in Nat /\ Len(exprs) >= 1 /\ IsFilterList(c.filters, Len(exprs))
           /\ \A k \in 1..Len(exprs) : ~c.filters[k].user => Same(c.filters[k].preds, exprs[k], c.atoms, v)
  <1>1. FiltersSure(exprs, Len(exprs), c) /\ Len(exprs) \in Nat
    BY FiltersAreRight DEF Given, IsConfig
  <1>2. Len(c.filters) = Len(exprs) /\ IsAtoms(c.atoms) /\ \A k \in 1..Len(exprs) : FilterSure(c.filters[k], exprs[k], c.atoms)
    BY <1>1 DEF FiltersSure
  <1>3. IsFilterList(c.filters, Len(exprs))
    BY <1>2 DEF IsFilterList, FilterSure
  <1>4. Later(c.atoms, c.atoms, v)
    BY <1>2 DEF Given, Later, IsAtoms, Extends
  <1> QED BY <1>1, <1>2, <1>3, <1>4 DEF FilterSure, Given

\* A walk that is right agrees with CEL.
LEMMA PassedAgrees ==
    ASSUME NEW exprs, NEW n \in Nat, Len(exprs) = n, DOMAIN exprs = 1..n, NEW v, NEW s, Passed(s, n, CelSays(exprs, v))
    PROVE  AgreesOn(s, exprs, v)
  BY EvaluateFirst DEF AgreesOn, Passed

\* The machine.
LEMMA MachineDecides ==
    ASSUME NEW exprs, NEW c, NEW v, Given(exprs, c, v), NEW entry
    PROVE  AgreesOn(RunPreds(Compile(c.filters), v, entry, VerdictMask(c.atoms, v)), exprs, v)
  <1>1. PICK n, flat, mask, says, fs :
           n = Len(exprs) /\ flat = Compile(c.filters) /\ mask = VerdictMask(c.atoms, v) /\ says = CelSays(exprs, v) /\ fs = c.filters
    OBVIOUS
  <1>2. /\ n \in Nat /\ n >= 1 /\ IsFilterList(fs, n)
        /\ \A k \in 1..n : ~fs[k].user => Same(fs[k].preds, exprs[k], c.atoms, v)
    BY <1>1, GivenFilters
  <1>3. PICK ends : Laid(flat, SegmentsOf(fs), n, ends)
    BY <1>1, <1>2, CompileLays
  <1>4. PICK holds : holds = [i \in DOMAIN flat |-> MachineHolds(flat[i], v, mask)]
    OBVIOUS
  <1>5. ASSUME NEW k \in 1..n, ~fs[k].user PROVE AllHold(holds, ends[k - 1], Len(fs[k].preds)) <=> says[k]
    <2>1. PICK ps, e, len : ps = fs[k].preds /\ e = ends[k - 1] /\ len = Len(ps)
      OBVIOUS
    <2>2. DOMAIN ps = 1..len /\ \A t \in 1..len : e + t \in DOMAIN flat /\ flat[e + t] = ps[t]
      BY <1>2, <1>3, <2>1, PredsAt
    <2>3. \A t \in 1..len : holds[e + t] = MachineHolds(ps[t], v, mask)
      BY <1>4, <2>2
    <2>4. AllHold(holds, e, len) <=> MachineAll(ps, v, mask)
      BY <2>2, <2>3 DEF AllHold, MachineAll
    <2>5. MachineAll(ps, v, mask) <=> Cel(exprs[k], v)
      BY <1>1, <1>2, <1>5, <2>1 DEF Same
    <2>6. says[k] = Cel(exprs[k], v)
      BY <1>1 DEF CelSays
    <2> QED BY <2>1, <2>4, <2>5, <2>6
  <1>6. HoldsAre(fs, n, ends, holds, says)
    BY <1>5 DEF HoldsAre
  <1>7. PICK s : s = Walk(flat, holds, entry, Len(flat))
    OBVIOUS
  <1>8. Passed(s, n, says)
    BY <1>2, <1>3, <1>6, <1>7, WalkIsRight
  <1>9. s = RunPreds(flat, v, entry, mask)
    BY <1>4, <1>7 DEF RunPreds
  <1>10. Len(exprs) = n /\ DOMAIN exprs = 1..n
    BY <1>1 DEF Given, IsConfig
  <1>11. AgreesOn(s, exprs, v)
    BY <1>1, <1>2, <1>8, <1>10, PassedAgrees
  <1> QED BY <1>1, <1>9, <1>11

\* The kernel.
LEMMA KernelDecides ==
    ASSUME NEW exprs, NEW c, NEW v, Given(exprs, c, v), NEW entry, \A k \in 1..Len(exprs) : WholeExpr(exprs[k])
    PROVE  KernelOn(ko_filter_eval(Compile(c.filters), v, entry, VerdictMask(c.atoms, v)), Compile(c.filters), exprs, v)
  <1>1. PICK n, flat, mask, says, fs :
           n = Len(exprs) /\ flat = Compile(c.filters) /\ mask = VerdictMask(c.atoms, v) /\ says = CelSays(exprs, v) /\ fs = c.filters
    OBVIOUS
  <1>2. /\ n \in Nat /\ n >= 1 /\ IsFilterList(fs, n)
        /\ \A k \in 1..n : ~fs[k].user => Same(fs[k].preds, exprs[k], c.atoms, v)
    BY <1>1, GivenFilters
  <1>3. PICK ends : Laid(flat, SegmentsOf(fs), n, ends)
    BY <1>1, <1>2, CompileLays
  <1>4. PICK holds : holds = [i \in DOMAIN flat |-> KernelHolds(flat[i], v, mask)]
    OBVIOUS
  <1>5. ASSUME NEW k \in 1..n, ~fs[k].user PROVE AllHold(holds, ends[k - 1], Len(fs[k].preds)) <=> says[k]
    <2>1. PICK ps, e, len : ps = fs[k].preds /\ e = ends[k - 1] /\ len = Len(ps)
      OBVIOUS
    <2>2. DOMAIN ps = 1..len /\ \A t \in 1..len : e + t \in DOMAIN flat /\ flat[e + t] = ps[t]
      BY <1>2, <1>3, <2>1, PredsAt
    <2>3. \A t \in 1..len : holds[e + t] = KernelHolds(ps[t], v, mask)
      BY <1>4, <2>2
    <2>4. AllHold(holds, e, len) <=> KernelAll(ps, v, mask)
      BY <2>2, <2>3 DEF AllHold, KernelAll
    <2>5. KernelAll(ps, v, mask) <=> Cel(exprs[k], v)
      BY <1>1, <1>2, <1>5, <2>1 DEF Same
    <2>6. says[k] = Cel(exprs[k], v)
      BY <1>1 DEF CelSays
    <2> QED BY <2>1, <2>4, <2>5, <2>6
  <1>6. HoldsAre(fs, n, ends, holds, says)
    BY <1>5 DEF HoldsAre
  <1>7. PICK s, m, u : s = Walk(flat, holds, entry, Len(flat)) /\ m = InArray(flat) /\ u = Walk(flat, holds, entry, m)
    OBVIOUS
  <1>8. Passed(s, n, says)
    BY <1>2, <1>3, <1>6, <1>7, WalkIsRight
  <1>9. u = ko_filter_eval(flat, v, entry, mask)
    BY <1>4, <1>7 DEF ko_filter_eval
  <1>10. Len(exprs) = n /\ DOMAIN exprs = 1..n
    BY <1>1 DEF Given, IsConfig
  <1>11. AgreesOn(s, exprs, v)
    BY <1>1, <1>2, <1>8, <1>10, PassedAgrees
  <1>12. IsCut(flat, m) /\ (Len(flat) <= Limit => m = Len(flat))
    <2>1. Len(flat) \in Nat
      BY <1>3 DEF Laid
    <2>2. m = IF Len(flat) <= Limit THEN Len(flat) ELSE Limit
      BY <1>7 DEF InArray
    <2> QED BY <2>1, <2>2, FilterProgramAssumption DEF IsCut
  <1>13. u.ret = "INDEX" => u = s
    <2>1. u.ret = "INDEX" => Returned(u)
      BY DEF Returned
    <2> QED BY <1>7, <1>12, <2>1, ResultStays
  <1>14. Len(flat) <= Limit => u = s
    BY <1>7, <1>12
  <1>15. KernelOn(u, flat, exprs, v)
    BY <1>11, <1>13, <1>14 DEF KernelOn, AgreesOn
  <1> QED BY <1>1, <1>9, <1>15

-----------------------------------------------------------------------------
(* Every state. *)

\* The set is what was compiled of the configuration, and the event one of its.
CompileInv ==
    /\ cfg \in Configs /\ (ev # NoEvent => ev \in EventsOf(cfg))
    /\ LET c == CompileFilters(cfg) IN
       /\ Accepted(c.filters) /\ Len(c.atoms) <= MaxAtoms
       /\ set = [atoms |-> c.atoms, flat |-> Compile(c.filters)]

\* It is inductive.
LEMMA CompileInvHolds == Spec => []CompileInv
  <1>1. Init => CompileInv
    BY DEF Init, CompileInv
  <1>2. CompileInv /\ [Next]_vars => CompileInv'
    BY DEF CompileInv, Next, Arrive, Leave, vars
  <1> QED BY <1>1, <1>2, PTL DEF Spec

\* What the proofs need of a state.
LEMMA StateGiven ==
    ASSUME CompileInv, ev # NoEvent, \A e \in AllLeaves : Plain(e)
    PROVE  LET c == CompileFilters(cfg) IN
           Given(cfg, c, ev) /\ set.atoms = c.atoms /\ set.flat = Compile(c.filters)
  <1>1. PICK c : c = CompileFilters(cfg)
    OBVIOUS
  <1>2. cfg \in Configs /\ ev \in EventsOf(cfg) /\ Accepted(c.filters) /\ Len(c.atoms) <= MaxAtoms
    BY <1>1 DEF CompileInv
  <1>3. set.atoms = c.atoms /\ set.flat = Compile(c.filters)
    BY <1>1 DEF CompileInv
  <1>4. Len(c.filters) >= 1
    BY <1>2 DEF Accepted
  <1>5. IsEvent(ev) /\ Len(cfg) \in Nat /\ DOMAIN cfg = 1..Len(cfg) /\ \A n \in 1..Len(cfg) : IsExpr(cfg[n])
    BY <1>2, FilterCompileAssumption
  <1>6. ASSUME NEW n \in 1..Len(cfg) PROVE PlainExpr(cfg[n])
    <2>1. DOMAIN cfg[n] = 1..Len(cfg[n])
      BY <1>5 DEF IsExpr
    <2>2. \A i \in 1..Len(cfg[n]) : cfg[n][i].fn \notin Connectives => cfg[n][i] \in AllLeaves
      BY <1>5, <2>1 DEF AllLeaves
    <2> QED BY <2>2 DEF PlainExpr
  <1>7. IsConfig(cfg)
    BY <1>5, <1>6 DEF IsConfig
  <1>8. Given(cfg, c, ev)
    BY <1>1, <1>2, <1>4, <1>5, <1>7 DEF Given
  <1> QED BY <1>1, <1>3, <1>8

\* The machine that the tests hold against CEL decides as CEL does: MachineExactOnPlain
\* in every state, for any configuration of type-checked expressions that is
\* accepted, and any event.
THEOREM MachineDecidesPlain == Spec => []MachineExactOnPlain
  <1>1. CompileInv => MachineExactOnPlain
    <2> SUFFICES ASSUME CompileInv, ev # NoEvent, \A e \in AllLeaves : Plain(e)
                 PROVE  Agrees(Machine)
      BY DEF MachineExactOnPlain
    <2>1. PICK c : c = CompileFilters(cfg)
      OBVIOUS
    <2>2. Given(cfg, c, ev) /\ set.atoms = c.atoms /\ set.flat = Compile(c.filters)
      BY <2>1, StateGiven
    <2>3. AgreesOn(RunPreds(Compile(c.filters), ev, known, VerdictMask(c.atoms, ev)), cfg, ev)
      BY <2>2, MachineDecides
    <2> QED BY <2>2, <2>3 DEF Agrees, AgreesOn, Machine
  <1> QED BY <1>1, CompileInvHolds, PTL

\* The kernel's walk decides as CEL does where prefixes end at a byte:
\* KernelExactOnPlain in every state.  The index it returns is right of every list
\* that is accepted, what it drops no filter keeps if the stream fits.
THEOREM KernelDecidesPlain == Spec => []KernelExactOnPlain
  <1>1. CompileInv => KernelExactOnPlain
    <2> SUFFICES ASSUME CompileInv, ev # NoEvent, \A e \in AllLeaves : Plain(e) /\ WholeBytes(e)
                 PROVE  /\ Kernel.ret = "INDEX" => Kernel.idx = Evaluate(cfg, ev)
                        /\ Kernel.ret = "" /\ Fits => Evaluate(cfg, ev) = None
      BY DEF KernelExactOnPlain
    <2>1. PICK c : c = CompileFilters(cfg)
      OBVIOUS
    <2>2. Given(cfg, c, ev) /\ set.atoms = c.atoms /\ set.flat = Compile(c.filters)
      BY <2>1, StateGiven
    <2>3. ASSUME NEW n \in 1..Len(cfg) PROVE WholeExpr(cfg[n])
      <3>1. DOMAIN cfg = 1..Len(cfg) /\ DOMAIN cfg[n] = 1..Len(cfg[n])
        BY <2>2, <2>3 DEF Given, IsConfig, IsExpr
      <3>2. \A i \in 1..Len(cfg[n]) : cfg[n][i].fn \notin Connectives => cfg[n][i] \in AllLeaves
        BY <2>3, <3>1 DEF AllLeaves
      <3> QED BY <3>2 DEF WholeExpr
    <2>4. KernelOn(ko_filter_eval(Compile(c.filters), ev, known, VerdictMask(c.atoms, ev)), Compile(c.filters), cfg, ev)
      BY <2>2, <2>3, KernelDecides
    <2> QED BY <2>2, <2>4 DEF KernelOn, Kernel, Fits
  <1> QED BY <1>1, CompileInvHolds, PTL
=============================================================================
