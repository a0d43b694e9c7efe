------------------------- MODULE FilterPredsProofs -------------------------
(***************************************************************************)
(* The predicates of a comparison mean what CEL means by it: for every     *)
(* plain comparison and its negation, every event, every size of integers  *)
(* and addresses and any list of atoms they are shared with.               *)
(*                                                                         *)
(* Numbers: a literal that is not negative is itself as an unsigned value, *)
(* and flipCmp negates.  Types: a mask has the bit of a type iff the type  *)
(* is named.  Attributes: two atoms with one key compare alike, because    *)
(* the words of a list can be told from its key when each value is one     *)
(* word (SameKey); so the atom a predicate refers to, found or added, has  *)
(* the value of its own (AtomFound, AttrHolds), and a negated list is one  *)
(* negated atom for each value (Nots).  Addresses: IpSetProofs.            *)
(***************************************************************************)
EXTENDS FilterPreds, IpSetProofs, NaturalsInduction, WellFoundedInduction, SequenceTheorems

-----------------------------------------------------------------------------
(* Numbers, texts and smallest elements. *)

\* A literal as an unsigned value.
LEMMA Modulo ==
    ASSUME NEW i \in Int, i >= 0, i < 2 ^ IntBits
    PROVE  i % 2 ^ IntBits = i
  BY FilterPredsAssumption

\* The opposite comparison of numbers is true when the comparison is false.
LEMMA Opposite ==
    ASSUME NEW op \in Cmp, NEW x \in Int, NEW y \in Int
    PROVE  /\ flipCmp(op) \in Cmp
           /\ Compares(flipCmp(op), Num(x), Num(y)) <=> ~Compares(op, Num(x), Num(y))
  <1>1. Rank(Num(x)) = x /\ Rank(Num(y)) = y /\ (Num(x) = Num(y) <=> x = y)
    BY DEF Rank, Num
  <1>2. CASE op = "==" BY <1>2 DEF flipCmp, Compares, Cmp
  <1>3. CASE op = "!=" BY <1>3 DEF flipCmp, Compares, Cmp
  <1>4. CASE op = "<" BY <1>1, <1>4 DEF flipCmp, Compares, Cmp
  <1>5. CASE op = "<=" BY <1>1, <1>5 DEF flipCmp, Compares, Cmp
  <1>6. CASE op = ">" BY <1>1, <1>6 DEF flipCmp, Compares, Cmp
  <1>7. CASE op = ">=" BY <1>1, <1>7 DEF flipCmp, Compares, Cmp
  <1> QED BY <1>2, <1>3, <1>4, <1>5, <1>6, <1>7 DEF Cmp

\* The words of one text.
LEMMA OneText ==
    ASSUME NEW s \in Seq(STRING)
    PROVE  FlattenSeq(<< s >>) = s
  <1> DEFINE f == [i \in 1..1 |-> s]
             G == CHOOSE g : g = [i \in 1..Len(<< s >>) |-> IF i = 1 THEN << s >>[i] ELSE g[i - 1] \o << s >>[i]]
  <1>1. Len(<< s >>) = 1 /\ << s >>[1] = s
    OBVIOUS
  <1>2. f = [i \in 1..Len(<< s >>) |-> IF i = 1 THEN << s >>[i] ELSE f[i - 1] \o << s >>[i]]
    BY <1>1
  <1>3. G = [i \in 1..Len(<< s >>) |-> IF i = 1 THEN << s >>[i] ELSE G[i - 1] \o << s >>[i]]
    BY <1>2
  <1>4. G[1] = s
    BY <1>1, <1>3
  <1>5. FlattenSeq(<< s >>) = G[Len(<< s >>)]
    BY <1>1 DEF FlattenSeq
  <1> QED BY <1>1, <1>4, <1>5

\* A smallest element: induction, with a set in place of a predicate.
LEMMA Least ==
    ASSUME NEW T \in SUBSET Nat, T # {}
    PROVE  \E x \in T : \A y \in T : x <= y
  <1>1. IsWellFoundedOn(OpToRel(<, Nat), Nat)
    BY NatLessThanWellFounded
  <1>2. PICK x \in T : \A y \in T : ~(<< y, x >> \in OpToRel(<, Nat))
    BY <1>1, WFMin, Zenon
  <1>3. \A y \in T : ~(y < x)
    BY <1>2, Zenon DEF OpToRel
  <1>4. \A y \in T : x <= y
    BY <1>3
  <1> QED BY <1>4

\* A sequence with one more element.
LEMMA OneMore ==
    ASSUME NEW i \in Nat, i > 1, NEW g, \A j \in 1..i : g[j] \in STRING,
           NEW t \in Seq(STRING), Len(t) = 1, t[1] = g[i]
    PROVE  [j \in 1..(i - 1) |-> g[j]] \o t = [j \in 1..i |-> g[j]]
  <1> DEFINE s == [j \in 1..(i - 1) |-> g[j]]
             u == [j \in 1..i |-> g[j]]
  <1>1. s \in Seq(STRING) /\ Len(s) = i - 1 /\ \A j \in 1..(i - 1) : s[j] = g[j]
    OBVIOUS
  <1>2. u \in Seq(STRING) /\ Len(u) = i /\ \A j \in 1..i : u[j] = g[j]
    OBVIOUS
  <1> HIDE DEF s, u
  <1>3. /\ s \o t \in Seq(STRING) /\ Len(s \o t) = Len(s) + Len(t)
        /\ \A j \in 1..(Len(s) + Len(t)) : (s \o t)[j] = IF j <= Len(s) THEN s[j] ELSE t[j - Len(s)]
    BY <1>1, ConcatProperties
  <1>4. i - 1 + 1 = i
    OBVIOUS
  <1>5. \A j \in 1..i : (s \o t)[j] = IF j <= i - 1 THEN s[j] ELSE t[j - (i - 1)]
    BY <1>1, <1>3, <1>4
  <1>6. ASSUME NEW j \in 1..i PROVE (s \o t)[j] = u[j]
    <2>1. CASE j <= i - 1
      <3>1. j \in 1..(i - 1)
        BY <2>1
      <3> QED BY <1>1, <1>2, <1>5, <2>1, <3>1
    <2>2. CASE j = i
      <3>1. j - (i - 1) = 1 /\ ~(j <= i - 1)
        BY <2>2
      <3>2. (s \o t)[j] = t[1]
        BY <1>5, <3>1
      <3>3. u[j] = g[i]
        BY <1>2, <2>2
      <3> QED BY <3>2, <3>3
    <2>3. j <= i - 1 \/ j = i
      OBVIOUS
    <2> QED BY <2>1, <2>2, <2>3
  <1>7. Len(s \o t) = i
    BY <1>1, <1>3, <1>4
  <1>8. s \o t = u
    BY <1>2, <1>3, <1>6, <1>7, SeqEqual
  <1> QED BY <1>8 DEF s, u

\* The words of a list of words.
LEMMA OneWordTexts ==
    ASSUME NEW values \in Seq(Text), Len(values) > 0, \A i \in DOMAIN values : Len(values[i].str) = 1
    PROVE  FlattenSeq([i \in DOMAIN values |-> values[i].str]) = [i \in 1..Len(values) |-> values[i].str[1]]
  <1> DEFINE n == Len(values)
             seqs == [i \in DOMAIN values |-> values[i].str]
             w == [i \in 1..n |-> values[i].str[1]]
             W == [i \in 1..n |-> [j \in 1..i |-> w[j]]]
             G == CHOOSE g : g = [i \in 1..Len(seqs) |-> IF i = 1 THEN seqs[i] ELSE g[i - 1] \o seqs[i]]
  <1>1. n \in Nat /\ n >= 1 /\ DOMAIN values = 1..n
    OBVIOUS
  <1>2. \A i \in 1..n : seqs[i] \in Seq(STRING) /\ Len(seqs[i]) = 1 /\ seqs[i][1] = w[i] /\ w[i] \in STRING
    <2> TAKE i \in 1..n
    <2>1. values[i] \in Text /\ Len(values[i].str) = 1
      BY <1>1
    <2>2. values[i].str \in Seq(STRING)
      BY <2>1 DEF Text
    <2>3. values[i].str[1] \in STRING
      BY <2>1, <2>2
    <2> QED BY <1>1, <2>1, <2>2, <2>3
  <1>3. seqs \in Seq(Seq(STRING)) /\ Len(seqs) = n
    BY <1>1, <1>2
  <1>4. ASSUME NEW i \in 1..n
        PROVE  W[i] = IF i = 1 THEN seqs[i] ELSE W[i - 1] \o seqs[i]
    <2>1. W[i] = [j \in 1..i |-> w[j]] /\ i \in Nat
      BY <1>1
    <2>2. CASE i = 1
      <3>1. seqs[1] \in Seq(STRING) /\ Len(seqs[1]) = 1 /\ seqs[1][1] = w[1]
        BY <1>1, <1>2
      <3> HIDE DEF seqs, w
      <3>2. seqs[1] = [j \in 1..1 |-> w[j]]
        BY <3>1
      <3> QED BY <2>1, <2>2, <3>2
    <2>3. CASE i # 1
      <3>0. i > 1
        BY <2>3
      <3>1. i - 1 \in 1..n /\ W[i - 1] = [j \in 1..(i - 1) |-> w[j]]
        BY <1>1, <3>0
      <3>2. /\ \A j \in 1..i : w[j] \in STRING
            /\ seqs[i] \in Seq(STRING) /\ Len(seqs[i]) = 1 /\ seqs[i][1] = w[i]
        BY <1>1, <1>2
      <3> HIDE DEF seqs, w, W
      <3>3. [j \in 1..(i - 1) |-> w[j]] \o seqs[i] = [j \in 1..i |-> w[j]]
        <4> DEFINE t == seqs[i]
        <4>1. t \in Seq(STRING) /\ Len(t) = 1 /\ t[1] = w[i]
          BY <3>2
        <4> HIDE DEF t
        <4>2. [j \in 1..(i - 1) |-> w[j]] \o t = [j \in 1..i |-> w[j]]
          BY <2>1, <3>0, <3>2, <4>1, OneMore
        <4> QED BY <4>2 DEF t
      <3>4. W[i] = W[i - 1] \o seqs[i]
        BY <2>1, <3>1, <3>3
      <3> QED BY <2>3, <3>4
    <2> QED BY <2>2, <2>3
  <1>5. W = [i \in 1..Len(seqs) |-> IF i = 1 THEN seqs[i] ELSE W[i - 1] \o seqs[i]]
    BY <1>3, <1>4
  <1>6. G = [i \in 1..Len(seqs) |-> IF i = 1 THEN seqs[i] ELSE G[i - 1] \o seqs[i]]
    BY <1>5
  <1>7. \A i \in 1..n : G[i] = IF i = 1 THEN seqs[i] ELSE G[i - 1] \o seqs[i]
    BY <1>3, <1>6
  <1>8. FlattenSeq(seqs) = G[n]
    BY <1>1, <1>3 DEF FlattenSeq
  <1>9. \A i \in 1..n : G[i] = W[i]
    <2> DEFINE T == {i \in 1..n : G[i] # W[i]}
    <2> HIDE DEF G, W, seqs
    <2>1. SUFFICES ASSUME T # {} PROVE FALSE
      OBVIOUS
    <2>2. PICK x \in T : \A y \in T : x <= y
      <3>1. T \in SUBSET Nat
        BY <1>1
      <3> HIDE DEF T
      <3> QED BY <2>1, <3>1, Least
    <2>3. x \in 1..n /\ G[x] # W[x]
      OBVIOUS
    <2>4. CASE x = 1
      BY <1>4, <1>7, <2>3, <2>4
    <2>5. CASE x # 1
      <3>1. x - 1 \in 1..n /\ x - 1 \notin T
        BY <1>1, <2>2, <2>3, <2>5
      <3>2. G[x - 1] = W[x - 1]
        BY <3>1
      <3> QED BY <1>4, <1>7, <2>3, <2>5, <3>2
    <2> QED BY <2>4, <2>5
  <1>10. W[n] = w /\ n \in 1..n
    BY <1>1
  <1> HIDE DEF G, W, seqs, w
  <1>11. FlattenSeq(seqs) = w
    BY <1>8, <1>9, <1>10
  <1> QED BY <1>11 DEF seqs, w

-----------------------------------------------------------------------------
(* Atoms. *)

\* An atom of a plain comparison: one string, or a list of words.
IsAtom(a) ==
    /\ a \in Atom /\ Len(a.values) > 0
    /\ a.op = "eq" => Len(a.values) = 1
    /\ a.op = "in" => \A i \in DOMAIN a.values : Len(a.values[i].str) = 1
IsAtoms(xs) == xs \in Seq(Atom) /\ \A i \in 1..Len(xs) : IsAtom(xs[i])

\* Atoms are only added.
Extends(xs, later) == Len(xs) <= Len(later) /\ \A i \in 1..Len(xs) : later[i] = xs[i]

\* The words of an atom.
LEMMA WordsOfAtom ==
    ASSUME NEW a, IsAtom(a)
    PROVE  LET words == FlattenSeq([i \in DOMAIN a.values |-> a.values[i].str]) IN
           /\ a.op = "eq" => words = a.values[1].str
           /\ a.op = "in" => words = [i \in 1..Len(a.values) |-> a.values[i].str[1]]
  <1>1. a.values \in Seq(Text) /\ Len(a.values) > 0
    BY DEF IsAtom, Atom
  <1>2. ASSUME a.op = "eq"
        PROVE  FlattenSeq([i \in DOMAIN a.values |-> a.values[i].str]) = a.values[1].str
    <2>1. Len(a.values) = 1 /\ a.values[1] \in Text
      BY <1>1, <1>2 DEF IsAtom
    <2> DEFINE s == a.values[1].str
    <2>2. s \in Seq(STRING)
      BY <2>1 DEF Text
    <2>3. [i \in DOMAIN a.values |-> a.values[i].str] = << s >>
      BY <1>1, <2>1
    <2> HIDE DEF s
    <2>4. FlattenSeq(<< s >>) = s
      BY <2>2, OneText
    <2> QED BY <2>3, <2>4 DEF s
  <1>3. ASSUME a.op = "in"
        PROVE  FlattenSeq([i \in DOMAIN a.values |-> a.values[i].str]) = [i \in 1..Len(a.values) |-> a.values[i].str[1]]
    <2>1. \A i \in DOMAIN a.values : Len(a.values[i].str) = 1
      BY <1>3 DEF IsAtom
    <2> QED BY <1>1, <2>1, OneWordTexts
  <1> QED BY <1>2, <1>3

\* The strings of a list are words.
LEMMA ListOfWords ==
    ASSUME NEW a, IsAtom(a), a.op = "in", NEW i \in 1..Len(a.values)
    PROVE  a.values[i].str \in Seq(STRING) /\ Len(a.values[i].str) = 1
  <1>1. a.values \in Seq(Text) /\ \A j \in DOMAIN a.values : Len(a.values[j].str) = 1
    BY DEF IsAtom, Atom
  <1>2. a.values[i] \in Text /\ Len(a.values[i].str) = 1
    BY <1>1
  <1> QED BY <1>2 DEF Text

\* Atoms that share a key hold for the same events.
LEMMA SameKey ==
    ASSUME NEW a, IsAtom(a), NEW b, IsAtom(b), AtomKey(a) = AtomKey(b), NEW v
    PROVE  atomEval(a, v) <=> atomEval(b, v)
  <1> DEFINE Words(c) == FlattenSeq([i \in DOMAIN c.values |-> c.values[i].str])
  <1>0. a.op \in {"eq", "in"} /\ a.values \in Seq(Text) /\ b.values \in Seq(Text)
    BY DEF IsAtom, Atom
  <1>1. a.field = b.field /\ a.op = b.op /\ Words(a) = Words(b)
    BY DEF AtomKey
  <1> HIDE DEF Words
  <1>2. CASE a.op = "eq"
    <2>1. a.values[1].str = b.values[1].str
      BY <1>1, <1>2, WordsOfAtom DEF Words
    <2> QED BY <1>1, <1>2, <2>1 DEF atomEval
  <1>3. CASE a.op = "in"
    <2>1. /\ Words(a) = [i \in 1..Len(a.values) |-> a.values[i].str[1]]
          /\ Words(b) = [i \in 1..Len(b.values) |-> b.values[i].str[1]]
      BY <1>1, <1>3, WordsOfAtom DEF Words
    <2>2. Len(a.values) \in Nat /\ Len(b.values) \in Nat
          /\ DOMAIN a.values = 1..Len(a.values) /\ DOMAIN b.values = 1..Len(b.values)
      BY <1>0
    <2>3. Len(a.values) = Len(b.values)
      <3>1. DOMAIN Words(a) = 1..Len(a.values) /\ DOMAIN Words(b) = 1..Len(b.values)
        BY <2>1
      <3> QED BY <1>1, <2>2, <3>1
    <2>4. ASSUME NEW i \in DOMAIN a.values
          PROVE  a.values[i].str = b.values[i].str
      <3>0. i \in 1..Len(a.values) /\ i \in 1..Len(b.values)
        BY <2>2, <2>3
      <3>1. a.values[i].str \in Seq(STRING) /\ Len(a.values[i].str) = 1
        BY <1>3, <3>0, ListOfWords
      <3>2. b.values[i].str \in Seq(STRING) /\ Len(b.values[i].str) = 1
        BY <1>1, <1>3, <3>0, ListOfWords
      <3>3. a.values[i].str[1] = b.values[i].str[1]
        <4>1. Words(a)[i] = a.values[i].str[1]
          BY <2>1, <3>0
        <4>2. Words(b)[i] = b.values[i].str[1]
          BY <2>1, <3>0
        <4> QED BY <1>1, <4>1, <4>2
      <3> QED BY <3>1, <3>2, <3>3, SeqEqual
    <2> QED BY <1>1, <1>3, <2>2, <2>3, <2>4 DEF atomEval
  <1> QED BY <1>0, <1>2, <1>3

\* The least of a set of numbers is one of them.
LEMMA MinIn ==
    ASSUME NEW T \in SUBSET Nat, T # {}
    PROVE  Min(T) \in T /\ \A y \in T : Min(T) <= y
  <1>1. \E x \in T : \A y \in T : x <= y
    BY Least
  <1> QED BY <1>1 DEF Min

\* attrPred: the predicate's atom is in the list, with the key it was asked for.
LEMMA AtomFound ==
    ASSUME NEW atoms, IsAtoms(atoms), NEW field, NEW op, NEW values, NEW neg,
           IsAtom([field |-> field, op |-> op, values |-> values]),
           NEW r, r = attrPred(field, op, values, neg, atoms)
    PROVE  \E id \in 1..Len(r.atoms) :
              /\ r.ok /\ r.preds = << [kind |-> "ATTR", a |-> id, neg |-> neg] >>
              /\ IsAtoms(r.atoms) /\ Extends(atoms, r.atoms)
              /\ AtomKey(r.atoms[id]) = AtomKey([field |-> field, op |-> op, values |-> values])
  <1> DEFINE a == [field |-> field, op |-> op, values |-> values]
             same == {i \in DOMAIN atoms : AtomKey(atoms[i]) = AtomKey(a)}
  <1>0. atoms \in Seq(Atom) /\ DOMAIN atoms = 1..Len(atoms) /\ Len(atoms) \in Nat /\ a \in Atom /\ IsAtom(a)
    BY DEF IsAtoms, IsAtom
  <1>1. CASE same = {}
    <2>1. /\ r.ok /\ r.preds = << [kind |-> "ATTR", a |-> Len(atoms) + 1, neg |-> neg] >>
          /\ r.atoms = Append(atoms, a)
      BY <1>1 DEF attrPred, Done
    <2> HIDE DEF a, same
    <2>2. /\ Len(r.atoms) = Len(atoms) + 1 /\ r.atoms[Len(atoms) + 1] = a /\ r.atoms \in Seq(Atom)
          /\ \A i \in 1..Len(atoms) : r.atoms[i] = atoms[i]
      BY <1>0, <2>1
    <2>3. Extends(atoms, r.atoms)
      BY <1>0, <2>2 DEF Extends
    <2>4. IsAtoms(r.atoms)
      <3>1. \A i \in 1..Len(r.atoms) : i \in 1..Len(atoms) \/ i = Len(atoms) + 1
        BY <1>0, <2>2
      <3> QED BY <1>0, <2>2, <3>1 DEF IsAtoms
    <2>5. Len(atoms) + 1 \in 1..Len(r.atoms)
      BY <1>0, <2>2
    <2> QED BY <2>1, <2>2, <2>3, <2>4, <2>5 DEF a
  <1>2. CASE same # {}
    <2>1. /\ r.ok /\ r.preds = << [kind |-> "ATTR", a |-> Min(same), neg |-> neg] >>
          /\ r.atoms = atoms
      BY <1>2 DEF attrPred, Done
    <2>2. Min(same) \in same
      <3>1. same \in SUBSET Nat
        BY <1>0
      <3> HIDE DEF same
      <3> QED BY <1>2, <3>1, MinIn
    <2>3. Min(same) \in 1..Len(r.atoms) /\ AtomKey(r.atoms[Min(same)]) = AtomKey(a)
      BY <1>0, <2>1, <2>2
    <2>4. Extends(atoms, r.atoms)
      BY <1>0, <2>1 DEF Extends
    <2> HIDE DEF same, a
    <2> QED BY <2>1, <2>3, <2>4 DEF a
  <1> QED BY <1>1, <1>2

\* The predicate of an atom, by a verdict made with this atom and later ones.
LEMMA AttrHolds ==
    ASSUME NEW a, IsAtom(a), NEW xs, IsAtoms(xs), NEW id \in 1..Len(xs), AtomKey(xs[id]) = AtomKey(a),
           NEW later \in Seq(Atom), Extends(xs, later), Len(later) <= MaxAtoms,
           NEW v, NEW neg \in BOOLEAN, NEW inSet
    PROVE  PredHolds([kind |-> "ATTR", a |-> id, neg |-> neg], v, VerdictMask(later, v), inSet)
             <=> (atomEval(a, v) <=> ~neg)
  <1>1. IsAtom(xs[id]) /\ xs \in Seq(Atom)
    BY DEF IsAtoms
  <1>2. atomEval(xs[id], v) <=> atomEval(a, v)
    BY <1>1, SameKey
  <1>3. id \in DOMAIN later /\ id <= MaxAtoms /\ later[id] = xs[id]
    <2>1. Len(xs) \in Nat
      BY <1>1
    <2>2. Len(later) \in Nat /\ DOMAIN later = 1..Len(later)
      OBVIOUS
    <2>3. MaxAtoms \in Nat
      BY FilterPredsAssumption
    <2>4. Len(xs) <= Len(later) /\ later[id] = xs[id]
      BY DEF Extends
    <2>5. PICK l \in Nat, m \in Nat : l = Len(xs) /\ m = Len(later)
      BY <2>1, <2>2
    <2>6. id \in 1..m /\ id <= MaxAtoms
      BY <2>3, <2>4, <2>5
    <2> QED BY <2>2, <2>4, <2>5, <2>6
  <1>4. id \in VerdictMask(later, v) <=> atomEval(a, v)
    BY <1>2, <1>3 DEF VerdictMask
  <1> QED BY <1>4 DEF PredHolds

\* Extending is transitive.
LEMMA ExtendsTwice ==
    ASSUME NEW xs, NEW ys, NEW zs, Len(xs) \in Nat, Len(ys) \in Nat, Len(zs) \in Nat,
           Extends(xs, ys), Extends(ys, zs)
    PROVE  Extends(xs, zs)
  <1>1. PICK l \in Nat, m \in Nat, n \in Nat : l = Len(xs) /\ m = Len(ys) /\ n = Len(zs)
    OBVIOUS
  <1>2. l <= m /\ m <= n
    BY <1>1 DEF Extends
  <1>3. \A i \in 1..l : zs[i] = xs[i]
    <2> TAKE i \in 1..l
    <2>1. i \in 1..m
      BY <1>2
    <2> QED BY <1>1, <2>1 DEF Extends
  <1> QED BY <1>1, <1>2, <1>3 DEF Extends

-----------------------------------------------------------------------------
(* The atoms of a negated list, one by one. *)

OneNot(name, list, n, c) ==
    LET r == attrPred(name, "eq", << list[n] >>, TRUE, c.atoms) IN Done(c.preds \o r.preds, r.atoms)
EqAtom(name, t) == [field |-> name, op |-> "eq", values |-> << t >>]


\* The predicates and atoms after each number of values, as negInPreds defines them.
IsNots(f, name, list, atoms, n) ==
    f = [i \in 0..n |-> IF i = 0 THEN Done(<< >>, atoms) ELSE OneNot(name, list, i, f[i - 1])]

\* There is such a function.
LEMMA NotsExist ==
    ASSUME NEW name, NEW list, NEW atoms, NEW n \in Nat
    PROVE  \E f : IsNots(f, name, list, atoms, n)
  <1> DEFINE Is(f, m) == IsNots(f, name, list, atoms, m)
             T == {m \in Nat : ~(\E f : Is(f, m))}
  <1>1. SUFFICES ASSUME T # {} PROVE FALSE
    OBVIOUS
  <1>2. PICK x \in T : \A y \in T : x <= y
    <2>1. T \in SUBSET Nat
      OBVIOUS
    <2> HIDE DEF T
    <2> QED BY <1>1, <2>1, Least
  <1>3. x \in Nat /\ ~(\E f : Is(f, x))
    OBVIOUS
  <1>4. CASE x = 0
    <2> DEFINE g == [i \in 0..0 |-> Done(<< >>, atoms)]
    <2>1. \A i \in 0..0 : g[i] = IF i = 0 THEN Done(<< >>, atoms) ELSE OneNot(name, list, i, g[i - 1])
      OBVIOUS
    <2>2. Is(g, 0)
      BY <2>1 DEF IsNots
    <2> HIDE DEF g, Is
    <2> QED BY <1>3, <1>4, <2>2
  <1>5. CASE x # 0
    <2>1. x - 1 \in Nat /\ x - 1 \notin T
      BY <1>2, <1>3, <1>5
    <2>2. PICK f : Is(f, x - 1)
      BY <2>1
    <2> DEFINE g == [i \in 0..x |-> IF i <= x - 1 THEN f[i] ELSE OneNot(name, list, x, f[x - 1])]
    <2>3. \A i \in 0..(x - 1) : g[i] = f[i] /\ f[i] = IF i = 0 THEN Done(<< >>, atoms) ELSE OneNot(name, list, i, f[i - 1])
      BY <1>3, <2>1, <2>2 DEF IsNots
    <2>4. g[x] = OneNot(name, list, x, f[x - 1])
      BY <1>3
    <2>5. ASSUME NEW i \in 0..x
          PROVE  g[i] = IF i = 0 THEN Done(<< >>, atoms) ELSE OneNot(name, list, i, g[i - 1])
      <3> HIDE DEF g, Is
      <3>1. CASE i = 0
        BY <1>3, <1>5, <2>3, <3>1
      <3>2. CASE i # 0 /\ i <= x - 1
        <4>1. i \in 0..(x - 1) /\ i - 1 \in 0..(x - 1)
          BY <1>3, <3>2
        <4> QED BY <2>3, <3>2, <4>1
      <3>3. CASE i = x
        <4>1. x - 1 \in 0..(x - 1)
          BY <2>1
        <4> QED BY <1>5, <2>3, <2>4, <3>3, <4>1
      <3>4. i = 0 \/ (i # 0 /\ i <= x - 1) \/ i = x
        BY <1>3
      <3> QED BY <3>1, <3>2, <3>3, <3>4
    <2>6. Is(g, x)
      BY <2>5 DEF IsNots
    <2> HIDE DEF g, Is
    <2> QED BY <1>3, <2>6
  <1> QED BY <1>4, <1>5

\* What is there after n values.
NotsOK(name, list, atoms, n, c) ==
    /\ c.ok /\ c.preds \in Seq([kind : {"ATTR"}, a : Nat, neg : {TRUE}]) /\ Len(c.preds) = n
    /\ IsAtoms(c.atoms) /\ Extends(atoms, c.atoms)
    /\ \A j \in 1..n : \E id \in 1..Len(c.atoms) :
          c.preds[j] = [kind |-> "ATTR", a |-> id, neg |-> TRUE] /\ AtomKey(c.atoms[id]) = AtomKey(EqAtom(name, list[j]))

\* A comparison with one string is an atom.
LEMMA EqIsAtom ==
    ASSUME NEW name \in attrFields, NEW t \in Text
    PROVE  IsAtom(EqAtom(name, t))
  BY DEF EqAtom, IsAtom, Atom

\* The next value gets its predicate.
LEMMA NextNot ==
    ASSUME NEW name \in attrFields, NEW list \in Seq(Text), NEW atoms, Len(atoms) \in Nat,
           NEW n \in 1..Len(list), NEW c,
           NotsOK(name, list, atoms, n - 1, c)
    PROVE  NotsOK(name, list, atoms, n, OneNot(name, list, n, c))
  <1> DEFINE r == attrPred(name, "eq", << list[n] >>, TRUE, c.atoms)
             d == OneNot(name, list, n, c)
             P == [kind : {"ATTR"}, a : Nat, neg : {TRUE}]
  <1>0. n \in Nat /\ n >= 1 /\ list[n] \in Text
    OBVIOUS
  <1>1. PICK id \in 1..Len(r.atoms) :
            /\ r.preds = << [kind |-> "ATTR", a |-> id, neg |-> TRUE] >>
            /\ IsAtoms(r.atoms) /\ Extends(c.atoms, r.atoms)
            /\ AtomKey(r.atoms[id]) = AtomKey(EqAtom(name, list[n]))
    <2>1. IsAtom(EqAtom(name, list[n]))
      BY <1>0, EqIsAtom
    <2>2. IsAtoms(c.atoms)
      BY DEF NotsOK
    <2>3. IsAtom([field |-> name, op |-> "eq", values |-> << list[n] >>])
      BY <2>1 DEF EqAtom
    <2>4. \E id \in 1..Len(r.atoms) :
              /\ r.ok /\ r.preds = << [kind |-> "ATTR", a |-> id, neg |-> TRUE] >>
              /\ IsAtoms(r.atoms) /\ Extends(c.atoms, r.atoms)
              /\ AtomKey(r.atoms[id]) = AtomKey([field |-> name, op |-> "eq", values |-> << list[n] >>])
      <3>1. r = attrPred(name, "eq", << list[n] >>, TRUE, c.atoms)
        OBVIOUS
      <3> HIDE DEF r
      <3>2. PICK values : values = << list[n] >>
        OBVIOUS
      <3>3. PICK neg \in BOOLEAN : neg = TRUE
        OBVIOUS
      <3>4. PICK op : op = "eq"
        OBVIOUS
      <3>5. IsAtom([field |-> name, op |-> op, values |-> values]) /\ r = attrPred(name, op, values, neg, c.atoms)
        BY <2>3, <3>1, <3>2, <3>3, <3>4, Zenon
      <3>6. \E id \in 1..Len(r.atoms) :
              /\ r.ok /\ r.preds = << [kind |-> "ATTR", a |-> id, neg |-> neg] >>
              /\ IsAtoms(r.atoms) /\ Extends(c.atoms, r.atoms)
              /\ AtomKey(r.atoms[id]) = AtomKey([field |-> name, op |-> op, values |-> values])
        BY <2>2, <3>5, AtomFound
      <3> QED BY <3>2, <3>3, <3>4, <3>6
    <2> QED BY <2>4 DEF EqAtom
  <1>2. d.ok /\ d.preds = c.preds \o r.preds /\ d.atoms = r.atoms
    BY DEF OneNot, Done
  <1> HIDE DEF r, d
  <1>3. /\ c.preds \in Seq(P) /\ Len(c.preds) = n - 1 /\ IsAtoms(c.atoms) /\ Extends(atoms, c.atoms)
        /\ c.atoms \in Seq(Atom) /\ r.atoms \in Seq(Atom)
    BY <1>1 DEF NotsOK, IsAtoms
  <1>4. Len(r.atoms) \in Nat /\ Len(c.atoms) \in Nat
    BY <1>3
  <1>5. r.preds \in Seq(P) /\ Len(r.preds) = 1
    BY <1>1, <1>4
  <1>6. /\ d.preds \in Seq(P) /\ Len(d.preds) = n
        /\ d.preds[n] = r.preds[1]
        /\ \A j \in 1..(n - 1) : d.preds[j] = c.preds[j]
    <2> HIDE DEF P
    <2>1. /\ d.preds \in Seq(P) /\ Len(d.preds) = (n - 1) + 1
          /\ \A j \in 1..((n - 1) + 1) : d.preds[j] = IF j <= n - 1 THEN c.preds[j] ELSE r.preds[j - (n - 1)]
      <3> DEFINE x == c.preds
                 y == r.preds
      <3>1. x \in Seq(P) /\ y \in Seq(P) /\ Len(x) = n - 1 /\ Len(y) = 1 /\ d.preds = x \o y
        BY <1>2, <1>3, <1>5
      <3> HIDE DEF x, y
      <3>2. /\ x \o y \in Seq(P) /\ Len(x \o y) = Len(x) + Len(y)
            /\ \A j \in 1..(Len(x) + Len(y)) : (x \o y)[j] = IF j <= Len(x) THEN x[j] ELSE y[j - Len(x)]
        BY <3>1, ConcatProperties
      <3> QED BY <3>1, <3>2 DEF x, y
    <2>2. (n - 1) + 1 = n /\ n - (n - 1) = 1 /\ ~(n <= n - 1) /\ n \in 1..n
      BY <1>0
    <2>3. \A j \in 1..(n - 1) : j \in 1..n /\ j <= n - 1
      BY <1>0
    <2> QED BY <2>1, <2>2, <2>3
  <1>7. Extends(atoms, d.atoms)
    BY <1>1, <1>2, <1>3, <1>4, ExtendsTwice
  <1>8. ASSUME NEW j \in 1..n
        PROVE  \E k \in 1..Len(d.atoms) : /\ d.preds[j] = [kind |-> "ATTR", a |-> k, neg |-> TRUE]
                                          /\ AtomKey(d.atoms[k]) = AtomKey(EqAtom(name, list[j]))
    <2>1. CASE j = n
      <3>1. d.preds[n] = [kind |-> "ATTR", a |-> id, neg |-> TRUE]
        BY <1>1, <1>6
      <3> QED BY <1>1, <1>2, <2>1, <3>1
    <2>2. CASE j # n
      <3>1. j \in 1..(n - 1)
        BY <1>0, <2>2
      <3>2. PICK k \in 1..Len(c.atoms) : /\ c.preds[j] = [kind |-> "ATTR", a |-> k, neg |-> TRUE]
                                         /\ AtomKey(c.atoms[k]) = AtomKey(EqAtom(name, list[j]))
        BY <3>1 DEF NotsOK
      <3>3. k \in 1..Len(r.atoms) /\ r.atoms[k] = c.atoms[k]
        BY <1>1, <1>4 DEF Extends
      <3> QED BY <1>2, <1>6, <3>1, <3>2, <3>3
    <2> QED BY <2>1, <2>2
  <1> QED BY <1>1, <1>2, <1>6, <1>7, <1>8 DEF NotsOK, d, P

\* All values have their predicates in the end.
LEMMA Nots ==
    ASSUME NEW name \in attrFields, NEW list \in Seq(Text), NEW atoms, IsAtoms(atoms),
           NEW U, IsNots(U, name, list, atoms, Len(list))
    PROVE  NotsOK(name, list, atoms, Len(list), U[Len(list)])
  <1> DEFINE T == {m \in 0..Len(list) : ~NotsOK(name, list, atoms, m, U[m])}
  <1>0. Len(list) \in Nat /\ Len(list) \in 0..Len(list)
    OBVIOUS
  <1>1. \A i \in 0..Len(list) : U[i] = IF i = 0 THEN Done(<< >>, atoms) ELSE OneNot(name, list, i, U[i - 1])
    BY DEF IsNots
  <1>2. SUFFICES ASSUME T # {} PROVE FALSE
    BY <1>0
  <1>3. PICK x \in T : \A y \in T : x <= y
    <2>1. T \in SUBSET Nat
      OBVIOUS
    <2> HIDE DEF T
    <2> QED BY <1>2, <2>1, Least
  <1>4. x \in 0..Len(list) /\ ~NotsOK(name, list, atoms, x, U[x])
    OBVIOUS
  <1>5. Len(atoms) \in Nat
    BY DEF IsAtoms
  <1>6. CASE x = 0
    <2>1. U[0] = Done(<< >>, atoms)
      BY <1>1, <1>4, <1>6
    <2>2. U[0].ok /\ U[0].preds = << >> /\ U[0].atoms = atoms
      BY <2>1 DEF Done
    <2>3. Extends(atoms, atoms)
      BY <1>5 DEF Extends
    <2>4. NotsOK(name, list, atoms, 0, U[0])
      BY <2>2, <2>3 DEF NotsOK
    <2> QED BY <1>4, <1>6, <2>4
  <1>7. CASE x # 0
    <2>1. x \in 1..Len(list) /\ x - 1 \in 0..Len(list) /\ x - 1 \notin T
      BY <1>0, <1>3, <1>4, <1>7
    <2>2. NotsOK(name, list, atoms, x - 1, U[x - 1])
      BY <2>1
    <2>3. NotsOK(name, list, atoms, x, OneNot(name, list, x, U[x - 1]))
      BY <1>5, <2>1, <2>2, NextNot
    <2> QED BY <1>1, <1>4, <1>7, <2>3
  <1> QED BY <1>6, <1>7

\* negInPreds of attributes.
LEMMA NegInAttrs ==
    ASSUME NEW args, NEW atoms, IsAtoms(atoms), IsAttrList(args), ~IsTypeList(args),
           NEW list \in Seq(Text), list = listOfStrings(args[2])
    PROVE  NotsOK(args[1].name, list, atoms, Len(list), negInPreds(args, atoms))
  <1> DEFINE name == args[1].name
             U == CHOOSE g : IsNots(g, name, list, atoms, Len(list))
  <1>0. name \in attrFields /\ Len(list) \in Nat
    BY DEF IsAttrList
  <1>1. \E g : IsNots(g, name, list, atoms, Len(list))
    BY <1>0, NotsExist
  <1>2. IsNots(U, name, list, atoms, Len(list))
    BY <1>1
  <1>3. negInPreds(args, atoms) = U[Len(list)]
    BY DEF negInPreds, IsNots, OneNot
  <1> HIDE DEF U, name
  <1>4. NotsOK(name, list, atoms, Len(list), U[Len(list)])
    BY <1>0, <1>2, Nots
  <1> QED BY <1>3, <1>4 DEF name

-----------------------------------------------------------------------------
(* Values. *)

\* The constants and the names of event types are told apart.
LEMMA TypesDiffer ==
    ASSUME NEW t \in 1..4, NEW u \in 1..4
    PROVE  /\ typeConsts[t] # TypeName[u]
           /\ (typeConsts[t] = typeConsts[u] \/ TypeName[t] = TypeName[u]) => t = u
           /\ typeConsts[t].kind = "ident" /\ TypeName[t].kind = "string"
           /\ Range(typeConsts) = {typeConsts[k] : k \in 1..4}
  <1>1. t \in {1, 2, 3, 4} /\ u \in {1, 2, 3, 4}
    OBVIOUS
  <1>2. typeConsts[t].kind = "ident" /\ TypeName[u].kind = "string" /\ TypeName[t].kind = "string"
    BY <1>1 DEF typeConsts, TypeName, Ident, Str
  <1>3. typeConsts[t].name = typeConsts[u].name => t = u
    BY <1>1 DEF typeConsts, Ident
  <1>4. TypeName[t].str[1] = TypeName[u].str[1] => t = u
    BY <1>1 DEF TypeName, Str
  <1>5. DOMAIN typeConsts = 1..4
    BY DEF typeConsts
  <1>6. Range(typeConsts) = {typeConsts[k] : k \in 1..4}
    BY <1>5 DEF Range
  <1> QED BY <1>2, <1>3, <1>4, <1>6

\* The bit of a type is that of its name.
LEMMA TypeBit ==
    ASSUME NEW e, typeBitOf(e) # {}, NEW v, v.type \in 1..4
    PROVE  v.type \in typeBitOf(e) <=> TypeName[v.type] = Scalar(e, v)
  <1>1. PICK t \in 1..4 : e \in {typeConsts[t], TypeName[t]}
    BY DEF typeBitOf
  <1>2. \A u \in 1..4 : u \in typeBitOf(e) <=> u = t
    BY <1>1, TypesDiffer DEF typeBitOf
  <1>3. Scalar(e, v) = TypeName[t]
    <2>1. CASE e = typeConsts[t]
      <3>1. e \in Range(typeConsts)
        BY <2>1, TypesDiffer
      <3>2. (CHOOSE u \in 1..4 : typeConsts[u] = e) = t
        BY <2>1, TypesDiffer
      <3>3. IsIdent(e) /\ ~IsLiteral(e)
        BY <2>1, TypesDiffer DEF IsIdent, IsLiteral
      <3>4. e.name \notin {"ko_type"} \cup statsFields \cup attrFields
        BY <2>1 DEF typeConsts, Ident, statsFields, attrFields
      <3> QED BY <3>1, <3>2, <3>3, <3>4 DEF Scalar
    <2>2. CASE e = TypeName[t]
      <3>1. e \notin Range(typeConsts)
        BY <2>2, TypesDiffer
      <3>2. ~IsIdent(e) /\ IsLiteral(e)
        BY <2>2, TypesDiffer DEF IsIdent, IsLiteral
      <3> QED BY <2>2, <3>1, <3>2 DEF Scalar
    <2> QED BY <1>1, <2>1, <2>2
  <1> QED BY <1>2, <1>3, TypesDiffer

\* The values of variables.
LEMMA FieldValues ==
    ASSUME NEW e \in Scalars, IsIdent(e), NEW v
    PROVE  /\ e = Ident(e.name)
           /\ e.name = "ko_type" => Scalar(e, v) = TypeName[v.type]
           /\ e.name \in statsFields => Scalar(e, v) = Num(v[e.name])
           /\ e.name \in attrFields => Scalar(e, v) = Str(v[e.name])
  <1>1. e = Ident(e.name)
    BY DEF Scalars, IsIdent, Ident
  <1>2. ~IsLiteral(e)
    BY DEF IsIdent, IsLiteral
  <1>3. ASSUME e \in Range(typeConsts)
        PROVE  e.name \notin {"ko_type"} \cup statsFields \cup attrFields
    <2>1. PICK t \in 1..4 : e = typeConsts[t]
      BY <1>3, TypesDiffer
    <2> QED BY <2>1 DEF typeConsts, Ident, statsFields, attrFields
  <1>4. "ko_type" \notin statsFields \cup attrFields /\ statsFields \cap attrFields = {}
    BY DEF statsFields, attrFields
  <1> QED BY <1>1, <1>2, <1>3, <1>4 DEF Scalar

\* The value of a constant is itself.
LEMMA LiteralValues ==
    ASSUME NEW e, IsLiteral(e), NEW v
    PROVE  Scalar(e, v) = e
  <1>1. ~IsIdent(e)
    BY DEF IsIdent, IsLiteral
  <1>2. e \notin Range(typeConsts)
    BY <1>1, TypesDiffer DEF IsIdent
  <1> QED BY <1>1, <1>2 DEF Scalar

-----------------------------------------------------------------------------
(* Comparisons. *)

\* The predicates are right whatever is added to the atoms later, and whatever is
\* found in a set of addresses.
Exact(r, atoms, e, neg) ==
    /\ IsAtoms(r.atoms) /\ Extends(atoms, r.atoms)
    /\ r.ok => \A v, later, X :
          IsEvent(v) /\ later \in Seq(Atom) /\ Extends(r.atoms, later) /\ Len(later) <= MaxAtoms =>
              ((\A i \in DOMAIN r.preds : PredHolds(r.preds[i], v, VerdictMask(later, v), X[i]))
                  <=> (CelLeaf(e, v) <=> ~neg))

\* Nothing is said of what is left to userspace.
LEMMA FailExact ==
    ASSUME NEW atoms, IsAtoms(atoms), NEW e, NEW neg
    PROVE  Exact(Fail(atoms), atoms, e, neg) /\ Extends(atoms, atoms)
  <1>1. Len(atoms) \in Nat
    BY DEF IsAtoms
  <1>2. Extends(atoms, atoms)
    BY <1>1 DEF Extends
  <1> QED BY <1>2 DEF Exact, Fail

\* One predicate that is no atom.
LEMMA OneExact ==
    ASSUME NEW atoms, IsAtoms(atoms), NEW e, NEW neg, NEW p,
           \A v, mask, x : IsEvent(v) => (PredHolds(p, v, mask, x) <=> (CelLeaf(e, v) <=> ~neg))
    PROVE  Exact(Done(<< p >>, atoms), atoms, e, neg)
  <1>1. Extends(atoms, atoms)
    BY FailExact
  <1>2. DOMAIN << p >> = {1} /\ << p >>[1] = p
    OBVIOUS
  <1> QED BY <1>1, <1>2 DEF Exact, Done

\* One predicate of an atom.
LEMMA AttrExact ==
    ASSUME NEW atoms, IsAtoms(atoms), NEW e, NEW neg,
           NEW field, NEW op, NEW values, NEW minus \in BOOLEAN,
           IsAtom([field |-> field, op |-> op, values |-> values]),
           \A v : IsEvent(v) => ((atomEval([field |-> field, op |-> op, values |-> values], v) <=> ~minus)
                                   <=> (CelLeaf(e, v) <=> ~neg))
    PROVE  Exact(attrPred(field, op, values, minus, atoms), atoms, e, neg)
  <1> DEFINE a == [field |-> field, op |-> op, values |-> values]
             r == attrPred(field, op, values, minus, atoms)
  <1>1. PICK id \in 1..Len(r.atoms) :
            /\ r.ok /\ r.preds = << [kind |-> "ATTR", a |-> id, neg |-> minus] >>
            /\ IsAtoms(r.atoms) /\ Extends(atoms, r.atoms)
            /\ AtomKey(r.atoms[id]) = AtomKey(a)
    <2>1. IsAtom(a) /\ r = attrPred(field, op, values, minus, atoms)
      OBVIOUS
    <2> HIDE DEF r
    <2> QED BY <2>1, AtomFound
  <1>2. IsAtom(a) /\ \A v : IsEvent(v) => ((atomEval(a, v) <=> ~minus) <=> (CelLeaf(e, v) <=> ~neg))
    OBVIOUS
  <1> HIDE DEF a, r
  <1>3. ASSUME NEW v, NEW later, NEW X, IsEvent(v), later \in Seq(Atom), Extends(r.atoms, later), Len(later) <= MaxAtoms
        PROVE  (\A i \in DOMAIN r.preds : PredHolds(r.preds[i], v, VerdictMask(later, v), X[i]))
                  <=> (CelLeaf(e, v) <=> ~neg)
    <2>1. PredHolds([kind |-> "ATTR", a |-> id, neg |-> minus], v, VerdictMask(later, v), X[1])
             <=> (atomEval(a, v) <=> ~minus)
      BY <1>1, <1>2, <1>3, AttrHolds
    <2>2. DOMAIN r.preds = {1} /\ r.preds[1] = [kind |-> "ATTR", a |-> id, neg |-> minus]
      BY <1>1
    <2>3. (\A i \in DOMAIN r.preds : PredHolds(r.preds[i], v, VerdictMask(later, v), X[i]))
             <=> PredHolds([kind |-> "ATTR", a |-> id, neg |-> minus], v, VerdictMask(later, v), X[1])
      BY <2>2
    <2> QED BY <1>2, <1>3, <2>1, <2>3
  <1>4. Exact(r, atoms, e, neg)
    BY <1>1, <1>3 DEF Exact
  <1> QED BY <1>4 DEF r

\* A statistic and a number.
LEMMA StatsCompared ==
    ASSUME NEW name \in statsFields, NEW op \in Cmp, NEW lit \in Scalars, lit.kind = "int", lit.int >= 0,
           NEW v, IsEvent(v), NEW mask, NEW x
    PROVE  PredHolds(CmpPred(name, op, lit.int % 2 ^ IntBits), v, mask, x) <=> Compares(op, Num(v[name]), lit)
  <1>1. lit = Num(lit.int) /\ lit.int \in Int /\ lit.int < 2 ^ IntBits
    BY DEF Scalars, Num
  <1>2. lit.int % 2 ^ IntBits = lit.int
    BY <1>1, Modulo
  <1>3. op \notin {"in", "not in"}
    BY DEF Cmp
  <1> DEFINE p == CmpPred(name, op, lit.int % 2 ^ IntBits)
  <1>4. p.kind = "CMP" /\ p.op = op /\ p.field = name /\ p.val = lit.int
    BY <1>2 DEF CmpPred
  <1> HIDE DEF p
  <1>5. CmpHolds(p, v) <=> Compares(op, Num(v[name]), Num(lit.int))
    BY <1>3, <1>4 DEF CmpHolds
  <1>6. PredHolds(p, v, mask, x) <=> CmpHolds(p, v)
    BY <1>4 DEF PredHolds
  <1> QED BY <1>1, <1>5, <1>6 DEF p

\* The comparison that is compiled: a negation is flipped.
LEMMA CompiledOp ==
    ASSUME NEW fn \in Cmp, NEW neg \in BOOLEAN, NEW op, op = IF neg THEN flipCmp(fn) ELSE fn
    PROVE  /\ op \in Cmp
           /\ fn \in {"==", "!="} <=> op \in {"==", "!="}
           /\ op = "==" => (fn = IF neg THEN "!=" ELSE "==")
           /\ op = "!=" => (fn = IF neg THEN "==" ELSE "!=")
           /\ \A x, y \in Int : Compares(op, Num(x), Num(y)) <=> (Compares(fn, Num(x), Num(y)) <=> ~neg)
           /\ \A x, y : op \in {"==", "!="} => (((x = y) <=> op = "==") <=> (Compares(fn, x, y) <=> ~neg))
  <1>1. CASE ~neg
    <2>1. op = fn
      BY <1>1
    <2>2. \A x, y : op \in {"==", "!="} => (((x = y) <=> op = "==") <=> (Compares(fn, x, y) <=> ~neg))
      BY <1>1, <2>1 DEF Compares
    <2>3. \A x, y \in Int : Compares(op, Num(x), Num(y)) <=> (Compares(fn, Num(x), Num(y)) <=> ~neg)
      BY <1>1, <2>1
    <2> QED BY <1>1, <2>1, <2>2, <2>3
  <1>2. CASE neg
    <2>1. op = flipCmp(fn) /\ op \in Cmp
      BY <1>2, Opposite
    <2>2. /\ fn \in {"==", "!="} <=> op \in {"==", "!="}
          /\ op = "==" => fn = "!="
          /\ op = "!=" => fn = "=="
      BY <2>1 DEF flipCmp, Cmp
    <2>3. \A x, y : op \in {"==", "!="} => (((x = y) <=> op = "==") <=> (Compares(fn, x, y) <=> ~neg))
      BY <1>2, <2>2 DEF Compares
    <2>4. \A x, y \in Int : Compares(op, Num(x), Num(y)) <=> (Compares(fn, Num(x), Num(y)) <=> ~neg)
      BY <1>2, <2>1, Opposite
    <2> QED BY <1>2, <2>1, <2>2, <2>3, <2>4
  <1> QED BY <1>1, <1>2

\* A comparison of a statistic.
LEMMA StatsExact ==
    ASSUME NEW e, TypeChecked(e), Plain(e), e.fn \in Cmp, NEW neg \in BOOLEAN, NEW atoms, IsAtoms(atoms),
           NEW op, op = IF neg THEN flipCmp(e.fn) ELSE e.fn,
           IsIdent(e.args[1]), e.args[1].name \in statsFields, e.args[2] \in Scalars, e.args[2].kind = "int"
    PROVE  Exact(Done(<< CmpPred(e.args[1].name, op, e.args[2].int % 2 ^ IntBits) >>, atoms), atoms, e, neg)
  <1> DEFINE x == e.args[1]
             y == e.args[2]
             p == CmpPred(x.name, op, y.int % 2 ^ IntBits)
  <1>1. x \in Scalars /\ y \in Scalars /\ y = Num(y.int) /\ y.int \in Int /\ IsLiteral(y)
    BY DEF TypeChecked, Scalars, Num, IsLiteral
  <1>2. y.int >= 0
    BY DEF Plain, NonNegative, TypeChecked
  <1>3. ASSUME NEW v, NEW mask, NEW z, IsEvent(v)
        PROVE  PredHolds(p, v, mask, z) <=> (CelLeaf(e, v) <=> ~neg)
    <2>1. op \in Cmp /\ \A a, b \in Int : Compares(op, Num(a), Num(b)) <=> (Compares(e.fn, Num(a), Num(b)) <=> ~neg)
      BY CompiledOp
    <2>2. PredHolds(p, v, mask, z) <=> Compares(op, Num(v[x.name]), y)
      <3>1. x.name \in statsFields /\ y.kind = "int"
        OBVIOUS
      <3>2. PICK name, m : name = x.name /\ m = y
        OBVIOUS
      <3> HIDE DEF x, y
      <3>3. PredHolds(CmpPred(name, op, m.int % 2 ^ IntBits), v, mask, z) <=> Compares(op, Num(v[name]), m)
        BY <1>1, <1>2, <1>3, <2>1, <3>1, <3>2, StatsCompared
      <3> QED BY <3>2, <3>3
    <2>3. v[x.name] \in Int
      BY <1>3 DEF IsEvent
    <2>4. Compares(op, Num(v[x.name]), y) <=> (Compares(e.fn, Num(v[x.name]), y) <=> ~neg)
      BY <1>1, <2>1, <2>3
    <2>5. Scalar(x, v) = Num(v[x.name]) /\ Scalar(y, v) = y
      BY <1>1, FieldValues, LiteralValues
    <2>6. CelLeaf(e, v) <=> Compares(e.fn, Scalar(x, v), Scalar(y, v))
      BY DEF CelLeaf, Cmp
    <2> QED BY <2>2, <2>4, <2>5, <2>6
  <1> HIDE DEF p
  <1>4. Exact(Done(<< p >>, atoms), atoms, e, neg)
    BY <1>3, OneExact
  <1> QED BY <1>4 DEF p

\* A comparison of the type.
LEMMA TypeExact ==
    ASSUME NEW e, TypeChecked(e), Plain(e), e.fn \in Cmp, NEW neg \in BOOLEAN, NEW atoms, IsAtoms(atoms),
           NEW op, op = IF neg THEN flipCmp(e.fn) ELSE e.fn,
           IsIdent(e.args[1]), e.args[1].name = "ko_type", typeBitOf(e.args[2]) # {}
    PROVE  Exact(Done(typePreds(op, typeBitOf(e.args[2])), atoms), atoms, e, neg)
  <1> DEFINE x == e.args[1]
             y == e.args[2]
  <1>1. x \in Scalars /\ x = Ident("ko_type")
    BY FieldValues DEF TypeChecked
  <1>2. op \in {"==", "!="}
    <2>1. e.fn \in {"==", "!="}
      BY <1>1 DEF Plain, TypesEqual, Cmp
    <2> QED BY <2>1, CompiledOp
  <1>3. PICK p : /\ typePreds(op, typeBitOf(y)) = << p >> /\ p.kind = "CMP" /\ p.mask = typeBitOf(y)
                 /\ p.op = IF op = "==" THEN "in" ELSE "not in"
    <2> DEFINE q == MaskPred(IF op = "==" THEN "in" ELSE "not in", typeBitOf(y))
    <2>1. typePreds(op, typeBitOf(y)) = << q >>
      BY <1>2 DEF typePreds
    <2>2. q.kind = "CMP" /\ q.mask = typeBitOf(y) /\ q.op = IF op = "==" THEN "in" ELSE "not in"
      BY DEF MaskPred
    <2> HIDE DEF q
    <2> QED BY <2>1, <2>2
  <1>4. ASSUME NEW v, NEW mask, NEW z, IsEvent(v)
        PROVE  PredHolds(p, v, mask, z) <=> (CelLeaf(e, v) <=> ~neg)
    <2>1. v.type \in 1..4
      BY <1>4 DEF IsEvent
    <2>2. Scalar(x, v) = TypeName[v.type]
      BY <1>1, FieldValues
    <2>3. v.type \in typeBitOf(y) <=> Scalar(x, v) = Scalar(y, v)
      BY <2>1, <2>2, TypeBit
    <2>4. PredHolds(p, v, mask, z) <=> CmpHolds(p, v)
      BY <1>3 DEF PredHolds
    <2>5. CmpHolds(p, v) <=> (Scalar(x, v) = Scalar(y, v) <=> op = "==")
      BY <1>2, <1>3, <2>3 DEF CmpHolds
    <2>6. CelLeaf(e, v) <=> Compares(e.fn, Scalar(x, v), Scalar(y, v))
      BY DEF CelLeaf, Cmp
    <2>7. ((Scalar(x, v) = Scalar(y, v)) <=> op = "==") <=> (Compares(e.fn, Scalar(x, v), Scalar(y, v)) <=> ~neg)
      BY <1>2, CompiledOp
    <2> QED BY <2>4, <2>5, <2>6, <2>7
  <1>5. Exact(Done(<< p >>, atoms), atoms, e, neg)
    BY <1>4, OneExact
  <1> QED BY <1>3, <1>5

\* A comparison of an attribute.
LEMMA AttrCmpExact ==
    ASSUME NEW e, TypeChecked(e), e.fn \in Cmp, NEW neg \in BOOLEAN, NEW atoms, IsAtoms(atoms),
           NEW op, op = IF neg THEN flipCmp(e.fn) ELSE e.fn, op \in {"==", "!="},
           IsIdent(e.args[1]), e.args[1].name \in attrFields, e.args[2] \in Scalars, e.args[2].kind = "string"
    PROVE  Exact(attrPred(e.args[1].name, "eq", << e.args[2] >>, op = "!=", atoms), atoms, e, neg)
  <1> DEFINE x == e.args[1]
             y == e.args[2]
             a == [field |-> x.name, op |-> "eq", values |-> << y >>]
  <1>1. x \in Scalars /\ y \in Text /\ y = Str(y.str) /\ IsLiteral(y) /\ x.name \in attrFields
    BY DEF TypeChecked, Scalars, Text, Str, IsLiteral
  <1>2. IsAtom(a)
    BY <1>1, EqIsAtom DEF EqAtom
  <1>3. ASSUME NEW v, IsEvent(v)
        PROVE  (atomEval(a, v) <=> ~(op = "!=")) <=> (CelLeaf(e, v) <=> ~neg)
    <2>1. Scalar(x, v) = Str(v[x.name]) /\ Scalar(y, v) = y
      BY <1>1, FieldValues, LiteralValues
    <2>2. atomEval(a, v) <=> v[x.name] = y.str
      BY DEF atomEval
    <2>3. atomEval(a, v) <=> Scalar(x, v) = Scalar(y, v)
      BY <1>1, <2>1, <2>2 DEF Str
    <2>4. CelLeaf(e, v) <=> Compares(e.fn, Scalar(x, v), Scalar(y, v))
      BY DEF CelLeaf, Cmp
    <2>5. ((Scalar(x, v) = Scalar(y, v)) <=> op = "==") <=> (Compares(e.fn, Scalar(x, v), Scalar(y, v)) <=> ~neg)
      BY CompiledOp
    <2> QED BY <2>3, <2>4, <2>5
  <1>4. PICK name, values, q : name = x.name /\ values = << y >> /\ q = "eq"
    OBVIOUS
  <1>5. PICK minus \in BOOLEAN : minus = (op = "!=")
    OBVIOUS
  <1> HIDE DEF x, y
  <1>6. Exact(attrPred(name, q, values, minus, atoms), atoms, e, neg)
    BY <1>2, <1>3, <1>4, <1>5, AttrExact
  <1> QED BY <1>4, <1>5, <1>6 DEF x, y

\* Every comparison.
LEMMA CmpExact ==
    ASSUME NEW e, TypeChecked(e), Plain(e), e.fn \in Cmp, NEW neg \in BOOLEAN, NEW atoms, IsAtoms(atoms)
    PROVE  Exact(leafPreds(e, neg, atoms), atoms, e, neg)
  <1> DEFINE op == IF neg THEN flipCmp(e.fn) ELSE e.fn
             x == e.args[1]
             y == e.args[2]
  <1>1. IsIdent(x) /\ x \in Scalars /\ y \in Scalars /\ e.kind = "call"
    BY DEF Plain, FieldFirst, TypeChecked, Cmp
  <1>2. leafPreds(e, neg, atoms) = FieldPreds(x.name, op, y, atoms)
    BY <1>1 DEF leafPreds, cmpPreds, Cmp
  <1>3. CASE x.name = "ko_type" /\ typeBitOf(y) # {}
    <2>1. FieldPreds(x.name, op, y, atoms) = Done(typePreds(op, typeBitOf(y)), atoms)
      BY <1>3 DEF FieldPreds
    <2> QED BY <1>1, <1>2, <1>3, <2>1, TypeExact
  <1>4. CASE (x.name # "ko_type" \/ typeBitOf(y) = {}) /\ IsLiteral(y)
    <2>1. FieldPreds(x.name, op, y, atoms) = cmpField(x.name, op, y, atoms)
      BY <1>4 DEF FieldPreds
    <2>2. CASE x.name \in statsFields /\ y.kind = "int"
      <3>1. cmpField(x.name, op, y, atoms) = Done(<< CmpPred(x.name, op, y.int % 2 ^ IntBits) >>, atoms)
        BY <2>2 DEF cmpField, statsFields, attrFields
      <3> QED BY <1>1, <1>2, <2>1, <2>2, <3>1, StatsExact
    <2>3. CASE x.name \in attrFields /\ y.kind = "string" /\ op \in {"==", "!="}
      <3>1. cmpField(x.name, op, y, atoms) = attrPred(x.name, "eq", << y >>, op = "!=", atoms)
        BY <2>3 DEF cmpField, statsFields, attrFields
      <3> QED BY <1>1, <1>2, <2>1, <2>3, <3>1, AttrCmpExact
    <2>4. CASE ~(x.name \in statsFields /\ y.kind = "int") /\ ~(x.name \in attrFields /\ y.kind = "string" /\ op \in {"==", "!="})
      <3>1. cmpField(x.name, op, y, atoms) = Fail(atoms)
        BY <2>4 DEF cmpField
      <3> QED BY <1>2, <2>1, <3>1, FailExact
    <2> QED BY <2>2, <2>3, <2>4
  <1>5. CASE ~(x.name = "ko_type" /\ typeBitOf(y) # {}) /\ ~((x.name # "ko_type" \/ typeBitOf(y) = {}) /\ IsLiteral(y))
    <2>1. FieldPreds(x.name, op, y, atoms) = Fail(atoms)
      BY <1>5 DEF FieldPreds
    <2> QED BY <1>2, <2>1, FailExact
  <1> QED BY <1>3, <1>4, <1>5

\* The value of a list.
LEMMA InList ==
    ASSUME NEW e, TypeChecked(e), e.fn = "in", NEW v
    PROVE  /\ IsList(e.args[2]) /\ ~IsIdent(e.args[2]) /\ DOMAIN e.args[2].els = 1..Len(e.args[2].els)
           /\ CelLeaf(e, v) <=> \E i \in DOMAIN e.args[2].els : Scalar(e.args[1], v) = Scalar(e.args[2].els[i], v)
  <1> DEFINE y == e.args[2]
  <1>1. IsList(y) /\ ~IsIdent(y)
    BY DEF TypeChecked, Cmp, IsList, IsIdent
  <1>2. DOMAIN y.els = 1..Len(y.els)
    BY <1>1 DEF IsList
  <1>3. Values(y, v) = [i \in DOMAIN y.els |-> Scalar(y.els[i], v)]
    BY <1>1 DEF Values
  <1>4. Range(Values(y, v)) = {Scalar(y.els[i], v) : i \in DOMAIN y.els}
    BY <1>3 DEF Range
  <1>5. CelLeaf(e, v) <=> Scalar(e.args[1], v) \in Range(Values(y, v))
    BY DEF CelLeaf, Cmp
  <1> QED BY <1>1, <1>2, <1>4, <1>5

\* A list of types.
LEMMA TypeListExact ==
    ASSUME NEW e, TypeChecked(e), e.fn = "in", NEW neg \in BOOLEAN, NEW atoms, IsAtoms(atoms), IsTypeList(e.args)
    PROVE  Exact(Done(<< MaskPred(IF neg THEN "not in" ELSE "in", typeMaskOf(e.args[2])) >>, atoms), atoms, e, neg)
  <1> DEFINE x == e.args[1]
             y == e.args[2]
             p == MaskPred(IF neg THEN "not in" ELSE "in", typeMaskOf(y))
  <1>1. x \in Scalars /\ IsIdent(x) /\ x.name = "ko_type" /\ typeMaskOf(y) # {}
    BY DEF IsTypeList, TypeChecked
  <1>2. /\ \A i \in DOMAIN y.els : typeBitOf(y.els[i]) # {}
        /\ typeMaskOf(y) = UNION {typeBitOf(y.els[i]) : i \in DOMAIN y.els}
    BY <1>1 DEF typeMaskOf
  <1>3. p.kind = "CMP" /\ p.mask = typeMaskOf(y) /\ p.op = IF neg THEN "not in" ELSE "in"
    BY DEF MaskPred
  <1> HIDE DEF p
  <1>4. ASSUME NEW v, NEW mask, NEW z, IsEvent(v)
        PROVE  PredHolds(p, v, mask, z) <=> (CelLeaf(e, v) <=> ~neg)
    <2>1. v.type \in 1..4
      BY <1>4 DEF IsEvent
    <2>2. Scalar(x, v) = TypeName[v.type]
      BY <1>1, FieldValues
    <2>3. \A i \in DOMAIN y.els : v.type \in typeBitOf(y.els[i]) <=> Scalar(x, v) = Scalar(y.els[i], v)
      BY <1>2, <2>1, <2>2, TypeBit
    <2>4. v.type \in typeMaskOf(y) <=> \E i \in DOMAIN y.els : v.type \in typeBitOf(y.els[i])
      BY <1>2
    <2>5. CelLeaf(e, v) <=> \E i \in DOMAIN y.els : Scalar(x, v) = Scalar(y.els[i], v)
      BY InList
    <2>6. v.type \in typeMaskOf(y) <=> CelLeaf(e, v)
      BY <2>3, <2>4, <2>5
    <2>7. PredHolds(p, v, mask, z) <=> CmpHolds(p, v)
      BY <1>3 DEF PredHolds
    <2>8. CmpHolds(p, v) <=> (v.type \in typeMaskOf(y) <=> ~neg)
      BY <1>3 DEF CmpHolds
    <2> QED BY <2>6, <2>7, <2>8
  <1>5. Exact(Done(<< p >>, atoms), atoms, e, neg)
    BY <1>4, OneExact
  <1> QED BY <1>5 DEF p

\* A list for an attribute is one of words, and means one of them.
WordList(e, name, list) ==
    /\ name \in attrFields /\ list \in Seq(Text) /\ Len(list) > 0
    /\ \A i \in DOMAIN list : Len(list[i].str) = 1
    /\ \A v : CelLeaf(e, v) <=> \E i \in DOMAIN list : v[name] = list[i].str

\* That is what the type checker and plain lists guarantee.
LEMMA AttrList ==
    ASSUME NEW e, TypeChecked(e), Plain(e), e.fn = "in", IsAttrList(e.args),
           NEW name, name = e.args[1].name, NEW list, list = listOfStrings(e.args[2])
    PROVE  WordList(e, name, list)
  <1> DEFINE x == e.args[1]
             y == e.args[2]
  <1>1. x \in Scalars /\ IsIdent(x) /\ x.name \in attrFields /\ list # << >>
    BY DEF TypeChecked, IsAttrList
  <1>2. IsList(y) /\ ~IsIdent(y) /\ list = y.els /\ list \in Seq(Scalars)
    <2>1. IsList(y) /\ ~IsIdent(y)
      BY InList
    <2> QED BY <2>1 DEF listOfStrings, IsList
  <1>3. \A i \in DOMAIN list : list[i].kind = "string"
    BY <1>2 DEF TypeChecked, Cmp, IsAttrList, IsStrings
  <1>4. \A i \in DOMAIN list : list[i] \in Scalars
    BY <1>2
  <1>5. \A i \in DOMAIN list : list[i] \in Text /\ IsLiteral(list[i]) /\ list[i] = Str(list[i].str)
    BY <1>3, <1>4 DEF Scalars, Text, IsLiteral, Str
  <1>6. \A i \in DOMAIN list : Len(list[i].str) = 1
    BY <1>2, <1>3 DEF Plain, OneWord, IsList
  <1>7. list \in Seq(Text) /\ Len(list) > 0
    BY <1>1, <1>2, <1>5
  <1>8. ASSUME NEW v
        PROVE  CelLeaf(e, v) <=> \E i \in DOMAIN list : v[name] = list[i].str
    <2>1. Scalar(x, v) = Str(v[x.name])
      BY <1>1, FieldValues
    <2>2. \A i \in DOMAIN list : Scalar(list[i], v) = Str(list[i].str)
      BY <1>5, LiteralValues
    <2>3. \A i \in DOMAIN list : Scalar(x, v) = Scalar(list[i], v) <=> v[x.name] = list[i].str
      <3>1. \A a, b : Str(a) = Str(b) => a = b
        <4> TAKE a, b
        <4>1. Str(a).str = a /\ Str(b).str = b
          BY DEF Str
        <4> QED BY <4>1
      <3> QED BY <2>1, <2>2, <3>1
    <2>4. CelLeaf(e, v) <=> \E i \in DOMAIN list : Scalar(x, v) = Scalar(list[i], v)
      BY <1>2, InList
    <2> QED BY <2>3, <2>4
  <1> QED BY <1>1, <1>6, <1>7, <1>8 DEF WordList

\* In a list of strings.
LEMMA AttrListExact ==
    ASSUME NEW e, TypeChecked(e), Plain(e), e.fn = "in", NEW atoms, IsAtoms(atoms), IsAttrList(e.args)
    PROVE  Exact(attrPred(e.args[1].name, "in", listOfStrings(e.args[2]), FALSE, atoms), atoms, e, FALSE)
  <1>1. PICK name, list, op : name = e.args[1].name /\ list = listOfStrings(e.args[2]) /\ op = "in"
    OBVIOUS
  <1>2. PICK minus \in BOOLEAN : minus = FALSE
    OBVIOUS
  <1>3. /\ name \in attrFields /\ list \in Seq(Text) /\ Len(list) > 0
        /\ \A i \in DOMAIN list : Len(list[i].str) = 1
        /\ \A v : CelLeaf(e, v) <=> \E i \in DOMAIN list : v[name] = list[i].str
    <2>1. WordList(e, name, list)
      BY <1>1, AttrList
    <2> QED BY <2>1 DEF WordList
  <1> DEFINE a == [field |-> name, op |-> op, values |-> list]
  <1>4. IsAtom(a)
    BY <1>1, <1>3 DEF IsAtom, Atom
  <1>5. \A v : atomEval(a, v) <=> CelLeaf(e, v)
    BY <1>1, <1>3 DEF atomEval
  <1>6. Exact(attrPred(name, op, list, minus, atoms), atoms, e, minus)
    BY <1>4, <1>5, AttrExact
  <1> QED BY <1>1, <1>2, <1>6

\* Not in a list of strings.
LEMMA NegAttrListExact ==
    ASSUME NEW e, TypeChecked(e), Plain(e), e.fn = "in", NEW atoms, IsAtoms(atoms),
           IsAttrList(e.args), ~IsTypeList(e.args)
    PROVE  Exact(negInPreds(e.args, atoms), atoms, e, TRUE)
  <1>1. PICK name, list : name = e.args[1].name /\ list = listOfStrings(e.args[2])
    OBVIOUS
  <1>2. /\ name \in attrFields /\ list \in Seq(Text)
        /\ \A v : CelLeaf(e, v) <=> \E i \in DOMAIN list : v[name] = list[i].str
    <2>1. WordList(e, name, list)
      BY <1>1, AttrList
    <2> QED BY <2>1 DEF WordList
  <1>3. PICK r : r = negInPreds(e.args, atoms)
    OBVIOUS
  <1>4. NotsOK(name, list, atoms, Len(list), r)
    BY <1>1, <1>2, <1>3, NegInAttrs
  <1>5. /\ IsAtoms(r.atoms) /\ Extends(atoms, r.atoms)
        /\ DOMAIN r.preds = 1..Len(list) /\ DOMAIN list = 1..Len(list)
    BY <1>2, <1>4 DEF NotsOK
  <1>6. ASSUME NEW v, NEW later, NEW X, IsEvent(v), later \in Seq(Atom), Extends(r.atoms, later), Len(later) <= MaxAtoms
        PROVE  (\A i \in DOMAIN r.preds : PredHolds(r.preds[i], v, VerdictMask(later, v), X[i]))
                  <=> (CelLeaf(e, v) <=> ~TRUE)
    <2>1. ASSUME NEW i \in 1..Len(list)
          PROVE  PredHolds(r.preds[i], v, VerdictMask(later, v), X[i]) <=> v[name] # list[i].str
      <3>1. PICK id \in 1..Len(r.atoms) : /\ r.preds[i] = [kind |-> "ATTR", a |-> id, neg |-> TRUE]
                                          /\ AtomKey(r.atoms[id]) = AtomKey(EqAtom(name, list[i]))
        BY <1>4 DEF NotsOK
      <3>2. IsAtom(EqAtom(name, list[i]))
        BY <1>2, EqIsAtom
      <3>3. PICK minus \in BOOLEAN : minus = TRUE
        OBVIOUS
      <3>4. PredHolds([kind |-> "ATTR", a |-> id, neg |-> minus], v, VerdictMask(later, v), X[i])
               <=> (atomEval(EqAtom(name, list[i]), v) <=> ~minus)
        BY <1>5, <1>6, <3>1, <3>2, AttrHolds
      <3>5. atomEval(EqAtom(name, list[i]), v) <=> v[name] = list[i].str
        BY DEF atomEval, EqAtom
      <3> QED BY <3>1, <3>3, <3>4, <3>5
    <2> QED BY <1>2, <1>5, <2>1
  <1>7. Exact(r, atoms, e, TRUE)
    BY <1>5, <1>6 DEF Exact
  <1> QED BY <1>3, <1>7

\* Every membership but that of an address.
LEMMA InExact ==
    ASSUME NEW e, TypeChecked(e), Plain(e), e.fn = "in", NEW neg \in BOOLEAN, NEW atoms, IsAtoms(atoms)
    PROVE  Exact(leafPreds(e, neg, atoms), atoms, e, neg)
  <1>1. e.kind = "call" /\ e.fn \notin Cmp
    BY DEF TypeChecked, Cmp
  <1>2. leafPreds(e, neg, atoms) = IF neg THEN negInPreds(e.args, atoms) ELSE inPreds(e.args, atoms)
    BY <1>1 DEF leafPreds
  <1>3. ~(IsTypeList(e.args) /\ IsAttrList(e.args))
    BY DEF IsTypeList, IsAttrList, attrFields
  <1>4. CASE IsTypeList(e.args)
    <2>1. leafPreds(e, neg, atoms) = Done(<< MaskPred(IF neg THEN "not in" ELSE "in", typeMaskOf(e.args[2])) >>, atoms)
      <3>1. CASE neg
        BY <1>2, <1>3, <1>4, <3>1 DEF negInPreds
      <3>2. CASE ~neg
        BY <1>2, <1>3, <1>4, <3>2 DEF inPreds
      <3> QED BY <3>1, <3>2
    <2> QED BY <1>4, <2>1, TypeListExact
  <1>5. CASE IsAttrList(e.args)
    <2>1. CASE neg
      <3>1. Exact(negInPreds(e.args, atoms), atoms, e, TRUE)
        BY <1>3, <1>5, NegAttrListExact
      <3> QED BY <1>2, <2>1, <3>1
    <2>2. CASE ~neg
      <3>1. inPreds(e.args, atoms) = attrPred(e.args[1].name, "in", listOfStrings(e.args[2]), FALSE, atoms)
        BY <1>3, <1>5 DEF inPreds
      <3>2. Exact(inPreds(e.args, atoms), atoms, e, FALSE)
        BY <1>5, <3>1, AttrListExact
      <3> QED BY <1>2, <2>2, <3>2
    <2> QED BY <2>1, <2>2
  <1>6. CASE ~IsTypeList(e.args) /\ ~IsAttrList(e.args)
    <2>1. leafPreds(e, neg, atoms) = Fail(atoms)
      BY <1>2, <1>6 DEF inPreds, negInPreds
    <2> QED BY <2>1, FailExact
  <1> QED BY <1>4, <1>5, <1>6

\* The strings of a list of CIDRs are their own values.
LEMMA CidrList ==
    ASSUME NEW e, TypeChecked(e), e.fn = "ip_in", IsStrings(e.args[2]), NEW v
    PROVE  /\ Values(e.args[2], v) = listOfStrings(e.args[2])
           /\ listOfStrings(e.args[2]) \in Seq(Scalars)
  <1> DEFINE y == e.args[2]
  <1>1. IsList(y) \/ IsBuiltin(y)
    BY DEF TypeChecked, Cmp
  <1>2. CASE IsBuiltin(y)
    <2>1. IsIdent(y) /\ y.name \in DOMAIN builtinLists
      BY <1>2 DEF IsBuiltin
    <2>2. builtinLists[y.name].els \in Seq([kind : {"prefix"}, cidr : Cidr])
      BY <2>1, FilterPredsAssumption
    <2>3. [kind : {"prefix"}, cidr : Cidr] \subseteq Scalars
      BY DEF Scalars
    <2>4. builtinLists[y.name].els \in Seq(Scalars)
      BY <2>2, <2>3, SeqMonotonic
    <2> QED BY <2>1, <2>4 DEF Values, listOfStrings
  <1>3. CASE IsList(y)
    <2>1. ~IsIdent(y) /\ y.els \in Seq(Scalars)
      BY <1>3 DEF IsList, IsIdent
    <2>2. \A i \in DOMAIN y.els : y.els[i].kind \in {"string", "prefix"}
      BY <2>1 DEF IsStrings
    <2>3. \A i \in DOMAIN y.els : Scalar(y.els[i], v) = y.els[i]
      BY <2>2, LiteralValues DEF IsLiteral
    <2>4. Values(y, v) = [i \in DOMAIN y.els |-> y.els[i]]
      BY <2>1, <2>3 DEF Values
    <2>5. [i \in DOMAIN y.els |-> y.els[i]] = y.els
      BY <2>1
    <2> QED BY <2>1, <2>4, <2>5 DEF listOfStrings
  <1> QED BY <1>1, <1>2, <1>3

\* What is compiled of ip_in, and what it means.
IpCompiled(e, neg, atoms, r, name, zs) ==
    /\ name \in addrFields /\ zs \in Seq(Cidr)
    /\ r = Done(<< IpPred(name, neg, zs) >>, atoms)
    /\ \A i \in DOMAIN zs : zs[i] \in CidrsOf(e)
    /\ \A v : CelLeaf(e, v) <=> AddrInCIDRs(v[name], zs)

\* An address among CIDRs is compiled so, or left to userspace.
LEMMA IpIn ==
    ASSUME NEW e, TypeChecked(e), e.fn = "ip_in", NEW neg \in BOOLEAN, NEW atoms,
           NEW r, r = leafPreds(e, neg, atoms)
    PROVE  r = Fail(atoms) \/ \E name, zs : IpCompiled(e, neg, atoms, r, name, zs)
  <1> DEFINE list == listOfStrings(e.args[2])
             zs == Cidrs(list)
             name == e.args[1].name
  <1>1. r = ipInPreds(e.args, neg, atoms)
    BY DEF leafPreds, TypeChecked, Cmp
  <1>2. SUFFICES ASSUME r # Fail(atoms) PROVE IpCompiled(e, neg, atoms, r, name, zs)
    OBVIOUS
  <1>3. name \in addrFields /\ IsStrings(e.args[2]) /\ InKernel(zs, neg) /\ r = Done(<< IpPred(name, neg, zs) >>, atoms)
    BY <1>1, <1>2 DEF ipInPreds
  <1>4. list \in Seq(Scalars) /\ \A v : Values(e.args[2], v) = list
    BY <1>3, CidrList
  <1>5. DOMAIN list = 1..Len(list) /\ Len(list) \in Nat /\ \A i \in DOMAIN list : list[i] \in Scalars
    BY <1>4
  <1>6. DOMAIN zs = DOMAIN list /\ \A i \in DOMAIN list : zs[i] = IF list[i].kind = "prefix" THEN list[i].cidr ELSE NotACidr
    BY DEF Cidrs
  <1>7. \A i \in DOMAIN list : zs[i] \in Cidr
    <2> TAKE i \in DOMAIN list
    <2>1. zs[i] # NotACidr
      BY <1>3, <1>6 DEF InKernel, IsCidr
    <2>2. list[i].kind = "prefix" /\ zs[i] = list[i].cidr
      BY <1>6, <2>1
    <2> QED BY <1>5, <2>2 DEF Scalars
  <1>8. zs = [i \in 1..Len(list) |-> zs[i]]
    BY <1>5 DEF Cidrs
  <1>9. \A v : CelLeaf(e, v) <=> AddrInCIDRs(v[name], zs)
    BY <1>4 DEF CelLeaf, Cmp
  <1>10. CidrsOf(e) = Range(zs)
    BY DEF CidrsOf
  <1> HIDE DEF zs, list
  <1>11. zs \in Seq(Cidr)
    BY <1>5, <1>7, <1>8
  <1>12. \A i \in DOMAIN zs : zs[i] \in CidrsOf(e)
    BY <1>10 DEF Range
  <1> QED BY <1>3, <1>9, <1>11, <1>12 DEF IpCompiled

-----------------------------------------------------------------------------
(* Comparisons. *)

\* The predicates of an event, for the kernel and for the machine.
KernelAll(preds, v, mask) == \A i \in DOMAIN preds : KernelHolds(preds[i], v, mask)
MachineAll(preds, v, mask) == \A i \in DOMAIN preds : MachineHolds(preds[i], v, mask)

\* The predicates r of a comparison e, or of its negation, are right under the
\* verdicts of a list of atoms that begins with those of r.
Right(r, e, neg, later, v) ==
    /\ MachineAll(r.preds, v, VerdictMask(later, v)) <=> (CelLeaf(e, v) <=> ~neg)
    /\ WholeBytes(e) => (KernelAll(r.preds, v, VerdictMask(later, v)) <=> (CelLeaf(e, v) <=> ~neg))

\* What does not depend on a set of addresses.
LEMMA ExactIsRight ==
    ASSUME NEW r, NEW atoms, NEW e, NEW neg, Exact(r, atoms, e, neg), r.ok,
           NEW v, IsEvent(v), NEW later \in Seq(Atom), Extends(r.atoms, later), Len(later) <= MaxAtoms
    PROVE  Right(r, e, neg, later, v)
  <1> DEFINE mask == VerdictMask(later, v)
             ps == r.preds
             M == [i \in DOMAIN ps |-> ps[i].kind = "IPSET" /\ evIPInSet(v[ps[i].field], ps[i].prefixes)]
             K == [i \in DOMAIN ps |-> ps[i].kind = "IPSET" /\ ko_ip_in_set(v[ps[i].field], ps[i].prefixes)]
  <1>1. \A X : (\A i \in DOMAIN ps : PredHolds(ps[i], v, mask, X[i])) <=> (CelLeaf(e, v) <=> ~neg)
    BY DEF Exact
  <1>2. MachineAll(ps, v, mask) <=> \A i \in DOMAIN ps : PredHolds(ps[i], v, mask, M[i])
    BY DEF MachineAll, MachineHolds
  <1>3. KernelAll(ps, v, mask) <=> \A i \in DOMAIN ps : PredHolds(ps[i], v, mask, K[i])
    BY DEF KernelAll, KernelHolds
  <1> HIDE DEF M, K, mask, ps
  <1>4. MachineAll(ps, v, mask) <=> (CelLeaf(e, v) <=> ~neg)
    BY <1>1, <1>2
  <1>5. KernelAll(ps, v, mask) <=> (CelLeaf(e, v) <=> ~neg)
    BY <1>1, <1>3
  <1> QED BY <1>4, <1>5 DEF Right, mask, ps

\* A set of addresses.
LEMMA IpIsRight ==
    ASSUME NEW e, PlainCidrs(e), NEW neg \in BOOLEAN, NEW atoms, NEW r, NEW name, NEW zs,
           IpCompiled(e, neg, atoms, r, name, zs), NEW v, IsEvent(v), NEW later
    PROVE  Right(r, e, neg, later, v)
  <1> DEFINE q == IpPred(name, neg, zs)
             a == v[name]
             mask == VerdictMask(later, v)
  <1>1. /\ name \in addrFields /\ zs \in Seq(Cidr) /\ r = Done(<< q >>, atoms)
        /\ \A i \in DOMAIN zs : zs[i] \in CidrsOf(e)
        /\ CelLeaf(e, v) <=> AddrInCIDRs(a, zs)
    BY DEF IpCompiled
  <1>2. a \in Address
    BY <1>1 DEF IsEvent
  <1>3. \A i \in DOMAIN zs : ~Is4In6(zs[i].addr)
    BY <1>1 DEF PlainCidrs
  <1>4. r.preds = << q >> /\ DOMAIN r.preds = {1} /\ r.preds[1] = q
    BY <1>1 DEF Done
  <1>5. q.kind = "IPSET" /\ q.field = name /\ q.neg = neg /\ q.prefixes = PrefixArrays(zs)
    BY DEF IpPred
  <1> HIDE DEF q, a, mask
  <1>6. MachineAll(r.preds, v, mask) <=> MachineHolds(q, v, mask)
    BY <1>4 DEF MachineAll
  <1>7. KernelAll(r.preds, v, mask) <=> KernelHolds(q, v, mask)
    BY <1>4 DEF KernelAll
  <1>8. MachineHolds(q, v, mask) <=> (evIPInSet(a, PrefixArrays(zs)) <=> ~neg)
    BY <1>5 DEF MachineHolds, PredHolds, evIPInSet, a
  <1>9. KernelHolds(q, v, mask) <=> (ko_ip_in_set(a, PrefixArrays(zs)) <=> ~neg)
    BY <1>5 DEF KernelHolds, PredHolds, ko_ip_in_set, a
  <1>10. evIPInSet(a, PrefixArrays(zs)) <=> AddrInCIDRs(a, zs)
    BY <1>1, <1>2, <1>3, MachineIsExact
  <1>11. ASSUME WholeBytes(e) PROVE ko_ip_in_set(a, PrefixArrays(zs)) <=> AddrInCIDRs(a, zs)
    <2>1. \A i \in DOMAIN zs : zs[i].bits % ByteBits = 0
      BY <1>1, <1>11 DEF WholeBytes
    <2> QED BY <1>1, <1>2, <1>3, <2>1, KernelIsExactOnWholeBytes
  <1>12. MachineAll(r.preds, v, mask) <=> (CelLeaf(e, v) <=> ~neg)
    BY <1>1, <1>6, <1>8, <1>10
  <1>13. WholeBytes(e) => (KernelAll(r.preds, v, mask) <=> (CelLeaf(e, v) <=> ~neg))
    BY <1>1, <1>7, <1>9, <1>11
  <1> QED BY <1>12, <1>13 DEF Right, mask

\* Atoms stay where they are, and are of the kinds atomEval knows.
LEMMA LeafAtoms ==
    ASSUME NEW e, TypeChecked(e), Plain(e), NEW neg \in BOOLEAN, NEW atoms, IsAtoms(atoms)
    PROVE  LET r == leafPreds(e, neg, atoms) IN IsAtoms(r.atoms) /\ Extends(atoms, r.atoms)
  <1> DEFINE r == leafPreds(e, neg, atoms)
  <1>0. e.fn \in Cmp \/ e.fn = "in" \/ e.fn = "ip_in"
    BY DEF TypeChecked
  <1>1. CASE e.fn \in Cmp
    BY <1>1, CmpExact DEF Exact
  <1>2. CASE e.fn = "in"
    BY <1>2, InExact DEF Exact
  <1>3. CASE e.fn = "ip_in"
    <2>1. Extends(atoms, atoms)
      BY FailExact
    <2>2. PICK s : s = r
      OBVIOUS
    <2> HIDE DEF r
    <2>3. s = Fail(atoms) \/ \E name, zs : IpCompiled(e, neg, atoms, s, name, zs)
      BY <1>3, <2>2, IpIn DEF r
    <2>4. s.atoms = atoms
      BY <2>3 DEF IpCompiled, Fail, Done
    <2> QED BY <2>1, <2>2, <2>4 DEF r
  <1> QED BY <1>0, <1>1, <1>2, <1>3

\* conj and negConj translate a comparison as CEL means it.  Whatever is pushed
\* down of a plain comparison, for the machine of the tests at every prefix length
\* and for the kernel where prefixes end at a byte, holds of an event exactly when
\* the comparison does, or exactly when it does not where its negation was asked
\* for: with any atoms there before, and any added since.
THEOREM LeafIsExact ==
    ASSUME NEW e, TypeChecked(e), Plain(e), NEW neg \in BOOLEAN, NEW atoms, IsAtoms(atoms),
           leafPreds(e, neg, atoms).ok,
           NEW v, IsEvent(v),
           NEW later \in Seq(Atom), Extends(leafPreds(e, neg, atoms).atoms, later), Len(later) <= MaxAtoms
    PROVE  Right(leafPreds(e, neg, atoms), e, neg, later, v)
  <1>1. PICK r : r = leafPreds(e, neg, atoms)
    OBVIOUS
  <1>2. r.ok /\ Extends(r.atoms, later)
    BY <1>1
  <1>3. e.fn \in Cmp \/ e.fn = "in" \/ e.fn = "ip_in"
    BY DEF TypeChecked
  <1>4. CASE e.fn \in Cmp
    <2>1. Exact(r, atoms, e, neg)
      BY <1>1, <1>4, CmpExact
    <2> QED BY <1>1, <1>2, <2>1, ExactIsRight
  <1>5. CASE e.fn = "in"
    <2>1. Exact(r, atoms, e, neg)
      BY <1>1, <1>5, InExact
    <2> QED BY <1>1, <1>2, <2>1, ExactIsRight
  <1>6. CASE e.fn = "ip_in"
    <2>1. r = Fail(atoms) \/ \E name, zs : IpCompiled(e, neg, atoms, r, name, zs)
      BY <1>1, <1>6, IpIn
    <2>2. r # Fail(atoms)
      BY <1>2 DEF Fail
    <2>3. PICK name, zs : IpCompiled(e, neg, atoms, r, name, zs)
      BY <2>1, <2>2
    <2>4. PlainCidrs(e)
      BY DEF Plain
    <2> QED BY <1>1, <2>3, <2>4, IpIsRight
  <1> QED BY <1>3, <1>4, <1>5, <1>6

-----------------------------------------------------------------------------
(* Conjunctions of predicates. *)

\* The predicates of a filter; the marker comes behind them.
IsConj(ps) == \E S : ps \in Seq(S) /\ \A p \in S : p.kind # "END"

\* One predicate, or none.
LEMMA SmallConj ==
    /\ IsConj(<< >>)
    /\ \A p : p.kind # "END" => IsConj(<< p >>)
  <1>1. ASSUME NEW p, p.kind # "END" PROVE IsConj(<< p >>)
    <2>1. PICK S : S = {p}
      OBVIOUS
    <2>2. << p >> \in Seq(S) /\ \A q \in S : q.kind # "END"
      BY <1>1, <2>1
    <2> QED BY <2>2 DEF IsConj
  <1>2. IsConj(<< >>)
    <2>1. PICK S : S = {}
      OBVIOUS
    <2>2. << >> \in Seq(S) /\ \A q \in S : q.kind # "END"
      BY <2>1
    <2> QED BY <2>2 DEF IsConj
  <1> QED BY <1>1, <1>2

\* Two conjunctions make one.
LEMMA BothConj ==
    ASSUME NEW ps, NEW qs, IsConj(ps), IsConj(qs), NEW v, NEW mask
    PROVE  /\ IsConj(ps \o qs)
           /\ MachineAll(ps \o qs, v, mask) <=> MachineAll(ps, v, mask) /\ MachineAll(qs, v, mask)
           /\ KernelAll(ps \o qs, v, mask) <=> KernelAll(ps, v, mask) /\ KernelAll(qs, v, mask)
  <1>1. PICK S : ps \in Seq(S) /\ \A p \in S : p.kind # "END"
    BY DEF IsConj
  <1>2. PICK T : qs \in Seq(T) /\ \A p \in T : p.kind # "END"
    BY DEF IsConj
  <1>3. ps \in Seq(S \cup T) /\ qs \in Seq(S \cup T)
    BY <1>1, <1>2, SeqMonotonic
  <1>4. /\ ps \o qs \in Seq(S \cup T) /\ Len(ps \o qs) = Len(ps) + Len(qs)
        /\ \A i \in 1..(Len(ps) + Len(qs)) : (ps \o qs)[i] = IF i <= Len(ps) THEN ps[i] ELSE qs[i - Len(ps)]
    BY <1>3, ConcatProperties
  <1>5. IsConj(ps \o qs)
    BY <1>1, <1>2, <1>4 DEF IsConj
  <1>6. PICK l \in Nat, m \in Nat : l = Len(ps) /\ m = Len(qs)
    BY <1>3
  <1>7. DOMAIN ps = 1..l /\ DOMAIN qs = 1..m /\ DOMAIN (ps \o qs) = 1..(l + m)
    BY <1>3, <1>4, <1>6
  <1>8. \A i \in 1..l : i \in 1..(l + m) /\ (ps \o qs)[i] = ps[i]
    BY <1>4, <1>6
  <1>9. \A i \in 1..m : l + i \in 1..(l + m) /\ (ps \o qs)[l + i] = qs[i]
    <2> TAKE i \in 1..m
    <2>1. l + i \in 1..(l + m) /\ ~(l + i <= l) /\ (l + i) - l = i
      OBVIOUS
    <2> QED BY <1>4, <1>6, <2>1
  <1>10. \A i \in 1..(l + m) : i \in 1..l \/ \E j \in 1..m : i = l + j
    <2> TAKE i \in 1..(l + m)
    <2>1. CASE i > l
      <3>1. i - l \in 1..m /\ i = l + (i - l)
        BY <2>1
      <3> QED BY <3>1
    <2>2. CASE i <= l
      BY <2>2
    <2> QED BY <2>1, <2>2
  <1>11. MachineAll(ps \o qs, v, mask) <=> MachineAll(ps, v, mask) /\ MachineAll(qs, v, mask)
    <2> DEFINE H(p) == MachineHolds(p, v, mask)
    <2>1. /\ MachineAll(ps \o qs, v, mask) <=> \A i \in 1..(l + m) : H((ps \o qs)[i])
          /\ MachineAll(ps, v, mask) <=> \A i \in 1..l : H(ps[i])
          /\ MachineAll(qs, v, mask) <=> \A i \in 1..m : H(qs[i])
      BY <1>7 DEF MachineAll
    <2> HIDE DEF H
    <2>2. ASSUME \A i \in 1..(l + m) : H((ps \o qs)[i]) PROVE \A i \in 1..m : H(qs[i])
      BY <1>9, <2>2
    <2>3. ASSUME \A i \in 1..(l + m) : H((ps \o qs)[i]) PROVE \A i \in 1..l : H(ps[i])
      BY <1>8, <2>3
    <2>4. ASSUME \A i \in 1..l : H(ps[i]), \A i \in 1..m : H(qs[i]), NEW i \in 1..(l + m) PROVE H((ps \o qs)[i])
      <3>1. CASE i \in 1..l
        BY <1>8, <2>4, <3>1
      <3>2. CASE \E j \in 1..m : i = l + j
        BY <1>9, <2>4, <3>2
      <3> QED BY <1>10, <3>1, <3>2
    <2> QED BY <2>1, <2>2, <2>3, <2>4
  <1>12. KernelAll(ps \o qs, v, mask) <=> KernelAll(ps, v, mask) /\ KernelAll(qs, v, mask)
    <2> DEFINE H(p) == KernelHolds(p, v, mask)
    <2>1. /\ KernelAll(ps \o qs, v, mask) <=> \A i \in 1..(l + m) : H((ps \o qs)[i])
          /\ KernelAll(ps, v, mask) <=> \A i \in 1..l : H(ps[i])
          /\ KernelAll(qs, v, mask) <=> \A i \in 1..m : H(qs[i])
      BY <1>7 DEF KernelAll
    <2> HIDE DEF H
    <2>2. ASSUME \A i \in 1..(l + m) : H((ps \o qs)[i]) PROVE \A i \in 1..m : H(qs[i])
      BY <1>9, <2>2
    <2>3. ASSUME \A i \in 1..(l + m) : H((ps \o qs)[i]) PROVE \A i \in 1..l : H(ps[i])
      BY <1>8, <2>3
    <2>4. ASSUME \A i \in 1..l : H(ps[i]), \A i \in 1..m : H(qs[i]), NEW i \in 1..(l + m) PROVE H((ps \o qs)[i])
      <3>1. CASE i \in 1..l
        BY <1>8, <2>4, <3>1
      <3>2. CASE \E j \in 1..m : i = l + j
        BY <1>9, <2>4, <3>2
      <3> QED BY <1>10, <3>1, <3>2
    <2> QED BY <2>1, <2>2, <2>3, <2>4
  <1> QED BY <1>5, <1>11, <1>12

\* An atom has one predicate.
LEMMA AttrConj ==
    ASSUME NEW field, NEW op, NEW values, NEW neg, NEW atoms
    PROVE  IsConj(attrPred(field, op, values, neg, atoms).preds)
  <1>1. PICK id : attrPred(field, op, values, neg, atoms).preds = << [kind |-> "ATTR", a |-> id, neg |-> neg] >>
    BY DEF attrPred, Done
  <1> QED BY <1>1, SmallConj

\* What a field is compared with.
LEMMA FieldConj ==
    ASSUME NEW name, NEW op, NEW e, NEW atoms
    PROVE  IsConj(FieldPreds(name, op, e, atoms).preds)
  <1>1. IsConj(Fail(atoms).preds)
    BY SmallConj DEF Fail
  <1>2. IsConj(typePreds(op, typeBitOf(e)))
    <2>1. \A o, m : MaskPred(o, m).kind # "END"
      BY DEF MaskPred
    <2>2. \A o, m : IsConj(<< MaskPred(o, m) >>)
      BY <2>1, SmallConj
    <2> QED BY <2>2, SmallConj DEF typePreds
  <1>3. IsConj(cmpField(name, op, e, atoms).preds)
    <2>1. \A val : IsConj(Done(<< CmpPred(name, op, val) >>, atoms).preds)
      <3> TAKE val
      <3>1. CmpPred(name, op, val).kind # "END"
        BY DEF CmpPred
      <3>2. IsConj(<< CmpPred(name, op, val) >>)
        BY <3>1, SmallConj
      <3> QED BY <3>2 DEF Done
    <2>2. IsConj(attrPred(name, "eq", << e >>, op = "!=", atoms).preds)
      BY AttrConj
    <2> QED BY <1>1, <2>1, <2>2 DEF cmpField
  <1>4. IsConj(Done(typePreds(op, typeBitOf(e)), atoms).preds)
    BY <1>2 DEF Done
  <1> QED BY <1>1, <1>3, <1>4 DEF FieldPreds

\* Every comparison.
LEMMA LeafConj ==
    ASSUME NEW e, TypeChecked(e), Plain(e), NEW neg \in BOOLEAN, NEW atoms, IsAtoms(atoms)
    PROVE  IsConj(leafPreds(e, neg, atoms).preds)
  <1>0. e.kind = "call" /\ (e.fn \in Cmp \/ e.fn = "in" \/ e.fn = "ip_in") /\ "in" \notin Cmp /\ "ip_in" \notin Cmp
    BY DEF TypeChecked, Cmp
  <1>1. IsConj(Fail(atoms).preds)
    BY SmallConj DEF Fail
  <1>2. CASE e.fn \in Cmp
    <2>1. \A op : IsConj(cmpPreds(e.args, op, atoms).preds)
      BY <1>1, FieldConj DEF cmpPreds
    <2>2. leafPreds(e, neg, atoms) = cmpPreds(e.args, IF neg THEN flipCmp(e.fn) ELSE e.fn, atoms)
      BY <1>0, <1>2 DEF leafPreds
    <2> QED BY <2>1, <2>2
  <1>3. CASE e.fn = "in"
    <2>1. leafPreds(e, neg, atoms) = IF neg THEN negInPreds(e.args, atoms) ELSE inPreds(e.args, atoms)
      BY <1>0, <1>3 DEF leafPreds
    <2>2. \A o, m : IsConj(Done(<< MaskPred(o, m) >>, atoms).preds)
      <3> TAKE o, m
      <3>1. MaskPred(o, m).kind # "END"
        BY DEF MaskPred
      <3>2. IsConj(<< MaskPred(o, m) >>)
        BY <3>1, SmallConj
      <3> QED BY <3>2 DEF Done
    <2>3. IsConj(inPreds(e.args, atoms).preds)
      BY <1>1, <2>2, AttrConj DEF inPreds
    <2>4. CASE IsTypeList(e.args) \/ ~IsAttrList(e.args)
      BY <1>1, <2>1, <2>2, <2>3, <2>4 DEF negInPreds, IsTypeList, IsAttrList, attrFields
    <2>5. CASE IsAttrList(e.args) /\ ~IsTypeList(e.args)
      <3>1. PICK name, list : name = e.args[1].name /\ list = listOfStrings(e.args[2])
        OBVIOUS
      <3>2. list \in Seq(Text)
        BY <1>3, <2>5, <3>1, AttrList DEF WordList
      <3>3. NotsOK(name, list, atoms, Len(list), negInPreds(e.args, atoms))
        BY <2>5, <3>1, <3>2, NegInAttrs
      <3>4. IsConj(negInPreds(e.args, atoms).preds)
        <4> DEFINE P == [kind : {"ATTR"}, a : Nat, neg : {TRUE}]
        <4>1. negInPreds(e.args, atoms).preds \in Seq(P)
          BY <3>3 DEF NotsOK
        <4>2. \A p \in P : p.kind # "END"
          OBVIOUS
        <4> HIDE DEF P
        <4> QED BY <4>1, <4>2 DEF IsConj
      <3> QED BY <2>1, <2>3, <3>4
    <2> QED BY <2>4, <2>5
  <1>4. CASE e.fn = "ip_in"
    <2>1. leafPreds(e, neg, atoms) = ipInPreds(e.args, neg, atoms)
      BY <1>0, <1>4 DEF leafPreds
    <2>2. \A f, z : IsConj(Done(<< IpPred(f, neg, z) >>, atoms).preds)
      <3> TAKE f, z
      <3>1. IpPred(f, neg, z).kind # "END"
        BY DEF IpPred
      <3>2. IsConj(<< IpPred(f, neg, z) >>)
        BY <3>1, SmallConj
      <3> QED BY <3>2 DEF Done
    <2> QED BY <1>1, <2>1, <2>2 DEF ipInPreds
  <1> QED BY <1>0, <1>2, <1>3, <1>4
=============================================================================
