--------------------------- MODULE FilterCompile ---------------------------
(***************************************************************************)
(* From CEL expressions to the predicate stream, and what it makes of an   *)
(* event: the compiler (conj, negConj), the kernel's and the userspace     *)
(* machine's evaluation of the stream, and CEL itself as the reference.    *)
(* FilterPreds has the comparisons that an expression is made of.          *)
(*                                                                         *)
(* FilterWalk has the walk as steps that interleave with the verdict map;  *)
(* here a verdict is there or not, and the question is what single         *)
(* predicates mean.                                                        *)
(*                                                                         *)
(* An expression is the sequence of its calls, a call after the calls it   *)
(* is applied to: a comparison, or &&, || or ! of the positions of its     *)
(* operands.                                                               *)
(***************************************************************************)
EXTENDS FilterProgram, FilterPreds

CONSTANTS
    Configs,        \* lists of expressions
    EventsOf(_)     \* the events a list of expressions is tried on

Connectives == {"&&", "||", "!"}
Earlier(x, i, k) == x[i].args[k] \in 1..(i - 1)
IsExpr(x) ==
    /\ Len(x) \in Nat \ {0} /\ DOMAIN x = 1..Len(x)
    /\ \A i \in 1..Len(x) :
          \/ x[i].fn \in {"&&", "||"} /\ Earlier(x, i, 1) /\ Earlier(x, i, 2)
          \/ x[i].fn = "!" /\ Earlier(x, i, 1)
          \/ TypeChecked(x[i])

ASSUME FilterCompileAssumption ==
    \A exprs \in Configs :
        /\ Len(exprs) \in Nat /\ DOMAIN exprs = 1..Len(exprs)
        /\ \A n \in DOMAIN exprs : IsExpr(exprs[n])
        /\ \A v \in EventsOf(exprs) : IsEvent(v)

VARIABLES
    cfg,        \* the configured expressions
    set,        \* filter.Set: the atoms and the stream
    ev,         \* the event in hand, or NoEvent
    known       \* the event's cgroup has a verdict entry

vars == <<cfg, set, ev, known>>

-----------------------------------------------------------------------------
(* CEL. *)

\* The value of each call.
Cel(x, v) ==
    LET val[i \in 1..Len(x)] ==
            CASE x[i].fn = "&&" -> val[x[i].args[1]] /\ val[x[i].args[2]]
              [] x[i].fn = "||" -> val[x[i].args[1]] \/ val[x[i].args[2]]
              [] x[i].fn = "!" -> ~val[x[i].args[1]]
              [] OTHER -> CelLeaf(x[i], v)
    IN  val[Len(x)]

\* No filter holds.
None == -1

\* The first filter that holds.
Evaluate(exprs, v) ==
    LET true == {i \in DOMAIN exprs : Cel(exprs[i], v)}
    IN  IF true = {} THEN None ELSE Min(true) - 1

-----------------------------------------------------------------------------
(* The compiler. *)

\* Both sides of &&; the right one is not looked at when the left one fails.
Both(l, r) ==
    IF l.ok /\ r.ok THEN Done(l.preds \o r.preds, r.atoms)
    ELSE Fail(IF l.ok THEN r.atoms ELSE l.atoms)

\* conj (neg FALSE) and negConj (neg TRUE) of each call: a flat conjunction, or a
\* failure.
conj(x, atoms0) ==
    LET c[i \in 1..Len(x)] ==
            [neg \in BOOLEAN |-> [atoms \in Seq(Atom) |->
                CASE x[i].fn = "&&" /\ ~neg ->
                        LET l == c[x[i].args[1]][FALSE][atoms]
                        IN  Both(l, c[x[i].args[2]][FALSE][l.atoms])
                  [] x[i].fn = "!" -> c[x[i].args[1]][~neg][atoms]
                  [] OTHER -> leafPreds(x[i], neg, atoms)]]
    IN  c[Len(x)][FALSE][atoms0]

\* Compile: the filters in order, with one list of atoms.
CompileFilters(exprs) ==
    LET upTo[n \in 0..Len(exprs)] ==
            IF n = 0 THEN [filters |-> << >>, atoms |-> << >>]
            ELSE LET r == conj(exprs[n], upTo[n - 1].atoms)
                 IN  [filters |-> Append(upTo[n - 1].filters, IF r.ok THEN PushedDown(r.preds) ELSE Userspace),
                      atoms |-> r.atoms]
    IN  upTo[Len(exprs)]

-----------------------------------------------------------------------------
(* The walk. *)

\* One element of the stream: s.res is the value of the filter so far, s.ret the
\* result, "" while there is none.
WalkStep(s, p, holds, entry) ==
    CASE s.ret # "" -> s
      [] s.ret = "" /\ p.kind = "END" /\ (p.user \/ s.res = "UNKNOWN") -> [s EXCEPT !.ret = "UNDECIDED"]
      [] s.ret = "" /\ p.kind = "END" /\ ~p.user /\ s.res = "TRUE" -> [s EXCEPT !.ret = "INDEX", !.idx = p.a]
      [] s.ret = "" /\ p.kind = "END" /\ ~p.user /\ s.res = "FALSE" -> [s EXCEPT !.res = "TRUE"]
      [] s.ret = "" /\ p.kind = "ATTR" /\ ~entry -> [s EXCEPT !.res = IF @ = "TRUE" THEN "UNKNOWN" ELSE @]
      [] OTHER -> [s EXCEPT !.res = IF holds THEN @ ELSE "FALSE"]

Start == [res |-> "TRUE", ret |-> "", idx |-> None]

\* The first m elements of the stream; holds[n] is what the event makes of the
\* n-th one.
Walk(flat, holds, entry, m) ==
    LET at[n \in 0..Len(flat)] ==
            IF n = 0 THEN Start ELSE WalkStep(at[n - 1], flat[n], holds[n], entry)
    IN  at[m]

\* ko_filter_eval on a loaded stream.  The array of KO_MAX_PREDS elements is as
\* long as filter.MaxPreds: BPFProg copies what fits and the loop ends with it.
InArray(flat) == IF Len(flat) <= Limit THEN Len(flat) ELSE Limit
ko_filter_eval(flat, v, entry, mask) ==
    Walk(flat, [n \in DOMAIN flat |-> KernelHolds(flat[n], v, mask)], entry, InArray(flat))

\* The machine of the tests, which has no such end.
RunPreds(flat, v, entry, mask) ==
    Walk(flat, [n \in DOMAIN flat |-> MachineHolds(flat[n], v, mask)], entry, Len(flat))

-----------------------------------------------------------------------------

NoEvent == [type |-> 0]

\* A configuration that is accepted is compiled; then events arrive, of cgroups
\* with and without a verdict entry.
Init ==
    /\ cfg \in Configs
    /\ LET c == CompileFilters(cfg) IN
       /\ Accepted(c.filters) /\ Len(c.atoms) <= MaxAtoms
       /\ set = [atoms |-> c.atoms, flat |-> Compile(c.filters)]
    /\ ev = NoEvent
    /\ known = FALSE

Arrive ==
    /\ ev = NoEvent
    /\ ev' \in EventsOf(cfg)
    /\ known' \in BOOLEAN
    /\ UNCHANGED <<cfg, set>>

Leave ==
    /\ ev # NoEvent
    /\ ev' = NoEvent
    /\ known' = FALSE
    /\ UNCHANGED <<cfg, set>>

Next == Arrive \/ Leave
Spec == Init /\ [][Next]_vars

-----------------------------------------------------------------------------
(* Properties. *)

\* The comparisons of the expressions.
AllLeaves == UNION {{cfg[n][i] : i \in {j \in DOMAIN cfg[n] : cfg[n][j].fn \notin Connectives}} : n \in DOMAIN cfg}

\* What the walk decides is what CEL says; it may leave the event undecided.
Agrees(s) ==
    /\ s.ret = "INDEX" => s.idx = Evaluate(cfg, ev)
    /\ s.ret = "" => Evaluate(cfg, ev) = None

Kernel == ko_filter_eval(set.flat, ev, known, VerdictMask(set.atoms, ev))
Machine == RunPreds(set.flat, ev, known, VerdictMask(set.atoms, ev))

\* The stream fits in the kernel's array.  Compile counts the pushed-down filters
\* only, so that a list it accepts may not.
Fits == Len(set.flat) <= Limit

\* The predicates the kernel evaluates decide an event as CEL does: for every
\* nesting of negations and conjunctions, with atoms shared between filters, with
\* and without a verdict entry, for IPv4, IPv6 and v4-mapped addresses; as long as
\* comparisons are plain and prefixes end at a byte.  An index is right of every
\* stream, a drop of a stream that fits.
KernelExactOnPlain ==
    ev # NoEvent /\ (\A e \in AllLeaves : Plain(e) /\ WholeBytes(e)) =>
        /\ Kernel.ret = "INDEX" => Kernel.idx = Evaluate(cfg, ev)
        /\ Kernel.ret = "" /\ Fits => Evaluate(cfg, ev) = None

\* The machine that the tests hold against CEL agrees for every prefix length too:
\* it stands for CEL, not for what the kernel computes.
MachineExactOnPlain == ev # NoEvent /\ (\A e \in AllLeaves : Plain(e)) => Agrees(Machine)

\* "Setting verify: true re-evaluates every eBPF-decided event in userspace and
\* counts disagreements on ko_filter_verify_mismatches_total, which must stay
\* zero": so for every expression, with right verdict entries.
KernelExact == ev # NoEvent => Agrees(Kernel)

\* "Prefix bits map to the low plen bits of the little-endian words (the first
\* address bits are the first bytes' bits, reversed within each byte, which
\* preserves the compared set)": so for every prefix length.
KernelExactOnPrefixes == ev # NoEvent /\ (\A e \in AllLeaves : Plain(e)) => Agrees(Kernel)
=============================================================================
