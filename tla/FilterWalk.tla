----------------------------- MODULE FilterWalk -----------------------------
(***************************************************************************)
(* How an event is decided against the configured CEL filters: the         *)
(* three-valued walk of the predicate stream in the kernel                 *)
(* (ko_filter_eval), and the evaluation in Go of what the kernel could not *)
(* decide (resolveFilter), while tracer.startFilters is still loading the  *)
(* stream and while the cgroup verdict map gains and loses entries.        *)
(*                                                                         *)
(* A stream is what Compile lays out: the predicates of a filter, then its *)
(* END marker.  What an event makes of a predicate is one bit; "val" holds *)
(* these bits, and at the END marker of a userspace filter the value of    *)
(* the whole CEL expression.  CMP and IPSET predicates are read from the   *)
(* event; an ATTR predicate needs a verdict entry, which may appear or be  *)
(* evicted between any two steps of the walk (each predicate looks it up   *)
(* again).  Here an entry, when there, is right.                           *)
(***************************************************************************)
EXTENDS Integers, Sequences

CONSTANTS
    Streams,    \* the compiled streams; << >> stands for "no filters"
    MaxPreds    \* KO_MAX_PREDS: predicates the kernel map holds

Pred == [kind : {"CMP", "ATTR", "END"}, a : Nat, user : BOOLEAN]

\* Compile always ends a stream with an END marker.
ASSUME FilterWalkAssumption ==
    /\ MaxPreds \in Nat \ {0}
    /\ Streams \subseteq Seq(Pred)
    /\ \A s \in Streams : s # << >> => s[Len(s)].kind = "END"

VARIABLES
    flat,       \* Set.flat: the compiled stream
    prog,       \* ko_filter_prog: its copy in the kernel
    cfg,        \* ko_filter_cfg: 0 until startFilters is done
    val,        \* what the event makes of each element of the stream
    pc,         \* "idle", "walk", "ret" (the kernel has decided), "done"
    k,          \* the walk: next element, 1-based
    res,        \* the walk: value of the current filter so far
    ret,        \* the result of ko_filter_eval
    final       \* the filter the event is attributed to, or None

vars == <<flat, prog, cfg, val, pc, k, res, ret, final>>
walker == <<val, pc, k, res, ret, final>>

EmptyProg == [loaded |-> FALSE, npreds |-> 0, preds |-> << >>]

\* BPFProg: the stream is copied into an array of MaxPreds elements and the rest
\* is cut off; NPreds is the length of the whole stream.
BPFProg(s) ==
    [loaded |-> TRUE, npreds |-> Len(s),
     preds |-> SubSeq(s, 1, IF Len(s) <= MaxPreds THEN Len(s) ELSE MaxPreds)]

\* No filter holds.
None == -1

Valuation == [1..Len(flat) -> BOOLEAN]
Verdict == {"DROP", "UNDECIDED", "UNFILTERED", "INDEX"}

TypeOK ==
    /\ flat \in Seq(Pred)
    /\ prog = EmptyProg \/ prog = BPFProg(flat)
    /\ cfg \in {0, 1}
    /\ val \in Valuation
    /\ pc \in {"idle", "walk", "ret", "done"}
    /\ k \in Nat
    /\ res \in {"TRUE", "FALSE", "UNKNOWN"}
    /\ ret \in [verdict : Verdict, idx : Nat]
    /\ final \in Nat \cup {None}

Init ==
    /\ flat \in Streams
    /\ prog = EmptyProg
    /\ cfg = 0
    /\ val = [i \in 1..Len(flat) |-> FALSE]
    /\ pc = "idle"
    /\ k = 1
    /\ res = "TRUE"
    /\ ret = [verdict |-> "DROP", idx |-> 0]
    /\ final = None

-----------------------------------------------------------------------------
(* The reference: CEL over the whole filter list. *)

Ends == {e \in 1..Len(flat) : flat[e].kind = "END"}

\* The predicates of the filter that ends (or will end) at position e.
InSegment(j, e) ==
    /\ j < e
    /\ \A i \in j..(e - 1) : flat[i].kind # "END"

CelTrue(e) ==
    IF flat[e].user THEN val[e] ELSE \A j \in 1..Len(flat) : InSegment(j, e) => val[j]

\* Evaluate: the first filter that holds.
FirstMatch(e) == CelTrue(e) /\ \A d \in Ends : d < e => ~CelTrue(d)

-----------------------------------------------------------------------------
(* startFilters: the program first, the switch last. *)

\* Mutations of LoadProg: the switch is thrown before the program is loaded; the
\* last marker is not copied.
LoadProgShort ==
    /\ flat # << >>
    /\ ~prog.loaded
    /\ prog' = BPFProg(SubSeq(flat, 1, Len(flat) - 1))
    /\ UNCHANGED <<flat, cfg, walker>>
LoadProgLate ==
    /\ flat # << >>
    /\ ~prog.loaded
    /\ \/ cfg = 0 /\ cfg' = 1 /\ UNCHANGED prog
       \/ cfg = 1 /\ prog' = BPFProg(flat) /\ UNCHANGED cfg
    /\ UNCHANGED <<flat, walker>>

LoadProg ==
    /\ flat # << >>
    /\ ~prog.loaded
    /\ prog' = BPFProg(flat)
    /\ UNCHANGED <<flat, cfg, walker>>

Enable ==
    /\ cfg = 0
    /\ flat # << >> => prog.loaded
    /\ cfg' = 1
    /\ UNCHANGED <<flat, prog, walker>>

-----------------------------------------------------------------------------
(* ko_filter_eval. *)

Return(v, i) ==
    /\ ret' = [verdict |-> v, idx |-> i]
    /\ pc' = "ret"
    /\ UNCHANGED <<flat, prog, cfg, val, k, res, final>>

Goto(n, r) ==
    /\ k' = n
    /\ res' = r
    /\ UNCHANGED <<flat, prog, cfg, val, pc, ret, final>>

\* An event arrives.  Without an enabled filter it goes to Go as it is; with an
\* empty program it is dropped.
Arrive ==
    /\ pc = "idle"
    /\ val' \in Valuation
    /\ k' = 1
    /\ res' = "TRUE"
    /\ final' = None
    /\ \/ cfg = 0 /\ pc' = "ret" /\ ret' = [verdict |-> "UNFILTERED", idx |-> 0]
       \/ cfg = 1 /\ ~prog.loaded /\ pc' = "ret" /\ ret' = [verdict |-> "DROP", idx |-> 0]
       \/ cfg = 1 /\ prog.loaded /\ pc' = "walk" /\ UNCHANGED ret
    /\ UNCHANGED <<flat, prog, cfg>>

AtEnd == k > MaxPreds \/ k > prog.npreds
Here(kind) == pc = "walk" /\ ~AtEnd /\ prog.preds[k].kind = kind

WalkOut == pc = "walk" /\ AtEnd /\ Return("DROP", 0)

\* CMP and IPSET: decided from the event.
WalkCmp == Here("CMP") /\ Goto(k + 1, IF val[k] THEN res ELSE "FALSE")

\* ATTR: decided from the verdict entry, unknown without one.
WalkAttr ==
    /\ Here("ATTR")
    /\ \/ Goto(k + 1, IF val[k] THEN res ELSE "FALSE")
       \/ Goto(k + 1, IF res = "TRUE" THEN "UNKNOWN" ELSE res)

\* Mutations of WalkEnd: a false filter is deferred too; an unknown filter is
\* passed over instead of deferred.
WalkEndDefersFalse ==
    /\ Here("END")
    /\ \/ prog.preds[k].user /\ Return("UNDECIDED", 0)
       \/ ~prog.preds[k].user /\ res = "TRUE" /\ Return("INDEX", prog.preds[k].a)
       \/ ~prog.preds[k].user /\ res # "TRUE" /\ Return("UNDECIDED", 0)
WalkEndSkipsUnknown ==
    /\ Here("END")
    /\ \/ prog.preds[k].user /\ Return("UNDECIDED", 0)
       \/ ~prog.preds[k].user /\ res = "TRUE" /\ Return("INDEX", prog.preds[k].a)
       \/ ~prog.preds[k].user /\ res # "TRUE" /\ Goto(k + 1, "TRUE")

\* END: a userspace or unknown filter defers the event, a true one takes it, a
\* false one is passed over.
WalkEnd ==
    /\ Here("END")
    /\ \/ prog.preds[k].user /\ Return("UNDECIDED", 0)
       \/ ~prog.preds[k].user /\ res = "TRUE" /\ Return("INDEX", prog.preds[k].a)
       \/ ~prog.preds[k].user /\ res = "UNKNOWN" /\ Return("UNDECIDED", 0)
       \/ ~prog.preds[k].user /\ res = "FALSE" /\ Goto(k + 1, "TRUE")

-----------------------------------------------------------------------------
(* The read loop of tracer.Run and resolveFilter. *)

Finish(f) ==
    /\ final' = f
    /\ pc' = "done"
    /\ UNCHANGED <<flat, prog, cfg, val, k, res, ret>>

\* Evaluate runs the filters in order; the first that holds names the event.
Evaluate ==
    \/ \E e \in Ends : FirstMatch(e) /\ Finish(flat[e].a)
    \/ (\A e \in Ends : ~CelTrue(e)) /\ Finish(None)

Decide ==
    /\ pc = "ret"
    /\ \/ ret.verdict = "DROP" /\ Finish(None)
       \/ ret.verdict = "INDEX" /\ Finish(ret.idx)
       \/ ret.verdict \in {"UNDECIDED", "UNFILTERED"} /\ Evaluate

NextEvent ==
    /\ pc = "done"
    /\ pc' = "idle"
    /\ UNCHANGED <<flat, prog, cfg, val, k, res, ret, final>>

Next ==
    \/ LoadProg \/ Enable \/ Arrive
    \/ WalkOut \/ WalkCmp \/ WalkAttr \/ WalkEnd
    \/ Decide \/ NextEvent

Spec == Init /\ [][Next]_vars

-----------------------------------------------------------------------------
(* Properties. *)

\* The stream fits in the kernel's array.
Fits == Len(flat) <= MaxPreds

\* What the event is attributed to is what CEL says, whoever decided it.
Exact ==
    pc = "done" =>
        \/ \E e \in Ends : FirstMatch(e) /\ final = flat[e].a
        \/ (\A e \in Ends : ~CelTrue(e)) /\ final = None

\* The kernel and Go agree with CEL on every event, whether it arrives before the
\* filters are loaded, while verdicts are missing, or evicted in mid-walk: an
\* index names the first filter that holds and a drop means none does, provided
\* the stream fits.
DecisionExact == Fits => Exact

\* The kernel defers only where it must: to a userspace filter, or to a filter
\* with an attribute predicate, and only when every earlier filter is false.
DeferOnlyIfNeeded ==
    pc = "ret" /\ ret.verdict = "UNDECIDED" =>
        \E e \in Ends :
            /\ \/ flat[e].user
               \/ \E j \in 1..Len(flat) : InSegment(j, e) /\ flat[j].kind = "ATTR"
            /\ \A d \in Ends : d < e => ~CelTrue(d)

\* The walk so far: every filter before k is pushed down and false, and "res"
\* sums up the predicates of the current one.
WalkOK ==
    pc = "walk" =>
        /\ prog = BPFProg(flat)
        /\ k \in 1..(Len(flat) + 1)
        /\ \A e \in Ends : e < k => ~flat[e].user /\ ~CelTrue(e)
        /\ res = "TRUE" => \A j \in 1..Len(flat) : InSegment(j, k) => val[j]
        /\ res = "FALSE" => \E j \in 1..Len(flat) : InSegment(j, k) /\ ~val[j]
        /\ res = "UNKNOWN" => \E j \in 1..Len(flat) : InSegment(j, k) /\ flat[j].kind = "ATTR"

\* What the kernel returned is justified by the event.
RetOK ==
    pc = "ret" =>
        /\ ret.verdict = "INDEX" => \E e \in Ends : FirstMatch(e) /\ ret.idx = flat[e].a
        /\ ret.verdict = "DROP" /\ Fits => \A e \in Ends : ~CelTrue(e)

\* An enabled filter has its program.
LoadOK == cfg = 1 => flat = << >> \/ prog = BPFProg(flat)

\* The inductive invariant of the walk.
WalkInv == TypeOK /\ LoadOK /\ WalkOK /\ RetOK /\ DeferOnlyIfNeeded /\ DecisionExact

\* "Filters that cannot be expressed this way emit an END marker flagged userspace
\* and are resolved in Go": so for every stream Compile accepts.
DecisionAlwaysExact == Exact
=============================================================================
