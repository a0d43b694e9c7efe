-------------------------- MODULE FilterWalkProofs --------------------------
(***************************************************************************)
(* The decision on an event is what CEL says, for every predicate stream   *)
(* and for every timing of the verdict map.                                *)
(***************************************************************************)
EXTENDS FilterWalk, TLAPS

\* The copy in the kernel agrees with the stream as far as the walk goes.
LEMMA ProgElement ==
    ASSUME NEW s \in Seq(Pred), NEW n \in 1..Len(s), n <= MaxPreds
    PROVE  BPFProg(s).npreds = Len(s) /\ BPFProg(s).preds[n] = s[n] /\ s[n] \in Pred
  BY FilterWalkAssumption DEF BPFProg

\* A predicate extends the current segment by itself; a marker starts a new one.
LEMMA SegmentGrows ==
    ASSUME NEW n \in 1..Len(flat), flat \in Seq(Pred), flat[n].kind # "END", NEW j \in 1..Len(flat)
    PROVE  InSegment(j, n + 1) <=> InSegment(j, n) \/ j = n
  BY DEF InSegment
LEMMA SegmentRestarts ==
    ASSUME NEW n \in 1..Len(flat), flat \in Seq(Pred), flat[n].kind = "END", NEW j \in 1..Len(flat)
    PROVE  ~InSegment(j, n + 1)
  BY DEF InSegment

\* A step that leaves the stream and the event alone leaves the reference alone.
LEMMA SameReference ==
    ASSUME flat' = flat, val' = val
    PROVE  /\ Ends' = Ends
           /\ \A j, e : InSegment(j, e)' <=> InSegment(j, e)
           /\ \A e : CelTrue(e)' <=> CelTrue(e)
           /\ \A e : FirstMatch(e)' <=> FirstMatch(e)
           /\ Fits' <=> Fits
  <1>1. Ends' = Ends /\ (Fits' <=> Fits)
    BY DEF Ends, Fits
  <1>2. \A j, e : InSegment(j, e)' <=> InSegment(j, e)
    BY DEF InSegment
  <1>3. \A e : CelTrue(e)' <=> CelTrue(e)
    BY <1>2 DEF CelTrue
  <1> QED BY <1>1, <1>2, <1>3 DEF FirstMatch

\* The position of the walk and what is there.
LEMMA AtElement ==
    ASSUME WalkInv, NEW kind, Here(kind)
    PROVE  /\ k \in 1..Len(flat) /\ k <= MaxPreds /\ prog.preds[k] = flat[k]
           /\ flat[k] \in Pred /\ flat[k].kind = kind
  <1>1. pc = "walk" /\ prog = BPFProg(flat) /\ k \in 1..(Len(flat) + 1) /\ flat \in Seq(Pred)
    BY DEF Here, WalkInv, WalkOK, TypeOK
  <1>2. ~(k > MaxPreds) /\ ~(k > Len(flat))
    BY <1>1 DEF Here, AtEnd, BPFProg
  <1>3. k \in 1..Len(flat) /\ k <= MaxPreds
    BY <1>1, <1>2, FilterWalkAssumption
  <1> QED BY <1>1, <1>3, ProgElement DEF Here

\* A predicate: the segment grows by k, and the summary takes val[k] in.
LEMMA PredStep ==
    ASSUME WalkInv, WalkCmp \/ WalkAttr
    PROVE  WalkInv'
  <1>1. PICK kind \in {"CMP", "ATTR"}, r \in {"TRUE", "FALSE", "UNKNOWN"} :
            /\ Here(kind) /\ Goto(k + 1, r)
            /\ \/ r = (IF val[k] THEN res ELSE "FALSE")
               \/ kind = "ATTR" /\ r = (IF res = "TRUE" THEN "UNKNOWN" ELSE res)
    <2>1. res \in {"TRUE", "FALSE", "UNKNOWN"}
      BY DEF WalkInv, TypeOK
    <2>2. CASE WalkCmp
      BY <2>1, <2>2 DEF WalkCmp
    <2>3. CASE WalkAttr
      BY <2>1, <2>3 DEF WalkAttr
    <2> QED BY <2>2, <2>3
  <1>2. /\ k \in 1..Len(flat) /\ flat[k].kind = kind /\ kind # "END" /\ pc = "walk"
        /\ flat \in Seq(Pred)
    BY <1>1, AtElement DEF Here, WalkInv, TypeOK
  <1>3. /\ k' = k + 1 /\ res' = r
        /\ UNCHANGED <<flat, prog, cfg, val, pc, ret, final>>
    BY <1>1 DEF Goto
  <1>4. TypeOK' /\ LoadOK'
    BY <1>1, <1>2, <1>3 DEF WalkInv, TypeOK, LoadOK, Valuation
  <1>5. \A j \in 1..Len(flat) : InSegment(j, k + 1) <=> InSegment(j, k) \/ j = k
    BY <1>2, SegmentGrows
  <1>6. WalkOK'
    <2>1. /\ prog = BPFProg(flat) /\ k + 1 \in 1..(Len(flat) + 1)
          /\ \A e \in Ends : e < k + 1 => ~flat[e].user /\ ~CelTrue(e)
      <3>1. \A e \in Ends : e < k => ~flat[e].user /\ ~CelTrue(e)
        BY <1>2 DEF WalkInv, WalkOK
      <3>2. \A e \in Ends : e < k + 1 => e < k
        BY <1>2 DEF Ends
      <3> QED BY <1>2, <3>1, <3>2 DEF WalkInv, WalkOK
    <2>2. r = "TRUE" => \A j \in 1..Len(flat) : InSegment(j, k + 1) => val[j]
      <3>1. r = "TRUE" => res = "TRUE" /\ val[k]
        BY <1>1
      <3> QED BY <1>2, <1>5, <3>1 DEF WalkInv, WalkOK
    <2>3. r = "FALSE" => \E j \in 1..Len(flat) : InSegment(j, k + 1) /\ ~val[j]
      <3>1. r = "FALSE" => res = "FALSE" \/ ~val[k]
        BY <1>1
      <3> QED BY <1>2, <1>5, <3>1 DEF WalkInv, WalkOK
    <2>4. r = "UNKNOWN" => \E j \in 1..Len(flat) : InSegment(j, k + 1) /\ flat[j].kind = "ATTR"
      <3>1. r = "UNKNOWN" => res = "UNKNOWN" \/ kind = "ATTR"
        BY <1>1
      <3> QED BY <1>2, <1>5, <3>1 DEF WalkInv, WalkOK
    <2> QED BY <1>3, <2>1, <2>2, <2>3, <2>4, SameReference DEF WalkOK
  <1>7. RetOK' /\ DeferOnlyIfNeeded' /\ DecisionExact'
    BY <1>2, <1>3 DEF RetOK, DeferOnlyIfNeeded, DecisionExact, Exact
  <1> QED BY <1>4, <1>6, <1>7 DEF WalkInv

\* A marker: the filter that ends here is true, false or undecided, and all before
\* it are false.
LEMMA EndStep ==
    ASSUME WalkInv, WalkEnd
    PROVE  WalkInv'
  <1>1. /\ k \in 1..Len(flat) /\ flat[k].kind = "END" /\ pc = "walk" /\ flat \in Seq(Pred)
        /\ flat[k] \in Pred /\ prog.preds[k] = flat[k] /\ k \in Ends
    BY AtElement DEF WalkEnd, Here, WalkInv, TypeOK, Ends
  <1>2. /\ prog = BPFProg(flat)
        /\ \A e \in Ends : e < k => ~flat[e].user /\ ~CelTrue(e)
        /\ res = "TRUE" => \A j \in 1..Len(flat) : InSegment(j, k) => val[j]
        /\ res = "FALSE" => \E j \in 1..Len(flat) : InSegment(j, k) /\ ~val[j]
        /\ res = "UNKNOWN" => \E j \in 1..Len(flat) : InSegment(j, k) /\ flat[j].kind = "ATTR"
    BY <1>1 DEF WalkInv, WalkOK
  <1>3. CASE ~flat[k].user /\ res = "FALSE" /\ Goto(k + 1, "TRUE")
    <2>1. k' = k + 1 /\ res' = "TRUE" /\ UNCHANGED <<flat, prog, cfg, val, pc, ret, final>>
      BY <1>3 DEF Goto
    <2>2. TypeOK' /\ LoadOK'
      BY <1>1, <2>1 DEF WalkInv, TypeOK, LoadOK, Valuation
    <2>3. ~CelTrue(k)
      BY <1>2, <1>3 DEF CelTrue
    <2>4. \A e \in Ends : e < k + 1 => e < k \/ e = k
      BY <1>1 DEF Ends
    <2>5. \A e \in Ends : e < k + 1 => ~flat[e].user /\ ~CelTrue(e)
      BY <1>2, <1>3, <2>3, <2>4
    <2>6. \A j \in 1..Len(flat) : ~InSegment(j, k + 1)
      BY <1>1, SegmentRestarts
    <2>7. WalkOK'
      BY <1>1, <1>2, <2>1, <2>5, <2>6, SameReference DEF WalkOK
    <2>8. RetOK' /\ DeferOnlyIfNeeded' /\ DecisionExact'
      BY <1>1, <2>1 DEF RetOK, DeferOnlyIfNeeded, DecisionExact, Exact
    <2> QED BY <2>2, <2>7, <2>8 DEF WalkInv
  <1>4. CASE ~flat[k].user /\ res = "TRUE" /\ Return("INDEX", flat[k].a)
    <2>1. /\ ret' = [verdict |-> "INDEX", idx |-> flat[k].a] /\ pc' = "ret"
          /\ UNCHANGED <<flat, prog, cfg, val, k, res, final>>
      BY <1>4 DEF Return
    <2>2. TypeOK' /\ LoadOK'
      BY <1>1, <2>1 DEF WalkInv, TypeOK, LoadOK, Valuation, Verdict, Pred
    <2>3. FirstMatch(k)
      BY <1>2, <1>4 DEF FirstMatch, CelTrue
    <2>4. RetOK'
      BY <1>1, <2>1, <2>3, SameReference DEF RetOK
    <2> QED BY <2>1, <2>2, <2>4 DEF WalkInv, WalkOK, DeferOnlyIfNeeded, DecisionExact, Exact
  <1>5. CASE (flat[k].user \/ res = "UNKNOWN") /\ Return("UNDECIDED", 0)
    <2>1. /\ ret' = [verdict |-> "UNDECIDED", idx |-> 0] /\ pc' = "ret"
          /\ UNCHANGED <<flat, prog, cfg, val, k, res, final>>
      BY <1>5 DEF Return
    <2>2. TypeOK' /\ LoadOK'
      BY <1>1, <2>1 DEF WalkInv, TypeOK, LoadOK, Valuation, Verdict
    <2>3. DeferOnlyIfNeeded'
      <3>1. /\ flat[k].user \/ \E j \in 1..Len(flat) : InSegment(j, k) /\ flat[j].kind = "ATTR"
            /\ \A d \in Ends : d < k => ~CelTrue(d)
        BY <1>2, <1>5
      <3> QED BY <1>1, <2>1, <3>1, SameReference DEF DeferOnlyIfNeeded
    <2>4. RetOK'
      BY <2>1 DEF RetOK
    <2> QED BY <2>1, <2>2, <2>3, <2>4 DEF WalkInv, WalkOK, DecisionExact, Exact
  <1> QED BY <1>1, <1>3, <1>4, <1>5 DEF WalkEnd

\* The end of the stream: every filter was false, if the stream was not cut off.
LEMMA OutStep ==
    ASSUME WalkInv, WalkOut
    PROVE  WalkInv'
  <1>1. /\ pc = "walk" /\ AtEnd /\ pc' = "ret" /\ ret' = [verdict |-> "DROP", idx |-> 0]
        /\ UNCHANGED <<flat, prog, cfg, val, k, res, final>>
    BY DEF WalkOut, Return
  <1>2. TypeOK' /\ LoadOK'
    BY <1>1 DEF WalkInv, TypeOK, LoadOK, Valuation, Verdict
  <1>3. Fits => \A e \in Ends : ~CelTrue(e)
    <2> SUFFICES ASSUME Fits, NEW e \in Ends PROVE ~CelTrue(e)
      OBVIOUS
    <2>1. prog.npreds = Len(flat) /\ Len(flat) \in Nat /\ k \in Nat /\ Len(flat) <= MaxPreds
      BY <1>1 DEF WalkInv, WalkOK, TypeOK, BPFProg, Fits
    <2>2. k > Len(flat)
      BY <1>1, <2>1, FilterWalkAssumption DEF AtEnd
    <2>3. e < k
      BY <2>1, <2>2 DEF Ends
    <2> QED BY <1>1, <2>3 DEF WalkInv, WalkOK
  <1>4. RetOK'
    BY <1>1, <1>3, SameReference DEF RetOK
  <1> QED BY <1>1, <1>2, <1>4 DEF WalkInv, WalkOK, DeferOnlyIfNeeded, DecisionExact, Exact

\* An event arrives: before the switch it goes to Go; with the switch thrown and
\* no program there are no filters, so dropping it is right.
LEMMA ArriveStep ==
    ASSUME WalkInv, Arrive
    PROVE  WalkInv'
  <1>1. /\ k' = 1 /\ res' = "TRUE" /\ final' = None /\ val' \in Valuation
        /\ UNCHANGED <<flat, prog, cfg>> /\ flat \in Seq(Pred)
    BY DEF Arrive, WalkInv, TypeOK
  <1>2. TypeOK' /\ LoadOK'
    BY <1>1 DEF Arrive, WalkInv, TypeOK, LoadOK, Valuation, Verdict
  <1>3. WalkOK'
    <2> SUFFICES ASSUME pc' = "walk" PROVE WalkOK'
      BY DEF WalkOK
    <2>1. prog = BPFProg(flat)
      <3>1. prog.loaded
        BY DEF Arrive
      <3> QED BY <3>1 DEF WalkInv, TypeOK, EmptyProg
    <2>2. \A e \in Ends' : ~(e < 1)
      BY DEF Ends
    <2>3. \A j \in 1..Len(flat) : ~InSegment(j, 1)'
      BY <1>1 DEF InSegment
    <2> QED BY <1>1, <2>1, <2>2, <2>3 DEF WalkOK, BPFProg
  <1>4. RetOK'
    <2> SUFFICES ASSUME pc' = "ret", ret'.verdict # "UNFILTERED" PROVE RetOK'
      BY DEF RetOK
    <2>1. cfg = 1 /\ ~prog.loaded /\ ret'.verdict = "DROP"
      BY DEF Arrive
    <2>2. flat = << >>
      BY <2>1 DEF WalkInv, LoadOK, BPFProg
    <2>3. Ends' = {}
      BY <1>1, <2>2 DEF Ends
    <2> QED BY <2>1, <2>3 DEF RetOK
  <1>5. DeferOnlyIfNeeded' /\ DecisionExact'
    BY DEF Arrive, DeferOnlyIfNeeded, DecisionExact, Exact
  <1> QED BY <1>2, <1>3, <1>4, <1>5 DEF WalkInv

\* startFilters: a walk only runs over a loaded program, which loading never
\* replaces.
LEMMA LoadStep ==
    ASSUME WalkInv, LoadProg \/ Enable
    PROVE  WalkInv'
  <1>1. UNCHANGED <<flat, walker>>
    BY DEF LoadProg, Enable
  <1>2. /\ prog' = BPFProg(flat) \/ prog' = prog
        /\ cfg' = cfg \/ (cfg' = 1 /\ prog' = prog /\ (flat # << >> => prog.loaded))
    BY DEF LoadProg, Enable
  <1>3. prog.loaded => prog = BPFProg(flat)
    BY DEF WalkInv, TypeOK, EmptyProg
  <1>4. TypeOK'
    BY <1>1, <1>2 DEF WalkInv, TypeOK, walker, Valuation, BPFProg
  <1>5. LoadOK'
    BY <1>1, <1>2, <1>3 DEF WalkInv, LoadOK
  <1>6. WalkOK'
    BY <1>1, <1>2, SameReference DEF WalkInv, WalkOK, walker
  <1>7. RetOK' /\ DeferOnlyIfNeeded' /\ DecisionExact'
    BY <1>1, SameReference DEF WalkInv, RetOK, DeferOnlyIfNeeded, DecisionExact, Exact, walker
  <1> QED BY <1>4, <1>5, <1>6, <1>7 DEF WalkInv

\* The read loop takes the kernel's word or evaluates CEL itself.
LEMMA DecideStep ==
    ASSUME WalkInv, Decide
    PROVE  WalkInv'
  <1>1. /\ pc = "ret" /\ pc' = "done"
        /\ UNCHANGED <<flat, prog, cfg, val, k, res, ret>>
    BY DEF Decide, Finish, Evaluate
  <1>2. /\ ret \in [verdict : Verdict, idx : Nat]
        /\ \A e \in Ends : flat[e].a \in Nat
    <2>1. \A e \in Ends : flat[e] \in Pred
      BY DEF WalkInv, TypeOK, Ends
    <2>2. \A e \in Ends : flat[e].a \in Nat
      BY <2>1 DEF Pred
    <2> QED BY <2>2 DEF WalkInv, TypeOK
  <1>3. final' \in Nat \cup {None}
    BY <1>2 DEF Decide, Finish, Evaluate
  <1>4. TypeOK' /\ LoadOK'
    BY <1>1, <1>3 DEF WalkInv, TypeOK, LoadOK, Valuation
  <1>5. Fits => \/ \E e \in Ends : FirstMatch(e) /\ final' = flat[e].a
                \/ (\A e \in Ends : ~CelTrue(e)) /\ final' = None
    <2>1. CASE ret.verdict = "DROP" /\ Finish(None)
      BY <1>1, <2>1 DEF WalkInv, RetOK, Finish
    <2>2. CASE ret.verdict = "INDEX" /\ Finish(ret.idx)
      BY <1>1, <2>2 DEF WalkInv, RetOK, Finish
    <2>3. CASE Evaluate
      BY <2>3 DEF Evaluate, Finish
    <2> QED BY <2>1, <2>2, <2>3 DEF Decide
  <1>6. DecisionExact'
    BY <1>1, <1>5, SameReference DEF DecisionExact, Exact
  <1> QED BY <1>1, <1>4, <1>6 DEF WalkInv, WalkOK, RetOK, DeferOnlyIfNeeded

LEMMA NextEventStep ==
    ASSUME WalkInv, NextEvent
    PROVE  WalkInv'
  BY DEF WalkInv, NextEvent, TypeOK, Valuation, LoadOK, WalkOK, RetOK, DeferOnlyIfNeeded,
         DecisionExact, Exact

\* WalkInv is inductive.
THEOREM WalkInvariance == Spec => []WalkInv
  <1>1. Init => WalkInv
    <2> SUFFICES ASSUME Init PROVE WalkInv
      OBVIOUS
    <2>1. TypeOK
      BY FilterWalkAssumption DEF Init, TypeOK, Valuation, Verdict, None
    <2> QED BY <2>1 DEF Init, WalkInv, LoadOK, WalkOK, RetOK, DeferOnlyIfNeeded, DecisionExact, Exact
  <1>2. WalkInv /\ [Next]_vars => WalkInv'
    <2> SUFFICES ASSUME WalkInv, [Next]_vars PROVE WalkInv'
      OBVIOUS
    <2>1. CASE LoadProg \/ Enable
      BY <2>1, LoadStep
    <2>2. CASE Arrive
      BY <2>2, ArriveStep
    <2>3. CASE WalkCmp \/ WalkAttr
      BY <2>3, PredStep
    <2>4. CASE WalkEnd
      BY <2>4, EndStep
    <2>5. CASE WalkOut
      BY <2>5, OutStep
    <2>6. CASE Decide
      BY <2>6, DecideStep
    <2>7. CASE NextEvent
      BY <2>7, NextEventStep
    <2>8. CASE UNCHANGED vars
      BY <2>8, SameReference DEF vars, WalkInv, TypeOK, Valuation, LoadOK, WalkOK, RetOK,
                                 DeferOnlyIfNeeded, DecisionExact, Exact
    <2> QED BY <2>1, <2>2, <2>3, <2>4, <2>5, <2>6, <2>7, <2>8 DEF Next
  <1> QED BY <1>1, <1>2, PTL DEF Spec

\* The walk's position, its three-valued result and the program the kernel holds keep
\* their types: in particular the kernel has no program, or the compiled one whole.
THEOREM WalkTypeCorrect == Spec => []TypeOK
  <1>1. WalkInv => TypeOK
    BY DEF WalkInv
  <1> QED BY <1>1, WalkInvariance, PTL

\* Every event is decided as CEL decides it, in the kernel or in Go, for every
\* stream that fits in the kernel's array and every timing of verdicts and loading.
THEOREM DecisionIsExact == Spec => []DecisionExact
  <1>1. WalkInv => DecisionExact
    BY DEF WalkInv
  <1> QED BY <1>1, WalkInvariance, PTL

\* The kernel hands an event to Go only for a userspace filter or an attribute.
THEOREM DefersOnlyIfNeeded == Spec => []DeferOnlyIfNeeded
  <1>1. WalkInv => DeferOnlyIfNeeded
    BY DEF WalkInv
  <1> QED BY <1>1, WalkInvariance, PTL
=============================================================================
