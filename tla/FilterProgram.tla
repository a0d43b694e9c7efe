--------------------------- MODULE FilterProgram ---------------------------
(***************************************************************************)
(* filter.Compile: from a list of filters to the flat predicate stream,    *)
(* with the limits it enforces.  A filter that is a conjunction of         *)
(* supported comparisons has the predicates conj returns; any other filter *)
(* is a userspace one, for which conj returns none.                        *)
(***************************************************************************)
EXTENDS Integers, Sequences, SequencesExt

CONSTANTS
    MaxFilters,     \* filter.MaxFilters
    Limit           \* filter.MaxPreds

ASSUME FilterProgramAssumption == Limit \in Nat

PushedDown(preds) == [user |-> FALSE, preds |-> preds]
Userspace == [user |-> TRUE, preds |-> << >>]

\* The predicates of the i-th filter and its END marker.
Segment(f, i) ==
    f.preds \o << [kind |-> "END", a |-> i, user |-> f.user] >>

\* npreds counts the pushed-down filters only, with their END markers.
NPreds(filters) ==
    FoldLeft(LAMBDA n, f : IF f.user THEN n ELSE n + Len(f.preds) + 1, 0, filters)

Accepted(filters) == Len(filters) \in 1..MaxFilters /\ NPreds(filters) <= Limit

Compile(filters) == FlattenSeq([i \in 1..Len(filters) |-> Segment(filters[i], i - 1)])
=============================================================================
