\* Up to three filters of up to two predicates; most streams fit in the array.
CONSTANTS
    Streams <- MCStreams
    MaxPreds = 7
    MaxFilters = 3
    MaxConj = 2
    Limit = 6
SPECIFICATION Spec
INVARIANTS
    TypeOK
    DecisionExact
    DeferOnlyIfNeeded
