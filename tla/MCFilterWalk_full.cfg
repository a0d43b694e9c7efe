\* The kernel's array is as long as the limit Compile enforces.
CONSTANTS
    Streams <- MCStreams
    MaxPreds = 3
    MaxFilters = 3
    MaxConj = 2
    Limit = 3
SPECIFICATION Spec
INVARIANT
    DecisionAlwaysExact
