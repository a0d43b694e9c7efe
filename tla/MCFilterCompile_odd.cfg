\* Comparisons that are not plain.
CONSTANTS
    ByteBits = 2
    V4 = 2
    MaxIPSet = 2
    IntBits = 3
    MaxAtoms = 3
    MaxFilters = 2
    Limit = 6
    Texts <- MCTexts
    builtinLists <- MCLists
    Configs <- OddConfigs
    EventsOf <- MCEventsOf
SPECIFICATION Spec
INVARIANT
    KernelExact
