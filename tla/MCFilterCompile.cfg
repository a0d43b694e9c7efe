\* Every kind of comparison, nested; every short prefix list; streams longer than the array.
CONSTANTS
    ByteBits = 2
    V4 = 2
    MaxIPSet = 2
    IntBits = 3
    MaxAtoms = 3
    MaxFilters = 2
    Limit = 6
    Texts <- MCTexts
    builtinLists <- MCLists
    Configs <- MCConfigs
    EventsOf <- MCEventsOf
SPECIFICATION Spec
INVARIANTS
    KernelExactOnPlain
    MachineExactOnPlain
