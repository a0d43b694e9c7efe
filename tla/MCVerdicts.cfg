\* One container; one call fails.
CONSTANTS
    Cgroup = {g1}
    AttrsOf <- MCAttrsOf
    Match <- MCMatch
    Worlds <- MCWorlds
    MaxErrors = 1
    MaxRing = 1
SPECIFICATION Spec
INVARIANTS
    TypeOK
    VerdictsOwn
PROPERTIES
    SettledStays
    VerdictsConverge
    DecisionsConverge
