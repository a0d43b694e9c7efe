\* One container.
CONSTANTS
    Cgroup = {g1}
    AttrsOf <- MCAttrsOf
    Match <- MCMatch
    Worlds <- MCWorlds
    MaxErrors = 0
    MaxRing = 1
SPECIFICATION Spec
PROPERTY
    VerifyAgrees
