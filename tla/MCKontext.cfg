\* Two callers and the resync loop; a container that comes and goes.
CONSTANTS
    Cgroup = {1}
    KeyBits = 1
    Caller = {"tracer", "consumer"}
    MinSync = 1
    MaxCont = 1
    MaxErrors = 1
    MaxTime = 2
SPECIFICATION Spec
INVARIANT
    TypeOK
PROPERTIES
    MissesSpaced
    Converges
