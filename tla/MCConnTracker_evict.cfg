\* Two addresses share a map with room for one entry and a one-record ring.
CONSTANTS
    Sock = {s1, s2}
    MaxEntries = 1
    RingCap = 1
    ProbeInterval = 1
    MaxSock = 2
    MaxConn = 2
    MaxTime = 2
    MaxRetrans = 0
    MaxSkips = 1
    MaxRestarts = 0
SPECIFICATION Spec
SYMMETRY SockSymmetry
INVARIANTS
    TypeOK
    EndsAccounted
    ProbeSpacing
PROPERTY
    ImplementsConnLog
CHECK_DEADLOCK FALSE
