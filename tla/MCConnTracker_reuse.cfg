\* One address is reused by connects and accepted sockets while runs are missed
\* and the agent restarts.
CONSTANTS
    Sock = {s1}
    MaxEntries = 1
    RingCap = 1
    ProbeInterval = 1
    MaxSock = 2
    MaxConn = 2
    MaxTime = 1
    MaxRetrans = 1
    MaxSkips = 1
    MaxRestarts = 1
SPECIFICATION Spec
INVARIANTS
    Attribution
    AtMostOneEnd
CHECK_DEADLOCK FALSE
