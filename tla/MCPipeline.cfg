\* An exporter behind queues of two, whose output takes every line.
CONSTANTS
    Configs <- MetricsApart
    Exporter = {e1}
    ChanCap = 2
    QueueCap = 2
    MaxRecords = 4
SPECIFICATION WriteSpec
INVARIANTS
    TypeOK
    InOrder
    NothingLost
    NoSilentStop
PROPERTIES
    Delivered
    Stops
