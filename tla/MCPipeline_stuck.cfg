\* The exporter's output may hang for ever, so the agent may stop for good.
CONSTANTS
    Configs <- UsualOnly
    Exporter = {e1}
    ChanCap = 1
    QueueCap = 1
    MaxRecords = 6
SPECIFICATION Spec
PROPERTY
    NeverStalls
CHECK_DEADLOCK FALSE
