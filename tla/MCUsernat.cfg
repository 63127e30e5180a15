CONSTANTS
    Flows <- MCFlows
    SourceOf <- MCSourceOf
    PortZero <- MCPortZero
    Ports = {1, 2}
    CyclesToLive = 2
    NULL = NULL
    MaxLinks = 3
    MaxPackets = 4
SPECIFICATION FairSpec
INVARIANTS TypeOK NothingLost AnswerPending LookupsAgree PointersLive
PROPERTIES PidKept QueuedGetsWritten
CHECK_DEADLOCK FALSE
