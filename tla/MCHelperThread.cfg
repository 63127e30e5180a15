CONSTANTS
    AsyncReqs = {a1, a2, a3}
    SyncReqs = {s1}
    NULL = NULL
    MaxInterrupts = 1
SPECIFICATION FairSpec
INVARIANTS TypeOK InOrder
PROPERTY AwakeAnswers
CHECK_DEADLOCK FALSE
