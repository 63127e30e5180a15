CONSTANTS
    Tuns = {t1, t2}
    FdTuns = {t1, t2}
    Dev = dev
    NULL = NULL
    NumNets = 2
    Threads = {c1}
    MaxCalls = 2
    MaxEvents = 1
SPECIFICATION Spec
INVARIANT MissMeansDeleted
CHECK_DEADLOCK FALSE
