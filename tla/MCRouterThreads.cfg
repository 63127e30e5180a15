CONSTANTS
    Tuns = {t1, nat}
    FdTuns = {t1}
    Dev = dev
    NULL = NULL
    NumNets = 1
    Threads = {c1, c2}
    MaxCalls = 2
    MaxEvents = 1
SPECIFICATION Spec
SYMMETRY Symmetry
INVARIANTS TypeOK RefsCoverHolders SlotsFit SlotsCurrent
CHECK_DEADLOCK FALSE
