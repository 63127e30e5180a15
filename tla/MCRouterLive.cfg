CONSTANTS
    Tuns = {t1}
    FdTuns = {t1}
    Dev = dev
    NULL = NULL
    NumNets = 1
    Threads = {c1}
    MaxCalls = 2
    MaxEvents = 1
SPECIFICATION FairSpec
PROPERTIES RoutedGetsPolled 
CHECK_DEADLOCK FALSE
