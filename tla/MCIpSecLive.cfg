CONSTANTS
    Tuns = {t1}
    NULL = NULL
    MaxReports = 2
SPECIFICATION FairSpec
PROPERTIES TerminateReturns TerminatedEnds
CHECK_DEADLOCK FALSE
