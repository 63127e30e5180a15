CONSTANTS
    Tuns = {t1, t2}
    NULL = NULL
    MaxReports = 0
SPECIFICATION Spec
INVARIANT SingleInstance
CHECK_DEADLOCK FALSE
