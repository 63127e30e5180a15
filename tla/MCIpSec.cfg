CONSTANTS
    Tuns = {t1, t2}
    NULL = NULL
    MaxReports = 1
SPECIFICATION Spec
INVARIANTS TypeOK 
PROPERTY ConnectingComesFirst
CHECK_DEADLOCK FALSE
SYMMETRY TunSymmetry
