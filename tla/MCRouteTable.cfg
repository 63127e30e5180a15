CONSTANTS
    W = 2
    Tuns = {t1, t2}
    NULL = NULL
    MaxLinks = 3
    MaxDrift = 1
SPECIFICATION Spec
SYMMETRY TunSymmetry
INVARIANTS TypeOK RoutesSorted MatchIsLongest DisjointComplete
PROPERTY ImplementsRouteSet
CHECK_DEADLOCK FALSE
