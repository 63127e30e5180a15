CONSTANTS
    NULL = NULL
    a = a
    b = b
    home = home
    Uuids = {a, b}
    Ssids = {home}
    Data <- MCData
    Lists <- MCLists
    Devices <- MCDevices
    MaxTuns = 2
    MaxIntents = 1
    MaxPrepares = 1
SPECIFICATION Spec
INVARIANTS TypeOK OneTunnel RouterForTunnels PendingServed SelectionFresh
PROPERTIES OnDemandFollows OnDemandSurvives
