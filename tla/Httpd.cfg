\* Two clients for one place: routing, pieces, keep-alive, limits, timers.
SPECIFICATION Spec
CONSTANTS
    c1 = c1
    c2 = c2
    Clients = {c1, c2}
    MaxConns = 1
    MaxHeader = 2
    MaxBody = 1
    MaxSegments = 8
    MaxClean = 64
    Param = Param
    Routes <- MCRoutes
    AuthEnabled = TRUE
    Parts = 2
    Requests <- MCRequests
    MaxRequests = 2
    MaxFaults = 1
INVARIANTS
    ConnsExact
    AnswersExact
PROPERTIES
    KeepAlive
    ReadsAll
    
CHECK_DEADLOCK FALSE
