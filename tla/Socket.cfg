\* Elements start, stop and restart while clients connect, under fairness.
SPECIFICATION ServiceSpec
CONSTANTS
    e1 = e1
    e2 = e2
    p1 = p1
    k1 = k1
    k2 = k2
    Elements <- TwoElements
    Clients = {k1, k2}
    ExplicitPaths <- Configured
    MidSession = FALSE
    Casts <- Every
    MaxBinds = 2
    MaxFaults = 1
    NULL = NULL
    NoSock = NoSock
    Wakeup = Wakeup
INVARIANTS
    NoDeadDescriptor
    StoppedLeavesNothing
    PathReachesServer
PROPERTIES
    StopEnds
    CommandsAnswered
