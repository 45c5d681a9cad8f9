\* The path property changes while the socket is bound.
SPECIFICATION Spec
CONSTANTS
    e1 = e1
    e2 = e2
    p1 = p1
    k1 = k1
    k2 = k2
    Elements <- OneElement
    Clients = {k1}
    ExplicitPaths <- Configured
    MidSession = TRUE
    Casts <- Alone
    MaxBinds = 2
    MaxFaults = 0
    NULL = NULL
    NoSock = NoSock
    Wakeup = Wakeup
INVARIANT
    StoppedLeavesNothing
