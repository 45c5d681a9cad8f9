\* A client that connects and stays silent.
SPECIFICATION ThreadsSpec
CONSTANTS
    e1 = e1
    e2 = e2
    p1 = p1
    k1 = k1
    k2 = k2
    Elements <- OneElement
    Clients = {k1}
    ExplicitPaths <- Configured
    MidSession = FALSE
    Casts <- Alone
    MaxBinds = 1
    MaxFaults = 0
    NULL = NULL
    NoSock = NoSock
    Wakeup = Wakeup
PROPERTY
    StopEnds
