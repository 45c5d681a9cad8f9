\* The second write of a port cycle fails.
SPECIFICATION Spec
CHECK_DEADLOCK FALSE
CONSTANTS
    p1 = p1
    p2 = p2
    camera = camera
    other = other
    Ports <- TwoPorts
    Port = p1
    Idents <- TwoIdents
    Ours = camera
    BusMoves = FALSE
    MaxFaults = 1
    None = None
INVARIANT
    PortLeftEnabled
