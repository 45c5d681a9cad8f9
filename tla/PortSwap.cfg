\* Another device arrives between a check and a write.
SPECIFICATION Spec
CHECK_DEADLOCK FALSE
CONSTANTS
    p1 = p1
    p2 = p2
    camera = camera
    other = other
    Ports <- TwoPorts
    Port = p1
    Idents <- TwoIdents
    Ours = camera
    BusMoves = TRUE
    MaxFaults = 0
    None = None
INVARIANT
    OthersUntouched
