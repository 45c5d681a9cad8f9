\* The bus moves before the rung, and is quiet while it runs.
SPECIFICATION Spec
CHECK_DEADLOCK FALSE
CONSTANTS
    p1 = p1
    p2 = p2
    camera = camera
    other = other
    Ports <- TwoPorts
    Port = p1
    Idents <- TwoIdents
    Ours = camera
    BusMoves = FALSE
    MaxFaults = 1
    None = None
INVARIANTS
    OthersUntouched
    ActedMeansRestored
    TargetSurvivesReset
