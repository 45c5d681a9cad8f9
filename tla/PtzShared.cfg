SPECIFICATION Spec
CONSTANTS
    gimbal = gimbal
    fixed = fixed
    Cameras <- BothCameras
    Lo <- Lows
    Hi <- Highs
    Values <- Requests
    CurReads <- Always
    Pinned = TRUE
    NULL = NULL
    Nobody = Nobody
INVARIANTS
    PositionAgrees
    StaysInRange
PROPERTY
    OneAxisPerSet
