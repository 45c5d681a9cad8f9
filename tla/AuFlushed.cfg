SPECIFICATION Spec
CONSTANTS
    Formats <- H264Only
    KeyNals <- H264Keys
    OtherNals <- H264Others
    PpsCount = 1
    MayExceed = {}
INVARIANT
    SetsHeld
