SPECIFICATION Spec
CONSTANTS
    Formats <- H265Only
    KeyNals <- H265Keys
    OtherNals <- WithTrailN
    PpsCount = 1
    MayExceed = {}
INVARIANT
    OneUnitPerPicture
