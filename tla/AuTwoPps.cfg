SPECIFICATION Spec
CONSTANTS
    Formats <- H264Only
    KeyNals <- H264Keys
    OtherNals <- H264Others
    PpsCount = 2
    MayExceed = {}
INVARIANT
    DecoderHasSets
