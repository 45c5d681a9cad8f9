SPECIFICATION Spec
CONSTANTS
    Formats <- BothFormats
    KeyNals <- KeySlices
    OtherNals <- Trailing
    PpsCount = 1
    MayExceed = {"VPS"}
INVARIANTS
    OneUnitPerPicture
    DelimiterLeads
    DecoderHasSets
    NothingLost
