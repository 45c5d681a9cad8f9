\* A stop sits out no timer of the ladder; silence and wedges end.
SPECIFICATION FairSpec
CONSTANTS
    DISCONNECT_TIMEOUT_COUNT = 1
    RECONNECT_MAX_RETRIES = 1
    ResetRearmFrames = 1
    MaxFrames = 1
    QueueCap = 1
    Configs <- MixedConfigs
    FLUSH_SENTINEL = FLUSH_SENTINEL
    NoItem = NoItem
PROPERTIES
    StopSkipsTimers
    SilenceResolves
    WedgeReported
