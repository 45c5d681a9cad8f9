\* A wedge under reconnect=true is never reported.
SPECIFICATION FairSpec
CONSTANTS
    DISCONNECT_TIMEOUT_COUNT = 1
    RECONNECT_MAX_RETRIES = 1
    ResetRearmFrames = 1
    MaxFrames = 1
    QueueCap = 1
    Configs <- ReconnectConfigs
    FLUSH_SENTINEL = FLUSH_SENTINEL
    NoItem = NoItem
PROPERTY
    WedgeAlwaysReported
