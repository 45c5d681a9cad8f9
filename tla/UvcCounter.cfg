\* A pause does not reset the timeout count.
SPECIFICATION Spec
CONSTANTS
    DISCONNECT_TIMEOUT_COUNT = 2
    RECONNECT_MAX_RETRIES = 1
    ResetRearmFrames = 1
    MaxFrames = 1
    QueueCap = 1
    Configs <- WedgeConfigs
    FLUSH_SENTINEL = FLUSH_SENTINEL
    NoItem = NoItem
PROPERTY
    DisconnectNeedsSilence
