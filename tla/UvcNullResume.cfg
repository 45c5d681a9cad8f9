\* A pause during the backoff, then a resume.
SPECIFICATION Spec
CONSTANTS
    DISCONNECT_TIMEOUT_COUNT = 1
    RECONNECT_MAX_RETRIES = 1
    ResetRearmFrames = 1
    MaxFrames = 1
    QueueCap = 1
    Configs <- ReconnectConfigs
    FLUSH_SENTINEL = FLUSH_SENTINEL
    NoItem = NoItem
INVARIANT
    ResumeHasHandle
