\* The deep one-shot is not re-armed.
SPECIFICATION Spec
CONSTANTS
    DISCONNECT_TIMEOUT_COUNT = 1
    RECONNECT_MAX_RETRIES = 1
    ResetRearmFrames = 1
    MaxFrames = 2
    QueueCap = 2
    Configs <- WedgeConfigs
    FLUSH_SENTINEL = FLUSH_SENTINEL
    NoItem = NoItem
INVARIANT
    DeepRearmed
