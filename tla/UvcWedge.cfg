\* The wedge-recovery ladder, deep rung included, against every interleaving.
SPECIFICATION Spec
CONSTANTS
    DISCONNECT_TIMEOUT_COUNT = 1
    RECONNECT_MAX_RETRIES = 2
    ResetRearmFrames = 2
    MaxFrames = 3
    QueueCap = 2
    Configs <- WedgeConfigs
    FLUSH_SENTINEL = FLUSH_SENTINEL
    NoItem = NoItem
INVARIANTS
    TypeOK
    HandleDiscipline
    StreamingIsRunning
    SessionLeavesNothing
    ReopenOnFreshContext
    FlushReachesWaiter
    NoStaleFrame
    ReopenLeadsWithKey
    ResetNeedsProof
PROPERTIES
    RecoveryProven
    LinkSpec
