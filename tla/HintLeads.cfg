\* Where the rate and the hints differ from what is said of them.
\* Each property fails: keep one to see its counterexample.
SPECIFICATION Spec
CONSTANTS
    MAX_PAYLOAD_MIN_LEGAL = 2
    MAX_PAYLOAD_MAX = 4
    TRANSFER_BUFFERS_MIN = 2
    TRANSFER_BUFFERS_MAX = 3
    PayloadRequests = {0, 1, 9}
    BufferRequests = {0, 9}
    Links <- AllLinks
    Cameras <- AllCameras
    Peers <- AllPeers
    QuirkTable <- Rows
    NoStream = NoStream
    NoChoice = NoChoice
INVARIANTS
    HighestRate
    UnappliedReadsRequested
PROPERTY
    RearmSurvivesHint
