\* Any negotiation, with the hints set and cleared at any moment.
SPECIFICATION Spec
CONSTANTS
    MAX_PAYLOAD_MIN_LEGAL = 2
    MAX_PAYLOAD_MAX = 4
    TRANSFER_BUFFERS_MIN = 2
    TRANSFER_BUFFERS_MAX = 3
    PayloadRequests = {0, 1, 9}
    BufferRequests = {0, 9}
    Links <- AllLinks
    Cameras <- AllCameras
    Peers <- AllPeers
    QuirkTable <- Rows
    NoStream = NoStream
    NoChoice = NoChoice
INVARIANTS
    LargestDeliverable
    OfferedIsAccepted
    StartSurvivesHint
    StreamIsVerified
    ReadBackHonest
