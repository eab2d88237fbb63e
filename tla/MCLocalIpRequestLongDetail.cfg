SPECIFICATION RequestSpec
CONSTANTS
    A = A
    B = B
    C = C
    Server = Server
    k1 = k1
    k2 = k2
    n1 = n1
    n2 = n2
    Peers <- ABC
    ServerId = Server
    Envelopes <- Requests
    Nonces <- OneNonce
    AdapterSecret <- AdapterSecrets
    PeerSecrets <- ServerSecrets
    ClockOffset <- NoOffsets
    AdapterFrameLimit = 4096
    AdapterPayloadLimit = 3000
    ServerFrameLimit = 4096
    ServerPayloadLimit = 3000
    FrameOverhead = 538
    MaxClockSkew = 1
    ReplayCapacity = 1
    ListenBacklog = 2
    StartMs = 0
    StopMs = 1
    Replies <- LongDetail
    AdapterReplyLimit = 1533
    ServerReplyLimit = 1533
    AckOverhead = 404
INVARIANTS
    AllowedReplyIsSent
