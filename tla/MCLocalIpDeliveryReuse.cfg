SPECIFICATION Spec
CONSTANTS
    A = A
    B = B
    C = C
    Server = Server
    k1 = k1
    k2 = k2
    n1 = n1
    n2 = n2
    Peers <- AB
    ServerId = Server
    Envelopes <- ReusedIds
    Nonces <- TwoNonces
    AdapterSecret <- SharedSecrets
    PeerSecrets <- SharedSecrets
    ClockOffset <- NoOffset
    AdapterFrameLimit = 4096
    AdapterPayloadLimit = 2048
    ServerFrameLimit = 4096
    ServerPayloadLimit = 2048
    FrameOverhead = 538
    MaxClockSkew = 1
    ReplayCapacity = 1
    ListenBacklog = 2
    StartMs = 0
    StopMs = 0
SYMMETRY Symmetry
INVARIANTS
    TypeOK
    ReportsAreTrue
    OneDecisionPerMessage
