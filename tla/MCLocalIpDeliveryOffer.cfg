SPECIFICATION Spec
CONSTANTS
    A = A
    B = B
    C = C
    Server = Server
    k1 = k1
    k2 = k2
    n1 = n1
    n2 = n2
    Peers <- AB
    ServerId = Server
    Envelopes <- DefaultSized
    Nonces <- TwoNonces
    AdapterSecret <- SharedSecrets
    PeerSecrets <- SharedSecrets
    ClockOffset <- NoOffset
    AdapterFrameLimit = 262144
    AdapterPayloadLimit = 196608
    ServerFrameLimit = 262144
    ServerPayloadLimit = 196608
    FrameOverhead = 466
    MaxClockSkew = 1
    ReplayCapacity = 1
    ListenBacklog = 2
    StartMs = 0
    StopMs = 0
SYMMETRY Symmetry
INVARIANTS
    OfferedPayloadIsCarried
