SPECIFICATION FairSpec
CONSTANTS
    A = A
    B = B
    C = C
    Server = Server
    k1 = k1
    k2 = k2
    n1 = n1
    n2 = n2
    Peers <- ABC
    ServerId = Server
    Envelopes <- Hurdles
    Nonces <- TwoNonces
    AdapterSecret <- AdapterSecrets
    PeerSecrets <- ServerSecrets
    ClockOffset <- ABehind
    AdapterFrameLimit = 5000
    AdapterPayloadLimit = 3000
    ServerFrameLimit = 4096
    ServerPayloadLimit = 2048
    FrameOverhead = 538
    MaxClockSkew = 1
    ReplayCapacity = 2
    ListenBacklog = 2
    StartMs = 1
    StopMs = 3
INVARIANTS
    PairedPeersOnly
PROPERTIES
    LateDeliveryBounded
    EverySendReturns
