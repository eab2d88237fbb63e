SPECIFICATION Spec
CONSTANTS
    Envelopes <- MCEnvelopes
    Readings <- MCReadings
    Capacity = 2
    MaxPayloadBytes = 4
    MaxAccepted = 4
INVARIANTS
    TypeOK
    NoLiveMessageLost
    HandedOverInOrderAlive
    FullOnlyOfLiveMessages
