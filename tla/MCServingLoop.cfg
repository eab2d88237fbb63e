SPECIFICATION FairSpec
CONSTANTS
    w1 = w1
    w2 = w2
    Workers <- MCWorkers
    Envelopes <- MCEnvelopes
    Receives = 2
    ReplayCapacity = 1
    ListenBacklog = 2
    MaxBinds = 1
    MaxConnections = 3
INVARIANTS
    TypeOK
    OverEvictionBounded
    AnswersAreTrue
    RepeatedOnlyIfOverlapping
PROPERTIES
    EveryConnectionIsLeft
    CloseEndsEveryLoop
    EveryConnectionIsTaken
CHECK_DEADLOCK FALSE
