SPECIFICATION Spec
CONSTANTS
    Nodes <- MCNodes
    Drafts <- MCDrafts
    OtherIds <- MCOtherIds
    Lifetimes <- MCLifetimes
    Claims <- MCClaims
    GuardCapacity = 1
    ClockOffset <- MCOffsets
    Moments <- MCMoments
    MaxRequests = 3
    MaxWakes = 3
INVARIANTS
    TypeOK
    WokenInTime
    IgnoredForAReason
    PlainTextFits
PROPERTIES
    WokenOncePerWindow
CHECK_DEADLOCK FALSE
