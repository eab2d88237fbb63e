SPECIFICATION Spec
CONSTANTS
    Carriers <- MCCarriers
    Envelopes <- MCEnvelopes
INVARIANTS
    TypeOK
    UnprotectedOnlyAsAllowed
    BeaconKeepsProtectedPath
PROPERTIES
    PlansMoveForAReason
