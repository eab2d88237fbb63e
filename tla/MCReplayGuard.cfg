SPECIFICATION Spec
CONSTANTS
    Ids <- MCIds
    Capacity <- MCCapacity
INVARIANTS
    TypeOK
    RemembersTheWindow
PROPERTIES
    SuppressesTheWindow
