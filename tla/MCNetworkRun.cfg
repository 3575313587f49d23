SPECIFICATION Spec
CONSTANTS
    Faults <- MCFaults
INVARIANTS
    NetworkRunInv
    KnownResourcesAreGone
    PassHasBothSides
PROPERTIES
    ImplementsRunContract
CHECK_DEADLOCK FALSE
