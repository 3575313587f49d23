SPECIFICATION Spec
CONSTANTS
    Profiles <- MCProfiles
    MaxSteps = 6
INVARIANTS
    AgentRunInv
    AgentCountIsTrue
    VerdictHasEvidence
PROPERTIES
    ImplementsRunContract
CHECK_DEADLOCK FALSE
