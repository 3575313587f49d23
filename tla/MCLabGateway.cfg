SPECIFICATION Spec
CONSTANTS
    Runs <- Identities
    Quota = 2
    Rounds = 2
    None = None
CHECK_DEADLOCK FALSE
INVARIANTS
    LabInv
    OneTrialAtATime
    UncertainIsBlocked
PROPERTY SessionsSettle
