SPECIFICATION Spec
CONSTANTS
    MaxSpans = 4
    Producers = {p1, p2}
    Capacity = 2
    MaxBatch = 2
    None = None
INVARIANTS
    TelemetryInv
PROPERTIES
    EarlySpansAreSettled
CHECK_DEADLOCK FALSE
