SPECIFICATION Spec
CONSTANTS
    Suite <- MCSuite
    Agents = {"known-bad", "fixed"}
    Endings <- MCEndings
    EvaluationIds = {e1, e2}
    Workers = 2
    None = None
SYMMETRY Symmetry
INVARIANTS
    DecisionInv
    BlockedIsTheAgents
    RegressionBlocks
    DecisionIsReproducible
CHECK_DEADLOCK FALSE
