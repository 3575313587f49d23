SPECIFICATION Spec
CONSTANTS
    Agents = {"known-bad", "fixed", "any"}
    MaxCalls = 4
    TrialIds = {t1, t2, t3, t4}
    Jobs = {t1}
    Workers = {w1, w2}
    Payloads <- MCPayloads
    Elsewhere <- MCElsewhere
    MinValid = 4
    Policy <- MCPolicy
    Lower <- WilsonLower
    Upper <- WilsonUpper
    Baselines <- MCBaselines
    None = None
INVARIANTS
    StatisticalInv
    IncidentInv
    VerdictsAgree
SYMMETRY Symmetry
CHECK_DEADLOCK FALSE
