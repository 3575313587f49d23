SPECIFICATION FairSpec
CONSTANTS
    Agents = {"known-bad", "fixed"}
    MaxCalls = 0
    TrialIds = {t1}
    Jobs = {t1}
    Workers = {w1}
    Payloads <- MCPayloads
    Elsewhere = {}
    MinValid = 1
    Policy <- MCPolicy
    Lower <- WilsonLower
    Upper <- WilsonUpper
    Baselines = {}
    None = None
PROPERTIES
    TrialJobEnds
CHECK_DEADLOCK FALSE
