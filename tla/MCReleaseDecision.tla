------------------------- MODULE MCReleaseDecision -------------------------
EXTENDS ReleaseDecision, TLC

MCSuite == <<"functional", "recovery", "regression">>

\* How AgentRun's runs end, at most one failure to a member: an error of the
\* provider, a fault that is not reconciled and a failure of the Agent.
MCEndings ==
    [functional |-> {<<"PASS", Nothing, Nothing>>, <<"ERROR", "Provider", "provider">>},
     recovery |-> {<<"PASS", Nothing, Nothing>>},
     regression |-> {<<"PASS", Nothing, Nothing>>, <<"FAIL", "Agent", Nothing>>}]

Symmetry == Permutations(EvaluationIds)
=============================================================================
