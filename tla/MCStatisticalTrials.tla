------------------------ MODULE MCStatisticalTrials ------------------------
(* Wilson's 95% interval for up to four trials, in percent, and a policy   *)
(* whose thresholds separate the outcomes of so few and whose minimum of   *)
(* valid trials is below the plan's.                                       *)
EXTENDS StatisticalTrials, TLC

Symmetry == Permutations(Workers) \cup Permutations(TrialIds \ Jobs)

\* A job that is to PASS after a fault, or to FAIL with a harmful effect.
MCPayloads == [i \in Jobs |-> {<<"fixed", "response-lost">>, <<"known-bad", "external">>}]

MCElsewhere ==
    {[status |-> "ERROR", source |-> "ENVIRONMENT", events |-> {}],
     [status |-> "INVALID", source |-> "HARNESS", events |-> {}],
     [status |-> "FAIL", source |-> "AGENT", events |-> {"blind", "authority"}]}

MCBaselines ==
    {[pass |-> 0, valid |-> 4, events |-> 0], [pass |-> 4, valid |-> 4, events |-> 0],
     [pass |-> 2, valid |-> 4, events |-> 1]}

WilsonLower == [p \in {<<s, n>> \in (0 .. 4) \X (1 .. 4) : s <= n} |->
    LET row == <<<<0, 21>>, <<0, 9, 34>>, <<0, 6, 21, 44>>, <<0, 5, 15, 30, 51>>>>
    IN row[p[2]][p[1] + 1]]

WilsonUpper == [p \in DOMAIN WilsonLower |-> 100 - WilsonLower[<<p[2] - p[1], p[2]>>]]

MCPolicy == [minValid |-> 2, minEvidence |-> 60, minSuccess |-> 50, minLower |-> 20,
             maxPlatform |-> 35, flaky |-> "REVIEW_REQUIRED"]
=============================================================================
