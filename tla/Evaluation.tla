----------------------------- MODULE Evaluation -----------------------------
(***************************************************************************)
(* What an Evaluation says of the Runs of a suite, and what a Comparison   *)
(* says of two Evaluations (evaluation.py, with the oracle of the          *)
(* Historical Regression member, regression.py).                           *)
(***************************************************************************)
EXTENDS Integers, Sequences, FiniteSets

CONSTANTS
    Suite,    \* the members' categories, in their order
    Agents,   \* the agent versions evaluated, one to a profile
    Endings   \* by category, how Runs may end: <<status, attribution, source of the failure>>

Categories == {"functional", "recovery", "regression"}
Outcomes == {"PASS", "FAIL", "ERROR", "INVALID", "INCONCLUSIVE", "CANCELLED"}
Verdicts == {"PASS", "FAIL"}
Nothing == "NOTHING"

ASSUME EvaluationConstants ==
    /\ Suite \in Seq(Categories) /\ \A c \in Categories : \E m \in DOMAIN Suite : Suite[m] = c
    /\ Agents \subseteq {"known-bad", "fixed"}
    /\ \A c \in Categories : \A e \in Endings[c] :
          /\ e[1] \in Outcomes
          /\ e[2] \in {Nothing, "Agent", "Provider", "Platform/Environment", "Harness"}
          /\ e[3] \in {Nothing, "provider", "environment"}
          /\ e[1] = "FAIL" => e[2] = "Agent"  \* RuntimeFailure's outcome by domain

Members == DOMAIN Suite

(* The verdict the Historical Regression is to repeat, or to be rid of.     *)
Expected(agent) == IF agent = "known-bad" THEN "FAIL" ELSE "PASS"

(* A Run as an Evaluation sees it: its outcome, how far the planned fault  *)
(* got (it is triggered, observed and reconciled in this order), and       *)
(* whether its verification or failure signature is the expected one and   *)
(* its environment was fresh and cleaned.  Combinations no classification  *)
(* tells apart are left out.                                               *)
FaultStages == <<"unplanned", "planned", "triggered", "observed", "reconciled">>

Runs(m, agent) ==
    {r \in {[profile |-> agent, status |-> e[1], attribution |-> e[2], source |-> e[3],
             fault |-> f, matched |-> k] :
                 e \in Endings[Suite[m]], k \in BOOLEAN,
                 f \in {"unplanned", "planned", "triggered", "reconciled"}} :
        /\ Suite[m] = "recovery" <=> r.fault # "unplanned"
        /\ Suite[m] # "regression" \/ r.status # Expected(agent) => r.matched
        /\ r.fault \in {"triggered", "reconciled"} => r.status = "PASS"}

(* The Runs of a whole suite.                                              *)
SuiteRuns ==
    [agent \in Agents |->
        {f \in [Members -> UNION {Runs(m, agent) : m \in Members}] :
            \A m \in Members : f[m] \in Runs(m, agent)}]

Reached(run, stage) ==
    \E i, j \in DOMAIN FaultStages :
        FaultStages[i] = stage /\ FaultStages[j] = run.fault /\ i <= j

HealthBoundaryOk(run) == run.source = Nothing

(* evaluate_regression_run: a known-bad Agent must fail exactly as it did, *)
(* a fixed one must pass; anything else is not evidence, save a FAIL.      *)
\* Mutant of Oracle: a mismatch counts as a failure of the regression.
OracleMismatchFails(run) ==
    IF run.status \notin Verdicts THEN run.status
    ELSE IF run.matched /\ HealthBoundaryOk(run)
            /\ run.status = Expected(run.profile)
         THEN run.status ELSE "FAIL"

Oracle(run) ==
    IF run.status \notin Verdicts THEN run.status
    ELSE IF run.status = Expected(run.profile) /\ run.matched /\ HealthBoundaryOk(run)
         THEN run.status
    ELSE IF run.profile = "fixed" /\ run.status = "FAIL" THEN "FAIL"
    ELSE "INCONCLUSIVE"

ItemResult(m, run) ==
    IF Suite[m] = "regression" THEN Oracle(run)
    ELSE IF Suite[m] = "recovery" /\ run.status = "PASS" /\ Reached(run, "planned")
            /\ ~Reached(run, "reconciled")
         THEN "INCONCLUSIVE"
    ELSE run.status

ItemAttribution(m, run) ==
    LET result == ItemResult(m, run)
    IN IF result \in Verdicts /\ HealthBoundaryOk(run) THEN "Agent"
       ELSE IF Suite[m] = "regression" /\ result \in {"INCONCLUSIVE", "INVALID"}
            THEN "Regression Oracle"
       ELSE IF run.attribution \in {"Provider", "Platform/Environment", "Harness"}
            THEN run.attribution
       ELSE CASE run.source = "environment" -> "Platform/Environment"
              [] run.source = "provider" -> "Provider"
              [] OTHER -> "Harness"

RecoveryStatus(m, run) ==
    CASE Suite[m] # "recovery" -> Nothing
      [] Reached(run, "reconciled") /\ ItemResult(m, run) = "PASS" -> "RECOVERED"
      [] Reached(run, "planned") /\ ~Reached(run, "triggered") -> "NOT_REACHED"
      [] Reached(run, "triggered") /\ ~Reached(run, "reconciled") -> "UNRESOLVED"
      [] OTHER -> "NOT_PLANNED"

ClassifyMember(m, run) ==
    [category |-> Suite[m], result |-> ItemResult(m, run), attribution |-> ItemAttribution(m, run),
     valid |-> ItemResult(m, run) \in Verdicts /\ HealthBoundaryOk(run),
     recovery |-> RecoveryStatus(m, run)]

(* build_evaluation: one item per member.  Its counts follow from them.    *)
BuildEvaluation(agent, runs) ==
    [agent |-> agent, items |-> [m \in Members |-> ClassifyMember(m, runs[m])]]

ValidItems(evaluation) == {m \in Members : evaluation.items[m].valid}

-----------------------------------------------------------------------------
(* compare_evaluations.  An evaluation is named by the id of its file.     *)

CompareItem(b, c) ==
    CASE ~b.valid \/ ~c.valid -> "INCOMPARABLE"
      [] b.valid /\ c.valid /\ b.result = c.result -> "UNCHANGED"
      [] b.valid /\ c.valid /\ b.result = "FAIL" /\ c.result = "PASS" -> "IMPROVED"
      [] b.valid /\ c.valid /\ b.result = "PASS" /\ c.result = "FAIL" -> "REGRESSED"

Aggregate(classes) ==
    CASE {"REGRESSED", "IMPROVED"} \subseteq classes -> "MIXED"
      [] "REGRESSED" \in classes /\ "IMPROVED" \notin classes -> "CANDIDATE_REGRESSED"
      [] "IMPROVED" \in classes /\ classes \intersect {"REGRESSED", "INCOMPARABLE"} = {} ->
            "CANDIDATE_IMPROVED"
      [] {"IMPROVED", "INCOMPARABLE"} \subseteq classes /\ "REGRESSED" \notin classes -> "MIXED"
      [] classes = {"UNCHANGED"} -> "UNCHANGED"
      [] OTHER -> "INCOMPARABLE"

(* The same evaluation, or two of the same agent version, make it INVALID. *)
Comparison(bid, cid, base, cand) ==
    LET classes == {CompareItem(base.items[m], cand.items[m]) : m \in Members}
    IN IF bid = cid \/ base.agent = cand.agent
       THEN [status |-> "INVALID", baseline |-> bid, candidate |-> cid, summary |-> Nothing]
       ELSE [status |-> "COMPLETE", baseline |-> bid, candidate |-> cid,
             summary |-> Aggregate(classes)]
=============================================================================
