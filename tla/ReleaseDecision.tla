-------------------------- MODULE ReleaseDecision --------------------------
(***************************************************************************)
(* From Evaluations to a Release Decision, as files in one directory.  A   *)
(* worker looks whether the Evaluation's file is there, runs the Agent for *)
(* a long time if it is not, and writes the file in place: nothing fences  *)
(* the write, so a worker that lost its lease meanwhile replaces what its  *)
(* successor wrote, and a crash tears what is there.  Every comparison     *)
(* overwrites the Comparison file; the Gate and the Decision are refused   *)
(* when theirs exists (durable_worker.py, evaluation.py, quality.py,       *)
(* cli.py).                                                                *)
(***************************************************************************)
EXTENDS Evaluation, FiniteSetsExt

CONSTANTS
    EvaluationIds, None,
    Workers    \* bound on the workers that execute at the same time

ASSUME ReleaseDecisionConstants == None \notin EvaluationIds /\ Workers \in Nat

VARIABLES
    agentOf,     \* the agent profile in the payload of an evaluation's job
    executing,   \* by evaluation id: how many workers run the Agent for it
    files,       \* by evaluation id: absent, torn by a crash, or whole
    comparison,  \* evaluation-comparison.json
    gate,        \* quality-gate-evaluation.json
    decision     \* release-decision.json

vars == <<agentOf, executing, files, comparison, gate, decision>>

Absent == [state |-> "absent"]
Torn == [state |-> "torn"]

Init ==
    /\ agentOf \in [EvaluationIds -> Agents]
    /\ executing = [id \in EvaluationIds |-> 0]
    /\ files = [id \in EvaluationIds |-> Absent]
    /\ comparison = None /\ gate = None /\ decision = None

Whole(id) == files[id].state = "whole"
Load(file) == BuildEvaluation(file.agent, file.runs)

(* Nobody is about to write the file.                                      *)
Settled(id) == executing[id] = 0
AtWork == MapThenSumSet(LAMBDA id : executing[id], EvaluationIds)

-----------------------------------------------------------------------------
(* _execute: a worker that finds the file, whole or torn, does not run the *)
(* Agent again; it loads it, which raises for a torn one.                  *)

\* Mutant of Execute: a worker that claims the job later runs the Agent again.
ExecuteAgain(id) ==
    /\ AtWork < Workers
    /\ executing' = [executing EXCEPT ![id] = @ + 1]
    /\ UNCHANGED <<agentOf, files, comparison, gate, decision>>

Execute(id) ==
    /\ AtWork < Workers /\ files[id] = Absent
    /\ executing' = [executing EXCEPT ![id] = @ + 1]
    /\ UNCHANGED <<agentOf, files, comparison, gate, decision>>

(* write_named_artifact, in place and whatever is there by now.            *)
Returns(id) == executing[id] > 0 /\ executing' = [executing EXCEPT ![id] = @ - 1]

WriteEvaluation(id) ==
    /\ Returns(id)
    /\ \E runs \in SuiteRuns[agentOf[id]] :
           files' = [files EXCEPT ![id] = [state |-> "whole", agent |-> agentOf[id],
                                           runs |-> runs]]
    /\ UNCHANGED <<agentOf, comparison, gate, decision>>

(* The worker dies, or execute_evaluation raises; in the middle of the     *)
(* write it leaves a torn file, which nothing removes.                     *)
CrashInExecution(id) ==
    /\ Returns(id)
    /\ files' \in {files, [files EXCEPT ![id] = Torn]}
    /\ UNCHANGED <<agentOf, comparison, gate, decision>>

(* The artifact keeps, of either side, the members' results and the ids of *)
(* their Runs: what it read.  Nothing reads it once there is a gate.       *)
Compare(b, c) ==
    /\ gate = None /\ Whole(b) /\ Whole(c)
    /\ LET result == Comparison(b, c, Load(files[b]), Load(files[c]))
       IN comparison' =
            IF result.status = "INVALID" THEN [result |-> result]
            ELSE [result |-> result, base |-> files[b], cand |-> files[c],
                  settled |-> Settled(b) /\ Settled(c)]  \* history: nobody was to write them
    /\ UNCHANGED <<agentOf, executing, files, gate, decision>>

-----------------------------------------------------------------------------
(* The Quality Gate: identity first, then the effect of every rule.        *)

(* _identity_errors: the comparison must be about the subject, on its side *)
(* and, when a baseline is given, about that baseline on the other side.   *)
(* It goes by ids and agents, never by what the Evaluations contain.       *)
\* Mutant of IdentityErrors: the other side of the comparison is not checked.
IdentityErrorsOneSided(subject, s, b) ==
    LET r == comparison.result
    IN \/ r.status # "COMPLETE"
       \/ s # (IF subject = "CANDIDATE" THEN r.candidate ELSE r.baseline)

IdentityErrors(subject, s, b) ==
    LET r == comparison.result
        mine == IF subject = "CANDIDATE" THEN r.candidate ELSE r.baseline
        other == IF subject = "CANDIDATE" THEN r.baseline ELSE r.candidate
    IN \/ r.status # "COMPLETE"
       \/ mine # s
       \/ b # None /\ (other # b \/ files[b].agent = files[s].agent)

FirstItem(evaluation, category) ==
    LET first == CHOOSE m \in Members :
                    /\ Suite[m] = category
                    /\ \A n \in Members : Suite[n] = category => m <= n
    IN evaluation.items[first]

(* The rules of the minimal policy.  Every member of a suite is required.  *)
CoverageEffect(e) ==
    IF ValidItems(e) = Members THEN "NONE" ELSE "EVIDENCE_GAP"

AgentFailEffect(e) ==
    IF \E m \in Members : e.items[m].result = "FAIL" /\ e.items[m].attribution = "Agent"
    THEN "BLOCK" ELSE "NONE"

HistoricalRegressionEffect(e) ==
    LET item == FirstItem(e, "regression")
    IN CASE item.result = "PASS" /\ item.valid -> "NONE"
         [] item.result = "FAIL" -> "BLOCK"
         [] OTHER -> "EVIDENCE_GAP"

RecoveryEffect(e) ==
    LET item == FirstItem(e, "recovery")
    IN CASE item.result = "PASS" /\ item.valid /\ item.recovery = "RECOVERED" -> "NONE"
         [] item.result = "FAIL" /\ item.attribution = "Agent" -> "BLOCK"
         [] OTHER -> "EVIDENCE_GAP"

EvidenceContractEffect(e) ==
    IF \A m \in Members : e.items[m].valid /\ e.items[m].result \in Verdicts
    THEN "NONE" ELSE "EVIDENCE_GAP"

Effects(e, flagged) ==
    {CoverageEffect(e), AgentFailEffect(e), HistoricalRegressionEffect(e), RecoveryEffect(e),
     EvidenceContractEffect(e), IF flagged THEN "REVIEW" ELSE "NONE"}

\* Mutant of DecisionStatus: evidence that is missing outweighs a failure.
DecisionStatusGapFirst(effects) ==
    CASE "EVIDENCE_GAP" \in effects -> "INCONCLUSIVE"
      [] "EVIDENCE_GAP" \notin effects /\ "BLOCK" \in effects -> "BLOCKED"
      [] OTHER -> "ELIGIBLE"

DecisionStatus(effects) ==
    CASE "BLOCK" \in effects -> "BLOCKED"
      [] "BLOCK" \notin effects /\ "EVIDENCE_GAP" \in effects -> "INCONCLUSIVE"
      [] effects \subseteq {"NONE", "REVIEW"} /\ "REVIEW" \in effects -> "REVIEW_REQUIRED"
      [] OTHER -> "ELIGIBLE"

(* evaluate_quality_gate.  A candidate needs its baseline.                 *)
Invalid == [status |-> "INVALID"]

GateResult(subject, s, b, flagged) ==
    IF (subject = "CANDIDATE" /\ b = None) \/ IdentityErrors(subject, s, b) THEN Invalid
    ELSE [status |-> DecisionStatus(Effects(Load(files[s]), flagged)), subject |-> subject,
          evaluation |-> s, baseline |-> b, comparison |-> comparison,
          read |-> files[s]]  \* its facts are those of the Evaluation it read

EvaluateQualityGate(subject, s, b, flagged) ==
    /\ gate = None /\ comparison # None
    /\ Whole(s) /\ (b # None => Whole(b))
    /\ gate' = GateResult(subject, s, b, flagged)
    /\ UNCHANGED <<agentOf, executing, files, comparison, decision>>

(* build_release_decision refuses an INVALID gate.                         *)
CreateReleaseDecision ==
    /\ gate # None /\ decision = None
    /\ gate # Invalid
    /\ decision' = gate
    /\ UNCHANGED <<agentOf, executing, files, comparison, gate>>

Next ==
    \/ \E id \in EvaluationIds : Execute(id) \/ WriteEvaluation(id) \/ CrashInExecution(id)
    \/ \E b, c \in EvaluationIds : Compare(b, c)
    \/ \E subject \in {"CANDIDATE", "BASELINE"}, s \in EvaluationIds,
          b \in EvaluationIds \union {None}, flagged \in BOOLEAN :
             EvaluateQualityGate(subject, s, b, flagged)
    \/ CreateReleaseDecision

Spec == Init /\ [][Next]_vars
-----------------------------------------------------------------------------
(* Properties.  They speak of what an artifact read, for the files may     *)
(* have been replaced since.                                               *)

IsEvaluation(file) ==
    file.state = "whole" /\ file.agent \in Agents /\ file.runs \in SuiteRuns[file.agent]

(* Type invariant: a decision carries one of the four release statuses and *)
(* a comparison one of its classes (evaluation.py, quality.py).            *)
DecisionTypeOK ==
    /\ executing \in [EvaluationIds -> Nat]
    /\ \A id \in EvaluationIds : files[id] \in {Absent, Torn} \/ IsEvaluation(files[id])
    /\ comparison # None => comparison.result.summary \in
          {Nothing, "MIXED", "CANDIDATE_REGRESSED", "CANDIDATE_IMPROVED", "UNCHANGED",
           "INCOMPARABLE"}
    /\ decision # None =>
          /\ decision.status \in {"ELIGIBLE", "BLOCKED", "INCONCLUSIVE", "REVIEW_REQUIRED"}
          /\ IsEvaluation(decision.read)

(* ELIGIBLE is earned by the Runs the gate read: each of them passed with  *)
(* nothing else failing, and the planned fault of the recovery member was  *)
(* triggered and reconciled (evaluation.py's classification and the hard   *)
(* rules of quality.py, for a candidate and for a baseline).               *)
EligibleIsEarned ==
    decision # None /\ decision.status = "ELIGIBLE" =>
        \A m \in Members :
            LET run == decision.read.runs[m]
            IN /\ run.status = "PASS" /\ HealthBoundaryOk(run)
               /\ Suite[m] = "recovery" => Reached(run, "reconciled")
               /\ Suite[m] = "regression" => run.profile = "fixed" /\ run.matched

(* BLOCKED blames the Agent, so some Run really failed as the Agent's: a   *)
(* provider or environment that failed, a missing fault or a mismatch of   *)
(* the regression oracle never blocks (quality.py's BLOCK effects).        *)
BlockedIsTheAgents ==
    decision # None /\ decision.status = "BLOCKED" =>
        \E m \in Members :
            decision.read.runs[m].status = "FAIL" /\ decision.read.runs[m].attribution = "Agent"

(* The comparison a candidate's decision cites saw the Evaluation that the *)
(* gate read.  Nothing in the code ensures it.                             *)
SawTheSame == decision.comparison.cand = decision.read

(* A failure that counts is never hidden behind evidence that is missing:  *)
(* a comparison that found the candidate worse than its baseline in any    *)
(* member goes with BLOCKED, although the gate never reads the classes, or *)
(* the file was replaced between the two (evaluation.py, quality.py).      *)
RegressionBlocks ==
    decision # None /\ decision.subject = "CANDIDATE" /\ SawTheSame
        /\ (\E m \in Members : CompareItem(Load(decision.comparison.base).items[m],
                                          Load(decision.comparison.cand).items[m]) = "REGRESSED")
        => decision.status = "BLOCKED"

(* An improvement a decision rests on is one of evidence: the candidate it *)
(* calls ELIGIBLE was compared as a candidate with the baseline the gate   *)
(* was given, of another agent version, and was not worse unless it was    *)
(* replaced since (quality.py's _identity_errors).                         *)
EligibleWasCompared ==
    decision # None /\ decision.status = "ELIGIBLE" /\ decision.subject = "CANDIDATE" =>
        /\ decision.comparison.result.candidate = decision.evaluation
        /\ decision.comparison.result.baseline = decision.baseline
        /\ decision.comparison.base.agent # decision.read.agent
        /\ SawTheSame => decision.comparison.result.summary # "CANDIDATE_REGRESSED"

(* CANDIDATE_IMPROVED is conservative: it needs valid evidence of every    *)
(* member on both sides (evaluation.py's _comparison_aggregate).           *)
ImprovementNeedsEvidence ==
    comparison # None /\ comparison.result.summary = "CANDIDATE_IMPROVED" =>
        /\ ValidItems(Load(comparison.base)) = Members
        /\ \A m \in Members : comparison.cand.runs[m].status \in Verdicts

(* A decision and the comparison it cites are in order: their types, what  *)
(* ELIGIBLE rests on and what an improvement rests on.                     *)
DecisionInv ==
    /\ DecisionTypeOK
    /\ EligibleIsEarned
    /\ EligibleWasCompared
    /\ ImprovementNeedsEvidence

(* What a comparison, and a decision that cites it, was made from is still *)
(* there, if nobody was executing the two Evaluations any more when they   *)
(* were compared: no worker starts them again, however often their jobs    *)
(* are claimed, so the comparison and the gate saw the same files and      *)
(* these are never replaced (durable_worker.py reuses the file it finds).  *)
StillThere(c) ==
    c.result.status = "COMPLETE" /\ c.settled =>
        files[c.result.baseline] = c.base /\ files[c.result.candidate] = c.cand

DecisionIsReproducible ==
    /\ comparison # None => StillThere(comparison)
    /\ decision # None =>
          /\ StillThere(decision.comparison)
          /\ decision.comparison.settled => files[decision.evaluation] = decision.read
=============================================================================
