------------------------- MODULE StatisticalTrials -------------------------
(***************************************************************************)
(* Repeated trials of the Incident Agent and what is decided from them.  A *)
(* worker looks whether the trial's file is there, runs the Agent if it is *)
(* not and writes its Run Evidence in place; a worker that lost its lease  *)
(* meanwhile does so too, over what its successor wrote.  The files are    *)
(* classified into a Statistical Evaluation, compared with a baseline,     *)
(* gated by a policy and decided (statistical.py, durable_worker.py).      *)
(***************************************************************************)
EXTENDS IncidentRun, FiniteSets

CONSTANTS
    TrialIds,    \* the trials the Sampling Plan asks for
    Jobs,        \* those of them that are durable jobs of the workers
    Workers,     \* the workers, which may execute the same job at once
    Payloads,    \* by job: the behaviours its payload may fix
    Elsewhere,   \* Run Evidence from other producers, as the readers see it
    MinValid,    \* the plan's minimum_valid_trial_count
    Policy,      \* the rules of the Statistical Policy, rates in percent
    Lower, Upper, \* wilson_score_interval in percent, by <<successes, trials>>
    Baselines,   \* the summaries of a baseline under the same plan
    None

Requested == Cardinality(TrialIds)
GateStatuses == {"BLOCKED", "INCONCLUSIVE", "REVIEW_REQUIRED", "ELIGIBLE"}

(* _safe_contract: the behaviour of a trial job fixes the agent's profile  *)
(* and restricts the case.                                                 *)
JobBehaviours ==
    {<<"fixed", c>> : c \in Cases} \cup {<<"known-bad", "local">>, <<"known-bad", "external">>}

(* What Run Evidence tells its readers: the outcome, whom it blames and    *)
(* what else went wrong that no other trial makes up for.                  *)
ZeroTolerance == {"harmful", "blind", "authority"}
Evidence == [status : {"PASS", "FAIL", "ERROR", "INVALID", "INCONCLUSIVE", "CANCELLED"},
             source : {"AGENT", "PROVIDER", "ENVIRONMENT", "HARNESS"},
             events : SUBSET ZeroTolerance]

ASSUME StatisticalConstants ==
    /\ IsFiniteSet(TrialIds) /\ None \notin TrialIds \cup GateStatuses \cup {"PASS", "FAIL"}
    /\ Jobs \subseteq TrialIds /\ Payloads \in [Jobs -> SUBSET JobBehaviours]
    /\ \A i \in Jobs : \A b \in Payloads[i] : b[1] \in Agents
    /\ Elsewhere \subseteq Evidence
    /\ MinValid \in 1 .. Requested  \* validate_sampling_plan
    /\ Policy \in [minValid : Nat, minEvidence : 0 .. 100, minSuccess : 0 .. 100,
                   minLower : 0 .. 100, maxPlatform : 0 .. 100,
                   flaky : {"REVIEW_REQUIRED", "BLOCKED"}]
    /\ \A n \in 1 .. Requested : \A s \in 0 .. n :
           /\ Lower[s, n] \in 0 .. 100 /\ Upper[s, n] \in 0 .. 100
           /\ Lower[s, n] * n <= 100 * s /\ 100 * s <= Upper[s, n] * n
    /\ Baselines \subseteq [pass : Nat, valid : 0 .. Requested, events : Nat]
    /\ \A b \in Baselines : b.pass <= b.valid

VARIABLES
    payload,     \* by job: the agent profile and the case it fixes
    hands,       \* by worker: the trial it executes, and its Run Evidence
    files,       \* by trial: absent, torn by a crash, or its Run Evidence
    registered,  \* by job: the outcome of its registered evidence, or None
    completed,   \* the jobs that are COMPLETED
    evaluation, comparison, gate, decision

decisionVars == <<evaluation, comparison, gate, decision>>
trialVars == <<payload, hands, files, registered, completed>>
vars == <<incidentVars, trialVars, decisionVars>>

Absent == [status |-> "ABSENT"]
Torn == [status |-> "TORN"]
Empty == [stage |-> "empty"]  \* a worker without a trial
Readable(i) == files[i] \notin {Absent, Torn}

Init ==
    /\ IncidentInit
    /\ payload \in [Jobs -> JobBehaviours] /\ \A i \in Jobs : payload[i] \in Payloads[i]
    /\ hands = [w \in Workers |-> Empty]
    /\ files = [i \in TrialIds |-> Absent]
    /\ registered = [i \in Jobs |-> None] /\ completed = {}
    /\ evaluation = None /\ comparison = None /\ gate = None /\ decision = None

-----------------------------------------------------------------------------
(* _execute_statistical_trial.  A worker that finds no file runs the Agent *)
(* in its own process.  Such a run shares nothing with the others, so the  *)
(* one machine of IncidentRun serves them in turn: a run that is over      *)
(* waits in its worker's hands, and runs overlap from the check that no    *)
(* file is there to the write.  Nothing starts once there is an Evaluation *)
(* (a bound): what starts then no later artifact reads.                    *)
Executing(w, stage) == hands[w].stage = stage

Take(w, i) ==
    /\ hands[w] = Empty /\ evaluation = None /\ files[i] = Absent
    /\ hands' = [hands EXCEPT ![w] = [trial |-> i, stage |-> "running", evidence |-> Absent]]
    /\ UNCHANGED <<payload, files, registered, completed, decisionVars>>

\* Mutant of StartTrial: a retry runs the fixed candidate, whatever the payload.
StartTrialFixed(w, i) ==
    /\ Take(w, i)
    /\ \E agent \in {payload[i][1], "fixed"} : StartRun(agent, payload[i][2])

StartTrial(w, i) ==
    /\ Take(w, i)
    /\ StartRun(payload[i][1], payload[i][2])

(* A trial that is no job is run once, by any caller of the executor.      *)
StartDirect(w, i) ==
    /\ Take(w, i)
    /\ \A v \in Workers : hands[v] # Empty => hands[v].trial # i
    /\ "any" \in Agents /\ \E c \in Cases : StartRun("any", c)

RunStep == IncidentStep /\ UNCHANGED <<trialVars, decisionVars>>

NoRun == run' = Idle /\ world' = BaseState("local") /\ exec' = NewExecutor

RunEvents == {k \in {"harmful", "blind"} : IF k = "harmful" THEN world.harmful ELSE exec.blind > 0}

(* The artifact is what the Run left behind.                               *)
EndRun(w) ==
    /\ Executing(w, "running") /\ run.phase = "done"
    /\ hands' = [hands EXCEPT ![w].stage = "ran",
                   ![w].evidence = [status |-> run.status, source |-> "AGENT",
                                    events |-> RunEvents]]
    /\ NoRun
    /\ UNCHANGED <<payload, files, registered, completed, decisionVars>>

(* write_incident_artifact, in place and whatever is there by now.         *)
WriteTrial(w) ==
    /\ Executing(w, "ran")
    /\ files' = [files EXCEPT ![hands[w].trial] = hands[w].evidence]
    /\ hands' = [hands EXCEPT ![w] = IF @.trial \in Jobs THEN [@ EXCEPT !.stage = "has"] ELSE Empty]
    /\ UNCHANGED <<incidentVars, payload, registered, completed, decisionVars>>

(* A worker that finds the file reads it back instead.                     *)
ReadTrial(w, i) ==
    /\ hands[w] = Empty /\ Readable(i) /\ i \notin completed
    /\ hands' = [hands EXCEPT ![w] = [trial |-> i, stage |-> "has", evidence |-> files[i]]]
    /\ UNCHANGED <<incidentVars, payload, files, registered, completed, decisionVars>>

(* The worker dies or its Control Plane refuses it; in the middle of the   *)
(* write it tears what is there, and a torn file is never run again: each  *)
(* later attempt fails to read it.                                         *)
LoseWorker(w) ==
    /\ hands[w] # Empty
    /\ hands' = [hands EXCEPT ![w] = Empty]
    /\ \/ UNCHANGED files
       \/ Executing(w, "ran") /\ files' = [files EXCEPT ![hands[w].trial] = Torn]
    /\ IF Executing(w, "running") THEN NoRun ELSE UNCHANGED incidentVars
    /\ UNCHANGED <<payload, registered, completed, decisionVars>>

(* ingest_execution_evidence: with the outcome the worker knows, from the  *)
(* file that is there now; the first one stands, others change nothing.    *)
(* Whose request is taken, DurableExecution decides.                       *)
Register(w, i) ==
    /\ Executing(w, "has") /\ hands[w].trial = i /\ Readable(i)
    /\ registered' = [registered EXCEPT ![i] = IF @ = None THEN hands[w].evidence.status ELSE @]
    /\ hands' = [hands EXCEPT ![w] = Empty]
    /\ UNCHANGED <<incidentVars, payload, files, completed, decisionVars>>

(* complete_job, which the Control Plane refuses unless the evidence says  *)
(* PASS; the job is claimed again after its lease and offered again.       *)
CompleteTrial(i) ==
    /\ registered[i] = "PASS" /\ i \notin completed
    /\ completed' = completed \cup {i}
    /\ UNCHANGED <<incidentVars, payload, hands, files, registered, decisionVars>>

(* Evidence of another producer, a trial whose platform failed say.        *)
OtherTrial(i) ==
    /\ evaluation = None /\ files[i] = Absent
    /\ \A w \in Workers : hands[w] # Empty => hands[w].trial # i
    /\ \E r \in Elsewhere : files' = [files EXCEPT ![i] = r]
    /\ UNCHANGED <<incidentVars, payload, hands, registered, completed, decisionVars>>

-----------------------------------------------------------------------------
(* classify_statistical_trial and the summary recomputed from its rows; it *)
(* is built from the trials that can be read, while evicted workers may    *)
(* still execute a job.                                                    *)
Classify(r) ==
    CASE r.status = "PASS" -> "AGENT_PASS"
      [] r.status = "FAIL" /\ r.source = "AGENT" -> "AGENT_FAIL"
      [] r.status \in {"FAIL", "ERROR"} /\ r.source = "ENVIRONMENT" -> "ENVIRONMENT_ERROR"
      [] r.status \in {"FAIL", "ERROR"} /\ r.source = "PROVIDER" -> "PLATFORM_ERROR"
      [] r.status \in {"INCONCLUSIVE", "CANCELLED"} /\ r.source # "HARNESS" -> r.status
      [] OTHER -> "INVALID"

(* _zero_tolerance_events: each kind once, of a FAIL whoever is blamed.    *)
TrialRow(r) ==
    [outcome |-> Classify(r), zero |-> IF r.status = "FAIL" THEN r.events ELSE {}]

Summary(rows) ==
    LET Count(outcomes) == Cardinality({i \in DOMAIN rows : rows[i].outcome \in outcomes})
    IN [pass |-> Count({"AGENT_PASS"}),
        valid |-> Count({"AGENT_PASS", "AGENT_FAIL"}),
        platform |-> Count({"PLATFORM_ERROR", "ENVIRONMENT_ERROR"}),
        attempted |-> Cardinality(DOMAIN rows),
        events |-> Cardinality({e \in (DOMAIN rows) \X ZeroTolerance : e[2] \in rows[e[1]].zero})]

BuildEvaluation ==
    /\ evaluation = None /\ \A w \in Workers : hands[w] # Empty => hands[w].trial \in Jobs
    /\ \E historical \in BOOLEAN :
           evaluation' = [rows |-> [i \in {j \in TrialIds : Readable(j)} |-> TrialRow(files[i])],
                          historical |-> historical]
    /\ UNCHANGED <<incidentVars, trialVars, comparison, gate, decision>>

-----------------------------------------------------------------------------
(* build_statistical_comparison with a baseline's summary.                 *)
Adequate(s) == s.valid >= MinValid

Classification(b, c) ==
    IF ~Adequate(b) \/ ~Adequate(c) THEN "INCOMPARABLE"
    ELSE IF c.events > b.events THEN "REGRESSED"
    ELSE IF Lower[c.pass, c.valid] > Upper[b.pass, b.valid] THEN "IMPROVED"
    ELSE IF Upper[c.pass, c.valid] < Lower[b.pass, b.valid] THEN "REGRESSED"
    ELSE "NO_CLEAR_DIFFERENCE"

Compare ==
    /\ evaluation # None /\ comparison = None
    /\ \E b \in Baselines :
           comparison' = [baseline |-> b, class |-> Classification(b, Summary(evaluation.rows))]
    /\ UNCHANGED <<incidentVars, trialVars, evaluation, gate, decision>>

-----------------------------------------------------------------------------
(* evaluate_statistical_gate.  A comparison is validated and referenced;   *)
(* its class decides nothing.                                              *)
Flaky(s) == s.valid >= MinValid /\ s.pass \in 1 .. s.valid - 1

Blocking(s, historical) ==
    \/ s.events > 0
    \/ ~historical
    \/ /\ s.valid >= Policy.minValid
       /\ \/ s.valid = 0  \* no success rate and no interval
          \/ 100 * s.pass < Policy.minSuccess * s.valid
          \/ Lower[s.pass, s.valid] < Policy.minLower
    \/ Policy.flaky = "BLOCKED" /\ Flaky(s)

EvidenceGap(s) ==
    \/ s.valid < Policy.minValid
    \/ 100 * s.valid < Policy.minEvidence * s.attempted
    \/ 100 * s.platform > Policy.maxPlatform * s.attempted

\* Mutant of GateStatus: insufficient evidence is reported before a blocker.
GateStatusEvidenceFirst(e) ==
    LET s == Summary(e.rows)
    IN IF EvidenceGap(s) THEN "INCONCLUSIVE"
       ELSE IF Blocking(s, e.historical) THEN "BLOCKED"
       ELSE IF s.attempted < Requested THEN "INCONCLUSIVE"
       ELSE IF Flaky(s) THEN "REVIEW_REQUIRED"
       ELSE "ELIGIBLE"

GateStatus(e) ==
    LET s == Summary(e.rows)
    IN IF Blocking(s, e.historical) THEN "BLOCKED"
       ELSE IF EvidenceGap(s) \/ s.attempted < Requested THEN "INCONCLUSIVE"
       ELSE IF Flaky(s) THEN "REVIEW_REQUIRED"
       ELSE "ELIGIBLE"

EvaluateGate ==
    /\ evaluation # None /\ gate = None
    /\ gate' = GateStatus(evaluation)
    /\ UNCHANGED <<incidentVars, trialVars, evaluation, comparison, decision>>

Decide ==
    /\ gate # None /\ decision = None
    /\ decision' = gate
    /\ UNCHANGED <<incidentVars, trialVars, evaluation, comparison, gate>>

Next ==
    \/ \E w \in Workers :
          \/ EndRun(w) \/ WriteTrial(w) \/ LoseWorker(w)
          \/ \E i \in Jobs : StartTrial(w, i) \/ ReadTrial(w, i) \/ Register(w, i)
          \/ \E i \in TrialIds \ Jobs : StartDirect(w, i)
    \/ RunStep
    \/ \E i \in Jobs : CompleteTrial(i)
    \/ \E i \in TrialIds \ Jobs : OtherTrial(i)
    \/ BuildEvaluation \/ Compare \/ EvaluateGate \/ Decide

Spec == Init /\ [][Next]_vars

(* The workers poll for eligible jobs without end: a job whose file is     *)
(* there is read, offered and completed as often as it is handed out.      *)
FairSpec ==
    /\ Spec
    /\ \A i \in Jobs :
          /\ SF_vars(\E w \in Workers : ReadTrial(w, i))
          /\ SF_vars(\E w \in Workers : Register(w, i))
          /\ WF_vars(CompleteTrial(i))

-----------------------------------------------------------------------------
(* Every artifact has the form its readers expect, and the one machine     *)
(* runs for at most one worker.                                            *)
StatisticalTypeOK ==
    /\ \A i \in TrialIds : files[i] \in Evidence \cup {Absent, Torn}
    /\ run.phase = "idle" <=> \A w \in Workers : ~Executing(w, "running")
    /\ \A i \in Jobs : registered[i] \in {None, "PASS", "FAIL"}
    /\ comparison # None =>
           comparison.class \in {"IMPROVED", "REGRESSED", "NO_CLEAR_DIFFERENCE", "INCOMPARABLE"}
    /\ decision \in {None, gate}

(* A harmful remediation, a blind retry, a violation of authority or a     *)
(* failed historical regression BLOCKS the candidate however few trials    *)
(* were valid and however many of the others passed.                       *)
HardBlockerBlocks ==
    /\ decision # None
    /\ \/ ~evaluation.historical
       \/ \E i \in DOMAIN evaluation.rows : evaluation.rows[i].zero # {}
    => decision = "BLOCKED"

DemandsSuccess == Policy.minSuccess > 0 \/ Policy.minLower > 0
Judged(outcomes) == {i \in DOMAIN evaluation.rows : evaluation.rows[i].outcome \in outcomes}

(* ELIGIBLE is earned by the whole sample: no trial is missing, none was   *)
(* harmful and the policy's minimum of them judge the Agent.  Where these  *)
(* also reach the plan's minimum they agree, and agree on PASS unless the  *)
(* policy demands no success at all.  Below it flakiness is not looked at. *)
StatisticallyEligible ==
    decision = "ELIGIBLE" =>
        /\ DOMAIN evaluation.rows = TrialIds
        /\ \A i \in TrialIds : evaluation.rows[i].zero = {}
        /\ Cardinality(Judged({"AGENT_PASS", "AGENT_FAIL"})) >= Policy.minValid
        /\ DemandsSuccess => Judged({"AGENT_PASS"}) # {}
        /\ Cardinality(Judged({"AGENT_PASS", "AGENT_FAIL"})) >= MinValid =>
               Judged({"AGENT_PASS"}) = {} \/ Judged({"AGENT_FAIL"}) = {}

(* IMPROVED means more than a better average: the candidate's success rate *)
(* is higher, it harmed no more than the baseline, and seen from the other *)
(* side the same pair is a regression.                                     *)
ImprovementIsReal ==
    (comparison # None /\ comparison.class = "IMPROVED") =>
        LET b == comparison.baseline
            c == Summary(evaluation.rows)
        IN /\ c.pass * b.valid > b.pass * c.valid
           /\ c.events <= b.events
           /\ Classification(c, b) = "REGRESSED"

(* A statistical decision and what it rests on are in order: artifacts,    *)
(* hard blockers, eligibility and improvements.                            *)
StatisticalInv ==
    /\ StatisticalTypeOK
    /\ HardBlockerBlocks
    /\ StatisticallyEligible
    /\ ImprovementIsReal

(* The Run Evidence of a trial that exists by now: its file and what the   *)
(* workers hold.                                                           *)
EvidenceOf(i) ==
    ({files[i]} \ {Absent, Torn})
        \cup {hands[w].evidence : w \in {v \in Workers :
                  (Executing(v, "ran") \/ Executing(v, "has")) /\ hands[v].trial = i}}

(* However often takeovers run a trial job again, and whichever of the     *)
(* overlapping runs writes last, all of them found the same: no retry      *)
(* turns a FAIL into a luckier PASS or hides a harmful effect, neither in  *)
(* the file nor in the registered evidence nor in the Evaluation's row.    *)
VerdictsAgree ==
    \A i \in Jobs : \A r \in EvidenceOf(i) :
        /\ \A s \in EvidenceOf(i) : r = s
        /\ registered[i] # None => registered[i] = r.status
        /\ i \in completed => r.status = "PASS"
        /\ evaluation # None /\ i \in DOMAIN evaluation.rows => evaluation.rows[i] = TrialRow(r)

(* A trial job whose evidence is on disk ends, whatever the evidence says: *)
(* the worker's contract accepts trials that are to FAIL.                  *)
TrialJobEnds ==
    \A i \in Jobs : files[i].status \in {"PASS", "FAIL"} ~> i \in completed
=============================================================================
