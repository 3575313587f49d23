----------------------- MODULE ReleaseDecisionProofs -----------------------
(***************************************************************************)
(* Theorems about ReleaseDecision, for any suite, any Agents and Endings   *)
(* and any number of evaluations and workers: a decision says what the     *)
(* Runs its gate read say, and while nobody executes them the files it was *)
(* made from still say so.                                                 *)
(***************************************************************************)
EXTENDS ReleaseDecision, WellFoundedInduction, TLAPS

-----------------------------------------------------------------------------
\* What the classification of one Run keeps of it.

\* A Run that the suite's member could have had.
LEMMA RunFacts ==
  ASSUME NEW m \in Members, NEW agent \in Agents, NEW r \in Runs(m, agent)
  PROVE  /\ r.profile \in {"known-bad", "fixed"}
         /\ r.status = "FAIL" => r.attribution = "Agent"
         /\ Suite[m] \in Categories
         /\ r.fault \in {"unplanned", "planned", "triggered", "reconciled"}
         /\ Suite[m] = "recovery" => r.fault # "unplanned"
<1>1. PICK e \in Endings[Suite[m]], k \in BOOLEAN, f \in {"unplanned", "planned", "triggered", "reconciled"} :
        r = [profile |-> agent, status |-> e[1], attribution |-> e[2], source |-> e[3],
             fault |-> f, matched |-> k]
  BY DEF Runs
<1>2. Suite[m] = "recovery" => r.fault # "unplanned"
  BY DEF Runs
<1>4. agent \in {"known-bad", "fixed"} /\ Suite[m] \in Categories
  BY EvaluationConstants DEF Members
<1>3. e[1] = "FAIL" => e[2] = "Agent"
  BY <1>4, EvaluationConstants
<1>5. QED
  BY <1>1, <1>2, <1>3, <1>4

\* The stages of a planned fault are reached in their order.
LEMMA ReachedStage ==
  ASSUME NEW run, run.fault \in {"unplanned", "planned", "triggered", "reconciled"}
  PROVE  /\ Reached(run, "planned") <=> run.fault # "unplanned"
         /\ Reached(run, "reconciled") <=> run.fault = "reconciled"
<1>1. /\ DOMAIN FaultStages = 1 .. 5
      /\ FaultStages[1] = "unplanned" /\ FaultStages[2] = "planned" /\ FaultStages[3] = "triggered"
      /\ FaultStages[4] = "observed" /\ FaultStages[5] = "reconciled"
  BY DEF FaultStages
<1>2. \A s : Reached(run, s) <=>
        \E i, j \in 1 .. 5 : FaultStages[i] = s /\ FaultStages[j] = run.fault /\ i <= j
  BY <1>1 DEF Reached
<1>3. \A i \in 1 .. 5 : i \in {1, 2, 3, 4, 5}
  OBVIOUS
<1>4. QED
  BY <1>1, <1>2, <1>3

\* A result that is a verdict needs a Run that ended with the same verdict.
LEMMA VerdictIsTheRuns ==
  ASSUME NEW m \in Members, NEW agent \in Agents, NEW r \in Runs(m, agent)
  PROVE  /\ ItemResult(m, r) \in Verdicts => r.status = ItemResult(m, r)
         /\ ItemResult(m, r) = "PASS" /\ Suite[m] = "recovery" => Reached(r, "reconciled")
         /\ ItemResult(m, r) = "PASS" /\ Suite[m] = "regression" => r.profile = "fixed" /\ r.matched
<1>1. CASE Suite[m] = "regression"
  BY <1>1, RunFacts DEF ItemResult, Oracle, Expected, Verdicts
<1>2. CASE Suite[m] = "recovery"
  BY <1>2, RunFacts, ReachedStage DEF ItemResult, Verdicts
<1>3. CASE Suite[m] = "functional"
  BY <1>3 DEF ItemResult, Verdicts
<1>4. QED
  BY <1>1, <1>2, <1>3, RunFacts DEF Categories

\* What an Evaluation records of a member is its classification.
LEMMA ItemFacts ==
  ASSUME NEW m \in Members, NEW agent, NEW runs
  PROVE  LET item == BuildEvaluation(agent, runs).items[m]
         IN /\ item.result = ItemResult(m, runs[m])
            /\ item.valid \in BOOLEAN
            /\ item.valid <=> ItemResult(m, runs[m]) \in Verdicts /\ HealthBoundaryOk(runs[m])
            /\ item.valid => item.attribution = "Agent"
            /\ item.attribution = ItemAttribution(m, runs[m])
<1> DEFINE item == BuildEvaluation(agent, runs).items[m]
<1>1. item = ClassifyMember(m, runs[m])
  BY DEF BuildEvaluation
<1>2. /\ item.result = ItemResult(m, runs[m])
      /\ item.attribution = ItemAttribution(m, runs[m])
      /\ item.valid = (ItemResult(m, runs[m]) \in Verdicts /\ HealthBoundaryOk(runs[m]))
  BY <1>1 DEF ClassifyMember
<1>3. item.valid => item.attribution = "Agent"
  BY <1>2 DEF ItemAttribution
<1>4. QED
  BY <1>2, <1>3

-----------------------------------------------------------------------------
\* What the rules of the gate say of an Evaluation.

\* The Runs of a suite, each of them one its member could have had.
WellRun(agent, runs) == agent \in Agents /\ \A m \in Members : runs[m] \in Runs(m, agent)

\* The Runs of a whole suite are such Runs.
LEMMA SuiteIsWellRun ==
  ASSUME NEW agent \in Agents, NEW runs \in SuiteRuns[agent]
  PROVE  WellRun(agent, runs)
  BY DEF SuiteRuns, WellRun

\* A comparison class is REGRESSED only between two valid verdicts.
LEMMA RegressedItem ==
  ASSUME NEW b, NEW c, b.valid \in BOOLEAN, c.valid \in BOOLEAN,
         b.valid => b.result \in Verdicts, c.valid => c.result \in Verdicts
  PROVE  /\ CompareItem(b, c) = "REGRESSED" => c.valid /\ c.result = "FAIL"
         /\ CompareItem(b, c) # "INCOMPARABLE" => b.valid /\ c.valid
<1>1. CASE ~b.valid \/ ~c.valid
  BY <1>1 DEF CompareItem
<1>2. CASE b.valid /\ c.valid
  BY <1>2 DEF CompareItem, Verdicts
<1>3. QED
  BY <1>1, <1>2

\* A valid FAIL is the Agent's, and blocks.
LEMMA ValidFailBlocks ==
  ASSUME NEW agent, NEW runs, NEW m \in Members, NEW flagged,
         BuildEvaluation(agent, runs).items[m].valid,
         BuildEvaluation(agent, runs).items[m].result = "FAIL"
  PROVE  "BLOCK" \in Effects(BuildEvaluation(agent, runs), flagged)
<1>1. AgentFailEffect(BuildEvaluation(agent, runs)) = "BLOCK"
  BY ItemFacts DEF AgentFailEffect
<1>2. QED
  BY <1>1 DEF Effects

\* BLOCK outweighs everything, and only a clean sheet is ELIGIBLE.
LEMMA StatusFollows ==
  ASSUME NEW effects
  PROVE  /\ DecisionStatus(effects) = "BLOCKED" <=> "BLOCK" \in effects
         /\ DecisionStatus(effects) = "ELIGIBLE" =>
              "BLOCK" \notin effects /\ "EVIDENCE_GAP" \notin effects
         /\ DecisionStatus(effects) \in {"ELIGIBLE", "BLOCKED", "INCONCLUSIVE", "REVIEW_REQUIRED"}
<1>1. CASE "BLOCK" \in effects
  BY <1>1 DEF DecisionStatus
<1>2. CASE "BLOCK" \notin effects /\ "EVIDENCE_GAP" \in effects
  BY <1>2 DEF DecisionStatus
<1>3. CASE /\ "BLOCK" \notin effects /\ "EVIDENCE_GAP" \notin effects
           /\ effects \subseteq {"NONE", "REVIEW"} /\ "REVIEW" \in effects
  BY <1>3 DEF DecisionStatus
<1>4. CASE /\ "BLOCK" \notin effects /\ "EVIDENCE_GAP" \notin effects
           /\ ~(effects \subseteq {"NONE", "REVIEW"} /\ "REVIEW" \in effects)
  BY <1>4 DEF DecisionStatus
<1>5. QED
  BY <1>1, <1>2, <1>3, <1>4

\* Without a failure and without a gap every Run passed for good.
LEMMA CleanSheet ==
  ASSUME NEW agent, NEW runs, WellRun(agent, runs), NEW flagged, NEW m \in Members,
         "BLOCK" \notin Effects(BuildEvaluation(agent, runs), flagged),
         "EVIDENCE_GAP" \notin Effects(BuildEvaluation(agent, runs), flagged)
  PROVE  /\ runs[m].status = "PASS" /\ HealthBoundaryOk(runs[m])
         /\ Suite[m] = "recovery" => Reached(runs[m], "reconciled")
         /\ Suite[m] = "regression" => runs[m].profile = "fixed" /\ runs[m].matched
<1> DEFINE e == BuildEvaluation(agent, runs)
<1>1. CoverageEffect(e) # "EVIDENCE_GAP"
  BY DEF Effects
<1>2. e.items[m].valid
  BY <1>1 DEF CoverageEffect, ValidItems
<1>3. ItemResult(m, runs[m]) \in Verdicts /\ HealthBoundaryOk(runs[m])
  BY <1>2, ItemFacts
<1>4. e.items[m].result # "FAIL"
  BY <1>2, ValidFailBlocks
<1>5. ItemResult(m, runs[m]) = "PASS"
  BY <1>3, <1>4, ItemFacts DEF Verdicts
<1>6. QED
  BY <1>3, <1>5, VerdictIsTheRuns DEF WellRun, Verdicts

\* A set of member numbers has a least one.
LEMMA LeastMember ==
  ASSUME NEW T \in SUBSET Nat, T # {}
  PROVE  \E x \in T : \A y \in T : x <= y
<1>1. PICK x \in T : \A y \in T : <<y, x>> \notin OpToRel(<, Nat)
  BY WFMin, NatLessThanWellFounded
<1>2. \A y \in T : ~(y < x)
  BY <1>1 DEF OpToRel
<1>3. \A y \in T : x <= y
  BY <1>2
<1>4. QED
  BY <1>3

\* The rule of a category reads the first member of it.
LEMMA FirstMember ==
  ASSUME NEW category \in Categories, NEW e
  PROVE  \E m \in Members : Suite[m] = category /\ FirstItem(e, category) = e.items[m]
<1> DEFINE T == {m \in Members : Suite[m] = category}
           Least(m) == Suite[m] = category /\ \A n \in Members : Suite[n] = category => m <= n
<1>1. T \subseteq Nat /\ T # {}
  BY EvaluationConstants DEF Members
<1>2. \E m \in Members : Least(m)
  BY <1>1, LeastMember
<1>3. LET first == CHOOSE m \in Members : Least(m)
      IN first \in Members /\ Suite[first] = category
  BY <1>2
<1>4. QED
  BY <1>3 DEF FirstItem

\* Where the gate blocks, a Run failed as the Agent's.
LEMMA BlockBlames ==
  ASSUME NEW agent, NEW runs, WellRun(agent, runs), NEW flagged,
         "BLOCK" \in Effects(BuildEvaluation(agent, runs), flagged)
  PROVE  \E m \in Members : runs[m].status = "FAIL" /\ runs[m].attribution = "Agent"
<1> DEFINE e == BuildEvaluation(agent, runs)
<1>1. \E m \in Members : e.items[m].result = "FAIL"
  <2>1. CASE AgentFailEffect(e) = "BLOCK"
    BY <2>1 DEF AgentFailEffect
  <2>2. CASE HistoricalRegressionEffect(e) = "BLOCK"
    <3>1. PICK m \in Members : FirstItem(e, "regression") = e.items[m]
      BY FirstMember DEF Categories
    <3>2. e.items[m].result = "FAIL"
      BY <2>2, <3>1 DEF HistoricalRegressionEffect
    <3>3. QED
      BY <3>2
  <2>3. CASE RecoveryEffect(e) = "BLOCK"
    <3>1. PICK m \in Members : FirstItem(e, "recovery") = e.items[m]
      BY FirstMember DEF Categories
    <3>2. e.items[m].result = "FAIL"
      BY <2>3, <3>1 DEF RecoveryEffect
    <3>3. QED
      BY <3>2
  <2>4. "BLOCK" \notin {CoverageEffect(e), EvidenceContractEffect(e),
                         IF flagged THEN "REVIEW" ELSE "NONE"}
    BY DEF CoverageEffect, EvidenceContractEffect
  <2>5. QED
    BY <2>1, <2>2, <2>3, <2>4 DEF Effects
<1>2. PICK m \in Members : ItemResult(m, runs[m]) = "FAIL"
  BY <1>1, ItemFacts
<1>3. runs[m].status = "FAIL"
  BY <1>2, VerdictIsTheRuns DEF WellRun, Verdicts
<1>4. QED
  BY <1>3, RunFacts DEF WellRun

\* Items carry verdicts where they are valid.
LEMMA ValidItem ==
  ASSUME NEW m \in Members, NEW agent, NEW runs
  PROVE  LET item == BuildEvaluation(agent, runs).items[m]
         IN item.valid \in BOOLEAN /\ (item.valid => item.result \in Verdicts)
  BY ItemFacts

\* A member that got worse blocks.
LEMMA RegressionIsBlock ==
  ASSUME NEW agent, NEW runs, NEW basis, NEW before, NEW flagged, NEW m \in Members,
         CompareItem(BuildEvaluation(basis, before).items[m],
                     BuildEvaluation(agent, runs).items[m]) = "REGRESSED"
  PROVE  "BLOCK" \in Effects(BuildEvaluation(agent, runs), flagged)
<1> DEFINE b == BuildEvaluation(basis, before).items[m]
           c == BuildEvaluation(agent, runs).items[m]
<1>1. /\ b.valid \in BOOLEAN /\ (b.valid => b.result \in Verdicts)
      /\ c.valid \in BOOLEAN /\ (c.valid => c.result \in Verdicts)
  BY ValidItem
<1>2. c.valid /\ c.result = "FAIL"
  <2> HIDE DEF b, c
  <2>1. CompareItem(b, c) = "REGRESSED"
    BY DEF b, c
  <2>2. QED
    BY <1>1, <2>1, RegressedItem
<1>3. QED
  BY <1>2, ValidFailBlocks

-----------------------------------------------------------------------------
\* What a comparison says of the two Evaluations.

Summaries == {Nothing, "MIXED", "CANDIDATE_REGRESSED", "CANDIDATE_IMPROVED", "UNCHANGED",
              "INCOMPARABLE"}

\* The comparison's summary follows the classes of its members.
LEMMA AggregateFollows ==
  ASSUME NEW classes
  PROVE  /\ Aggregate(classes) \in Summaries
         /\ Aggregate(classes) = "CANDIDATE_REGRESSED" => "REGRESSED" \in classes
         /\ Aggregate(classes) = "CANDIDATE_IMPROVED" => "INCOMPARABLE" \notin classes
<1>1. CASE {"REGRESSED", "IMPROVED"} \subseteq classes
  BY <1>1 DEF Aggregate, Summaries
<1>2. CASE "REGRESSED" \in classes /\ "IMPROVED" \notin classes
  BY <1>2 DEF Aggregate, Summaries
<1>3. CASE "REGRESSED" \notin classes /\ "IMPROVED" \in classes
  BY <1>3 DEF Aggregate, Summaries
<1>4. CASE "REGRESSED" \notin classes /\ "IMPROVED" \notin classes
  BY <1>4 DEF Aggregate, Summaries
<1>5. QED
  BY <1>1, <1>2, <1>3, <1>4

\* A summary speaks of the members' classes.
LEMMA SummaryFollows ==
  ASSUME NEW b, NEW c, NEW base, NEW cand
  PROVE  LET class(m) == CompareItem(base.items[m], cand.items[m])
             summary == Comparison(b, c, base, cand).summary
         IN /\ summary \in Summaries
            /\ summary = "CANDIDATE_REGRESSED" => \E m \in Members : class(m) = "REGRESSED"
            /\ summary = "CANDIDATE_IMPROVED" => \A m \in Members : class(m) # "INCOMPARABLE"
<1> DEFINE class(m) == CompareItem(base.items[m], cand.items[m])
           classes == {class(m) : m \in Members}
<1>1. Comparison(b, c, base, cand).summary \in {Nothing, Aggregate(classes)}
  BY DEF Comparison
<1>2. Nothing \in Summaries /\ Nothing \notin {"CANDIDATE_REGRESSED", "CANDIDATE_IMPROVED"}
  BY DEF Nothing, Summaries
<1> HIDE DEF class
<1>3. /\ "REGRESSED" \in classes => \E m \in Members : class(m) = "REGRESSED"
      /\ "INCOMPARABLE" \notin classes => \A m \in Members : class(m) # "INCOMPARABLE"
  OBVIOUS
<1> HIDE DEF classes
<1>4. QED
  BY <1>1, <1>2, <1>3, AggregateFollows DEF class

-----------------------------------------------------------------------------
\* The inductive invariant.

FileOK(id) ==
  \/ files[id] \in {Absent, Torn}
  \/ IsEvaluation(files[id]) /\ files[id].agent = agentOf[id]

\* A comparison says what the two Evaluations it read say.
Compared(c) ==
  /\ c.result.summary \in Summaries
  /\ c.result.summary = "CANDIDATE_IMPROVED" => c.result.status = "COMPLETE"
  /\ c.result.status = "COMPLETE" =>
       /\ c.result.baseline \in EvaluationIds /\ c.result.candidate \in EvaluationIds
       /\ IsEvaluation(c.base) /\ c.base.agent = agentOf[c.result.baseline]
       /\ IsEvaluation(c.cand) /\ c.cand.agent = agentOf[c.result.candidate]
       /\ c.result = Comparison(c.result.baseline, c.result.candidate, Load(c.base), Load(c.cand))

\* An Evaluation that nobody executes, as it was read.
Rests(f, x, id, read) == x[id] = 0 /\ f[id] = read

\* The files f that a comparison read are still there, and nobody executes them.
Kept(f, x, c) ==
  c.result.status = "COMPLETE" /\ c.settled =>
    /\ Rests(f, x, c.result.baseline, c.base)
    /\ Rests(f, x, c.result.candidate, c.cand)

\* What _identity_errors lets through, and the status that follows.
Granted(g) ==
  /\ Compared(g.comparison) /\ g.comparison.result.status = "COMPLETE"
  /\ g.evaluation \in {g.comparison.result.baseline, g.comparison.result.candidate}
  /\ IsEvaluation(g.read)
  /\ \E flagged \in BOOLEAN : g.status = DecisionStatus(Effects(Load(g.read), flagged))
  /\ g.subject = "CANDIDATE" =>
       /\ g.comparison.result.candidate = g.evaluation
       /\ g.comparison.result.baseline = g.baseline
       /\ g.comparison.base.agent # g.read.agent

GrantKept(f, x, g) ==
  /\ Kept(f, x, g.comparison)
  /\ g.comparison.settled => Rests(f, x, g.evaluation, g.read)

ReleaseTypes ==
  /\ agentOf \in [EvaluationIds -> Agents]
  /\ executing \in [EvaluationIds -> Nat]
  /\ files \in [EvaluationIds -> {files[id] : id \in EvaluationIds}]
  /\ \A id \in EvaluationIds : FileOK(id)

ReleaseInv ==
  /\ ReleaseTypes
  /\ comparison # None => Compared(comparison) /\ Kept(files, executing, comparison)
  /\ gate # None /\ gate # Invalid => Granted(gate) /\ GrantKept(files, executing, gate)
  /\ decision # None => Granted(decision) /\ GrantKept(files, executing, decision)

\* No step of a worker disturbs an Evaluation at rest: one that finds the file
\* does not run the Agent, so only those that started before may write it.
Undisturbed(f, x, g, y) ==
  \A id \in EvaluationIds : x[id] = 0 /\ f[id].state = "whole" => y[id] = 0 /\ g[id] = f[id]

\* A comparison and a decision keep what they were made from.
LEMMA KeptStays ==
  ASSUME NEW f, NEW x, NEW g, NEW y, Undisturbed(f, x, g, y),
         NEW c, Compared(c), Kept(f, x, c)
  PROVE  Kept(g, y, c)
<1> SUFFICES ASSUME c.result.status = "COMPLETE", c.settled
             PROVE  /\ Rests(g, y, c.result.baseline, c.base)
                    /\ Rests(g, y, c.result.candidate, c.cand)
  BY DEF Kept
<1>1. /\ Rests(f, x, c.result.baseline, c.base) /\ Rests(f, x, c.result.candidate, c.cand)
  BY DEF Kept
<1>2. /\ c.result.baseline \in EvaluationIds /\ c.result.candidate \in EvaluationIds
      /\ c.base.state = "whole" /\ c.cand.state = "whole"
  BY DEF Compared, IsEvaluation
<1>3. QED
  BY <1>1, <1>2 DEF Rests, Undisturbed

LEMMA GrantStays ==
  ASSUME NEW f, NEW x, NEW g, NEW y, Undisturbed(f, x, g, y),
         NEW d, Granted(d), GrantKept(f, x, d)
  PROVE  GrantKept(g, y, d)
<1>1. Kept(g, y, d.comparison)
  BY KeptStays DEF Granted, GrantKept
<1>2. d.comparison.settled => Rests(g, y, d.evaluation, d.read)
  <2>1. d.evaluation \in EvaluationIds /\ d.read.state = "whole"
    BY DEF Granted, Compared, IsEvaluation
  <2>2. QED
    BY <2>1 DEF GrantKept, Rests, Undisturbed
<1>3. QED
  BY <1>1, <1>2 DEF GrantKept

\* The comparison as it is written down.
LEMMA ComparisonNames ==
  ASSUME NEW b, NEW c, NEW base, NEW cand
  PROVE  /\ Comparison(b, c, base, cand).baseline = b
         /\ Comparison(b, c, base, cand).candidate = c
         /\ Comparison(b, c, base, cand).status \in {"INVALID", "COMPLETE"}
         /\ Comparison(b, c, base, cand).status = "INVALID" =>
              Comparison(b, c, base, cand).summary = Nothing
  BY DEF Comparison

\* A step of a worker changes nothing but the files and who executes.
LEMMA WorkerStep ==
  ASSUME ReleaseInv, ReleaseTypes', Undisturbed(files, executing, files', executing'),
         UNCHANGED <<agentOf, comparison, gate, decision>>
  PROVE  ReleaseInv'
<1>1. \A c : Compared(c) => Compared(c)'
  BY DEF Compared
<1>2. \A g : Granted(g) => Granted(g)'
  BY <1>1 DEF Granted
<1>3. comparison # None => Compared(comparison)' /\ Kept(files', executing', comparison)
  BY <1>1, KeptStays DEF ReleaseInv
<1>4. gate # None /\ gate # Invalid => Granted(gate)' /\ GrantKept(files', executing', gate)
  BY <1>2, GrantStays DEF ReleaseInv
<1>5. decision # None => Granted(decision)' /\ GrantKept(files', executing', decision)
  BY <1>2, GrantStays DEF ReleaseInv
<1>6. QED
  BY <1>3, <1>4, <1>5 DEF ReleaseInv

LEMMA ExecuteStep ==
  ASSUME ReleaseInv, NEW id \in EvaluationIds, Execute(id)
  PROVE  ReleaseInv'
<1>1. /\ files[id] = Absent /\ executing' = [executing EXCEPT ![id] = @ + 1]
      /\ UNCHANGED <<agentOf, files, comparison, gate, decision>>
  BY DEF Execute
<1>2. ReleaseTypes'
  BY <1>1 DEF ReleaseInv, ReleaseTypes, FileOK
<1>3. Undisturbed(files, executing, files', executing')
  BY <1>1 DEF ReleaseInv, ReleaseTypes, Undisturbed, Absent
<1>4. QED
  BY <1>1, <1>2, <1>3, WorkerStep

\* A worker that returns from its execution writes only that one's file.
LEMMA ReturnStep ==
  ASSUME ReleaseInv, NEW id \in EvaluationIds, Returns(id), NEW file,
         files' = [files EXCEPT ![id] = file],
         file \in {Absent, Torn} \/ (IsEvaluation(file) /\ file.agent = agentOf[id]),
         UNCHANGED <<agentOf, comparison, gate, decision>>
  PROVE  ReleaseInv'
<1>1. /\ executing[id] > 0 /\ executing' = [executing EXCEPT ![id] = @ - 1]
      /\ executing \in [EvaluationIds -> Nat]
  BY DEF Returns, ReleaseInv, ReleaseTypes
<1>2. executing' \in [EvaluationIds -> Nat]
  BY <1>1
<1>3. /\ files'[id] = file
      /\ \A other \in EvaluationIds \ {id} : files'[other] = files[other]
      /\ files' \in [EvaluationIds -> {files'[other] : other \in EvaluationIds}]
  BY DEF ReleaseInv, ReleaseTypes
<1>4. \A other \in EvaluationIds : FileOK(other)'
  BY <1>3 DEF ReleaseInv, ReleaseTypes, FileOK
<1>5. ReleaseTypes'
  BY <1>2, <1>3, <1>4 DEF ReleaseInv, ReleaseTypes
<1>6. Undisturbed(files, executing, files', executing')
  BY <1>1, <1>3 DEF Undisturbed
<1>7. QED
  BY <1>5, <1>6, WorkerStep

LEMMA WriteStep ==
  ASSUME ReleaseInv, NEW id \in EvaluationIds, WriteEvaluation(id)
  PROVE  ReleaseInv'
<1>1. PICK runs \in SuiteRuns[agentOf[id]] :
        files' = [files EXCEPT ![id] = [state |-> "whole", agent |-> agentOf[id], runs |-> runs]]
  BY DEF WriteEvaluation
<1> DEFINE file == [state |-> "whole", agent |-> agentOf[id], runs |-> runs]
<1>2. IsEvaluation(file) /\ file.agent = agentOf[id]
  BY DEF ReleaseInv, ReleaseTypes, IsEvaluation
<1> HIDE DEF file
<1>3. QED
  BY <1>1, <1>2, ReturnStep DEF WriteEvaluation, file

LEMMA CrashStep ==
  ASSUME ReleaseInv, NEW id \in EvaluationIds, CrashInExecution(id)
  PROVE  ReleaseInv'
<1>1. files' = files \/ files' = [files EXCEPT ![id] = Torn]
  BY DEF CrashInExecution
<1>2. files = [files EXCEPT ![id] = files[id]]
  BY DEF ReleaseInv, ReleaseTypes
<1>3. files[id] \in {Absent, Torn} \/ (IsEvaluation(files[id]) /\ files[id].agent = agentOf[id])
  BY DEF ReleaseInv, ReleaseTypes, FileOK
<1>4. QED
  BY <1>1, <1>2, <1>3, ReturnStep DEF CrashInExecution

\* A whole file is an Evaluation of the agent in its job's payload.
LEMMA WholeFile ==
  ASSUME ReleaseInv, NEW id \in EvaluationIds, Whole(id)
  PROVE  IsEvaluation(files[id]) /\ files[id].agent = agentOf[id]
  BY DEF ReleaseInv, ReleaseTypes, FileOK, Whole, Absent, Torn

LEMMA CompareStep ==
  ASSUME ReleaseInv, NEW b \in EvaluationIds, NEW c \in EvaluationIds, Compare(b, c)
  PROVE  ReleaseInv'
<1> DEFINE result == Comparison(b, c, Load(files[b]), Load(files[c]))
           done == [result |-> result, base |-> files[b], cand |-> files[c],
                    settled |-> Settled(b) /\ Settled(c)]
<1>1. /\ comparison' = IF result.status = "INVALID" THEN [result |-> result] ELSE done
      /\ Whole(b) /\ Whole(c) /\ UNCHANGED <<agentOf, executing, files, gate, decision>>
  BY DEF Compare
<1>2. /\ result.baseline = b /\ result.candidate = c
      /\ result.status \in {"INVALID", "COMPLETE"}
      /\ result.status = "INVALID" => result.summary = Nothing
      /\ result.summary \in Summaries
  BY ComparisonNames, SummaryFollows
<1>3. /\ IsEvaluation(files[b]) /\ files[b].agent = agentOf[b]
      /\ IsEvaluation(files[c]) /\ files[c].agent = agentOf[c]
  BY <1>1, WholeFile
<1>4. result = Comparison(b, c, Load(files[b]), Load(files[c]))
  OBVIOUS
<1> HIDE DEF result
<1>5. Compared(comparison)' /\ Kept(files', executing', comparison')
  <2>1. CASE result.status = "INVALID"
    <3>1. comparison'.result = result
      BY <1>1, <2>1
    <3>2. result.summary \in Summaries /\ result.summary # "CANDIDATE_IMPROVED"
      BY <1>2, <2>1 DEF Nothing
    <3>3. QED
      BY <2>1, <3>1, <3>2 DEF Compared, Kept
  <2>2. CASE result.status = "COMPLETE"
    <3>1. comparison' = done
      BY <1>1, <2>2
    <3>2. /\ comparison'.result = result /\ comparison'.base = files[b]
          /\ comparison'.cand = files[c]
          /\ comparison'.settled = (Settled(b) /\ Settled(c))
      BY <3>1
    <3>3. Compared(comparison)'
      BY <1>1, <1>2, <1>3, <1>4, <2>2, <3>2 DEF Compared, IsEvaluation
    <3>4. Kept(files', executing', comparison')
      BY <1>1, <1>2, <3>2 DEF Kept, Rests, Settled
    <3>5. QED
      BY <3>3, <3>4
  <2>3. QED
    BY <1>2, <2>1, <2>2
<1>6. ReleaseTypes' /\ (\A g : Granted(g) => Granted(g)')
  BY <1>1 DEF ReleaseInv, ReleaseTypes, FileOK, Granted, Compared
<1>7. QED
  BY <1>1, <1>5, <1>6 DEF ReleaseInv

LEMMA GateStep ==
  ASSUME ReleaseInv, NEW subject \in {"CANDIDATE", "BASELINE"}, NEW s \in EvaluationIds,
         NEW b \in EvaluationIds \union {None}, NEW flagged \in BOOLEAN,
         EvaluateQualityGate(subject, s, b, flagged)
  PROVE  ReleaseInv'
<1>1. /\ comparison # None /\ Whole(s) /\ (b # None => Whole(b))
      /\ gate' = GateResult(subject, s, b, flagged)
      /\ UNCHANGED <<agentOf, executing, files, comparison, decision>>
  BY DEF EvaluateQualityGate
<1>2. /\ ReleaseTypes' /\ (\A c : Compared(c) => Compared(c)')
  BY <1>1 DEF ReleaseInv, ReleaseTypes, FileOK, Compared
<1>3. \A g : Granted(g) => Granted(g)'
  BY <1>2 DEF Granted
<1>4. gate' # None /\ gate' # Invalid => Granted(gate)' /\ GrantKept(files', executing', gate')
  <2>1. CASE (subject = "CANDIDATE" /\ b = None) \/ IdentityErrors(subject, s, b)
    BY <1>1, <2>1 DEF GateResult
  <2>2. CASE ~((subject = "CANDIDATE" /\ b = None) \/ IdentityErrors(subject, s, b))
    <3> DEFINE status == DecisionStatus(Effects(Load(files[s]), flagged))
    <3>1. gate' = [status |-> status, subject |-> subject, evaluation |-> s, baseline |-> b,
                   comparison |-> comparison, read |-> files[s]]
      BY <1>1, <2>2 DEF GateResult
    <3>2. \E flag \in BOOLEAN : status = DecisionStatus(Effects(Load(files[s]), flag))
      OBVIOUS
    <3> HIDE DEF status
    <3>3. /\ gate'.status = status /\ gate'.subject = subject /\ gate'.evaluation = s
          /\ gate'.baseline = b /\ gate'.comparison = comparison /\ gate'.read = files[s]
      BY <3>1
    <3>4. /\ comparison.result.status = "COMPLETE"
          /\ s = IF subject = "CANDIDATE" THEN comparison.result.candidate
                 ELSE comparison.result.baseline
          /\ subject = "CANDIDATE" =>
               /\ b # None /\ comparison.result.baseline = b /\ files[b].agent # files[s].agent
      BY <2>2 DEF IdentityErrors
    <3>5. Compared(comparison) /\ Kept(files, executing, comparison)
      BY <1>1 DEF ReleaseInv
    <3>6. IsEvaluation(files[s])
      BY <1>1, WholeFile
    <3>7. subject = "CANDIDATE" => comparison.base.agent # files[s].agent
      <4>1. subject = "CANDIDATE" => files[b].agent = agentOf[b]
        BY <1>1, <3>4, WholeFile
      <4>2. QED
        BY <3>4, <3>5, <4>1 DEF Compared
    <3>8. Granted(gate)'
      <4>1. Compared(comparison)'
        BY <1>1, <1>2, <3>5
      <4>2. QED
        BY <1>1, <3>2, <3>3, <3>4, <3>6, <3>7, <4>1 DEF Granted, IsEvaluation
    <3>9. GrantKept(files', executing', gate')
      <4>1. Kept(files, executing, gate'.comparison)
        BY <3>3, <3>5
      <4>2. ASSUME comparison.settled PROVE executing[s] = 0
        <5>1. /\ Rests(files, executing, comparison.result.baseline, comparison.base)
              /\ Rests(files, executing, comparison.result.candidate, comparison.cand)
          BY <3>4, <3>5, <4>2 DEF Kept
        <5>2. QED
          BY <3>4, <5>1 DEF Rests
      <4>3. gate'.comparison.settled => Rests(files, executing, gate'.evaluation, gate'.read)
        BY <3>3, <4>2 DEF Rests
      <4>4. QED
        BY <1>1, <4>1, <4>3 DEF GrantKept
    <3>10. QED
      BY <3>8, <3>9
  <2>3. QED
    BY <2>1, <2>2
<1>5. QED
  BY <1>1, <1>2, <1>3, <1>4 DEF ReleaseInv

LEMMA DecideStep ==
  ASSUME ReleaseInv, CreateReleaseDecision
  PROVE  ReleaseInv'
<1>1. /\ gate # None /\ gate # Invalid /\ decision' = gate
      /\ UNCHANGED <<agentOf, executing, files, comparison, gate>>
  BY DEF CreateReleaseDecision
<1>2. ReleaseTypes' /\ (\A c : Compared(c) => Compared(c)')
  BY <1>1 DEF ReleaseInv, ReleaseTypes, FileOK, Compared
<1>3. \A g : Granted(g) => Granted(g)'
  BY <1>2 DEF Granted
<1>4. QED
  BY <1>1, <1>2, <1>3 DEF ReleaseInv

LEMMA ReleaseStutter ==
  ASSUME ReleaseInv, UNCHANGED vars
  PROVE  ReleaseInv'
<1>1. UNCHANGED <<agentOf, executing, files, comparison, gate, decision>>
  BY DEF vars
<1>2. ReleaseTypes' /\ (\A c : Compared(c) => Compared(c)')
  BY <1>1 DEF ReleaseInv, ReleaseTypes, FileOK, Compared
<1>3. \A g : Granted(g) => Granted(g)'
  BY <1>2 DEF Granted
<1>4. QED
  BY <1>1, <1>2, <1>3 DEF ReleaseInv

LEMMA ReleaseStep ==
  ASSUME ReleaseInv, [Next]_vars
  PROVE  ReleaseInv'
  BY ExecuteStep, WriteStep, CrashStep, CompareStep, GateStep, DecideStep, ReleaseStutter DEF Next

LEMMA ReleaseInit == Init => ReleaseInv
  BY DEF Init, ReleaseInv, ReleaseTypes, FileOK

\* The inductive invariant: a comparison and a decision say what the files they
\* read say, and the files that nobody was to write are still those.
THEOREM ReleaseInductive == Spec => []ReleaseInv
  BY ReleaseInit, ReleaseStep, PTL DEF Spec

-----------------------------------------------------------------------------
\* The properties.

\* A decision's status follows from the Runs that its gate read.
LEMMA DecisionFacts ==
  ASSUME ReleaseInv, decision # None
  PROVE  /\ IsEvaluation(decision.read) /\ WellRun(decision.read.agent, decision.read.runs)
         /\ Compared(decision.comparison) /\ decision.comparison.result.status = "COMPLETE"
         /\ \E flagged \in BOOLEAN :
               decision.status = DecisionStatus(
                   Effects(BuildEvaluation(decision.read.agent, decision.read.runs), flagged))
<1>1. IsEvaluation(decision.read) /\ WellRun(decision.read.agent, decision.read.runs)
  BY SuiteIsWellRun DEF ReleaseInv, Granted, IsEvaluation
<1>2. QED
  BY <1>1 DEF ReleaseInv, Granted, Load

\* Types, and what ELIGIBLE and an improvement rest on.
THEOREM DecisionsAreEarned == Spec => []DecisionInv
<1> SUFFICES ASSUME ReleaseInv PROVE DecisionInv
  BY ReleaseInductive, PTL
<1>1. DecisionTypeOK
  <2>1. /\ executing \in [EvaluationIds -> Nat]
        /\ \A id \in EvaluationIds : files[id] \in {Absent, Torn} \/ IsEvaluation(files[id])
        /\ comparison # None => comparison.result.summary \in Summaries
    BY DEF ReleaseInv, ReleaseTypes, FileOK, Compared
  <2>2. decision # None =>
          /\ decision.status \in {"ELIGIBLE", "BLOCKED", "INCONCLUSIVE", "REVIEW_REQUIRED"}
          /\ IsEvaluation(decision.read)
    BY DecisionFacts, StatusFollows
  <2>3. QED
    BY <2>1, <2>2 DEF DecisionTypeOK, Summaries
<1>2. EligibleIsEarned
  <2> SUFFICES ASSUME decision # None, decision.status = "ELIGIBLE", NEW m \in Members
               PROVE  LET run == decision.read.runs[m]
                      IN /\ run.status = "PASS" /\ HealthBoundaryOk(run)
                         /\ Suite[m] = "recovery" => Reached(run, "reconciled")
                         /\ Suite[m] = "regression" => run.profile = "fixed" /\ run.matched
    BY DEF EligibleIsEarned
  <2> DEFINE e == BuildEvaluation(decision.read.agent, decision.read.runs)
  <2>1. WellRun(decision.read.agent, decision.read.runs)
    BY DecisionFacts
  <2>2. PICK flagged \in BOOLEAN : decision.status = DecisionStatus(Effects(e, flagged))
    BY DecisionFacts
  <2>3. "BLOCK" \notin Effects(e, flagged) /\ "EVIDENCE_GAP" \notin Effects(e, flagged)
    BY <2>2, StatusFollows
  <2>4. QED
    BY <2>1, <2>3, CleanSheet
<1>3. EligibleWasCompared
  <2> SUFFICES ASSUME decision # None, decision.status = "ELIGIBLE", decision.subject = "CANDIDATE"
               PROVE  /\ decision.comparison.result.candidate = decision.evaluation
                      /\ decision.comparison.result.baseline = decision.baseline
                      /\ decision.comparison.base.agent # decision.read.agent
                      /\ SawTheSame => decision.comparison.result.summary # "CANDIDATE_REGRESSED"
    BY DEF EligibleWasCompared
  <2> DEFINE c == decision.comparison
  <2>1. /\ c.result.candidate = decision.evaluation /\ c.result.baseline = decision.baseline
        /\ c.base.agent # decision.read.agent
    BY DEF ReleaseInv, Granted
  <2>2. ASSUME SawTheSame, c.result.summary = "CANDIDATE_REGRESSED" PROVE FALSE
    <3>1. c.result = Comparison(c.result.baseline, c.result.candidate, Load(c.base), Load(c.cand))
      BY DecisionFacts DEF Compared
    <3>2. PICK m \in Members : CompareItem(Load(c.base).items[m], Load(c.cand).items[m]) = "REGRESSED"
      BY <2>2, <3>1, SummaryFollows
    <3>3. \A flagged \in BOOLEAN : "BLOCK" \in Effects(Load(c.cand), flagged)
      BY <3>2, RegressionIsBlock DEF Load
    <3>4. c.cand = decision.read
      BY <2>2 DEF SawTheSame
    <3>5. PICK flagged \in BOOLEAN :
            decision.status = DecisionStatus(Effects(Load(decision.read), flagged))
      BY DecisionFacts DEF Load
    <3>6. QED
      BY <3>3, <3>4, <3>5, StatusFollows
  <2>3. QED
    BY <2>1, <2>2
<1>4. ImprovementNeedsEvidence
  <2> SUFFICES ASSUME comparison # None, comparison.result.summary = "CANDIDATE_IMPROVED"
               PROVE  /\ ValidItems(Load(comparison.base)) = Members
                      /\ \A m \in Members : comparison.cand.runs[m].status \in Verdicts
    BY DEF ImprovementNeedsEvidence
  <2> DEFINE base == Load(comparison.base)
             cand == Load(comparison.cand)
  <2>1. Compared(comparison)
    BY DEF ReleaseInv
  <2>2. /\ comparison.result =
             Comparison(comparison.result.baseline, comparison.result.candidate, base, cand)
        /\ IsEvaluation(comparison.cand)
    BY <2>1 DEF Compared
  <2>3. ASSUME NEW m \in Members PROVE base.items[m].valid /\ cand.items[m].valid
    <3>1. CompareItem(base.items[m], cand.items[m]) # "INCOMPARABLE"
      BY <2>2, SummaryFollows
    <3>2. /\ base.items[m].valid \in BOOLEAN /\ cand.items[m].valid \in BOOLEAN
          /\ base.items[m].valid => base.items[m].result \in Verdicts
          /\ cand.items[m].valid => cand.items[m].result \in Verdicts
      BY ValidItem DEF Load
    <3> HIDE DEF base, cand
    <3>3. QED
      BY <3>1, <3>2, RegressedItem
  <2>4. ValidItems(base) = Members
    BY <2>3 DEF ValidItems
  <2>5. ASSUME NEW m \in Members PROVE comparison.cand.runs[m].status \in Verdicts
    <3>1. ItemResult(m, comparison.cand.runs[m]) \in Verdicts
      BY <2>3, ItemFacts DEF Load
    <3>2. WellRun(comparison.cand.agent, comparison.cand.runs)
      BY <2>2, SuiteIsWellRun DEF IsEvaluation
    <3>3. QED
      BY <3>1, <3>2, VerdictIsTheRuns DEF WellRun
  <2>6. QED
    BY <2>4, <2>5
<1>5. QED
  BY <1>1, <1>2, <1>3, <1>4 DEF DecisionInv

\* BLOCKED blames the Agent only where a Run really failed as the Agent's.
THEOREM BlocksAreTheAgents == Spec => []BlockedIsTheAgents
<1>1. ReleaseInv => BlockedIsTheAgents
  <2> SUFFICES ASSUME ReleaseInv, decision # None, decision.status = "BLOCKED"
               PROVE  \E m \in Members : /\ decision.read.runs[m].status = "FAIL"
                                         /\ decision.read.runs[m].attribution = "Agent"
    BY DEF BlockedIsTheAgents
  <2>1. WellRun(decision.read.agent, decision.read.runs)
    BY DecisionFacts
  <2>2. \E flagged \in BOOLEAN :
          "BLOCK" \in Effects(BuildEvaluation(decision.read.agent, decision.read.runs), flagged)
    BY DecisionFacts, StatusFollows
  <2>3. QED
    BY <2>1, <2>2, BlockBlames
<1>2. QED
  BY <1>1, ReleaseInductive, PTL

\* A candidate that got worse in any member is BLOCKED, whatever else is missing.
THEOREM RegressionsBlock == Spec => []RegressionBlocks
<1>1. ReleaseInv => RegressionBlocks
  <2> SUFFICES ASSUME ReleaseInv, decision # None, decision.subject = "CANDIDATE", SawTheSame,
                      NEW m \in Members,
                      CompareItem(Load(decision.comparison.base).items[m],
                                  Load(decision.comparison.cand).items[m]) = "REGRESSED"
               PROVE  decision.status = "BLOCKED"
    BY DEF RegressionBlocks
  <2>1. \A flagged \in BOOLEAN : "BLOCK" \in Effects(Load(decision.comparison.cand), flagged)
    BY RegressionIsBlock DEF Load
  <2>2. decision.comparison.cand = decision.read
    BY DEF SawTheSame
  <2>3. PICK flagged \in BOOLEAN :
          decision.status = DecisionStatus(Effects(Load(decision.read), flagged))
    BY DecisionFacts DEF Load
  <2>4. QED
    BY <2>1, <2>2, <2>3, StatusFollows
<1>2. QED
  BY <1>1, ReleaseInductive, PTL

\* What a comparison or a decision was made from is still there, if nobody was
\* executing it when it was compared.
THEOREM DecisionsReproduce == Spec => []DecisionIsReproducible
<1>1. ReleaseInv => DecisionIsReproducible
  <2> SUFFICES ASSUME ReleaseInv PROVE DecisionIsReproducible
    OBVIOUS
  <2>1. \A c : Kept(files, executing, c) => StillThere(c)
    BY DEF Kept, Rests, StillThere
  <2>2. QED
    BY <2>1 DEF ReleaseInv, GrantKept, Rests, DecisionIsReproducible
<1>2. QED
  BY <1>1, ReleaseInductive, PTL
=============================================================================
