--------------------------- MODULE AgentRunProofs ---------------------------
(***************************************************************************)
(* Theorems about AgentRun, for any set of agent profiles and any budget   *)
(* of steps: a verdict about the Agent is clean, evidenced and true to     *)
(* what was really written, nothing is left behind outside quarantine, and *)
(* the run takes only steps the contract of every runner allows.           *)
(***************************************************************************)
EXTENDS AgentRun, TLAPS

Phases == {"provision", "readiness", "initial", "agent", "verify", "rescue",
           "cleanup", "conclude", "done"}
Domains == {"AGENT", "ENVIRONMENT", "PROVIDER", "HARNESS"}
Codes == {"DOCKER_UNAVAILABLE", "MISSING_DEEPSEEK_API_KEY", "ENVIRONMENT_PROVISION_FAILED",
          "CONTROLLED_READINESS_FAILURE", "READINESS_FAILED", "DOCKER_READINESS_UNAVAILABLE",
          "STATE_READ_FAILED", "RECONCILE_WITHOUT_MATCHING_UNKNOWN_OUTCOME", "BLIND_RETRY",
          "BUSINESS_PRECONDITION_OBSERVATION_REQUIRED", "BUSINESS_PRECONDITION",
          "MUTATION_FAILED", "OVERALL_RUN_TIMEOUT", "COMPLETION_FAILED", "STEP_BUDGET",
          "UNKNOWN_OUTCOME_UNRESOLVED", "REQUIRED_OUTCOME_NOT_VERIFIED", "CLEANUP_UNVERIFIED"}
Failures == [domain : Domains, code : Codes, outcome : Statuses \ {"PASS"}]
Answers == {"yes", "no", Nothing}

RunRow ==
    [profile : {"known-bad", "fixed", "llm"}, planned : BOOLEAN, hook : BOOLEAN,
     step : Nat \ {0}, started : BOOLEAN, actual : {Nothing, "initial", "target"},
     agentFailure : Failures \cup {NoError}, terminal : Failures \cup {NoError},
     verification : {Nothing, "passed", "failed"}]

EnvRow ==
    [life : {"UNPROVISIONED", "PROVISIONED", "READY_UNVERIFIED", "READY_VERIFIED",
             "FAILED_BEFORE_AGENT", "RUNNING", "QUARANTINED", "CLEANED"},
     container : {"absent", "up", "down"},
     cleanup : {"NOT_STARTED", "PENDING", "CLEANED", "UNVERIFIED"}, receipt : BOOLEAN]

ExecRow ==
    [observed : BOOLEAN, mutations : 0 .. 1, readback : BOOLEAN, uncertain : BOOLEAN,
     blind : 0 .. 1, triggered : BOOLEAN, reconciled : BOOLEAN]

Types ==
    /\ phase \in Phases
    /\ run \in RunRow
    /\ env \in EnvRow
    /\ world \in {"initial", "target"}
    /\ exec \in ExecRow
    /\ effects \in 0 .. 1
    /\ art \in [status : Statuses \cup {"NONE"}, agentStarted : Answers, stateChanged : Answers]

(* The strengthening, by what it is about.  A terminal error that is not   *)
(* the Agent's takes the verdict away.                                     *)
Verdict == run.terminal = NoError \/ run.terminal.outcome = "FAIL"

(* The state file has been written once or never, and once only counted.   *)
Counted ==
    /\ world = IF effects = 0 THEN "initial" ELSE "target"
    /\ exec.mutations <= effects

(* Before the rescue or the verification nothing is decided yet.           *)
Undecided ==
    phase \in {"provision", "readiness", "initial", "agent", "verify"} =>
        /\ run.terminal = NoError /\ run.verification = Nothing /\ run.actual = Nothing
        /\ env.life # "QUARANTINED"
        /\ exec.mutations = effects

StepsCounted ==
    /\ run.step <= IF run.profile = "llm" THEN MaxSteps + 1 ELSE Len(Plan) + 1
    /\ phase = "agent" => exec.blind = 0
    /\ phase \in {"provision", "readiness", "initial"} => exec = NewExecutor /\ effects = 0
    /\ phase \in {"agent", "verify"} => run.started
    /\ phase = "provision" => env.container = "absent"
    /\ run.agentFailure # NoError => run.agentFailure.outcome = "FAIL"

(* What is read of the state is the state; what passed was written once.   *)
Observed ==
    /\ run.actual \in {Nothing, world}
    /\ run.verification = "passed" => Passed(world)

(* A verdict that is still open to be given rests on the run's own state.  *)
Supported ==
    phase \in {"rescue", "cleanup", "conclude"} /\ Verdict =>
        /\ run.started
        /\ exec.mutations = effects
        /\ \/ run.actual = world /\ run.verification # Nothing
           \/ run.terminal.code = "STEP_BUDGET"

Cleaned ==
    /\ phase \in {"rescue", "cleanup"} /\ env.life = "QUARANTINED" => ~Verdict
    /\ phase = "rescue" => run.terminal # NoError
    /\ phase = "conclude" /\ Verdict => env.life = "CLEANED" /\ env.container = "absent"
    /\ phase \in {"conclude", "done"} /\ env.container # "absent" => env.life = "QUARANTINED"

Concluded ==
    /\ phase # "done" => art.status = "NONE"
    /\ AgentVerdictIsClean /\ AgentCountIsTrue /\ VerdictHasEvidence

AgentInd ==
    /\ Types
    /\ Counted /\ Undecided /\ StepsCounted /\ Observed /\ Supported /\ Cleaned /\ Concluded

-----------------------------------------------------------------------------
(* What RuntimeFailure builds is a failure, the Agent's exactly when it is *)
(* held against it (models.RuntimeFailure and its default outcomes).       *)
LEMMA FailureIsOne ==
    ASSUME NEW d \in Domains, NEW c \in Codes
    PROVE  /\ RuntimeFailure(d, c) \in Failures
           /\ RuntimeFailure(d, c) # NoError
           /\ RuntimeFailure(d, c).outcome = "FAIL" <=> d = "AGENT"
           /\ RuntimeFailure(d, c).code = c
  BY DEF RuntimeFailure, DefaultOutcome, Failures, Domains, Codes, Statuses, NoError, Nothing

(* An exception changes no local of the run but its terminal error.        *)
LEMMA RaiseIsOne ==
    ASSUME run \in RunRow, NEW d \in Domains, NEW c \in Codes, Raise(RuntimeFailure(d, c))
    PROVE  /\ run' \in RunRow /\ phase' = "rescue"
           /\ run'.terminal # NoError /\ run'.terminal.code = c
           /\ run'.terminal.outcome = "FAIL" <=> d = "AGENT"
           /\ run'.profile = run.profile /\ run'.planned = run.planned
           /\ run'.step = run.step /\ run'.started = run.started /\ run'.actual = run.actual
           /\ run'.agentFailure = run.agentFailure /\ run'.verification = run.verification
  BY FailureIsOne DEF Raise, RunRow

Deciding == {"provision", "readiness", "initial", "agent", "verify"}

(* The run is rescued from any place before its conclusion: only an Agent  *)
(* failure, which is its step budget, leaves a verdict open.               *)
LEMMA RaiseKeeps ==
    ASSUME AgentInd, phase \in Deciding, NEW d \in Domains, NEW c \in Codes,
           Raise(RuntimeFailure(d, c)),
           d = "AGENT" => phase = "agent" /\ c = "STEP_BUDGET" /\ UNCHANGED <<env, exec, effects>>,
           UNCHANGED art, exec' \in ExecRow, env' \in EnvRow,
           world' \in {"initial", "target"}, effects' \in 0 .. 1, Counted'
    PROVE  AgentInd'
<1> USE DEF AgentInd, Deciding
<1>1. Types'
  BY RaiseIsOne DEF Types, Phases
<1>2. Undecided' /\ StepsCounted'
  BY RaiseIsOne DEF Types, Undecided, StepsCounted, Plan
<1>3. Observed' /\ Supported'
  BY RaiseIsOne DEF Types, Observed, Supported, Undecided, StepsCounted, Verdict, Nothing
<1>4. Cleaned' /\ Concluded'
  BY RaiseIsOne DEF Types, Cleaned, Concluded, Undecided, Verdict, AgentVerdictIsClean,
     AgentCountIsTrue, VerdictHasEvidence
<1>5. QED
  BY <1>1, <1>2, <1>3, <1>4

(* A step that decides nothing has only to keep its books.                 *)
LEMMA GoingOnKeeps ==
    ASSUME AgentInd, phase \in Deciding, phase' \in Deciding,
           run' \in RunRow, env' \in EnvRow, exec' \in ExecRow,
           world' \in {"initial", "target"}, effects' \in 0 .. 1,
           run'.terminal = run.terminal, run'.verification = run.verification,
           run'.actual = run.actual, env'.life # "QUARANTINED",
           exec'.mutations = effects', Counted', StepsCounted', UNCHANGED art
    PROVE  AgentInd'
  BY DEF AgentInd, Deciding, Types, Phases, Undecided, Observed, Supported, Cleaned, Concluded,
     Nothing, AgentVerdictIsClean, AgentCountIsTrue, VerdictHasEvidence

(* Stepped and GuardBlocked change one local of the run.                   *)
LEMMA SteppedIsOne ==
    ASSUME run \in RunRow, Stepped
    PROVE  /\ run' \in RunRow /\ run'.step = run.step + 1 /\ phase' = "agent"
           /\ run'.profile = run.profile /\ run'.planned = run.planned
           /\ run'.started = run.started /\ run'.actual = run.actual
           /\ run'.terminal = run.terminal /\ run'.agentFailure = run.agentFailure
           /\ run'.verification = run.verification
  BY DEF Stepped, RunRow

\* A refused tool call ends the calls of the run with the agent blamed, and
\* touches nothing outside the record.
LEMMA GuardBlockedIsOne ==
    ASSUME run \in RunRow, NEW c \in Codes, GuardBlocked(c)
    PROVE  /\ run' \in RunRow /\ run'.step = run.step /\ phase' = "verify"
           /\ run'.profile = run.profile /\ run'.planned = run.planned
           /\ run'.started = run.started /\ run'.actual = run.actual
           /\ run'.terminal = run.terminal /\ run'.agentFailure.outcome = "FAIL"
           /\ run'.verification = run.verification /\ UNCHANGED <<env, world, effects>>
  BY FailureIsOne DEF GuardBlocked, RunRow, Domains

-----------------------------------------------------------------------------
(* Provisioning, readiness and the initial state.                          *)

LEMMA NoEnvironmentKeeps ==
    ASSUME AgentInd, NoEnvironment
    PROVE  AgentInd'
<1> USE DEF AgentInd
<1>1. PICK d \in {"ENVIRONMENT", "HARNESS"}, c \in Codes :
          run' = [run EXCEPT !.terminal = RuntimeFailure(d, c)]
  <2>1. PICK e \in {RuntimeFailure("ENVIRONMENT", "DOCKER_UNAVAILABLE"),
                    RuntimeFailure("HARNESS", "MISSING_DEEPSEEK_API_KEY")} :
            run' = [run EXCEPT !.terminal = e]
    BY DEF NoEnvironment
  <2>2. "DOCKER_UNAVAILABLE" \in Codes /\ "MISSING_DEEPSEEK_API_KEY" \in Codes
    BY DEF Codes
  <2>3. QED
    BY <2>1, <2>2
<1>2. RuntimeFailure(d, c) \in Failures /\ RuntimeFailure(d, c) # NoError
      /\ RuntimeFailure(d, c).outcome # "FAIL"
  BY FailureIsOne DEF Domains
<1>3. /\ run' \in RunRow /\ run'.terminal # NoError /\ run'.terminal.outcome # "FAIL"
      /\ run'.profile = run.profile /\ run'.planned = run.planned
      /\ run'.step = run.step /\ run'.started = run.started /\ run'.actual = run.actual
      /\ run'.agentFailure = run.agentFailure /\ run'.verification = run.verification
  BY <1>1, <1>2 DEF Types, RunRow
<1>4. phase = "provision" /\ phase' = "conclude" /\ UNCHANGED <<env, world, exec, effects, art>>
  BY DEF NoEnvironment
<1>5. Types' /\ Counted' /\ Undecided' /\ StepsCounted'
  BY <1>3, <1>4 DEF Types, Phases, Counted, Undecided, StepsCounted, Plan
<1>6. Observed' /\ Supported' /\ Cleaned' /\ Concluded'
  BY <1>3, <1>4 DEF Undecided, StepsCounted, Observed, Supported, Cleaned, Verdict, Concluded,
     Nothing, AgentVerdictIsClean, AgentCountIsTrue, VerdictHasEvidence
<1>7. QED
  BY <1>5, <1>6

LEMMA EarlyKeeps ==
    ASSUME AgentInd, Provision \/ Readiness \/ VerifyInitial
    PROVE  AgentInd'
<1> USE DEF AgentInd
<1>1. ASSUME NEW c \in Codes, phase \in Deciding, Raise(RuntimeFailure("ENVIRONMENT", c)),
             env' \in EnvRow, UNCHANGED <<world, exec, effects, art>>
      PROVE  AgentInd'
  BY <1>1, RaiseKeeps DEF Types, Counted, Domains
<1>code. \A c \in {"ENVIRONMENT_PROVISION_FAILED", "CONTROLLED_READINESS_FAILURE",
                   "READINESS_FAILED", "DOCKER_READINESS_UNAVAILABLE", "STATE_READ_FAILED"} :
            c \in Codes
  BY DEF Codes
<1>2. ASSUME phase \in {"provision", "readiness", "initial"},
             phase' \in {"readiness", "initial", "agent"}, env' \in EnvRow,
             env'.life # "QUARANTINED", UNCHANGED <<world, exec, effects, art>>,
             run' \in RunRow, run'.profile = run.profile, run'.planned = run.planned,
             run'.step = run.step, run'.actual = run.actual, run'.terminal = run.terminal,
             run'.agentFailure = run.agentFailure, run'.verification = run.verification,
             phase' = "agent" => run'.started
      PROVE  AgentInd'
  <2>1. StepsCounted' /\ Counted'
    BY <1>2 DEF StepsCounted, Counted, Plan, NewExecutor
  <2>2. QED
    BY <1>2, <2>1, GoingOnKeeps DEF Deciding, Types, Undecided
<1>3. CASE Provision
  <2>1. CASE /\ env' = [env EXCEPT !.container = "up", !.life = "PROVISIONED",
                                   !.cleanup = "PENDING"]
             /\ phase' = "readiness" /\ UNCHANGED run
    <3>1. env' \in EnvRow /\ env'.life = "PROVISIONED"
      BY <2>1 DEF Types, EnvRow
    <3>2. phase = "provision" /\ UNCHANGED <<world, exec, effects, art>>
      BY <1>3 DEF Provision
    <3>3. QED
      BY <1>2, <2>1, <3>1, <3>2 DEF Types
  <2>2. CASE /\ \E created \in {"up", "absent"} : env' = [env EXCEPT !.container = created]
             /\ Raise(RuntimeFailure("ENVIRONMENT", "ENVIRONMENT_PROVISION_FAILED"))
    <3>1. env' \in EnvRow
      BY <2>2 DEF Types, EnvRow
    <3>2. phase = "provision" /\ UNCHANGED <<world, exec, effects, art>>
      BY <1>3 DEF Provision
    <3>3. QED
      BY <1>1, <1>code, <2>2, <3>1, <3>2 DEF Deciding
  <2>3. QED
    BY <1>3, <2>1, <2>2 DEF Provision
<1>4. CASE Readiness
  <2>1. phase = "readiness" /\ UNCHANGED <<world, exec, effects, art>>
    BY <1>4 DEF Readiness
  <2>2. env' \in EnvRow
    BY <1>4 DEF Readiness, Quarantined, Types, EnvRow
  <2>3. CASE phase' = "initial" /\ UNCHANGED run /\ env' = [env EXCEPT !.life = "READY_UNVERIFIED"]
    <3>1. env'.life = "READY_UNVERIFIED"
      BY <2>3 DEF Types, EnvRow
    <3>2. QED
      BY <1>2, <2>1, <2>2, <2>3, <3>1 DEF Types
  <2>4. ASSUME Raise(RuntimeFailure("ENVIRONMENT", "CONTROLLED_READINESS_FAILURE"))
               \/ Raise(RuntimeFailure("ENVIRONMENT", "READINESS_FAILED"))
               \/ Raise(RuntimeFailure("ENVIRONMENT", "DOCKER_READINESS_UNAVAILABLE"))
        PROVE  AgentInd'
    BY <1>1, <1>code, <2>1, <2>2, <2>4 DEF Deciding
  <2>5. QED
    BY <1>4, <2>3, <2>4 DEF Readiness
<1>5. CASE VerifyInitial
  <2>1. CASE Raise(RuntimeFailure("ENVIRONMENT", "STATE_READ_FAILED")) /\ UNCHANGED env
    BY <1>1, <1>code, <1>5, <2>1 DEF VerifyInitial, Types, Deciding
  <2>2. CASE /\ env' = [env EXCEPT !.life = "READY_VERIFIED"]
             /\ run' = [run EXCEPT !.started = TRUE] /\ phase' = "agent"
    <3>1. /\ env' \in EnvRow /\ env'.life = "READY_VERIFIED"
          /\ run' \in RunRow /\ run'.started
          /\ run'.profile = run.profile /\ run'.planned = run.planned
          /\ run'.step = run.step /\ run'.actual = run.actual /\ run'.terminal = run.terminal
          /\ run'.agentFailure = run.agentFailure /\ run'.verification = run.verification
      BY <2>2 DEF Types, RunRow, EnvRow
    <3>2. QED
      BY <1>2, <1>5, <2>2, <3>1 DEF VerifyInitial
  <2>3. QED
    BY <1>5, <2>1, <2>2 DEF VerifyInitial
<1>6. QED
  BY <1>3, <1>4, <1>5

-----------------------------------------------------------------------------
(* The agent's steps.                                                      *)

(* Every planned tool call is within the plan's length.                    *)
LEMMA PlanIsShort == Len(Plan) \in {1, 3, 4}
<1>1. Len(<<"apply_change">>) = 1
      /\ Len(<<"read_state", "apply_change", "reconcile", "read_state">>) = 4
      /\ Len(<<"read_state", "apply_change", "read_state">>) = 3
  OBVIOUS
<1>2. QED
  BY <1>1 DEF Plan

(* A tool call that answers takes the loop one step further.               *)
LEMMA StepKeeps ==
    ASSUME AgentInd, NEW tool, Intends(tool), Stepped, env' \in EnvRow,
           env'.life # "QUARANTINED", exec' \in ExecRow, exec'.blind = exec.blind,
           exec'.mutations = effects', world' \in {"initial", "target"}, effects' \in 0 .. 1,
           Counted', UNCHANGED art
    PROVE  AgentInd'
<1>1. phase = "agent" /\ phase' = "agent"
  BY SteppedIsOne DEF AgentInd, Types, Intends
<1>2. Len(Plan) \in {1, 3, 4} /\ Len(Plan') = Len(Plan)
  BY PlanIsShort, SteppedIsOne DEF AgentInd, Types, Plan
<1>3. run.step \in Nat \ {0} /\ run' \in RunRow /\ run'.step = run.step + 1
      /\ run'.profile = run.profile
  BY SteppedIsOne DEF AgentInd, Types, RunRow
<1>4. run'.step <= IF run'.profile = "llm" THEN MaxSteps + 1 ELSE Len(Plan') + 1
  BY <1>2, <1>3, AgentRunConstants DEF Intends
<1>5. StepsCounted'
  BY <1>1, <1>4, SteppedIsOne DEF AgentInd, Types, StepsCounted
<1>6. QED
  BY <1>1, <1>5, SteppedIsOne, GoingOnKeeps DEF AgentInd, Types, Deciding

(* A guard in front of a tool call hands the run over to its verification. *)
LEMMA BlockKeeps ==
    ASSUME AgentInd, phase = "agent", NEW c \in Codes, GuardBlocked(c), exec' \in ExecRow,
           exec'.mutations = exec.mutations, UNCHANGED art
    PROVE  AgentInd'
<1>1. phase' = "verify" /\ UNCHANGED <<env, world, effects>>
  BY GuardBlockedIsOne DEF AgentInd, Types
<1>2. StepsCounted'
  BY <1>1, GuardBlockedIsOne DEF AgentInd, Types, StepsCounted, Plan
<1>3. Counted' /\ exec'.mutations = effects' /\ env'.life # "QUARANTINED"
  BY <1>1 DEF AgentInd, Counted, Undecided
<1>4. QED
  BY <1>1, <1>2, <1>3, GuardBlockedIsOne, GoingOnKeeps DEF AgentInd, Types, Deciding

(* A docker command that fails ends the run, its effect real or not.       *)
LEMMA DockerFailsKeeps ==
    ASSUME AgentInd, phase = "agent", NEW c \in Codes, DockerFails(c),
           world' \in {"initial", "target"}, effects' \in 0 .. 1, Counted', UNCHANGED art
    PROVE  AgentInd'
  BY RaiseKeeps DEF DockerFails, AgentInd, Types, Deciding, Domains

LEMMA ReadKeeps ==
    ASSUME AgentInd, ReadState
    PROVE  AgentInd'
<1>1. phase = "agent" /\ Intends("read_state") /\ UNCHANGED <<world, effects, art>>
  BY DEF ReadState, Intends
<1>2. exec.mutations = effects /\ env.life # "QUARANTINED" /\ Counted'
  BY <1>1 DEF AgentInd, Undecided, ReadState, Counted, Stepped, Types, ExecRow, DockerFails
<1>3. CASE /\ exec' = [exec EXCEPT !.observed = TRUE, !.readback = @ \/ exec.mutations > 0]
           /\ Stepped /\ UNCHANGED env
  <2>1. exec' \in ExecRow /\ exec'.blind = exec.blind /\ exec'.mutations = exec.mutations
    BY <1>3 DEF AgentInd, Types, ExecRow
  <2>2. QED
    BY <1>1, <1>2, <1>3, <2>1, StepKeeps DEF AgentInd, Types
<1>4. CASE DockerFails("STATE_READ_FAILED")
  <2>1. "STATE_READ_FAILED" \in Codes
    BY DEF Codes
  <2>2. QED
    BY <1>1, <1>2, <1>4, <2>1, DockerFailsKeeps DEF AgentInd, Types
<1>5. QED
  BY <1>3, <1>4 DEF ReadState

LEMMA ReconcileKeeps ==
    ASSUME AgentInd, ReconcileTool
    PROVE  AgentInd'
<1>1. phase = "agent" /\ Intends("reconcile") /\ UNCHANGED art
  BY DEF ReconcileTool, Intends
<1>2. exec.mutations = effects /\ env.life # "QUARANTINED"
  BY <1>1 DEF AgentInd, Undecided
<1>c. "STATE_READ_FAILED" \in Codes /\ "RECONCILE_WITHOUT_MATCHING_UNKNOWN_OUTCOME" \in Codes
  BY DEF Codes
<1>3. CASE GuardBlocked("RECONCILE_WITHOUT_MATCHING_UNKNOWN_OUTCOME") /\ UNCHANGED exec
  BY <1>1, <1>3, <1>c, BlockKeeps DEF AgentInd, Types
<1>4. CASE /\ exec' = [exec EXCEPT !.uncertain = FALSE, !.reconciled = TRUE, !.readback = TRUE]
           /\ Stepped /\ UNCHANGED <<env, world, effects>>
  <2>1. exec' \in ExecRow /\ exec'.blind = exec.blind /\ exec'.mutations = exec.mutations
    BY <1>4 DEF AgentInd, Types, ExecRow
  <2>2. Counted'
    BY <1>4, <2>1 DEF AgentInd, Counted
  <2>3. QED
    BY <1>1, <1>2, <1>4, <2>1, <2>2, StepKeeps DEF AgentInd, Types
<1>5. CASE DockerFails("STATE_READ_FAILED") /\ UNCHANGED <<world, effects>>
  <2>1. Counted'
    BY <1>5 DEF AgentInd, Counted, DockerFails
  <2>2. QED
    BY <1>1, <1>5, <1>c, <2>1, DockerFailsKeeps DEF AgentInd, Types
<1>6. QED
  BY <1>3, <1>4, <1>5 DEF ReconcileTool

LEMMA ApplyBlockedKeeps ==
    ASSUME AgentInd, ApplyBlocked
    PROVE  AgentInd'
<1>1. phase = "agent" /\ exec \in ExecRow /\ exec.blind = 0 /\ UNCHANGED art
  BY DEF ApplyBlocked, Intends, AgentInd, Types, StepsCounted
<1>2. "BLIND_RETRY" \in Codes /\ "BUSINESS_PRECONDITION" \in Codes
      /\ "BUSINESS_PRECONDITION_OBSERVATION_REQUIRED" \in Codes
  BY DEF Codes
<1>3. CASE GuardBlocked("BLIND_RETRY") /\ exec' = [exec EXCEPT !.blind = @ + 1]
  <2>1. exec' \in ExecRow /\ exec'.mutations = exec.mutations
    BY <1>1, <1>3 DEF ExecRow
  <2>2. QED
    BY <1>1, <1>2, <1>3, <2>1, BlockKeeps
<1>4. CASE /\ UNCHANGED exec
           /\ GuardBlocked("BUSINESS_PRECONDITION_OBSERVATION_REQUIRED")
              \/ GuardBlocked("BUSINESS_PRECONDITION")
  BY <1>1, <1>2, <1>4, BlockKeeps
<1>5. QED
  BY <1>3, <1>4 DEF ApplyBlocked

(* The write: only the initial state is overwritten, so it is the first.   *)
LEMMA WriteIsFirst ==
    ASSUME AgentInd, world = "initial", Written
    PROVE  world' = "target" /\ effects = 0 /\ effects' = 1
  BY DEF AgentInd, Types, Counted, Written

LEMMA ApplyKeeps ==
    ASSUME AgentInd, ApplyChange
    PROVE  AgentInd'
<1>1. phase = "agent" /\ Intends("apply_change") /\ Stepped /\ UNCHANGED art
  BY DEF ApplyChange, ApplyAllowed, Intends
<1>2. world' = "target" /\ effects = 0 /\ effects' = 1 /\ exec.mutations = 0
  BY <1>1, WriteIsFirst DEF ApplyChange, AgentInd, Undecided
<1>3. env' = [env EXCEPT !.life = "RUNNING", !.receipt = TRUE]
      /\ exec' = [exec EXCEPT !.mutations = @ + 1, !.triggered = run.planned,
                              !.uncertain = run.planned]
  BY DEF ApplyChange
<1>4. env' \in EnvRow /\ env'.life = "RUNNING"
  BY <1>3 DEF AgentInd, Types, EnvRow
<1>5. exec' \in ExecRow /\ exec'.blind = exec.blind /\ exec'.mutations = 1
  <2>1. run.planned \in BOOLEAN /\ exec \in ExecRow
    BY DEF AgentInd, Types, RunRow
  <2>2. exec' = [exec EXCEPT !.mutations = 1, !.triggered = run.planned,
                             !.uncertain = run.planned]
    BY <1>2, <1>3
  <2> DEFINE one == [exec EXCEPT !.mutations = 1]
  <2>3. one \in ExecRow /\ one.blind = exec.blind /\ one.mutations = 1
    BY <2>1 DEF ExecRow
  <2>4. exec' = [one EXCEPT !.triggered = run.planned, !.uncertain = run.planned]
    BY <2>2
  <2> HIDE DEF one
  <2>5. CASE run.planned = TRUE
    <3>1. exec' = [one EXCEPT !.triggered = TRUE, !.uncertain = TRUE]
      BY <2>4, <2>5, Zenon
    <3>2. QED
      BY <2>3, <3>1 DEF ExecRow
  <2>6. CASE run.planned = FALSE
    <3>1. exec' = [one EXCEPT !.triggered = FALSE, !.uncertain = FALSE]
      BY <2>4, <2>6, Zenon
    <3>2. QED
      BY <2>3, <3>1 DEF ExecRow
  <2>7. QED
    BY <2>1, <2>5, <2>6
<1>6. Counted'
  BY <1>2, <1>5 DEF Counted
<1>7. QED
  BY <1>1, <1>2, <1>4, <1>5, <1>6, StepKeeps

LEMMA ApplyFailsKeeps ==
    ASSUME AgentInd, ApplyFails
    PROVE  AgentInd'
<1>1. /\ phase = "agent" /\ DockerFails("MUTATION_FAILED") /\ UNCHANGED <<exec, art>>
      /\ (world = "initial" /\ Written) \/ UNCHANGED <<world, effects>>
  BY DEF ApplyFails, ApplyAllowed, Intends, DockerFails
<1>2. world' \in {"initial", "target"} /\ effects' \in 0 .. 1 /\ Counted'
  <2>1. CASE world = "initial" /\ Written
    <3>1. world' = "target" /\ effects' = 1
      BY <2>1, WriteIsFirst
    <3>2. exec' \in ExecRow
      BY <1>1 DEF AgentInd, Types
    <3>3. QED
      BY <3>1, <3>2 DEF Counted, ExecRow
  <2>2. CASE UNCHANGED <<world, effects>>
    BY <1>1, <2>2 DEF AgentInd, Types, Counted
  <2>3. QED
    BY <1>1, <2>1, <2>2
<1>3. "MUTATION_FAILED" \in Codes
  BY DEF Codes
<1>4. QED
  BY <1>1, <1>2, <1>3, DockerFailsKeeps

LEMMA CompleteKeeps ==
    ASSUME AgentInd, Complete
    PROVE  AgentInd'
<1>1. phase = "agent" /\ phase' = "verify" /\ UNCHANGED <<run, env, world, exec, effects, art>>
  BY DEF Complete
<1>2. StepsCounted' /\ Counted' /\ exec'.mutations = effects' /\ env'.life # "QUARANTINED"
  BY <1>1 DEF AgentInd, StepsCounted, Plan, Counted, Undecided
<1>3. QED
  BY <1>1, <1>2, GoingOnKeeps DEF AgentInd, Types, Deciding

LEMMA ModelFailsKeeps ==
    ASSUME AgentInd, ModelFails
    PROVE  AgentInd'
<1>1. phase = "agent" /\ UNCHANGED <<env, world, exec, effects, art>> /\ Counted'
  BY DEF ModelFails, AgentInd, Counted
<1>2. /\ "OVERALL_RUN_TIMEOUT" \in Codes /\ "COMPLETION_FAILED" \in Codes
      /\ "STEP_BUDGET" \in Codes
  BY DEF Codes
<1>3. ASSUME NEW d \in Domains, NEW c \in Codes, Raise(RuntimeFailure(d, c)),
             d = "AGENT" => c = "STEP_BUDGET"
      PROVE  AgentInd'
  BY <1>1, <1>3, RaiseKeeps DEF AgentInd, Types, Deciding
<1>4. CASE Raise(RuntimeFailure("HARNESS", "OVERALL_RUN_TIMEOUT"))
  BY <1>2, <1>3, <1>4 DEF Domains
<1>5. CASE Raise(RuntimeFailure("PROVIDER", "COMPLETION_FAILED"))
  BY <1>2, <1>3, <1>5 DEF Domains
<1>6. CASE Raise(RuntimeFailure("AGENT", "STEP_BUDGET"))
  BY <1>2, <1>3, <1>6 DEF Domains
<1>7. QED
  BY <1>4, <1>5, <1>6 DEF ModelFails

-----------------------------------------------------------------------------
(* Verification, the rescue read, clean-up and conclusion.                 *)

(* What the verification says against a run is a failure, and it says      *)
(* nothing only of a run that passed; only an Agent's is a verdict.        *)
LEMMA TerminalErrorIsOne ==
    ASSUME AgentInd, phase = "verify"
    PROVE  /\ TerminalError \in Failures \cup {NoError}
           /\ TerminalError # NoError =>
                TerminalError.outcome = "FAIL" <=>
                  run.agentFailure # NoError \/ ~exec.uncertain
<1>1. "UNKNOWN_OUTCOME_UNRESOLVED" \in Codes /\ "REQUIRED_OUTCOME_NOT_VERIFIED" \in Codes
      /\ "AGENT" \in Domains /\ "ENVIRONMENT" \in Domains
  BY DEF Codes, Domains
<1>2. run.agentFailure \in Failures \cup {NoError}
      /\ (run.agentFailure # NoError => run.agentFailure.outcome = "FAIL")
  BY DEF AgentInd, Types, RunRow, StepsCounted
<1>3. /\ RuntimeFailure("AGENT", "REQUIRED_OUTCOME_NOT_VERIFIED") \in Failures
      /\ RuntimeFailure("AGENT", "REQUIRED_OUTCOME_NOT_VERIFIED").outcome = "FAIL"
  BY <1>1, FailureIsOne
<1>4. LET e == [RuntimeFailure("ENVIRONMENT", "UNKNOWN_OUTCOME_UNRESOLVED")
                EXCEPT !.outcome = "INCONCLUSIVE"]
      IN  e \in Failures /\ e.outcome = "INCONCLUSIVE"
  BY <1>1, FailureIsOne DEF Failures, Statuses
<1>5. QED
  BY <1>2, <1>3, <1>4 DEF TerminalError

LEMMA VerifyKeeps ==
    ASSUME AgentInd, Verify
    PROVE  AgentInd'
<1>1. phase = "verify" /\ UNCHANGED <<env, world, exec, effects, art>>
  BY DEF Verify
<1>2. CASE /\ phase' = "cleanup"
           /\ run' = [run EXCEPT !.actual = world, !.verification = VerifyRun(world),
                                 !.terminal = TerminalError]
  <2>1. /\ run' \in RunRow /\ run'.actual = world /\ run'.verification = VerifyRun(world)
        /\ run'.profile = run.profile /\ run'.planned = run.planned
        /\ run'.step = run.step /\ run'.started = run.started
        /\ run'.agentFailure = run.agentFailure
    BY <1>1, <1>2, TerminalErrorIsOne DEF AgentInd, Types, RunRow, VerifyRun
  <2>2. VerifyRun(world) \in {"passed", "failed"} /\ (VerifyRun(world) = "passed" => Passed(world))
    BY DEF VerifyRun
  <2>3. Passed(world)' <=> Passed(world)
    BY <1>1, <2>1 DEF Passed
  <2>4. Types' /\ Counted' /\ Undecided' /\ StepsCounted'
    BY <1>1, <1>2, <2>1 DEF AgentInd, Types, Phases, Counted, Undecided, StepsCounted, Plan
  <2>5. Observed' /\ Supported'
    BY <1>1, <1>2, <2>1, <2>2, <2>3
    DEF AgentInd, Observed, Supported, StepsCounted, Undecided, Nothing
  <2>6. Cleaned' /\ Concluded'
    BY <1>1, <1>2, <2>1 DEF AgentInd, Cleaned, Concluded, Undecided, AgentVerdictIsClean,
       AgentCountIsTrue, VerdictHasEvidence
  <2>7. QED
    BY <2>4, <2>5, <2>6 DEF AgentInd
<1>3. CASE Raise(RuntimeFailure("ENVIRONMENT", "STATE_READ_FAILED"))
  <2>1. "STATE_READ_FAILED" \in Codes /\ Counted'
    BY <1>1 DEF Codes, AgentInd, Counted
  <2>2. QED
    BY <1>1, <1>3, <2>1, RaiseKeeps DEF AgentInd, Types, Deciding, Domains
<1>4. QED
  BY <1>2, <1>3 DEF Verify

LEMMA RescueKeeps ==
    ASSUME AgentInd, Rescue
    PROVE  AgentInd'
<1>1. /\ phase = "rescue" /\ phase' = "cleanup"
      /\ UNCHANGED <<env, world, exec, effects, art>>
  BY DEF Rescue
<1>2. /\ run' \in RunRow /\ run'.actual \in {run.actual, world}
      /\ run'.verification = run.verification
      /\ run'.profile = run.profile /\ run'.planned = run.planned
      /\ run'.step = run.step /\ run'.started = run.started
      /\ run'.agentFailure = run.agentFailure /\ run'.terminal = run.terminal
  BY DEF Rescue, AgentInd, Types, RunRow
<1>3. Passed(world)' <=> Passed(world)
  BY <1>1, <1>2 DEF Passed
<1>4. Types' /\ Counted' /\ Undecided' /\ StepsCounted'
  BY <1>1, <1>2 DEF AgentInd, Types, Phases, Counted, Undecided, StepsCounted, Plan
<1>5. Observed' /\ Supported'
  BY <1>1, <1>2, <1>3 DEF AgentInd, Observed, Supported, Verdict
<1>6. Cleaned' /\ Concluded'
  BY <1>1, <1>2 DEF AgentInd, Cleaned, Verdict, Concluded, AgentVerdictIsClean,
     AgentCountIsTrue, VerdictHasEvidence
<1>7. QED
  BY <1>4, <1>5, <1>6 DEF AgentInd

(* A clean-up that failed replaces the terminal error, unless it was kept  *)
(* by a quarantine, which never holds a verdict.                           *)
LEMMA CleanupKeeps ==
    ASSUME AgentInd, Cleanup
    PROVE  AgentInd'
<1>1. phase = "cleanup" /\ phase' = "conclude" /\ UNCHANGED <<world, exec, effects, art>>
  BY DEF Cleanup
<1>2. /\ RuntimeFailure("ENVIRONMENT", "CLEANUP_UNVERIFIED") \in Failures
      /\ RuntimeFailure("ENVIRONMENT", "CLEANUP_UNVERIFIED") # NoError
      /\ RuntimeFailure("ENVIRONMENT", "CLEANUP_UNVERIFIED").outcome # "FAIL"
  BY FailureIsOne DEF Codes, Domains
<1>3. ASSUME NEW ok \in BOOLEAN, run' = [run EXCEPT !.terminal = AfterCleanup(ok)]
      PROVE  /\ run' \in RunRow /\ run'.terminal = AfterCleanup(ok)
             /\ run'.actual = run.actual /\ run'.verification = run.verification
             /\ run'.profile = run.profile /\ run'.planned = run.planned
             /\ run'.step = run.step /\ run'.started = run.started
             /\ run'.agentFailure = run.agentFailure
             /\ Verdict' => run'.terminal = run.terminal /\ Verdict
             /\ Verdict' => ok \/ env.life = "QUARANTINED"
  <2>1. AfterCleanup(ok) \in Failures \cup {NoError}
    BY <1>2 DEF AfterCleanup, AgentInd, Types, RunRow
  <2>2. /\ run' \in RunRow /\ run'.terminal = AfterCleanup(ok)
        /\ run'.actual = run.actual /\ run'.verification = run.verification
        /\ run'.profile = run.profile /\ run'.planned = run.planned
        /\ run'.step = run.step /\ run'.started = run.started
        /\ run'.agentFailure = run.agentFailure
    BY <1>3, <2>1 DEF AgentInd, Types, RunRow
  <2>3. QED
    BY <1>2, <2>2 DEF AfterCleanup, Verdict
<1>4. ASSUME NEW ok \in BOOLEAN, run' = [run EXCEPT !.terminal = AfterCleanup(ok)],
             env' \in EnvRow, Verdict' => env'.life = "CLEANED" /\ env'.container = "absent",
             env'.container # "absent" => env'.life = "QUARANTINED"
      PROVE  AgentInd'
  <2>1. Passed(world)' <=> Passed(world)
    BY <1>1, <1>3, <1>4 DEF Passed
  <2>2. Types' /\ Counted' /\ Undecided' /\ StepsCounted'
    BY <1>1, <1>3, <1>4 DEF AgentInd, Types, Phases, Counted, Undecided, StepsCounted, Plan
  <2>3. Observed' /\ Supported'
    BY <1>1, <1>3, <1>4, <2>1 DEF AgentInd, Observed, Supported
  <2>4. Cleaned' /\ Concluded'
    BY <1>1, <1>4 DEF AgentInd, Cleaned, Concluded, AgentVerdictIsClean,
       AgentCountIsTrue, VerdictHasEvidence
  <2>5. QED
    BY <2>2, <2>3, <2>4 DEF AgentInd
<1>5. CASE env.life = "QUARANTINED"
  <2>1. run' = [run EXCEPT !.terminal = AfterCleanup(FALSE)] /\ UNCHANGED env
    BY <1>5 DEF Cleanup
  <2>2. ~Verdict
    BY <1>1, <1>5 DEF AgentInd, Cleaned
  <2>3. ~Verdict'
    BY <1>3, <2>1, <2>2
  <2>4. QED
    BY <1>4, <1>5, <2>1, <2>3 DEF AgentInd, Types
<1>6. CASE env.life # "QUARANTINED"
  <2>1. PICK ok \in BOOLEAN, left \in {"absent", env.container} :
           /\ ok => left = "absent"
           /\ run' = [run EXCEPT !.terminal = AfterCleanup(ok)]
           /\ env' = [CleanedUp(ok) EXCEPT !.container = left]
    BY <1>6 DEF Cleanup
  <2>2. /\ env' \in EnvRow /\ env'.container = left
        /\ env'.life = IF ok THEN "CLEANED" ELSE "QUARANTINED"
    BY <2>1 DEF CleanedUp, Quarantined, AgentInd, Types, EnvRow
  <2>3. Verdict' => ok
    BY <1>3, <1>6, <2>1
  <2>4. QED
    BY <1>4, <2>1, <2>2, <2>3
<1>7. QED
  BY <1>5, <1>6

(* The artifact is written from the terminal error and the verification:   *)
(* PASS and FAIL are verdicts, and so clean, supported and true.           *)
LEMMA ConcludeKeeps ==
    ASSUME AgentInd, Conclude
    PROVE  AgentInd'
<1>1. phase = "conclude" /\ phase' = "done" /\ UNCHANGED <<env, world, exec, effects>>
      /\ art'.status = Outcome
  BY DEF Conclude
<1>2. /\ run' \in RunRow /\ run'.verification = LateVerification
      /\ run'.actual = run.actual /\ run'.terminal = run.terminal
      /\ run'.profile = run.profile /\ run'.planned = run.planned
      /\ run'.step = run.step /\ run'.started = run.started
      /\ run'.agentFailure = run.agentFailure
  BY DEF Conclude, LateVerification, VerifyRun, AgentInd, Types, RunRow
<1>3. run.terminal # NoError => run.terminal \in Failures
  BY DEF AgentInd, Types, RunRow
<1>4. Outcome \in Statuses /\ (Outcome \in {"PASS", "FAIL"} => Verdict)
  BY <1>3 DEF Outcome, Verdict, Failures, Statuses
<1>5. art' \in [status : Statuses \cup {"NONE"}, agentStarted : Answers, stateChanged : Answers]
  BY <1>4 DEF Conclude, Attribution, Says, Answers
<1>6. Passed(world)' <=> Passed(world)
  BY <1>1, <1>2 DEF Passed
<1>7. LateVerification = "passed" => Passed(world)
  BY DEF LateVerification, VerifyRun, AgentInd, Observed, Types, Nothing
<1>8. Types' /\ Counted' /\ Undecided' /\ StepsCounted'
  BY <1>1, <1>2, <1>5 DEF AgentInd, Types, Phases, Counted, Undecided, StepsCounted, Plan
<1>9. Observed' /\ Supported' /\ Cleaned'
  BY <1>1, <1>2, <1>6, <1>7 DEF AgentInd, Observed, Supported, Cleaned
<1>10. Verdict => /\ run.started /\ exec.mutations = effects
                  /\ env.life = "CLEANED" /\ env.container = "absent"
                  /\ \/ run.actual = world /\ run.verification # Nothing
                     \/ run.terminal.code = "STEP_BUDGET"
  BY <1>1 DEF AgentInd, Supported, Cleaned
<1>11. run.verification # Nothing => LateVerification # Nothing
  BY DEF LateVerification
<1>12. Concluded'
  BY <1>1, <1>2, <1>4, <1>10, <1>11 DEF Concluded, AgentVerdictIsClean, AgentCountIsTrue,
     VerdictHasEvidence
<1>13. QED
  BY <1>8, <1>9, <1>12 DEF AgentInd

LEMMA ContainerStopsKeeps ==
    ASSUME AgentInd, ContainerStops
    PROVE  AgentInd'
<1>1. /\ env.container = "up" /\ phase # "done"
      /\ UNCHANGED <<phase, run, world, exec, effects, art>>
  BY DEF ContainerStops
<1>2. env' \in EnvRow /\ env'.life = env.life /\ env'.container = "down"
  BY DEF ContainerStops, AgentInd, Types, EnvRow
<1>3. Types' /\ Counted' /\ Undecided' /\ StepsCounted'
  BY <1>1, <1>2 DEF AgentInd, Types, Counted, Undecided, StepsCounted, Plan
<1>4. Observed' /\ Supported'
  BY <1>1, <1>2 DEF AgentInd, Observed, Supported, Verdict, Passed
<1>5. Cleaned' /\ Concluded'
  BY <1>1, <1>2 DEF AgentInd, Cleaned, Verdict, Concluded, AgentVerdictIsClean,
     AgentCountIsTrue, VerdictHasEvidence
<1>6. QED
  BY <1>3, <1>4, <1>5 DEF AgentInd

-----------------------------------------------------------------------------
(* The theorems.                                                           *)

LEMMA AgentInit == Init => AgentInd
<1> SUFFICES ASSUME Init PROVE AgentInd
  OBVIOUS
<1>1. PICK p \in Profiles, lost \in BOOLEAN, hook \in BOOLEAN :
         run = [profile |-> p, planned |-> lost, hook |-> hook, step |-> 1,
                started |-> FALSE, actual |-> Nothing, agentFailure |-> NoError,
                terminal |-> NoError, verification |-> Nothing]
  BY DEF Init
<1>2. p \in {"known-bad", "fixed", "llm"}
  BY AgentRunConstants
<1>3. Types
  BY <1>1, <1>2 DEF Init, Types, Phases, RunRow, EnvRow, ExecRow, NewExecutor, NoArtifact,
     Answers
<1>4. StepsCounted
  BY <1>1, PlanIsShort, AgentRunConstants DEF Init, StepsCounted, NoError
<1>5. Counted /\ Undecided /\ Observed /\ Supported /\ Cleaned /\ Concluded
  BY <1>1 DEF Init, NewExecutor, NoArtifact, Counted, Undecided, Observed, Supported, Cleaned,
     Concluded, AgentVerdictIsClean, AgentCountIsTrue, VerdictHasEvidence, Nothing
<1>6. QED
  BY <1>3, <1>4, <1>5 DEF AgentInd

LEMMA AgentStep ==
    ASSUME AgentInd, [Next]_vars
    PROVE  AgentInd'
<1>1. CASE RunStep
  BY <1>1, NoEnvironmentKeeps, EarlyKeeps, ReadKeeps, ReconcileKeeps, ApplyBlockedKeeps,
     ApplyKeeps, ApplyFailsKeeps, CompleteKeeps, ModelFailsKeeps, VerifyKeeps, RescueKeeps,
     CleanupKeeps, ConcludeKeeps DEF RunStep
<1>2. CASE UNCHANGED vars
  BY <1>2 DEF vars, AgentInd, Types, Counted, Undecided, StepsCounted, Plan, Observed, Passed,
     Supported, Verdict, Cleaned, Concluded, AgentVerdictIsClean, AgentCountIsTrue,
     VerdictHasEvidence
<1>3. QED
  BY <1>1, <1>2, ContainerStopsKeeps DEF Next

(* The books of the run are in order in every reachable state: what was    *)
(* counted, what was read, what is still open to be decided and what has   *)
(* been cleaned agree, whatever command failed (run_slice).                *)
THEOREM AgentInductive == Spec => []AgentInd
  BY AgentInit, AgentStep, PTL DEF Spec

(* Types, clean verdicts and no forgotten container (run_slice's finally   *)
(* block, DockerEnvironment.cleanup and quarantine).                       *)
THEOREM AgentRunIsClean == Spec => []AgentRunInv
<1>1. AgentInd => AgentRunInv
  <2> SUFFICES ASSUME AgentInd PROVE AgentRunInv
    OBVIOUS
  <2>1. run.step \in 1 .. MaxSteps + Len(Plan) + 1
    BY PlanIsShort, AgentRunConstants DEF AgentInd, Types, RunRow, StepsCounted
  <2>2. AgentTypeOK
    BY <2>1, AgentRunConstants DEF AgentInd, Types, RunRow, EnvRow, ExecRow, Phases, AgentTypeOK
  <2>3. QED
    BY <2>2 DEF AgentRunInv, AgentInd, Concluded, Cleaned, NothingIsLeaked
<1>2. QED
  BY <1>1, AgentInductive, PTL

(* A PASS or an Agent FAIL counts every write that really happened         *)
(* (ToolExecutor.execute, run_slice's attribution of failures).            *)
THEOREM AgentCountsAreTrue == Spec => []AgentCountIsTrue
<1>1. AgentInd => AgentCountIsTrue
  BY DEF AgentInd, Concluded
<1>2. QED
  BY <1>1, AgentInductive, PTL

(* Such a verdict rests on a read of the run's own container, unless the   *)
(* model had used up its steps and that read failed (run_slice, verify).   *)
THEOREM VerdictsHaveEvidence == Spec => []VerdictHasEvidence
<1>1. AgentInd => VerdictHasEvidence
  BY DEF AgentInd, Concluded
<1>2. QED
  BY <1>1, AgentInductive, PTL

-----------------------------------------------------------------------------
(* The contract of every runner, step by step.                             *)

Doubtful == exec.uncertain \/ effects > exec.mutations

(* Nothing the contract speaks of changes before the artifact.             *)
LEMMA ContractStutters ==
    ASSUME UNCHANGED <<exec, effects, art>>
    PROVE  UNCHANGED Contract!contractVars
  BY DEF Contract!contractVars

(* A command that only reads, or that fails, never makes a doubt go away.  *)
LEMMA ReadIsInvisible ==
    ASSUME AgentInd, ReadState \/ ApplyBlocked
    PROVE  UNCHANGED Contract!contractVars
<1>1. exec \in ExecRow /\ UNCHANGED <<effects, art>>
  BY DEF ReadState, ApplyBlocked, GuardBlocked, AgentInd, Types
<1>2. exec'.uncertain = exec.uncertain /\ exec'.mutations = exec.mutations
  BY <1>1 DEF ReadState, ApplyBlocked, DockerFails, ExecRow
<1>3. QED
  BY <1>1, <1>2 DEF Contract!contractVars

\* The reconciliation of a lost reply settles the doubt of the contract.
LEMMA ReconcileSettles ==
    ASSUME AgentInd, ReconcileTool
    PROVE  [Contract!ContractNext]_(Contract!contractVars)
<1>1. /\ exec \in ExecRow /\ exec.mutations = effects /\ effects \in 0 .. 1
      /\ art.status = "NONE" /\ UNCHANGED <<effects, art>>
  BY DEF ReconcileTool, Intends, GuardBlocked, AgentInd, Types, Undecided, Concluded
<1>2. CASE UNCHANGED exec
  BY <1>1, <1>2, ContractStutters
<1>3. CASE exec.uncertain /\ exec' = [exec EXCEPT !.uncertain = FALSE, !.reconciled = TRUE,
                                                  !.readback = TRUE]
  <2>1. exec'.uncertain = FALSE /\ exec'.mutations = exec.mutations
    BY <1>1, <1>3 DEF ExecRow
  <2>2. ~(effects' > exec'.mutations)
    BY <1>1, <2>1
  <2>3. (exec'.uncertain \/ effects' > exec'.mutations) = FALSE
    BY <2>1, <2>2
  <2>4. Contract!Reconcile
    BY <1>1, <1>3, <2>3 DEF Contract!Reconcile
  <2>5. QED
    BY <2>4 DEF Contract!ContractNext
<1>4. QED
  BY <1>2, <1>3 DEF ReconcileTool, DockerFails

\* A write, whether its command reports it or not, is the contract's one effect.
LEMMA WriteIsTheEffect ==
    ASSUME AgentInd, ApplyChange \/ ApplyFails
    PROVE  [Contract!ContractNext]_(Contract!contractVars)
<1>1. art.status = "NONE" /\ UNCHANGED art
  BY DEF ApplyChange, ApplyFails, ApplyAllowed, Intends, AgentInd, Concluded
<1>2. CASE world = "initial" /\ Written
  <2>1. effects = 0 /\ effects' = 1
    BY <1>2, WriteIsFirst
  <2>2. (exec'.uncertain \/ effects' > exec'.mutations) \in BOOLEAN
    BY AgentStep DEF Next, RunStep, AgentInd, Types, ExecRow
  <2>3. Contract!Effect
    BY <1>1, <2>1, <2>2 DEF Contract!Effect
  <2>4. QED
    BY <2>3 DEF Contract!ContractNext
<1>3. CASE ApplyFails /\ UNCHANGED <<world, effects>>
  BY <1>1, <1>3, ContractStutters DEF ApplyFails, DockerFails
<1>4. QED
  BY <1>2, <1>3 DEF ApplyChange, ApplyFails

\* The end of the run is the contract's end.
LEMMA ConcludeIsTheVerdict ==
    ASSUME AgentInd, Conclude
    PROVE  [Contract!ContractNext]_(Contract!contractVars)
<1>1. art.status = "NONE" /\ UNCHANGED <<exec, effects>> /\ art'.status = Outcome
  BY DEF Conclude, AgentInd, Concluded
<1>2. Outcome \in Statuses
  BY <1>1, ConcludeKeeps DEF AgentInd, Types, Conclude, Outcome, RunRow, Failures, Statuses
<1>3. Outcome = "PASS" => effects = 1 /\ ~(exec.uncertain \/ effects > exec.mutations)
  <2> SUFFICES ASSUME Outcome = "PASS" PROVE effects = 1 /\ ~Doubtful
    BY DEF Doubtful
  <2>1. run.terminal = NoError /\ LateVerification = "passed"
    BY DEF Outcome, AgentInd, Types, RunRow, Failures
  <2>2. Passed(world)
    BY <2>1 DEF LateVerification, VerifyRun, AgentInd, Observed, Types, Nothing
  <2>3. exec.mutations = effects
    BY <2>1 DEF Conclude, AgentInd, Supported, Verdict
  <2>4. QED
    BY <2>2, <2>3 DEF Passed, Doubtful, AgentInd, Types
<1>4. Contract!Conclude
  BY <1>1, <1>2, <1>3 DEF Contract!Conclude
<1>5. QED
  BY <1>4 DEF Contract!ContractNext

(* Every run refines the contract of the runners: the state file is        *)
(* written at most once, a lost answer is reconciled before a PASS, and a  *)
(* PASS is given to exactly one write (run_slice, ToolExecutor.execute).   *)
(* That every run ends is fairness, and model-checked.                     *)
THEOREM AgentRunRefinement == Spec => Contract!ContractSafety
<1>1. Init => Contract!ContractInit
  BY DEF Init, NewExecutor, NoArtifact, Contract!ContractInit
<1>2. ASSUME AgentInd, [Next]_vars
      PROVE  [Contract!ContractNext]_(Contract!contractVars)
  <2>1. CASE UNCHANGED vars \/ ContainerStops
    BY <2>1, ContractStutters DEF vars, ContainerStops
  <2>2. CASE NoEnvironment \/ Provision \/ Readiness \/ VerifyInitial \/ Complete
             \/ ModelFails \/ Verify \/ Rescue \/ Cleanup
    BY <2>2, ContractStutters DEF NoEnvironment, Provision, Readiness, VerifyInitial,
       Complete, ModelFails, Verify, Rescue, Cleanup
  <2>3. QED
    BY <1>2, <2>1, <2>2, ReadIsInvisible, ReconcileSettles, WriteIsTheEffect,
       ConcludeIsTheVerdict DEF Next, RunStep
<1>3. QED
  BY <1>1, <1>2, AgentInductive, PTL DEF Spec, Contract!ContractSafety
=============================================================================
