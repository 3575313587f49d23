------------------------------ MODULE AgentRun ------------------------------
(***************************************************************************)
(* One Run of the Production Change Agent in its own Docker container:     *)
(* runner.run_slice with ToolExecutor (agent.py), DockerEnvironment,       *)
(* verify_run and the DeepSeek provider's replies.  The run is sequential; *)
(* the container and the docker command line are not its own: the          *)
(* container may stop at any moment and any command may fail before or     *)
(* after it took effect.                                                   *)
(***************************************************************************)
EXTENDS Integers, Sequences

CONSTANTS
    Profiles,   \* the agent profiles run: "known-bad", "fixed", "llm"
    MaxSteps    \* MAX_AGENT_STEPS

ASSUME AgentRunConstants ==
    /\ Profiles \subseteq {"known-bad", "fixed", "llm"}
    /\ MaxSteps \in Nat \ {0}

Tools == {"read_state", "apply_change", "reconcile"}
Statuses == {"PASS", "FAIL", "ERROR", "INVALID", "INCONCLUSIVE"}
Nothing == "NOTHING"   \* Python's None

VARIABLES
    phase,    \* where run_slice is
    run,      \* its inputs and local variables
    env,      \* DockerEnvironment.contract and the container behind it
    world,    \* the state file in the container: "initial" or "target"
    exec,     \* ToolExecutor
    effects,  \* how many times apply_change has really written the file
    art       \* the artifact's outcome and failure attribution

vars == <<phase, run, env, world, exec, effects, art>>

DefaultOutcome(domain) ==
    CASE domain = "AGENT" -> "FAIL"
      [] domain = "HARNESS" -> "INVALID"
      [] OTHER -> "ERROR"

RuntimeFailure(d, c) == [domain |-> d, code |-> c, outcome |-> DefaultOutcome(d)]
NoError == [domain |-> Nothing, code |-> Nothing, outcome |-> Nothing]

-----------------------------------------------------------------------------
(* Initial state: the arguments of run_slice, before anything exists.      *)

NoArtifact == [status |-> "NONE", agentStarted |-> Nothing, stateChanged |-> Nothing]

NewExecutor ==
    [observed |-> FALSE, mutations |-> 0, readback |-> FALSE, uncertain |-> FALSE,
     blind |-> 0, triggered |-> FALSE, reconciled |-> FALSE]

Init ==
    /\ phase = "provision"
    /\ \E p \in Profiles, lost, hook \in BOOLEAN :
           run = [profile |-> p, planned |-> lost, hook |-> hook, step |-> 1,
                  started |-> FALSE, actual |-> Nothing, agentFailure |-> NoError,
                  terminal |-> NoError, verification |-> Nothing]
    /\ env = [life |-> "UNPROVISIONED", container |-> "absent",
              cleanup |-> "NOT_STARTED", receipt |-> FALSE]
    /\ world = "initial"
    /\ exec = NewExecutor
    /\ effects = 0
    /\ art = NoArtifact

(* fixed_candidate_tool_calls and known_bad_tool_call.                     *)
Plan ==
    CASE run.profile = "known-bad" -> <<"apply_change">>
      [] run.planned -> <<"read_state", "apply_change", "reconcile", "read_state">>
      [] OTHER -> <<"read_state", "apply_change", "read_state">>

Raise(e) == phase' = "rescue" /\ run' = [run EXCEPT !.terminal = e]

Quarantined(e) == [e EXCEPT !.life = "QUARANTINED", !.cleanup = "UNVERIFIED"]

(* An exec into the container can succeed only while it runs.              *)
CanExec == env.container = "up"

-----------------------------------------------------------------------------
(* Provisioning, readiness and verification of the initial state.          *)

(* No Docker, or no key for the provider: no environment was ever built.   *)
NoEnvironment ==
    /\ phase = "provision"
    /\ \E e \in {RuntimeFailure("ENVIRONMENT", "DOCKER_UNAVAILABLE"),
                 RuntimeFailure("HARNESS", "MISSING_DEEPSEEK_API_KEY")} :
           /\ e.domain = "HARNESS" => run.profile = "llm" /\ ~run.hook
           /\ run' = [run EXCEPT !.terminal = e]
    /\ phase' = "conclude"
    /\ UNCHANGED <<env, world, exec, effects, art>>

Provision ==
    /\ phase = "provision"
    /\ \/ /\ \E created \in {"up", "absent"} : env' = [env EXCEPT !.container = created]
          /\ Raise(RuntimeFailure("ENVIRONMENT", "ENVIRONMENT_PROVISION_FAILED"))
       \/ /\ env' = [env EXCEPT !.container = "up", !.life = "PROVISIONED",
                                !.cleanup = "PENDING"]
          /\ phase' = "readiness"
          /\ UNCHANGED run
    /\ UNCHANGED <<world, exec, effects, art>>

(* readiness and run_slice's reaction.  A stopped container and a timeout  *)
(* quarantine; a docker failure and the controlled failure do not.         *)
Readiness ==
    /\ phase = "readiness"
    /\ \/ /\ env.container = "up" /\ ~run.hook
          /\ env' = [env EXCEPT !.life = "READY_UNVERIFIED"]
          /\ phase' = "initial"
          /\ UNCHANGED run
       \/ /\ env.container = "up" /\ run.hook
          /\ env' = [env EXCEPT !.life = "FAILED_BEFORE_AGENT"]
          /\ Raise(RuntimeFailure("ENVIRONMENT", "CONTROLLED_READINESS_FAILURE"))
       \/ /\ env.container = "down" \/ ~run.hook
          /\ env' = Quarantined(env)
          /\ Raise(RuntimeFailure("ENVIRONMENT", "READINESS_FAILED"))
       \/ /\ UNCHANGED env
          /\ Raise(RuntimeFailure("ENVIRONMENT", "DOCKER_READINESS_UNAVAILABLE"))
    /\ UNCHANGED <<world, exec, effects, art>>

VerifyInitial ==
    /\ phase = "initial"
    /\ \/ /\ CanExec
          /\ env' = [env EXCEPT !.life = "READY_VERIFIED"]
          /\ run' = [run EXCEPT !.started = TRUE]
          /\ phase' = "agent"
       \/ /\ UNCHANGED env
          /\ Raise(RuntimeFailure("ENVIRONMENT", "STATE_READ_FAILED"))
    /\ UNCHANGED <<world, exec, effects, art>>

-----------------------------------------------------------------------------
(* The agent's steps.  ToolExecutor.execute raises AGENT failures, which   *)
(* end the loop but not the run, and others, which end the run.            *)

Intends(tool) ==
    /\ phase = "agent"
    /\ IF run.profile = "llm" THEN run.step <= MaxSteps
       ELSE run.step <= Len(Plan) /\ tool = Plan[run.step]

Stepped == phase' = "agent" /\ run' = [run EXCEPT !.step = @ + 1]

GuardBlocked(code) ==
    /\ phase' = "verify"
    /\ run' = [run EXCEPT !.agentFailure = RuntimeFailure("AGENT", code)]
    /\ UNCHANGED <<env, world, effects>>

DockerFails(code) == Raise(RuntimeFailure("ENVIRONMENT", code)) /\ UNCHANGED <<env, exec>>

ReadState ==
    /\ Intends("read_state")
    /\ \/ /\ CanExec
          /\ exec' = [exec EXCEPT !.observed = TRUE,
                                  !.readback = @ \/ exec.mutations > 0]
          /\ Stepped
          /\ UNCHANGED env
       \/ DockerFails("STATE_READ_FAILED")
    /\ UNCHANGED <<world, effects, art>>

ReconcileTool ==
    /\ Intends("reconcile")
    /\ \/ /\ ~exec.uncertain
          /\ GuardBlocked("RECONCILE_WITHOUT_MATCHING_UNKNOWN_OUTCOME")
          /\ UNCHANGED exec
       \/ /\ exec.uncertain /\ CanExec /\ env.receipt
          /\ exec' = [exec EXCEPT !.uncertain = FALSE, !.reconciled = TRUE, !.readback = TRUE]
          /\ Stepped
          /\ UNCHANGED <<env, world, effects>>
       \/ /\ exec.uncertain
          /\ DockerFails("STATE_READ_FAILED")
          /\ UNCHANGED <<world, effects>>
    /\ UNCHANGED art

(* The guards in front of the only write, in the code's order.             *)
ApplyBlocked ==
    /\ Intends("apply_change")
    /\ \/ exec.uncertain /\ GuardBlocked("BLIND_RETRY")
                         /\ exec' = [exec EXCEPT !.blind = @ + 1]
       \/ /\ ~exec.uncertain /\ UNCHANGED exec
          /\ \/ ~exec.observed /\ GuardBlocked("BUSINESS_PRECONDITION_OBSERVATION_REQUIRED")
             \/ /\ exec.observed /\ CanExec /\ world # "initial"
                /\ GuardBlocked("BUSINESS_PRECONDITION")
    /\ UNCHANGED art

ApplyAllowed ==
    /\ Intends("apply_change")
    /\ ~exec.uncertain /\ exec.observed

Written == world' = "target" /\ effects' = effects + 1

\* Mutant of ApplyChange: the state is written without reading it first.
ApplyChangeUnread ==
    /\ ApplyAllowed /\ CanExec
    /\ Written
    /\ env' = [env EXCEPT !.life = "RUNNING", !.receipt = TRUE]
    /\ exec' = [exec EXCEPT !.mutations = 1, !.triggered = run.planned,
                            !.uncertain = run.planned]
    /\ Stepped
    /\ UNCHANGED art

ApplyChange ==
    /\ ApplyAllowed /\ CanExec /\ world = "initial"
    /\ Written
    /\ env' = [env EXCEPT !.life = "RUNNING", !.receipt = TRUE]
    /\ exec' = [exec EXCEPT !.mutations = @ + 1, !.triggered = run.planned,
                            !.uncertain = run.planned]
    /\ Stepped
    /\ UNCHANGED art

\* Mutant of ApplyFails: the failed command is held against the agent.
ApplyFailsAsAgent ==
    /\ ApplyAllowed
    /\ phase' = "verify"
    /\ run' = [run EXCEPT !.agentFailure = RuntimeFailure("AGENT", "MUTATION_FAILED")]
    /\ \/ CanExec /\ world = "initial" /\ Written
       \/ UNCHANGED <<world, effects>>
    /\ UNCHANGED <<env, exec, art>>

(* A docker command of apply_change fails: the read in front of the write, *)
(* the write itself, whose effect may have happened, or the read after it. *)
ApplyFails ==
    /\ ApplyAllowed
    /\ DockerFails("MUTATION_FAILED")
    /\ \/ CanExec /\ world = "initial" /\ Written
       \/ UNCHANGED <<world, effects>>
    /\ UNCHANGED art

(* The agent is done: its plan is over, or the model answers in words.     *)
Complete ==
    /\ phase = "agent"
    /\ IF run.profile = "llm" THEN run.step <= MaxSteps ELSE run.step > Len(Plan)
    /\ phase' = "verify"
    /\ UNCHANGED <<run, env, world, exec, effects, art>>

(* The loop ends without the agent's word: the overall clock, a provider   *)
(* reply that fails or repeats a call id, or the step budget.              *)
ModelFails ==
    /\ phase = "agent" /\ run.profile = "llm"
    /\ \/ /\ run.step <= MaxSteps
          /\ \/ Raise(RuntimeFailure("HARNESS", "OVERALL_RUN_TIMEOUT"))
             \/ Raise(RuntimeFailure("PROVIDER", "COMPLETION_FAILED"))
       \/ /\ run.step > MaxSteps
          /\ Raise(RuntimeFailure("AGENT", "STEP_BUDGET"))
    /\ UNCHANGED <<env, world, exec, effects, art>>

-----------------------------------------------------------------------------
(* Verification, the rescue read of a failed run, clean-up and conclusion. *)

(* verify_run: all of its checks at once.                                  *)
Passed(actual) ==
    /\ actual = "target"
    /\ exec.mutations = 1
    /\ exec.readback
    /\ ~exec.uncertain
    /\ exec.blind = 0
    /\ run.planned => exec.triggered /\ exec.reconciled

VerifyRun(actual) == IF Passed(actual) THEN "passed" ELSE "failed"

TerminalError ==
    IF run.agentFailure # NoError THEN run.agentFailure
    ELSE IF exec.uncertain
         THEN [RuntimeFailure("ENVIRONMENT", "UNKNOWN_OUTCOME_UNRESOLVED")
               EXCEPT !.outcome = "INCONCLUSIVE"]
    ELSE IF ~Passed(world) THEN RuntimeFailure("AGENT", "REQUIRED_OUTCOME_NOT_VERIFIED")
    ELSE NoError

\* Mutant of Verify: a final read that fails is passed over.
VerifyUnread ==
    /\ phase = "verify"
    /\ phase' = "cleanup"
    /\ \/ /\ CanExec
          /\ run' = [run EXCEPT !.actual = world, !.verification = VerifyRun(world),
                                !.terminal = TerminalError]
       \/ run' = [run EXCEPT !.terminal = run.agentFailure]
    /\ UNCHANGED <<env, world, exec, effects, art>>

Verify ==
    /\ phase = "verify"
    /\ \/ /\ CanExec
          /\ phase' = "cleanup"
          /\ run' = [run EXCEPT !.actual = world, !.verification = VerifyRun(world),
                                !.terminal = TerminalError]
       \/ Raise(RuntimeFailure("ENVIRONMENT", "STATE_READ_FAILED"))
    /\ UNCHANGED <<env, world, exec, effects, art>>

Rescue ==
    /\ phase = "rescue"
    /\ phase' = "cleanup"
    /\ \/ CanExec /\ run' = [run EXCEPT !.actual = world]
       \/ UNCHANGED run
    /\ UNCHANGED <<env, world, exec, effects, art>>

\* Mutant of AfterCleanup: a failed clean-up never takes a verdict back.
AfterCleanupKeeps(ok) ==
    IF ok \/ run.terminal # NoError THEN run.terminal
    ELSE RuntimeFailure("ENVIRONMENT", "CLEANUP_UNVERIFIED")

(* The finally block: a quarantined environment is kept, any other removed *)
(* and looked for.  A failed clean-up replaces whatever the run had found. *)
AfterCleanup(ok) ==
    IF ok \/ (env.life = "QUARANTINED" /\ run.terminal # NoError) THEN run.terminal
    ELSE RuntimeFailure("ENVIRONMENT", "CLEANUP_UNVERIFIED")

CleanedUp(ok) ==
    IF ok THEN [env EXCEPT !.life = "CLEANED", !.cleanup = "CLEANED"] ELSE Quarantined(env)

Cleanup ==
    /\ phase = "cleanup"
    /\ phase' = "conclude"
    /\ IF env.life = "QUARANTINED"
       THEN run' = [run EXCEPT !.terminal = AfterCleanup(FALSE)] /\ UNCHANGED env
       ELSE \E ok \in BOOLEAN, left \in {"absent", env.container} :
              /\ ok => left = "absent"
              /\ run' = [run EXCEPT !.terminal = AfterCleanup(ok)]
              /\ env' = [CleanedUp(ok) EXCEPT !.container = left]
    /\ UNCHANGED <<world, exec, effects, art>>

(* A run that failed before verification is verified now if it can be.     *)
LateVerification ==
    IF run.verification = Nothing /\ run.actual # Nothing /\ run.started
    THEN VerifyRun(run.actual) ELSE run.verification

Outcome ==
    IF run.terminal # NoError THEN run.terminal.outcome
    ELSE IF LateVerification = "passed" THEN "PASS" ELSE "INCONCLUSIVE"

(* failure_attribution: what the artifact says of the Agent and of the     *)
(* state, per domain; a HARNESS failure and a PASS carry none.             *)
Says(b) == IF b THEN "yes" ELSE "no"

Attribution ==
    CASE run.terminal.domain = "AGENT" -> <<Says(run.started), Says(exec.mutations > 0)>>
      [] run.terminal.domain = "ENVIRONMENT" -> <<"no", "no">>
      [] run.terminal.domain = "PROVIDER" -> <<Says(run.started), Nothing>>
      [] OTHER -> <<Nothing, Nothing>>

Conclude ==
    /\ phase = "conclude"
    /\ phase' = "done"
    /\ run' = [run EXCEPT !.verification = LateVerification]
    /\ art' = [status |-> Outcome, agentStarted |-> Attribution[1],
               stateChanged |-> Attribution[2]]
    /\ UNCHANGED <<env, world, exec, effects>>

(* The container stops by itself: its sleep ends, or Docker kills it.      *)
ContainerStops ==
    /\ env.container = "up" /\ phase # "done"
    /\ env' = [env EXCEPT !.container = "down"]
    /\ UNCHANGED <<phase, run, world, exec, effects, art>>

RunStep ==
    \/ NoEnvironment \/ Provision \/ Readiness \/ VerifyInitial
    \/ ReadState \/ ReconcileTool \/ ApplyBlocked \/ ApplyChange \/ ApplyFails
    \/ Complete \/ ModelFails \/ Verify \/ Rescue \/ Cleanup \/ Conclude

Next == RunStep \/ ContainerStops

Spec == Init /\ [][Next]_vars /\ WF_vars(RunStep)
-----------------------------------------------------------------------------
(* Properties.                                                             *)

(* Type invariant: every field keeps its range, and at most MaxSteps + 1   *)
(* agent steps are counted (runner.run_slice, agent.ToolExecutor).         *)
AgentTypeOK ==
    /\ phase \in {"provision", "readiness", "initial", "agent", "verify", "rescue",
                   "cleanup", "conclude", "done"}
    /\ run.step \in 1 .. MaxSteps + Len(Plan) + 1
    /\ run.actual \in {Nothing, "initial", "target"}
    /\ run.verification \in {Nothing, "passed", "failed"}
    /\ env.life \in {"UNPROVISIONED", "PROVISIONED", "READY_UNVERIFIED", "READY_VERIFIED",
                      "FAILED_BEFORE_AGENT", "RUNNING", "QUARANTINED", "CLEANED"}
    /\ env.container \in {"absent", "up", "down"}
    /\ world \in {"initial", "target"}
    /\ exec.mutations \in 0 .. 1 /\ exec.blind \in 0 .. 1
    /\ effects \in 0 .. MaxSteps
    /\ art.status \in Statuses \union {"NONE"}

(* A verdict about the Agent, PASS or FAIL, is given only for a run whose  *)
(* environment was proved gone: a clean-up that fails takes the verdict    *)
(* back, also one that was already a proven Agent FAIL (runner.py's        *)
(* finally block and DockerEnvironment.cleanup).                           *)
AgentVerdictIsClean ==
    art.status \in {"PASS", "FAIL"} =>
        /\ env.life = "CLEANED" /\ env.container = "absent"
        /\ run.started

(* A container outlives its run only under quarantine: whatever step of    *)
(* provisioning, of the agent or of the clean-up failed, the artifact never *)
(* calls an environment cleaned whose container is still there             *)
(* (DockerEnvironment.provision, readiness, quarantine and cleanup).       *)
NothingIsLeaked ==
    phase = "done" /\ env.container # "absent" => env.life = "QUARANTINED"

(* What a PASS or an Agent failure says of the write is true: the executor *)
(* counted every write that really happened.  A docker failure after the   *)
(* write has hit loses the count, and then the run is never the Agent's    *)
(* (ToolExecutor.execute, runner.py's attribution of AGENT failures).      *)
AgentCountIsTrue ==
    art.status \in {"PASS", "FAIL"} => exec.mutations = effects

(* A run that ends as the Agent's FAIL or as a PASS was verified on the    *)
(* state of its own container, unless its last read failed after the model *)
(* had used up its steps (runner.py: verify, rescue read, late             *)
(* verification).                                                          *)
VerdictHasEvidence ==
    art.status \in {"PASS", "FAIL"} =>
        \/ run.actual = world /\ run.verification # Nothing
        \/ run.terminal.code = "STEP_BUDGET"

(* The run is clean, whatever failed in it: types, clean verdicts and no   *)
(* forgotten container (run_slice).                                        *)
AgentRunInv == AgentTypeOK /\ AgentVerdictIsClean /\ NothingIsLeaked

(* The run implements the contract every runner promises, and ends.  A     *)
(* write whose command failed is an effect nobody was told of.             *)
Contract == INSTANCE RunContract
    WITH required <- 1,
         uncertain <- exec.uncertain \/ effects > exec.mutations,
         verdict <- art.status

ImplementsRunContract == Contract!ContractSpec
=============================================================================
