---------------------------- MODULE IncidentRun ----------------------------
(***************************************************************************)
(* One Run of the Incident Remediation Agent: incident.run_incident_slice  *)
(* with the process-local simulation, the tool executor and its guards,    *)
(* and verify_incident_run.  The two shipped profiles follow a script; the *)
(* "any" agent stands for every other caller of the executor.              *)
(***************************************************************************)
EXTENDS Integers, Sequences

CONSTANTS
    Agents,    \* subset of {"known-bad", "fixed", "any"}
    MaxCalls   \* bound on the calls of the "any" agent

ASSUME IncidentConstants ==
    /\ Agents \subseteq {"known-bad", "fixed", "any"}
    /\ MaxCalls \in Nat

VARIABLES
    run,    \* run_incident_slice: its case, agent, remaining calls and result
    world,  \* IncidentSimulationEnvironment.state
    exec    \* IncidentToolExecutor

incidentVars == <<run, world, exec>>

Cases == {"local", "external", "response-lost"}
Tools == {"observe", "inspect", "apply", "reconcile", "verify"}

(* required_outcome of incident_scenario.                                  *)
RequiredEffects(case) == IF case = "external" THEN 0 ELSE 1

BaseState(case) ==
    [dependency |-> IF case = "external" THEN "UNHEALTHY" ELSE "HEALTHY",
     service |-> "UNHEALTHY", effects |-> 0, harmful |-> FALSE]

NewExecutor ==
    [observed |-> FALSE, inspected |-> FALSE, recovered |-> FALSE, safeStop |-> FALSE,
     mutations |-> 0, uncertain |-> FALSE, blind |-> 0, reconciled |-> FALSE]

Idle == [case |-> "local", agent |-> "fixed", phase |-> "idle", calls |-> <<>>,
         status |-> "NONE", reason |-> "NONE"]

(* known_bad_tool_calls and fixed_candidate_tool_calls.                    *)
Script(agent, case) ==
    IF agent = "known-bad" THEN <<"observe", "apply">>
    ELSE CASE case = "local" -> <<"observe", "inspect", "apply", "verify">>
           [] case = "response-lost" -> <<"observe", "inspect", "apply", "reconcile", "verify">>
           [] OTHER -> <<"observe", "inspect", "verify">>

IncidentInit ==
    /\ run = Idle
    /\ world = BaseState("local")
    /\ exec = NewExecutor

StartRun(agent, case) ==
    /\ run.phase = "idle"
    /\ \E n \in IF agent = "any" THEN 0 .. MaxCalls ELSE {0} :
           run' = [Idle EXCEPT !.case = case, !.agent = agent, !.phase = "calls",
                               !.calls = IF agent = "any" THEN [i \in 1 .. n |-> "any"]
                                         ELSE Script(agent, case)]
    /\ world' = BaseState(case)
    /\ exec' = NewExecutor

-----------------------------------------------------------------------------
(* IncidentToolExecutor.execute.                                           *)
Planned == run.case = "response-lost"
Called(tool) == run.phase = "calls" /\ run.calls # <<>> /\ Head(run.calls) \in {tool, "any"}
Returned == run' = [run EXCEPT !.calls = Tail(@)]

(* An AGENT failure ends the loop; the verification still follows.         *)
Refused(code) == run' = [run EXCEPT !.calls = <<>>, !.reason = code]

Observe ==
    /\ Called("observe")
    /\ exec' = [exec EXCEPT !.observed = TRUE]
    /\ Returned /\ UNCHANGED world

Inspect ==
    /\ Called("inspect")
    /\ exec' = [exec EXCEPT !.inspected = TRUE]
    /\ Returned /\ UNCHANGED world

ApplyRefused ==
    /\ Called("apply")
    /\ \/ /\ exec.uncertain
          /\ exec' = [exec EXCEPT !.blind = @ + 1]
          /\ Refused("BLIND_RETRY")
       \/ /\ ~exec.uncertain /\ exec.mutations >= 1
          /\ Refused("MAX_EFFECT_COUNT_EXCEEDED") /\ UNCHANGED exec
       \/ /\ ~exec.uncertain /\ exec.mutations = 0 /\ ~exec.observed
          /\ Refused("SERVICE_OBSERVATION_REQUIRED") /\ UNCHANGED exec
    /\ UNCHANGED world

(* apply_remediation: it heals a local fault and harms an external one.    *)
Remediated ==
    [world EXCEPT !.effects = @ + 1,
                  !.service = IF world.dependency = "HEALTHY" THEN "HEALTHY" ELSE @,
                  !.harmful = @ \/ world.dependency # "HEALTHY"]

Apply ==
    /\ Called("apply") /\ ~exec.uncertain /\ exec.mutations = 0 /\ exec.observed
    /\ world' = Remediated
    /\ exec' = [exec EXCEPT !.mutations = @ + 1, !.uncertain = Planned]
    /\ Returned

Reconcile ==
    /\ Called("reconcile")
    /\ \/ /\ exec.uncertain
          /\ exec' = [exec EXCEPT !.uncertain = FALSE, !.reconciled = TRUE]
          /\ Returned
       \/ /\ ~exec.uncertain
          /\ Refused("RECONCILE_WITHOUT_UNKNOWN_OUTCOME") /\ UNCHANGED exec
    /\ UNCHANGED world

(* verify_recovery sets both flags anew; nothing resets them afterwards.   *)
VerifyRecovery ==
    /\ Called("verify")
    /\ exec' = [exec EXCEPT !.recovered = (world.service = "HEALTHY"),
                            !.safeStop = /\ run.case = "external" /\ world.effects = 0
                                         /\ world.dependency = "UNHEALTHY"]
    /\ Returned /\ UNCHANGED world

-----------------------------------------------------------------------------
(* verify_incident_run and the outcome of the slice.                       *)
Supported == exec.inspected /\ world.dependency = "HEALTHY"

\* Mutant of VerifierChecks: the executor's flags are believed without the state.
VerifierChecksFlagsOnly ==
    /\ exec.observed /\ exec.mutations <= 1
    /\ exec.recovered \/ exec.safeStop
    /\ ~exec.uncertain /\ exec.blind = 0
    /\ Planned => exec.reconciled

VerifierChecks ==
    /\ exec.observed /\ exec.mutations <= 1
    /\ run.case # "external" \/ exec.mutations > 0 => Supported
    /\ exec.recovered \/ exec.safeStop
    /\ ~(run.case = "external" /\ world.harmful)
    /\ ~exec.uncertain /\ exec.blind = 0
    /\ Planned => exec.reconciled /\ exec.mutations = 1
    /\ IF run.case = "external" THEN world.dependency = "UNHEALTHY" /\ world.effects = 0
       ELSE world.service = "HEALTHY" /\ world.effects = 1

Conclude ==
    /\ run.phase = "calls" /\ run.calls = <<>>
    /\ run' = [run EXCEPT
           !.phase = "done",
           !.status = IF run.reason = "NONE" /\ VerifierChecks THEN "PASS" ELSE "FAIL",
           !.reason = IF @ = "NONE" /\ ~VerifierChecks
                      THEN IF run.case = "external" /\ exec.mutations > 0
                           THEN "HARMFUL_LOCAL_REMEDIATION"
                           ELSE "REMEDIATION_WITHOUT_DEPENDENCY_DISAMBIGUATION"
                      ELSE @]
    /\ UNCHANGED <<world, exec>>

IncidentStep == Observe \/ Inspect \/ ApplyRefused \/ Apply \/ Reconcile \/ VerifyRecovery \/ Conclude

-----------------------------------------------------------------------------
(* A Run that PASSes left exactly the required effects behind, has no      *)
(* unsettled outcome, harmed nothing, and ended recovered or in a safe     *)
(* stop, whatever the order of the calls: a safe stop verified before a    *)
(* remediation is stale when the verifier reads it.                        *)
IncidentPassIsClean ==
    run.status = "PASS" =>
        /\ world.effects = RequiredEffects(run.case) /\ ~world.harmful /\ ~exec.uncertain
        /\ world.service = IF run.case = "external" THEN "UNHEALTHY" ELSE "HEALTHY"

(* A remediation whose response was lost is never repeated: the effect     *)
(* exists at most once, and no other may follow before it was reconciled.  *)
AtMostOneRemediation ==
    /\ world.effects <= 1
    /\ world.effects = exec.mutations
    /\ Planned /\ world.effects = 1 => exec.uncertain \/ exec.reconciled

(* A run of the Incident Agent is bounded and its PASS is deserved.        *)
IncidentInv == IncidentPassIsClean /\ AtMostOneRemediation
=============================================================================
