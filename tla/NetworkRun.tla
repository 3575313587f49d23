----------------------------- MODULE NetworkRun -----------------------------
(***************************************************************************)
(* One Run in the multi-service environment: run_multi_service_slice with  *)
(* MultiServiceEnvironment and the target service it starts in a container *)
(* of its own.  The run is sequential; the target serves a request when it *)
(* gets it, also after the client has given up; containers may stop; every *)
(* docker command may fail before or after it took effect.                 *)
(* The known-bad branch of the driver is left out: it asks for a suffix    *)
(* that no known-bad profile id has.                                       *)
(***************************************************************************)
EXTENDS Integers, SequencesExt

CONSTANTS Faults    \* the fault profiles run

ASSUME NetworkRunConstants ==
    Faults \subseteq {"none", "latency", "timeout", "dependency-unavailable",
                      "response-lost", "pre-side-effect-failure"}

Statuses == {"PASS", "FAIL", "ERROR", "INVALID", "INCONCLUSIVE"}
Nothing == "NOTHING"   \* Python's None

VARIABLES
    phase,    \* where run_multi_service_slice is
    run,      \* its local variables
    env,      \* the adapter's own record of the environment
    fault,    \* contract["fault_state"]
    docker,   \* what really exists, is stopped, and whether a toxic is on
    target,   \* the target service: STATE, and the one request sent to it
    verdict   \* the artifact's outcome

vars == <<phase, run, env, fault, docker, target, verdict>>

-----------------------------------------------------------------------------
(* Resources, in the order they are created.                               *)
Resources == <<"network", "dependency", "target", "boundary", "client">>

Running(names) == names \subseteq docker.there \ docker.stopped
CanObserve == Running({"target"})
CanReach == Running({"client", "boundary", "target"})

(* The mutation goes through the fault profile's own activation first.     *)
FaultsAtMutation == {"response-lost", "dependency-unavailable", "pre-side-effect-failure"}
HealthFaults == {"latency", "timeout"}

Failure(code) == [domain |-> "ENVIRONMENT", code |-> code, outcome |-> "ERROR"]
NoError == [domain |-> Nothing, code |-> Nothing, outcome |-> Nothing]

Init ==
    /\ phase = "provision"
    /\ \E p \in Faults :
           run = [fault |-> p, started |-> FALSE, request |-> Nothing, action |-> Nothing,
                  recovered |-> FALSE, actual |-> -1, verification |-> Nothing,
                  terminal |-> NoError]
    /\ env = [life |-> "UNPROVISIONED", created |-> <<>>, toxics |-> FALSE,
              todo |-> <<>>, errors |-> FALSE]
    /\ fault = [triggered |-> FALSE, observed |-> FALSE, reconciled |-> FALSE, reset |-> FALSE]
    /\ docker = [there |-> {}, stopped |-> {}, toxic |-> FALSE]
    /\ target = [count |-> 0, dependency |-> Nothing, flight |-> FALSE, reply |-> Nothing]
    /\ verdict = "NONE"

(* An exception leaves the driver without what it had to return.           *)
Raise(e) ==
    /\ phase' = "rescue"
    /\ run' = [run EXCEPT !.terminal = e, !.action = IF phase = "verify" THEN @ ELSE Nothing,
                          !.recovered = phase = "verify" /\ @]

DockerFails(code) == Raise(Failure(code)) /\ UNCHANGED <<env, fault>>

-----------------------------------------------------------------------------
(* Provisioning, readiness and verification of the initial state.          *)

NoEnvironment ==
    /\ phase = "provision" /\ env.created = <<>>
    /\ run' = [run EXCEPT !.terminal = Failure("DOCKER_DAEMON_UNAVAILABLE")]
    /\ phase' = "conclude"
    /\ UNCHANGED <<env, fault, docker, target, verdict>>

Missing == Resources[Len(env.created) + 1]

(* A resource is remembered only when its command has returned success.    *)
Provision ==
    /\ phase = "provision" /\ Len(env.created) < Len(Resources)
    /\ docker' = [docker EXCEPT !.there = @ \union {Missing}]
    /\ env' = [env EXCEPT !.created = Append(@, Missing)]
    /\ UNCHANGED <<phase, run, fault, target, verdict>>

(* Also the proxy that is not ready or not created.                        *)
ProvisionFails ==
    /\ phase = "provision"
    /\ DockerFails("PROVISION_FAILED")
    /\ \/ UNCHANGED docker
       \/ /\ Len(env.created) < Len(Resources)
          /\ \E s \in SUBSET {Missing} :
                 docker' = [docker EXCEPT !.there = @ \union {Missing}, !.stopped = @ \union s]
    /\ UNCHANGED <<target, verdict>>

Provisioned ==
    /\ phase = "provision" /\ Len(env.created) = Len(Resources)
    /\ phase' = "readiness"
    /\ env' = [env EXCEPT !.life = "PROVISIONED"]
    /\ UNCHANGED <<run, fault, docker, target, verdict>>

Readiness ==
    /\ phase = "readiness"
    /\ \/ /\ CanObserve /\ CanReach
          /\ env' = [env EXCEPT !.life = "READY_UNVERIFIED"]
          /\ phase' = "initial"
          /\ UNCHANGED <<run, fault>>
       \/ /\ env' = [env EXCEPT !.life = "QUARANTINED"]
          /\ Raise(Failure("READINESS_TIMEOUT"))
          /\ UNCHANGED fault
       \/ DockerFails("DOCKER_COMMAND_FAILED")
    /\ UNCHANGED <<docker, target, verdict>>

(* Nothing can have changed the target's state yet: only a read can fail.  *)
VerifyInitial ==
    /\ phase = "initial"
    /\ \/ /\ CanObserve
          /\ env' = [env EXCEPT !.life = "READY_VERIFIED"]
          /\ run' = [run EXCEPT !.started = TRUE]
          /\ phase' = "observe"
          /\ UNCHANGED fault
       \/ DockerFails("TARGET_STATE_READ_FAILED")
    /\ UNCHANGED <<docker, target, verdict>>

-----------------------------------------------------------------------------
(* The driver: _run_agent_driver.                                          *)

ReadState ==
    /\ phase = "observe"
    /\ \/ /\ CanObserve
          /\ phase' = IF run.fault \in HealthFaults \union FaultsAtMutation
                      THEN "activate" ELSE "send"
          /\ UNCHANGED <<run, env, fault>>
       \/ DockerFails("TARGET_STATE_READ_FAILED")
    /\ UNCHANGED <<docker, target, verdict>>

\* Mutant of Activated: the failing target is not stopped after all.
ActivatedLate ==
    CASE run.fault = "dependency-unavailable" ->
           [docker EXCEPT !.stopped = @ \union {"dependency"}]
      [] run.fault = "pre-side-effect-failure" -> docker
      [] OTHER -> [docker EXCEPT !.toxic = TRUE]

(* What activating the fault does to the containers.                       *)
Activated ==
    CASE run.fault = "dependency-unavailable" ->
           [docker EXCEPT !.stopped = @ \union {"dependency"}]
      [] run.fault = "pre-side-effect-failure" ->
           [docker EXCEPT !.stopped = @ \union {"target"}]
      [] OTHER -> [docker EXCEPT !.toxic = TRUE]

UsesToxic == run.fault \in HealthFaults \union {"response-lost"}

ActivateFault ==
    /\ phase = "activate"
    /\ \/ /\ UsesToxic => Running({"boundary"})
          /\ docker' = Activated
          /\ fault' = [fault EXCEPT !.triggered = TRUE]
          /\ env' = [env EXCEPT !.toxics = UsesToxic]
          /\ phase' = IF run.fault \in HealthFaults THEN "health" ELSE "send"
          /\ UNCHANGED run
       \/ /\ DockerFails("FAULT_ACTIVATION_FAILED")
          /\ docker' \in {docker, Activated}
    /\ UNCHANGED <<target, verdict>>

(* execute_health_fault: under the toxic no answer comes in time.          *)
HealthFault ==
    /\ phase = "health"
    /\ \/ /\ fault' = [fault EXCEPT !.observed = TRUE]
          /\ phase' = "reset"
          /\ UNCHANGED <<run, env>>
       \/ DockerFails("DOCKER_COMMAND_FAILED")
    /\ UNCHANGED <<docker, target, verdict>>

(* The list of active toxics is emptied whether or not the reset worked.   *)
ClearFault ==
    /\ phase = "reset"
    /\ \/ \E ok \in BOOLEAN :
              /\ ok => Running({"boundary"})
              /\ docker' = [docker EXCEPT !.toxic = ~ok]
              /\ fault' = [fault EXCEPT !.reset = ok]
          /\ env' = [env EXCEPT !.toxics = FALSE]
          /\ phase' = "recover"
          /\ UNCHANGED run
       \/ DockerFails("DOCKER_COMMAND_UNAVAILABLE") /\ UNCHANGED docker
    /\ UNCHANGED <<target, verdict>>

(* client_request("/health", 1.0): the toxics of both profiles last longer. *)
Recover ==
    /\ phase = "recover"
    /\ \/ /\ \E ok \in BOOLEAN :
                 /\ ok => CanReach /\ ~docker.toxic
                 /\ run' = [run EXCEPT !.recovered = ok]
          /\ phase' = "verify"
          /\ UNCHANGED <<env, fault>>
       \/ DockerFails("DOCKER_COMMAND_FAILED")
    /\ UNCHANGED <<docker, target, verdict>>

SendRequest ==
    /\ phase = "send"
    /\ phase' = "reply"
    /\ \E sent \in BOOLEAN :
           /\ sent => CanReach
           /\ target' = [target EXCEPT !.flight = sent]
    /\ UNCHANGED <<run, env, fault, docker, verdict>>

(* do_POST in the target.  Its own call of the dependency may time out.    *)
Deliver ==
    /\ target.flight /\ CanObserve
    /\ \/ /\ Running({"dependency"})
          /\ target' = [count |-> target.count + 1, dependency |-> "HEALTHY",
                        flight |-> FALSE, reply |-> "200"]
       \/ target' = [target EXCEPT !.dependency = "UNAVAILABLE", !.flight = FALSE,
                                   !.reply = "503"]
    /\ UNCHANGED <<phase, run, env, fault, docker, verdict>>

(* The answer, or the end of waiting for one.                              *)
ReceiveReply ==
    /\ phase = "reply"
    /\ \/ /\ \/ /\ target.reply # Nothing /\ CanReach /\ ~docker.toxic
                /\ run' = [run EXCEPT !.request = target.reply]
             \/ run' = [run EXCEPT !.request = "lost"]
          /\ phase' = "inspect"
          /\ UNCHANGED <<env, fault>>
       \/ DockerFails("DOCKER_COMMAND_FAILED")
    /\ UNCHANGED <<docker, target, verdict>>

\* Mutant of Classified: a missing effect alone shows the dependency was away.
ClassifiedByCount ==
    CASE run.fault = "response-lost" ->
           IF run.request = "lost" /\ target.count = 1 THEN "UNKNOWN_OUTCOME" ELSE "ERROR"
      [] run.fault = "dependency-unavailable" ->
           IF run.request \in {"503", "lost"} /\ target.count = 0
           THEN "DEPENDENCY_UNAVAILABLE" ELSE "ERROR"
      [] run.fault = "pre-side-effect-failure" ->
           IF run.request = "lost" THEN "PRE_SIDE_EFFECT_FAILURE" ELSE "ERROR"
      [] OTHER -> IF run.request = "200" THEN "APPLIED" ELSE "ERROR"

(* What _apply_change_impl makes of the answer and of the target's state.  *)
Classified ==
    CASE run.fault = "response-lost" ->
           IF run.request = "lost" /\ target.count = 1 THEN "UNKNOWN_OUTCOME" ELSE "ERROR"
      [] run.fault = "dependency-unavailable" ->
           IF /\ run.request \in {"503", "lost"}
              /\ target.dependency = "UNAVAILABLE" /\ target.count = 0
           THEN "DEPENDENCY_UNAVAILABLE" ELSE "ERROR"
      [] run.fault = "pre-side-effect-failure" ->
           IF run.request = "lost" THEN "PRE_SIDE_EFFECT_FAILURE" ELSE "ERROR"
      [] OTHER -> IF run.request = "200" THEN "APPLIED" ELSE "ERROR"

Inspect ==
    /\ phase = "inspect"
    /\ \/ /\ CanObserve \/ run.fault = "pre-side-effect-failure"
          /\ run' = [run EXCEPT !.action = Classified]
          /\ fault' = [fault EXCEPT !.observed = run.fault # "none" /\ Classified # "ERROR"]
          /\ phase' = IF run.fault = "response-lost" THEN "reconcile" ELSE "verify"
          /\ UNCHANGED env
       \/ DockerFails("TARGET_STATE_READ_FAILED")
    /\ UNCHANGED <<docker, target, verdict>>

Reconcile ==
    /\ phase = "reconcile"
    /\ \/ /\ CanObserve /\ target.count = 1
          /\ fault' = [fault EXCEPT !.reconciled = TRUE]
          /\ phase' = "verify"
          /\ UNCHANGED <<run, env>>
       \/ /\ Raise([Failure("RECONCILE_RECEIPT_MISSING") EXCEPT !.outcome = "INCONCLUSIVE"])
          /\ UNCHANGED <<env, fault>>
       \/ DockerFails("DOCKER_COMMAND_FAILED")
    /\ UNCHANGED <<docker, target, verdict>>

-----------------------------------------------------------------------------
(* Verification, rescue, clean-up and conclusion.                          *)

(* _formal_verification on the actual state, with or without the target's  *)
(* full state; a count of -1 stands for a state that was never read.       *)
Checks(actual, full) ==
    /\ run.started
    /\ actual = IF run.fault \in {"none", "response-lost"} THEN 1 ELSE 0
    /\ CASE run.fault = "none" -> full /\ run.action = "APPLIED"
         [] run.fault = "response-lost" ->
              full /\ run.action = "UNKNOWN_OUTCOME" /\ fault.reconciled
         [] run.fault \in HealthFaults ->
              fault.triggered /\ fault.observed /\ fault.reset /\ run.recovered
         [] run.fault = "dependency-unavailable" ->
              full /\ fault.triggered /\ fault.observed
         [] OTHER ->
              fault.triggered /\ fault.observed

Verified(actual, full) == IF Checks(actual, full) THEN "passed" ELSE "failed"

(* A stopped target is not asked: its state is taken to be the initial one. *)
Verify ==
    /\ phase = "verify"
    /\ \/ /\ CanObserve \/ run.fault = "pre-side-effect-failure"
          /\ phase' = "cleanup"
          /\ LET actual == IF run.fault = "pre-side-effect-failure" THEN 0 ELSE target.count
             IN run' = [run EXCEPT !.actual = actual, !.verification = Verified(actual, TRUE),
                          !.terminal = IF Checks(actual, TRUE) THEN NoError
                              ELSE [Failure("FORMAL_NETWORK_CONTRACT_NOT_VERIFIED")
                                    EXCEPT !.outcome = "INCONCLUSIVE"]]
          /\ UNCHANGED <<env, fault>>
       \/ /\ run.fault # "pre-side-effect-failure"
          /\ DockerFails("TARGET_STATE_READ_FAILED")
    /\ UNCHANGED <<docker, target, verdict>>

Rescue ==
    /\ phase = "rescue"
    /\ phase' = "cleanup"
    /\ \/ CanObserve /\ run' = [run EXCEPT !.actual = target.count]
       \/ UNCHANGED run
    /\ UNCHANGED <<env, fault, docker, target, verdict>>

(* _cleanup_impl: toxics first, then the containers in reverse order, then *)
(* the network.                                                            *)
CleanupOrder ==
    IF env.created = <<>> THEN <<>>
    ELSE Reverse(Tail(env.created)) \o <<Head(env.created)>>

CleanupStarts ==
    /\ phase = "cleanup"
    /\ phase' = "removing"
    /\ \E ok \in IF env.toxics THEN BOOLEAN ELSE {TRUE} :
           /\ ok /\ env.toxics => Running({"boundary"})
           /\ env' = [env EXCEPT !.todo = CleanupOrder, !.errors = ~ok, !.toxics = FALSE]
           /\ docker' = [docker EXCEPT !.toxic = @ /\ ~(env.toxics /\ ok)]
           /\ \/ env.toxics /\ fault' = [fault EXCEPT !.reset = ok]
              \/ (env.toxics => ~ok) /\ UNCHANGED fault
    /\ UNCHANGED <<run, target, verdict>>

(* A network cannot be removed while a running container is attached.      *)
Removable(r) == r = "network" => docker.there \ docker.stopped = {"network"}

\* Mutant of RemoveOne: a removal that fails is not remembered as an error.
RemoveOneSilently ==
    /\ phase = "removing" /\ env.todo # <<>>
    /\ LET r == Head(env.todo)
       IN \/ Removable(r) /\ docker' = [docker EXCEPT !.there = @ \ {r}]
          \/ UNCHANGED docker
    /\ env' = [env EXCEPT !.todo = Tail(@)]
    /\ UNCHANGED <<phase, run, fault, target, verdict>>

RemoveOne ==
    /\ phase = "removing" /\ env.todo # <<>>
    /\ LET r == Head(env.todo)
       IN \/ /\ Removable(r)
             /\ docker' = [docker EXCEPT !.there = @ \ {r}]
             /\ env' = [env EXCEPT !.todo = Tail(@)]
             /\ UNCHANGED phase
          \/ /\ env' = [env EXCEPT !.todo = Tail(@), !.errors = TRUE]
             /\ UNCHANGED <<phase, docker>>
    /\ UNCHANGED <<run, fault, target, verdict>>

(* The removal times out or the inspection after it is unavailable: the    *)
(* exception leaves the finally block, and with it the run.                *)
RemoveRaises ==
    /\ phase = "removing" /\ env.todo # <<>>
    /\ phase' = "raised"
    /\ \/ UNCHANGED docker
       \/ /\ Removable(Head(env.todo))
          /\ docker' = [docker EXCEPT !.there = @ \ {Head(env.todo)}]
    /\ UNCHANGED <<run, env, fault, target, verdict>>

\* Mutant of CleanupEnds: a failed clean-up quarantines but keeps the outcome.
CleanupEndsQuietly ==
    /\ phase = "removing" /\ env.todo = <<>>
    /\ phase' = "conclude"
    /\ env' = [env EXCEPT !.life = IF env.errors THEN "QUARANTINED" ELSE "CLEANED"]
    /\ UNCHANGED <<run, fault, docker, target, verdict>>

CleanupEnds ==
    /\ phase = "removing" /\ env.todo = <<>>
    /\ phase' = "conclude"
    /\ env' = [env EXCEPT !.life = IF env.errors THEN "QUARANTINED" ELSE "CLEANED"]
    /\ run' = [run EXCEPT !.terminal = IF env.errors /\ @ = NoError
                                       THEN Failure("CLEANUP_UNVERIFIED") ELSE @]
    /\ UNCHANGED <<fault, docker, target, verdict>>

LateVerification ==
    IF run.verification = Nothing /\ run.started /\ run.actual >= 0
    THEN Verified(run.actual, FALSE) ELSE run.verification

Conclude ==
    /\ phase = "conclude"
    /\ phase' = "done"
    /\ run' = [run EXCEPT !.verification = LateVerification]
    /\ verdict' = IF run.terminal # NoError THEN run.terminal.outcome
                  ELSE IF LateVerification = "passed" THEN "PASS" ELSE "INCONCLUSIVE"
    /\ UNCHANGED <<env, fault, docker, target>>

(* A container stops by itself.                                            *)
ContainerStops ==
    /\ phase \notin {"done", "raised"}
    /\ \E c \in docker.there \ (docker.stopped \union {"network"}) :
           docker' = [docker EXCEPT !.stopped = @ \union {c}]
    /\ UNCHANGED <<phase, run, env, fault, target, verdict>>

RunStep ==
    \/ NoEnvironment \/ Provision \/ ProvisionFails \/ Provisioned \/ Readiness
    \/ VerifyInitial \/ ReadState \/ ActivateFault \/ HealthFault \/ ClearFault
    \/ Recover \/ SendRequest \/ ReceiveReply \/ Inspect \/ Reconcile \/ Verify
    \/ Rescue \/ CleanupStarts \/ RemoveOne \/ RemoveRaises \/ CleanupEnds \/ Conclude

Next == RunStep \/ Deliver \/ ContainerStops

Spec == Init /\ [][Next]_vars /\ WF_vars(RunStep)
-----------------------------------------------------------------------------
(* Properties.                                                             *)

(* Type invariant (the contract and locals of run_multi_service_slice).    *)
NetworkTypeOK ==
    /\ run.request \in {Nothing, "200", "503", "lost"}
    /\ run.actual \in -1 .. 1
    /\ env.life \in {"UNPROVISIONED", "PROVISIONED", "READY_UNVERIFIED", "READY_VERIFIED",
                      "QUARANTINED", "CLEANED"}
    /\ IsPrefix(env.created, Resources)
    /\ docker.stopped \subseteq ToSet(Resources) /\ docker.there \subseteq ToSet(Resources)
    /\ target.count \in 0 .. 1
    /\ target.flight => target.reply = Nothing
    /\ verdict \in Statuses \union {"NONE"}

(* A PASS leaves nothing behind: no container and no network, whatever     *)
(* failed before it, and no toxic was left in the proxy by a health fault  *)
(* (clear_fault, _cleanup_impl, and the run's treatment of their results). *)
PassIsClean ==
    verdict = "PASS" => docker.there = {} /\ ~docker.toxic /\ env.life = "CLEANED"

(* An environment is called CLEANED only when everything its adapter knew  *)
(* of is gone, in whatever order its removals failed (_cleanup_impl).      *)
KnownResourcesAreGone ==
    env.life = "CLEANED" => docker.there \intersect ToSet(env.created) = {}

(* A PASS shows the fault from both sides: the client lost its answer and  *)
(* the target has the effect; the target itself has seen its dependency    *)
(* away; and without a fault the answer came (_apply_change_impl,          *)
(* reconcile, _formal_verification).                                       *)
PassHasBothSides ==
    verdict = "PASS" =>
        /\ run.fault = "response-lost" => run.request = "lost" /\ target.count = 1
        /\ run.fault = "dependency-unavailable" => target.dependency = "UNAVAILABLE"
        /\ run.fault = "none" => run.request = "200"

(* The run is clean: its record is in order and a PASS leaves nothing      *)
(* (run_multi_service_slice).                                              *)
NetworkRunInv == NetworkTypeOK /\ PassIsClean

(* The run implements the contract every runner promises: the effect at    *)
(* most once, also when the request arrives late, PASS only with exactly   *)
(* the effects its fault profile calls for and no doubt left, and an end,  *)
(* if only by an exception (all waits are bounded).                        *)
Contract == INSTANCE RunContract
    WITH required <- IF run.fault \in {"none", "response-lost"} THEN 1 ELSE 0,
         effects <- target.count,
         uncertain <- \/ target.flight
                      \/ target.count = 1 /\ run.action # "APPLIED" /\ ~fault.reconciled,
         verdict <- IF phase = "raised" THEN "ABANDONED" ELSE verdict

ImplementsRunContract == Contract!ContractSpec
=============================================================================
