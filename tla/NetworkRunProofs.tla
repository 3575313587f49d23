-------------------------- MODULE NetworkRunProofs --------------------------
(***************************************************************************)
(* Theorems about NetworkRun, for any set of fault profiles: a PASS leaves *)
(* nothing behind and shows the fault from both sides, CLEANED means gone, *)
(* and the run takes only steps the contract of every runner allows, also  *)
(* when a request arrives after the client has given up.                   *)
(***************************************************************************)
EXTENDS NetworkRun, TLAPS

Profiles == {"none", "latency", "timeout", "dependency-unavailable",
             "response-lost", "pre-side-effect-failure"}
Names == {"network", "dependency", "target", "boundary", "client"}
Deciding == {"provision", "readiness", "initial", "observe", "activate", "health", "reset",
             "recover", "send", "reply", "inspect", "reconcile", "verify"}
Phases == Deciding \union {"rescue", "cleanup", "removing", "raised", "conclude", "done"}
Codes == {"DOCKER_DAEMON_UNAVAILABLE", "PROVISION_FAILED", "READINESS_TIMEOUT",
          "DOCKER_COMMAND_FAILED", "TARGET_STATE_READ_FAILED", "FAULT_ACTIVATION_FAILED",
          "DOCKER_COMMAND_UNAVAILABLE", "RECONCILE_RECEIPT_MISSING",
          "FORMAL_NETWORK_CONTRACT_NOT_VERIFIED", "CLEANUP_UNVERIFIED"}
Failures == [domain : {"ENVIRONMENT"}, code : Codes, outcome : {"ERROR", "INCONCLUSIVE"}]
Actions == {Nothing, "UNKNOWN_OUTCOME", "DEPENDENCY_UNAVAILABLE", "PRE_SIDE_EFFECT_FAILURE",
            "APPLIED", "ERROR"}

RunRow ==
    [fault : Profiles, started : BOOLEAN, request : {Nothing, "200", "503", "lost"},
     action : Actions, recovered : BOOLEAN, actual : -1 .. 1,
     verification : {Nothing, "passed", "failed"}, terminal : Failures \union {NoError}]

EnvRow ==
    [life : {"UNPROVISIONED", "PROVISIONED", "READY_UNVERIFIED", "READY_VERIFIED",
             "QUARANTINED", "CLEANED"},
     created : Seq(Names), toxics : BOOLEAN, todo : Seq(Names), errors : BOOLEAN]

FaultRow ==
    [triggered : BOOLEAN, observed : BOOLEAN, reconciled : BOOLEAN, reset : BOOLEAN]

(* The target knows of no request, has one coming, served or refused it.   *)
TargetRow ==
    [count : 0 .. 1, dependency : {Nothing, "HEALTHY", "UNAVAILABLE"}, flight : BOOLEAN,
     reply : {Nothing, "200", "503"}]

Fresh(t) == t.count = 0 /\ t.dependency = Nothing /\ ~t.flight /\ t.reply = Nothing
Coming(t) == t.count = 0 /\ t.dependency = Nothing /\ t.flight /\ t.reply = Nothing
Served(t) == t.count = 1 /\ t.dependency = "HEALTHY" /\ ~t.flight /\ t.reply = "200"
Refused(t) == t.count = 0 /\ t.dependency = "UNAVAILABLE" /\ ~t.flight /\ t.reply = "503"

Types ==
    /\ phase \in Phases
    /\ run \in RunRow
    /\ env \in EnvRow
    /\ fault \in FaultRow
    /\ docker \in [there : SUBSET Names, stopped : SUBSET Names, toxic : BOOLEAN]
    /\ target \in TargetRow
    /\ Fresh(target) \/ Coming(target) \/ Served(target) \/ Refused(target)
    /\ verdict \in Statuses \union {"NONE"}

(* The strengthening, by what it is about.  What was created, in order.    *)
Created ==
    /\ Len(env.created) <= Len(Resources)
    /\ \A i \in 1 .. Len(env.created) : env.created[i] = Resources[i]
    /\ phase \in Deciding \ {"provision"} => Len(env.created) = Len(Resources)

(* Which fault takes which way through the driver.                         *)
Ways ==
    /\ phase \in {"health", "reset", "recover"} => run.fault \in HealthFaults
    /\ phase \in {"send", "reply", "inspect", "reconcile"} => run.fault \notin HealthFaults
    /\ phase = "activate" => run.fault # "none"
    /\ phase = "reconcile" => run.fault = "response-lost"
    /\ phase = "send" /\ run.fault = "pre-side-effect-failure" => "target" \in docker.stopped

(* What the run knows of its request, and what the target does.            *)
Unsent == {"provision", "readiness", "initial", "observe", "activate", "health", "reset",
           "recover", "send"}

Requests ==
    /\ phase \in Unsent => Fresh(target) /\ run.request = Nothing
    /\ phase \in Unsent \union {"reply", "inspect"} => run.action = Nothing /\ ~fault.reconciled
    /\ run.fault \in HealthFaults \union {"pre-side-effect-failure"} => Fresh(target)
    /\ run.request = "200" => Served(target)
    /\ run.action = "UNKNOWN_OUTCOME" => run.request = "lost" /\ Served(target)
    /\ run.action = "APPLIED" => run.request = "200" /\ run.fault = "none"
    /\ fault.reconciled => Served(target)
    /\ fault.observed /\ run.fault = "dependency-unavailable" => Refused(target)

(* No toxic is forgotten by a run that may still PASS.                     *)
Toxics ==
    /\ phase \in Deciding =>
         (docker.toxic => env.toxics \/ (run.fault \in HealthFaults /\ ~fault.reset))
    /\ phase \in {"provision", "readiness", "initial", "observe", "activate"} => ~docker.toxic
    /\ phase = "cleanup" /\ run.terminal = NoError => (docker.toxic => env.toxics)
    /\ phase = "removing" /\ run.terminal = NoError => (docker.toxic => env.errors)
    /\ phase = "conclude" /\ run.terminal = NoError => ~docker.toxic

(* Only a run whose verification passed has no terminal error.             *)
Undecided ==
    /\ phase \in Deciding => run.terminal = NoError /\ run.verification = Nothing
    /\ phase = "rescue" => run.terminal # NoError
    /\ phase # "done" => verdict = "NONE"

Passed ==
    CASE run.fault = "none" -> Served(target) /\ run.action = "APPLIED"
      [] run.fault = "response-lost" ->
           Served(target) /\ run.action = "UNKNOWN_OUTCOME" /\ fault.reconciled
      [] run.fault = "dependency-unavailable" -> Refused(target)
      [] OTHER -> Fresh(target)

Settled ==
    /\ phase \in {"cleanup", "removing", "conclude"} /\ run.terminal = NoError =>
         run.verification = "passed" /\ Passed /\ Len(env.created) = Len(Resources)
    /\ verdict = "PASS" => Passed

(* What the clean-up has still to remove.                                  *)
Removals ==
    /\ phase = "removing" /\ ~env.errors =>
         docker.there \intersect ToSet(env.created) \subseteq ToSet(env.todo)
    /\ env.life = "CLEANED" =>
         phase \in {"conclude", "done"} /\ docker.there \intersect ToSet(env.created) = {}
    /\ phase = "conclude" /\ run.terminal = NoError => env.life = "CLEANED"

NetworkInd ==
    /\ Types /\ Created /\ Ways /\ Requests /\ Toxics /\ Undecided /\ Settled /\ Removals
    /\ PassIsClean

-----------------------------------------------------------------------------
(* The order of the clean-up: everything that was created, nothing else.   *)
LEMMA TailLosesHead ==
    ASSUME NEW S, NEW s \in Seq(S), s # <<>>
    PROVE  /\ Head(s) \in S /\ Tail(s) \in Seq(S) /\ Len(Tail(s)) = Len(s) - 1
           /\ ToSet(s) = {Head(s)} \union ToSet(Tail(s))
<1>1. Head(s) \in S /\ Tail(s) \in Seq(S) /\ Len(Tail(s)) = Len(s) - 1
  OBVIOUS
<1>2. \A i \in 1 .. Len(s) - 1 : Tail(s)[i] = s[i + 1]
  OBVIOUS
<1>3. Len(s) \in Nat /\ Len(s) >= 1 /\ Head(s) = s[1]
  OBVIOUS
<1>4. ASSUME NEW x \in ToSet(s), x # Head(s)
      PROVE  x \in ToSet(Tail(s))
  <2>1. PICK i \in 1 .. Len(s) : x = s[i]
    BY DEF ToSet
  <2>2. i - 1 \in 1 .. Len(s) - 1 /\ Tail(s)[i - 1] = x
    BY <1>2, <1>3, <1>4, <2>1
  <2>3. DOMAIN Tail(s) = 1 .. Len(s) - 1
    BY <1>1
  <2> QED BY <2>2, <2>3 DEF ToSet
<1>5. ASSUME NEW x \in ToSet(Tail(s))
      PROVE  x \in ToSet(s)
  <2>1. PICK i \in 1 .. Len(s) - 1 : x = Tail(s)[i]
    BY <1>1, <1>5 DEF ToSet
  <2> QED BY <1>2, <1>3, <2>1 DEF ToSet
<1>6. Head(s) \in ToSet(s)
  BY <1>3 DEF ToSet
<1> QED BY <1>1, <1>4, <1>5, <1>6

\* Reversing a sequence keeps its length and its members.
LEMMA ReverseHasAll ==
    ASSUME NEW S, NEW s \in Seq(S)
    PROVE  /\ Reverse(s) \in Seq(S) /\ Len(Reverse(s)) = Len(s)
           /\ ToSet(Reverse(s)) = ToSet(s)
<1> DEFINE r == [i \in 1 .. Len(s) |-> s[(Len(s) - i) + 1]]
<1>1. Reverse(s) = r /\ Len(s) \in Nat
  BY DEF Reverse
<1>2. r \in [1 .. Len(s) -> S] /\ r \in Seq(S)
  OBVIOUS
<1>3. Len(r) = Len(s) /\ DOMAIN r = 1 .. Len(s) /\ DOMAIN s = 1 .. Len(s)
  BY <1>1, <1>2
<1>4. \A i \in 1 .. Len(s) :
        (Len(s) - i) + 1 \in 1 .. Len(s) /\ r[(Len(s) - i) + 1] = s[i]
  BY <1>1
<1>5. \A i \in 1 .. Len(s) :
        (Len(s) - i) + 1 \in 1 .. Len(s) /\ r[i] = s[(Len(s) - i) + 1]
  BY <1>1
<1> HIDE DEF r
<1>6. ToSet(r) = ToSet(s)
  BY <1>3, <1>4, <1>5 DEF ToSet
<1> QED BY <1>1, <1>2, <1>3, <1>6

\* Appending a name adds that name.
LEMMA AppendAddsLast ==
    ASSUME NEW S, NEW s \in Seq(S), NEW x \in S
    PROVE  /\ s \o <<x>> \in Seq(S) /\ ToSet(s \o <<x>>) = ToSet(s) \union {x}
<1> DEFINE t == s \o <<x>>
<1>1. t \in Seq(S) /\ Len(t) = Len(s) + 1 /\ Len(s) \in Nat
  OBVIOUS
<1>2. t[Len(s) + 1] = x /\ \A i \in 1 .. Len(s) : t[i] = s[i]
  OBVIOUS
<1> HIDE DEF t
<1>3. DOMAIN t = 1 .. Len(s) + 1 /\ DOMAIN s = 1 .. Len(s)
  BY <1>1
<1>4. ToSet(t) = ToSet(s) \union {x}
  BY <1>1, <1>2, <1>3 DEF ToSet
<1> QED BY <1>1, <1>4 DEF t

\* The order of removal has every resource that was created.
LEMMA CleanupOrderHasAll ==
    ASSUME env.created \in Seq(Names)
    PROVE  CleanupOrder \in Seq(Names) /\ ToSet(CleanupOrder) = ToSet(env.created)
<1>1. CASE env.created = <<>>
  BY <1>1 DEF CleanupOrder
<1>2. CASE env.created # <<>>
  <2> DEFINE h == Head(env.created)
             t == Tail(env.created)
  <2>1. h \in Names /\ t \in Seq(Names) /\ ToSet(env.created) = {h} \union ToSet(t)
    BY <1>2, TailLosesHead
  <2>2. Reverse(t) \in Seq(Names) /\ ToSet(Reverse(t)) = ToSet(t)
    BY <2>1, ReverseHasAll
  <2>3. CleanupOrder = Reverse(t) \o <<h>>
    BY <1>2 DEF CleanupOrder
  <2> HIDE DEF h, t
  <2> QED BY <2>1, <2>2, <2>3, AppendAddsLast
<1> QED BY <1>1, <1>2

(* The names in the order they are created.                                *)
LEMMA ResourcesAreNames ==
    /\ Resources \in Seq(Names) /\ Len(Resources) = 5 /\ ToSet(Resources) = Names
    /\ \A i \in 1 .. 5 : Resources[i] \in Names
<1>1. Resources \in Seq(Names) /\ Len(Resources) = 5 /\ DOMAIN Resources = 1 .. 5
  BY DEF Resources, Names
<1>2. /\ Resources[1] = "network" /\ Resources[2] = "dependency" /\ Resources[3] = "target"
      /\ Resources[4] = "boundary" /\ Resources[5] = "client"
  BY DEF Resources
<1>3. \A i \in 1 .. 5 : i = 1 \/ i = 2 \/ i = 3 \/ i = 4 \/ i = 5
  OBVIOUS
<1>4. ToSet(Resources) \subseteq Names
  BY <1>1, <1>2, <1>3 DEF ToSet, Names
<1>5. Names \subseteq ToSet(Resources)
  BY <1>1, <1>2 DEF ToSet, Names
<1> QED BY <1>1, <1>2, <1>3, <1>4, <1>5 DEF Names

\* Provisioning creates the resources in their order.
LEMMA MissingIsNext ==
    ASSUME env.created \in Seq(Names), Len(env.created) < Len(Resources)
    PROVE  /\ Missing = Resources[Len(env.created) + 1]
           /\ Len(env.created) + 1 \in 1 .. Len(Resources)
<1>1. Len(env.created) \in Nat /\ Len(env.created) < 5
  BY ResourcesAreNames
<1>2. \A n \in Nat : n < 5 => n + 1 \in 1 .. 5
  OBVIOUS
<1>3. Len(env.created) + 1 \in 1 .. 5
  BY <1>1, <1>2
<1> QED BY <1>3, ResourcesAreNames DEF Missing

(* When all has been created, the adapter knows of every resource.         *)
LEMMA AllCreated ==
    ASSUME env.created \in Seq(Names), Created, Len(env.created) = Len(Resources)
    PROVE  ToSet(env.created) = Names
<1>1. DOMAIN env.created = 1 .. 5 /\ DOMAIN Resources = 1 .. 5
  BY ResourcesAreNames
<1>2. \A i \in 1 .. 5 : env.created[i] = Resources[i]
  BY ResourcesAreNames DEF Created
<1> QED BY <1>1, <1>2, ResourcesAreNames DEF ToSet

-----------------------------------------------------------------------------
(* The steps keep the inductive invariant.  An exception first: whatever   *)
(* the command did before it failed, the run can no longer PASS.           *)
Resourced == [there : SUBSET Names, stopped : SUBSET Names, toxic : BOOLEAN]

\* A failure is a failure, also when the rescue calls it inconclusive.
LEMMA FailureIsOne ==
    ASSUME NEW c \in Codes
    PROVE  /\ Failure(c) \in Failures
           /\ [Failure(c) EXCEPT !.outcome = "INCONCLUSIVE"] \in Failures
  BY DEF Failure, Failures

\* A failure is never a verdict.
LEMMA FailuresAreErrors ==
    ASSUME NEW e \in Failures
    PROVE  e # NoError /\ e.outcome \in {"ERROR", "INCONCLUSIVE"}
  BY DEF Failures, NoError, Nothing

\* An exception records a failure and sends the run to its rescue; the agent's
\* action is kept or none.
LEMMA RaiseIsOne ==
    ASSUME run \in RunRow, NEW e \in Failures, Raise(e)
    PROVE  /\ run' \in RunRow /\ phase' = "rescue" /\ run'.terminal = e
           /\ run'.fault = run.fault /\ run'.request = run.request
           /\ run'.action = run.action \/ run'.action = Nothing
           /\ phase = "verify" => run'.action = run.action
  BY DEF Raise, RunRow, Actions

LEMMA RaiseKeeps ==
    ASSUME NetworkInd, phase \in Deciding, NEW e \in Failures, Raise(e),
           docker' \in Resourced, UNCHANGED <<fault, target, verdict>>,
           env' = env \/ env' = [env EXCEPT !.life = "QUARANTINED"]
    PROVE  NetworkInd'
<1> USE DEF NetworkInd
<1>1. /\ env' \in EnvRow /\ env'.created = env.created
      /\ env'.life = env.life \/ env'.life = "QUARANTINED"
  BY DEF Types, EnvRow
<1>2. Types'
  BY <1>1, RaiseIsOne DEF Types, Phases, Resourced
<1>3. Created' /\ Ways'
  BY <1>1, RaiseIsOne DEF Types, Created, Ways, Deciding
<1>4. Requests'
  <2>1. phase' = "rescue" /\ "rescue" \notin Unsent \union {"reply", "inspect"}
    BY RaiseIsOne DEF Types, Unsent
  <2>2. run'.action # Nothing => run'.action = run.action
    BY RaiseIsOne DEF Types
  <2> QED BY <2>1, <2>2, RaiseIsOne DEF Types, Requests, Nothing
<1>5. Toxics' /\ Undecided' /\ PassIsClean'
  BY RaiseIsOne, FailuresAreErrors DEF Types, Toxics, Undecided, PassIsClean, Deciding
<1>6. Settled'
  BY RaiseIsOne DEF Types, Settled, Undecided, Deciding
<1>7. Removals'
  BY <1>1, RaiseIsOne DEF Types, Removals, Deciding
<1> QED BY <1>2, <1>3, <1>4, <1>5, <1>6, <1>7

(* A step of the driver that changes nothing but where it is, its locals   *)
(* and, perhaps, the life of the environment.                              *)
LEMMA DockerFailsKeeps ==
    ASSUME NetworkInd, phase \in Deciding, NEW c \in Codes, DockerFails(c),
           docker' \in Resourced, UNCHANGED <<target, verdict>>
    PROVE  NetworkInd'
  BY FailureIsOne, RaiseKeeps DEF DockerFails

\* A run that has not begun satisfies the invariant.
LEMMA InitIsSound ==
    ASSUME Init, Faults \subseteq Profiles
    PROVE  NetworkInd
<1>1. Types
  BY DEF Init, Types, Phases, Deciding, RunRow, Actions, EnvRow, FaultRow, Resourced, TargetRow,
     Fresh, Nothing, NoError
<1>2. Created /\ Ways /\ Requests /\ Toxics
  BY ResourcesAreNames DEF Init, Created, Ways, Requests, Toxics, Deciding, Unsent, Fresh, Nothing,
     HealthFaults
<1>3. Undecided /\ Settled /\ Removals /\ PassIsClean
  BY DEF Init, Undecided, Settled, Removals, PassIsClean, Deciding
<1> QED BY <1>1, <1>2, <1>3 DEF NetworkInd

(* A step before the verification is done leaves the outcome open.         *)
LEMMA DriverKeeps ==
    ASSUME NetworkInd, phase \in Deciding, phase' \in Deciding, UNCHANGED verdict,
           run'.terminal = run.terminal, run'.verification = run.verification,
           env'.life # "CLEANED", Types', Created', Ways', Requests', Toxics'
    PROVE  NetworkInd'
<1> USE DEF NetworkInd
<1>1. verdict' = "NONE" /\ phase' \notin {"rescue", "cleanup", "removing", "conclude", "done"}
  BY DEF Undecided, Deciding
<1>2. Undecided' /\ PassIsClean' /\ Settled'
  BY <1>1 DEF Undecided, PassIsClean, Settled
<1>3. Removals'
  BY <1>1 DEF Removals
<1> QED BY <1>2, <1>3

(* A life other than CLEANED, for a run that has not come to its clean-up. *)
LEMMA NotYetCleaned ==
    ASSUME NetworkInd, phase \in Deciding
    PROVE  /\ env.life # "CLEANED" /\ verdict = "NONE"
           /\ env \in EnvRow /\ run \in RunRow /\ fault \in FaultRow /\ docker \in Resourced
  BY DEF NetworkInd, Removals, Undecided, Deciding, Types, Resourced

LEMMA NoEnvironmentKeeps == ASSUME NetworkInd, NoEnvironment PROVE NetworkInd'
<1> USE DEF NetworkInd, NoEnvironment
<1>1. /\ run' = [run EXCEPT !.terminal = Failure("DOCKER_DAEMON_UNAVAILABLE")]
      /\ Failure("DOCKER_DAEMON_UNAVAILABLE") \in Failures
  BY FailureIsOne DEF Codes
<1>2. /\ run' \in RunRow /\ run'.terminal # NoError /\ run'.fault = run.fault
      /\ run'.request = run.request /\ run'.action = run.action
  BY <1>1, FailuresAreErrors DEF Types, RunRow
<1>3. phase \in Deciding /\ phase \in Unsent /\ phase' \notin Deciding /\ phase' \in Phases
  BY DEF Deciding, Unsent, Phases
<1>4. Types' /\ Created' /\ Ways' /\ Requests' /\ Toxics'
  BY <1>2, <1>3 DEF Types, Created, Ways, Requests, Toxics, Deciding, Unsent
<1>5. Undecided' /\ Settled' /\ PassIsClean'
  BY <1>2, <1>3 DEF Undecided, Settled, PassIsClean
<1>6. Removals'
  BY <1>2, <1>3, NotYetCleaned DEF Removals
<1> QED BY <1>4, <1>5, <1>6

LEMMA ProvisionKeeps == ASSUME NetworkInd, Provision PROVE NetworkInd'
<1> USE DEF NetworkInd, Provision
<1>0. phase \in Deciding /\ env.created \in Seq(Names)
  BY DEF Deciding, Types, EnvRow
<1>1. Missing = Resources[Len(env.created) + 1] /\ Len(env.created) + 1 \in 1 .. Len(Resources)
  BY <1>0, MissingIsNext
<1>2. Missing \in Names
  BY <1>1, ResourcesAreNames
<1> DEFINE made == Append(env.created, Missing)
<1>3. /\ env' = [env EXCEPT !.created = made] /\ made \in Seq(Names)
      /\ Len(made) = Len(env.created) + 1 /\ made[Len(env.created) + 1] = Missing
      /\ \A i \in 1 .. Len(env.created) : made[i] = env.created[i]
  BY <1>0, <1>1, <1>2
<1> HIDE DEF made
<1>4. env' \in EnvRow /\ env'.created = made /\ env'.life = env.life /\ env'.toxics = env.toxics
  BY <1>3 DEF Types, EnvRow
<1>5. Created'
  BY <1>0, <1>1, <1>3, <1>4 DEF Created, Deciding
<1>6. docker' \in Resourced /\ docker'.toxic = docker.toxic
  BY <1>2 DEF Types, Resourced
<1>7. Types' /\ Ways' /\ Requests' /\ Toxics'
  BY <1>4, <1>6 DEF Types, Resourced, Ways, Requests, Toxics, Unsent
<1> QED BY <1>0, <1>4, <1>5, <1>7, DriverKeeps, NotYetCleaned

LEMMA ProvisionFailsKeeps == ASSUME NetworkInd, ProvisionFails PROVE NetworkInd'
<1>1. phase \in Deciding /\ "PROVISION_FAILED" \in Codes
  BY DEF ProvisionFails, Deciding, Codes
<1>2. ASSUME Len(env.created) < Len(Resources)
      PROVE  Missing \in Names
  BY <1>1, <1>2, NotYetCleaned, ResourcesAreNames, MissingIsNext DEF EnvRow
<1>3. docker' \in Resourced
  BY <1>1, <1>2, NotYetCleaned DEF ProvisionFails, Resourced
<1> QED BY <1>1, <1>3, DockerFailsKeeps DEF ProvisionFails

LEMMA ProvisionedKeeps == ASSUME NetworkInd, Provisioned PROVE NetworkInd'
<1> USE DEF NetworkInd, Provisioned
<1>1. phase \in Deciding /\ phase' \in Deciding /\ phase' \in Phases
  BY DEF Deciding, Phases
<1>2. /\ env' \in EnvRow /\ env'.life # "CLEANED"
      /\ env'.created = env.created /\ env'.toxics = env.toxics
  BY DEF Types, EnvRow
<1>3. Types' /\ Created' /\ Ways' /\ Requests' /\ Toxics'
  BY <1>1, <1>2 DEF Types, Created, Ways, Requests, Toxics, Unsent
<1> QED BY <1>1, <1>2, <1>3, DriverKeeps

LEMMA ReadinessKeeps == ASSUME NetworkInd, Readiness PROVE NetworkInd'
<1>1. phase \in Deciding /\ {"READINESS_TIMEOUT", "DOCKER_COMMAND_FAILED"} \subseteq Codes
  BY DEF Readiness, Deciding, Codes
<1>2. CASE env' = [env EXCEPT !.life = "READY_UNVERIFIED"] /\ phase' = "initial"
           /\ UNCHANGED <<run, fault, docker, target, verdict>>
  <2> USE DEF NetworkInd
  <2>1. /\ env' \in EnvRow /\ env'.life # "CLEANED"
        /\ env'.created = env.created /\ env'.toxics = env.toxics
    BY <1>2 DEF Types, EnvRow
  <2>2. phase = "readiness" /\ phase' \in Deciding /\ phase' \in Phases
    BY <1>2 DEF Readiness, Deciding, Phases
  <2>3. Types' /\ Created' /\ Ways' /\ Requests' /\ Toxics'
    BY <1>1, <1>2, <2>1, <2>2 DEF Types, Created, Ways, Requests, Toxics, Unsent, Deciding
  <2> QED BY <1>1, <1>2, <2>1, <2>2, <2>3, DriverKeeps
<1>3. CASE env' = [env EXCEPT !.life = "QUARANTINED"] /\ Raise(Failure("READINESS_TIMEOUT"))
           /\ UNCHANGED <<fault, docker, target, verdict>>
  BY <1>1, <1>3, FailureIsOne, RaiseKeeps, NotYetCleaned
<1>4. CASE DockerFails("DOCKER_COMMAND_FAILED") /\ UNCHANGED <<docker, target, verdict>>
  BY <1>1, <1>4, DockerFailsKeeps, NotYetCleaned
<1> QED BY <1>2, <1>3, <1>4 DEF Readiness

LEMMA VerifyInitialKeeps == ASSUME NetworkInd, VerifyInitial PROVE NetworkInd'
<1>1. phase \in Deciding /\ phase = "initial" /\ "TARGET_STATE_READ_FAILED" \in Codes
  BY DEF VerifyInitial, Deciding, Codes
<1>2. CASE env' = [env EXCEPT !.life = "READY_VERIFIED"] /\ phase' = "observe"
           /\ run' = [run EXCEPT !.started = TRUE] /\ UNCHANGED <<fault, docker, target, verdict>>
  <2> USE DEF NetworkInd
  <2>1. /\ env' \in EnvRow /\ env'.life # "CLEANED"
        /\ env'.created = env.created /\ env'.toxics = env.toxics
    BY <1>2 DEF Types, EnvRow
  <2>2. phase' \in Deciding /\ phase' \in Phases
    BY <1>2 DEF Deciding, Phases
  <2>3. /\ run' \in RunRow /\ run'.terminal = run.terminal /\ run'.fault = run.fault
        /\ run'.verification = run.verification /\ run'.request = run.request
        /\ run'.action = run.action
    BY <1>2 DEF Types, RunRow
  <2>4. Types' /\ Created' /\ Ways' /\ Requests' /\ Toxics'
    BY <1>1, <1>2, <2>1, <2>2, <2>3 DEF Types, Created, Ways, Requests, Toxics, Unsent, Deciding
  <2> QED BY <1>1, <1>2, <2>1, <2>2, <2>3, <2>4, DriverKeeps
<1>3. CASE DockerFails("TARGET_STATE_READ_FAILED") /\ UNCHANGED <<docker, target, verdict>>
  BY <1>1, <1>3, DockerFailsKeeps, NotYetCleaned
<1> QED BY <1>2, <1>3 DEF VerifyInitial

LEMMA ReadStateKeeps == ASSUME NetworkInd, ReadState PROVE NetworkInd'
<1>1. phase \in Deciding /\ phase = "observe" /\ "TARGET_STATE_READ_FAILED" \in Codes
  BY DEF ReadState, Deciding, Codes
<1>2. CASE phase' = (IF run.fault \in HealthFaults \union FaultsAtMutation
                     THEN "activate" ELSE "send")
           /\ UNCHANGED <<run, env, fault, docker, target, verdict>>
  <2> USE DEF NetworkInd
  <2>1. phase' \in Deciding /\ phase' \in Phases /\ phase' \in {"activate", "send"}
    BY <1>2 DEF Deciding, Phases
  <2>2. /\ phase' = "activate" => run.fault # "none"
        /\ phase' = "send" => run.fault \notin HealthFaults \union FaultsAtMutation
    BY <1>2 DEF HealthFaults, FaultsAtMutation
  <2>3. Types' /\ Created' /\ Ways' /\ Requests' /\ Toxics'
    BY <1>1, <1>2, <2>1, <2>2
       DEF Types, Created, Ways, Requests, Toxics, Unsent, Deciding, FaultsAtMutation
  <2> QED BY <1>1, <1>2, <2>1, <2>3, DriverKeeps, NotYetCleaned
<1>3. CASE DockerFails("TARGET_STATE_READ_FAILED") /\ UNCHANGED <<docker, target, verdict>>
  BY <1>1, <1>3, DockerFailsKeeps, NotYetCleaned
<1> QED BY <1>2, <1>3 DEF ReadState

LEMMA ActivateFaultKeeps == ASSUME NetworkInd, ActivateFault PROVE NetworkInd'
<1>1. phase \in Deciding /\ phase = "activate" /\ "FAULT_ACTIVATION_FAILED" \in Codes
  BY DEF ActivateFault, Deciding, Codes
<1>2. /\ Activated \in Resourced /\ UsesToxic \in BOOLEAN
      /\ Activated.toxic => docker.toxic \/ UsesToxic
      /\ run.fault = "pre-side-effect-failure" => "target" \in Activated.stopped
  <2>1. run.fault \in Profiles /\ docker \in Resourced /\ run.fault # "none"
    BY <1>1, NotYetCleaned DEF RunRow, NetworkInd, Ways
  <2>2. CASE run.fault = "dependency-unavailable"
    BY <2>1, <2>2 DEF Activated, Resourced, Names, UsesToxic
  <2>3. CASE run.fault = "pre-side-effect-failure"
    BY <2>1, <2>3 DEF Activated, Resourced, Names, UsesToxic
  <2>4. CASE run.fault \in {"latency", "timeout", "response-lost"}
    BY <2>1, <2>4 DEF Activated, Resourced, Names, UsesToxic, HealthFaults
  <2> QED BY <2>1, <2>2, <2>3, <2>4 DEF Profiles
<1>3. CASE /\ docker' = Activated /\ fault' = [fault EXCEPT !.triggered = TRUE]
           /\ env' = [env EXCEPT !.toxics = UsesToxic]
           /\ phase' = (IF run.fault \in HealthFaults THEN "health" ELSE "send")
           /\ UNCHANGED <<run, target, verdict>>
  <2> USE DEF NetworkInd
  <2>1. phase' \in Deciding /\ phase' \in Phases /\ phase' \in {"health", "send"}
    BY <1>3 DEF Deciding, Phases
  <2>2. /\ env' \in EnvRow /\ env'.life = env.life /\ env'.created = env.created
        /\ env'.toxics = UsesToxic
    BY <1>2, <1>3 DEF Types, EnvRow
  <2>3. /\ fault' \in FaultRow /\ fault'.observed = fault.observed /\ fault'.reset = fault.reset
        /\ fault'.reconciled = fault.reconciled
    BY <1>3 DEF Types, FaultRow
  <2>4. ~docker.toxic
    BY <1>1 DEF Toxics
  <2>5. Types' /\ Created' /\ Ways'
    BY <1>1, <1>2, <1>3, <2>1, <2>2, <2>3 DEF Types, Resourced, Created, Ways, Deciding
  <2>6. Requests' /\ Toxics'
    BY <1>1, <1>2, <1>3, <2>1, <2>2, <2>3, <2>4 DEF Requests, Toxics, Unsent
  <2> QED BY <1>1, <1>3, <2>1, <2>2, <2>5, <2>6, DriverKeeps, NotYetCleaned
<1>4. CASE /\ DockerFails("FAULT_ACTIVATION_FAILED") /\ docker' \in {docker, Activated}
           /\ UNCHANGED <<target, verdict>>
  BY <1>1, <1>2, <1>4, DockerFailsKeeps, NotYetCleaned
<1> QED BY <1>3, <1>4 DEF ActivateFault

LEMMA HealthFaultKeeps == ASSUME NetworkInd, HealthFault PROVE NetworkInd'
<1>1. phase \in Deciding /\ phase = "health" /\ "DOCKER_COMMAND_FAILED" \in Codes
  BY DEF HealthFault, Deciding, Codes
<1>2. CASE /\ fault' = [fault EXCEPT !.observed = TRUE] /\ phase' = "reset"
           /\ UNCHANGED <<run, env, docker, target, verdict>>
  <2> USE DEF NetworkInd
  <2>1. phase' \in Deciding /\ phase' \in Phases
    BY <1>2 DEF Deciding, Phases
  <2>2. /\ fault' \in FaultRow /\ fault'.reset = fault.reset
        /\ fault'.reconciled = fault.reconciled
    BY <1>2 DEF Types, FaultRow
  <2>3. run.fault \in HealthFaults /\ run.fault # "dependency-unavailable"
    BY <1>1 DEF Ways, HealthFaults
  <2>4. Types' /\ Created' /\ Ways' /\ Requests' /\ Toxics'
    BY <1>1, <1>2, <2>1, <2>2, <2>3 DEF Types, Created, Ways, Requests, Toxics, Unsent, Deciding
  <2> QED BY <1>1, <1>2, <2>1, <2>4, DriverKeeps, NotYetCleaned
<1>3. CASE DockerFails("DOCKER_COMMAND_FAILED") /\ UNCHANGED <<docker, target, verdict>>
  BY <1>1, <1>3, DockerFailsKeeps, NotYetCleaned
<1> QED BY <1>2, <1>3 DEF HealthFault

LEMMA ClearFaultKeeps == ASSUME NetworkInd, ClearFault PROVE NetworkInd'
<1>1. phase \in Deciding /\ phase = "reset" /\ "DOCKER_COMMAND_UNAVAILABLE" \in Codes
  BY DEF ClearFault, Deciding, Codes
<1>2. CASE /\ \E ok \in BOOLEAN : /\ docker' = [docker EXCEPT !.toxic = ~ok]
                                 /\ fault' = [fault EXCEPT !.reset = ok]
           /\ env' = [env EXCEPT !.toxics = FALSE] /\ phase' = "recover"
           /\ UNCHANGED <<run, target, verdict>>
  <2> USE DEF NetworkInd
  <2>1. PICK ok \in BOOLEAN : /\ docker' = [docker EXCEPT !.toxic = ~ok]
                              /\ fault' = [fault EXCEPT !.reset = ok]
    BY <1>2
  <2>2. phase' \in Deciding /\ phase' \in Phases
    BY <1>2 DEF Deciding, Phases
  <2>3. /\ fault' \in FaultRow /\ fault'.reset = ok /\ fault'.observed = fault.observed
        /\ fault'.reconciled = fault.reconciled
    BY <2>1 DEF Types, FaultRow
  <2>4. docker' \in Resourced /\ docker'.toxic = ~ok
    BY <2>1 DEF Types, Resourced
  <2>5. env' \in EnvRow /\ env'.life = env.life /\ env'.created = env.created
    BY <1>2 DEF Types, EnvRow
  <2>6. run.fault \in HealthFaults
    BY <1>1 DEF Ways
  <2>7. Types' /\ Created' /\ Ways'
    BY <1>1, <1>2, <2>2, <2>3, <2>4, <2>5, <2>6 DEF Types, Resourced, Created, Ways, Deciding
  <2>8. Requests' /\ Toxics'
    BY <1>1, <1>2, <2>3, <2>4, <2>6 DEF Requests, Toxics, Unsent
  <2> QED BY <1>1, <1>2, <2>2, <2>5, <2>7, <2>8, DriverKeeps, NotYetCleaned
<1>3. CASE DockerFails("DOCKER_COMMAND_UNAVAILABLE") /\ UNCHANGED <<docker, target, verdict>>
  BY <1>1, <1>3, DockerFailsKeeps, NotYetCleaned
<1> QED BY <1>2, <1>3 DEF ClearFault

LEMMA RecoverKeeps == ASSUME NetworkInd, Recover PROVE NetworkInd'
<1>1. phase \in Deciding /\ phase = "recover" /\ "DOCKER_COMMAND_FAILED" \in Codes
  BY DEF Recover, Deciding, Codes
<1>2. CASE /\ \E ok \in BOOLEAN : run' = [run EXCEPT !.recovered = ok]
           /\ phase' = "verify" /\ UNCHANGED <<env, fault, docker, target, verdict>>
  <2> USE DEF NetworkInd
  <2>1. phase' \in Deciding /\ phase' \in Phases
    BY <1>2 DEF Deciding, Phases
  <2>2. /\ run' \in RunRow /\ run'.terminal = run.terminal /\ run'.fault = run.fault
        /\ run'.verification = run.verification /\ run'.request = run.request
        /\ run'.action = run.action
    BY <1>2 DEF Types, RunRow
  <2>3. Types' /\ Created' /\ Ways' /\ Requests' /\ Toxics'
    BY <1>1, <1>2, <2>1, <2>2 DEF Types, Created, Ways, Requests, Toxics, Unsent, Deciding
  <2> QED BY <1>1, <1>2, <2>1, <2>2, <2>3, DriverKeeps, NotYetCleaned
<1>3. CASE DockerFails("DOCKER_COMMAND_FAILED") /\ UNCHANGED <<docker, target, verdict>>
  BY <1>1, <1>3, DockerFailsKeeps, NotYetCleaned
<1> QED BY <1>2, <1>3 DEF Recover

(* A request is only sent to a target that can be reached, so never to the *)
(* one its own fault has stopped.                                          *)
LEMMA SendRequestKeeps == ASSUME NetworkInd, SendRequest PROVE NetworkInd'
<1> USE DEF NetworkInd
<1>1. phase \in Deciding /\ phase = "send" /\ phase' = "reply" /\ phase' \in Deciding
  BY DEF SendRequest, Deciding
<1>2. Fresh(target)
  BY <1>1 DEF Requests, Unsent
<1>3. PICK sent \in BOOLEAN : (sent => CanReach) /\ target' = [target EXCEPT !.flight = sent]
  BY DEF SendRequest
<1>4. sent => run.fault # "pre-side-effect-failure"
  BY <1>1, <1>3 DEF Ways, CanReach, Running
<1>5. /\ target' \in TargetRow
      /\ Fresh(target') \/ (Coming(target') /\ run.fault # "pre-side-effect-failure")
  BY <1>2, <1>3, <1>4 DEF Types, TargetRow, Fresh, Coming
<1>6. Types' /\ Created' /\ Ways' /\ Toxics'
  BY <1>1, <1>5 DEF SendRequest, Types, Created, Ways, Toxics, Deciding, Phases
<1>7. /\ ~Served(target) /\ ~Refused(target) /\ run.request = Nothing /\ run.action = Nothing
      /\ run.fault \notin HealthFaults /\ UNCHANGED <<run, fault>>
  BY <1>1, <1>2 DEF SendRequest, Requests, Ways, Unsent, Fresh, Served, Refused
<1>8. Requests'
  BY <1>1, <1>5, <1>7 DEF Requests, Unsent, Nothing
<1> QED BY <1>1, <1>6, <1>8, DriverKeeps, NotYetCleaned DEF SendRequest

\* A request on its way is neither unsent nor answered.
LEMMA TargetIsOne ==
    ASSUME Coming(target)
    PROVE  ~Fresh(target) /\ ~Served(target) /\ ~Refused(target)
  BY DEF Fresh, Coming, Served, Refused

\* A delivery serves or refuses the request on its way.
LEMMA DeliverIsOne ==
    ASSUME Types, Deliver
    PROVE  /\ Coming(target) /\ target' \in TargetRow
           /\ Served(target') \/ Refused(target')
<1>1. Coming(target) /\ target \in TargetRow
  BY DEF Deliver, Types, Fresh, Served, Refused
<1>2. CASE target' = [target EXCEPT !.dependency = "UNAVAILABLE", !.flight = FALSE,
                                    !.reply = "503"]
  <2> DEFINE t == [target EXCEPT !.dependency = "UNAVAILABLE", !.reply = "503"]
  <2>1. t \in TargetRow /\ t.count = 0 /\ t.dependency = "UNAVAILABLE" /\ t.reply = "503"
    BY <1>1 DEF TargetRow, Coming
  <2>2. target' = [t EXCEPT !.flight = FALSE]
    BY <1>1, <1>2 DEF TargetRow
  <2> HIDE DEF t
  <2> QED BY <1>1, <2>1, <2>2 DEF TargetRow, Refused
<1>3. CASE target' = [count |-> target.count + 1, dependency |-> "HEALTHY",
                      flight |-> FALSE, reply |-> "200"]
  BY <1>1, <1>3 DEF TargetRow, Coming, Served
<1> QED BY <1>1, <1>2, <1>3 DEF Deliver

(* Also after the client has given up, but never once the run may PASS.    *)
LEMMA DeliverKeeps == ASSUME NetworkInd, Deliver PROVE NetworkInd'
<1> USE DEF NetworkInd
<1>1. /\ Coming(target) /\ target' \in TargetRow
      /\ Served(target') \/ Refused(target')
  BY DeliverIsOne
<1>2. ~Fresh(target) /\ ~Served(target) /\ ~Refused(target)
  BY <1>1, TargetIsOne
<1>3. UNCHANGED <<phase, run, env, fault, docker, verdict>>
  BY DEF Deliver
<1>4. Types' /\ Created' /\ Ways' /\ Toxics'
  BY <1>1, <1>3 DEF Types, Created, Ways, Toxics
<1>5. Requests'
  BY <1>1, <1>2, <1>3 DEF Requests
<1>6. ~Passed
  BY <1>2 DEF Passed
<1>7. Undecided' /\ Settled' /\ Removals' /\ PassIsClean'
  BY <1>3, <1>6 DEF Undecided, Settled, Removals, PassIsClean
<1> QED BY <1>4, <1>5, <1>7

LEMMA ReceiveReplyKeeps == ASSUME NetworkInd, ReceiveReply PROVE NetworkInd'
<1>1. phase \in Deciding /\ phase = "reply" /\ "DOCKER_COMMAND_FAILED" \in Codes
  BY DEF ReceiveReply, Deciding, Codes
<1>2. CASE /\ \/ /\ target.reply # Nothing
                 /\ run' = [run EXCEPT !.request = target.reply]
              \/ run' = [run EXCEPT !.request = "lost"]
           /\ phase' = "inspect" /\ UNCHANGED <<env, fault, docker, target, verdict>>
  <2> USE DEF NetworkInd
  <2>1. phase' \in Deciding /\ phase' \in Phases
    BY <1>2 DEF Deciding, Phases
  <2>2. PICK q \in {"200", "503", "lost"} : /\ run' = [run EXCEPT !.request = q]
                                            /\ q = "lost" \/ q = target.reply
    BY <1>2 DEF Types, TargetRow
  <2>3. /\ run' \in RunRow /\ run'.terminal = run.terminal /\ run'.fault = run.fault
        /\ run'.verification = run.verification /\ run'.request = q
        /\ run'.action = run.action
    BY <2>2 DEF Types, RunRow
  <2>4. q = "200" => Served(target)
    BY <2>2 DEF Types, Fresh, Coming, Refused, Nothing
  <2>5. run.action = Nothing /\ ~fault.reconciled
    BY <1>1 DEF Requests
  <2>6. Types' /\ Created' /\ Ways' /\ Toxics'
    BY <1>1, <1>2, <2>1, <2>3 DEF Types, Created, Ways, Toxics, Deciding
  <2>7. Requests'
    BY <1>1, <1>2, <2>3, <2>4, <2>5 DEF Requests, Unsent, Nothing
  <2> QED BY <1>1, <1>2, <2>1, <2>3, <2>6, <2>7, DriverKeeps, NotYetCleaned
<1>3. CASE DockerFails("DOCKER_COMMAND_FAILED") /\ UNCHANGED <<docker, target, verdict>>
  BY <1>1, <1>3, DockerFailsKeeps, NotYetCleaned
<1> QED BY <1>2, <1>3 DEF ReceiveReply

(* What the classification of an answer says of the target.                *)
LEMMA ClassifiedIsOne ==
    ASSUME Types, run.fault \notin HealthFaults
    PROVE  /\ Classified \in Actions
           /\ Classified = "UNKNOWN_OUTCOME" =>
                run.fault = "response-lost" /\ run.request = "lost" /\ Served(target)
           /\ Classified = "APPLIED" => run.fault = "none" /\ run.request = "200"
           /\ run.fault = "dependency-unavailable" /\ Classified # "ERROR" => Refused(target)
<1>1. run.fault \in {"none", "dependency-unavailable", "response-lost", "pre-side-effect-failure"}
  BY DEF Types, RunRow, Profiles, HealthFaults
<1>2. CASE run.fault = "none"
  BY <1>2 DEF Classified, Actions
<1>3. CASE run.fault = "response-lost"
  BY <1>3 DEF Classified, Actions, Types, Fresh, Coming, Refused
<1>4. CASE run.fault = "dependency-unavailable"
  BY <1>4 DEF Classified, Actions, Types, Fresh, Coming, Served, Nothing
<1>5. CASE run.fault = "pre-side-effect-failure"
  BY <1>5 DEF Classified, Actions
<1> QED BY <1>1, <1>2, <1>3, <1>4, <1>5

LEMMA InspectKeeps == ASSUME NetworkInd, Inspect PROVE NetworkInd'
<1>1. phase \in Deciding /\ phase = "inspect" /\ "TARGET_STATE_READ_FAILED" \in Codes
  BY DEF Inspect, Deciding, Codes
<1>2. CASE /\ run' = [run EXCEPT !.action = Classified]
           /\ fault' = [fault EXCEPT !.observed = run.fault # "none" /\ Classified # "ERROR"]
           /\ phase' = (IF run.fault = "response-lost" THEN "reconcile" ELSE "verify")
           /\ UNCHANGED <<env, docker, target, verdict>>
  <2> USE DEF NetworkInd
  <2>1. phase' \in Deciding /\ phase' \in Phases /\ phase' \in {"reconcile", "verify"}
    BY <1>2 DEF Deciding, Phases
  <2>2. run.fault \notin HealthFaults /\ Classified \in Actions
    BY <1>1, ClassifiedIsOne DEF Ways
  <2>3. /\ run' \in RunRow /\ run'.terminal = run.terminal /\ run'.fault = run.fault
        /\ run'.verification = run.verification /\ run'.request = run.request
        /\ run'.action = Classified
    BY <1>2, <2>2 DEF Types, RunRow
  <2> DEFINE seen == run.fault # "none" /\ Classified # "ERROR"
  <2>4. seen \in BOOLEAN /\ fault' = [fault EXCEPT !.observed = seen]
    BY <1>2
  <2>5. seen => Classified # "ERROR"
    OBVIOUS
  <2> HIDE DEF seen
  <2>6. /\ fault' \in FaultRow /\ fault'.observed = seen /\ fault'.reset = fault.reset
        /\ fault'.reconciled = fault.reconciled
    BY <2>4 DEF Types, FaultRow
  <2>7. ~fault.reconciled
    BY <1>1 DEF Requests
  <2>8. Types' /\ Created' /\ Ways' /\ Toxics'
    BY <1>1, <1>2, <2>1, <2>3, <2>6 DEF Types, Created, Ways, Toxics, Deciding
  <2>9. Requests'
    BY <1>1, <1>2, <2>1, <2>2, <2>3, <2>5, <2>6, <2>7, ClassifiedIsOne DEF Requests, Unsent
  <2> QED BY <1>1, <1>2, <2>1, <2>3, <2>8, <2>9, DriverKeeps, NotYetCleaned
<1>3. CASE DockerFails("TARGET_STATE_READ_FAILED") /\ UNCHANGED <<docker, target, verdict>>
  BY <1>1, <1>3, DockerFailsKeeps, NotYetCleaned
<1> QED BY <1>2, <1>3 DEF Inspect

LEMMA ReconcileKeeps == ASSUME NetworkInd, Reconcile PROVE NetworkInd'
<1>1. /\ phase \in Deciding /\ phase = "reconcile"
      /\ {"RECONCILE_RECEIPT_MISSING", "DOCKER_COMMAND_FAILED"} \subseteq Codes
  BY DEF Reconcile, Deciding, Codes
<1>2. CASE /\ target.count = 1 /\ fault' = [fault EXCEPT !.reconciled = TRUE]
           /\ phase' = "verify" /\ UNCHANGED <<run, env, docker, target, verdict>>
  <2> USE DEF NetworkInd
  <2>1. phase' \in Deciding /\ phase' \in Phases
    BY <1>2 DEF Deciding, Phases
  <2>2. /\ fault' \in FaultRow /\ fault'.reset = fault.reset /\ fault'.observed = fault.observed
    BY <1>2 DEF Types, FaultRow
  <2>3. Served(target)
    BY <1>2 DEF Types, Fresh, Coming, Refused
  <2>4. Types' /\ Created' /\ Ways' /\ Toxics'
    BY <1>1, <1>2, <2>1, <2>2 DEF Types, Created, Ways, Toxics, Deciding
  <2>5. Requests'
    BY <1>1, <1>2, <2>2, <2>3 DEF Requests, Unsent
  <2> QED BY <1>1, <1>2, <2>1, <2>4, <2>5, DriverKeeps, NotYetCleaned
<1>3. CASE /\ Raise([Failure("RECONCILE_RECEIPT_MISSING") EXCEPT !.outcome = "INCONCLUSIVE"])
           /\ UNCHANGED <<env, fault, docker, target, verdict>>
  <2>1. [Failure("RECONCILE_RECEIPT_MISSING") EXCEPT !.outcome = "INCONCLUSIVE"] \in Failures
    BY <1>1, FailureIsOne
  <2> QED BY <1>1, <1>3, <2>1, RaiseKeeps, NotYetCleaned
<1>4. CASE DockerFails("DOCKER_COMMAND_FAILED") /\ UNCHANGED <<docker, target, verdict>>
  BY <1>1, <1>4, DockerFailsKeeps, NotYetCleaned
<1> QED BY <1>2, <1>3, <1>4 DEF Reconcile

(* A verification that passes has seen the fault from both sides.          *)
LEMMA ChecksShowBothSides ==
    ASSUME Types, Requests, NEW actual, Checks(actual, TRUE)
    PROVE  Passed /\ (run.fault \in HealthFaults => fault.reset)
<1>1. CASE run.fault = "none"
  BY <1>1 DEF Checks, Passed, Requests, HealthFaults
<1>2. CASE run.fault = "response-lost"
  BY <1>2 DEF Checks, Passed, Requests, HealthFaults
<1>3. CASE run.fault = "dependency-unavailable"
  BY <1>3 DEF Checks, Passed, Requests, HealthFaults
<1>4. CASE run.fault = "pre-side-effect-failure"
  BY <1>4 DEF Passed, Requests, HealthFaults
<1>5. CASE run.fault \in HealthFaults
  BY <1>5 DEF Checks, Passed, Requests, HealthFaults
<1> QED BY <1>1, <1>2, <1>3, <1>4, <1>5 DEF Types, RunRow, Profiles, HealthFaults

\* What the verification writes into the record.
LEMMA VerifyIsOne ==
    ASSUME run \in RunRow, NEW a \in 0 .. 1, NEW v \in {"passed", "failed"},
           NEW t \in Failures \union {NoError},
           run' = [run EXCEPT !.actual = a, !.verification = v, !.terminal = t]
    PROVE  /\ run' \in RunRow /\ run'.terminal = t /\ run'.fault = run.fault
           /\ run'.verification = v /\ run'.request = run.request /\ run'.action = run.action
<1> DEFINE T == Failures \union {NoError}
<1>1. RunRow = [fault : Profiles, started : BOOLEAN, request : {Nothing, "200", "503", "lost"},
                action : Actions, recovered : BOOLEAN, actual : -1 .. 1,
                verification : {Nothing, "passed", "failed"}, terminal : T]
  BY DEF RunRow
<1>2. t \in T /\ a \in -1 .. 1
  OBVIOUS
<1> HIDE DEF T
<1> QED BY <1>1, <1>2

LEMMA VerifyKeeps == ASSUME NetworkInd, Verify PROVE NetworkInd'
<1>1. /\ phase \in Deciding /\ phase = "verify"
      /\ {"FORMAL_NETWORK_CONTRACT_NOT_VERIFIED", "TARGET_STATE_READ_FAILED"} \subseteq Codes
  BY DEF Verify, Deciding, Codes
<1> DEFINE actual == IF run.fault = "pre-side-effect-failure" THEN 0 ELSE target.count
           why == IF Checks(actual, TRUE) THEN NoError
                  ELSE [Failure("FORMAL_NETWORK_CONTRACT_NOT_VERIFIED")
                        EXCEPT !.outcome = "INCONCLUSIVE"]
<1>2. CASE /\ phase' = "cleanup"
           /\ run' = [run EXCEPT !.actual = actual, !.verification = Verified(actual, TRUE),
                                 !.terminal = why]
           /\ UNCHANGED <<env, fault, docker, target, verdict>>
  <2> USE DEF NetworkInd
  <2>1. actual \in 0 .. 1 /\ Verified(actual, TRUE) \in {"passed", "failed"}
    BY DEF Types, TargetRow, Verified
  <2>2. /\ why \in Failures \union {NoError}
        /\ why = NoError => Checks(actual, TRUE) /\ Verified(actual, TRUE) = "passed"
    BY <1>1, FailureIsOne, FailuresAreErrors DEF Verified
  <2>3. Checks(actual, TRUE) => Passed /\ (run.fault \in HealthFaults => fault.reset)
    BY ChecksShowBothSides
  <2> HIDE DEF why, actual
  <2>4. /\ run' \in RunRow /\ run'.terminal = why /\ run'.fault = run.fault
        /\ run'.verification = Verified(actual, TRUE) /\ run'.request = run.request
        /\ run'.action = run.action
    BY <1>2, <2>1, <2>2, VerifyIsOne DEF Types
  <2>5. Types' /\ Created' /\ Ways' /\ Requests'
    BY <1>2, <2>4 DEF Types, Created, Ways, Requests, Phases, Deciding, Unsent
  <2>6. Toxics'
    BY <1>1, <1>2, <2>2, <2>3, <2>4 DEF Toxics, Deciding
  <2>7. Undecided' /\ PassIsClean'
    BY <1>1, <1>2 DEF Undecided, PassIsClean, Deciding
  <2>8. Passed => Passed'
    BY <1>2, <2>4 DEF Passed
  <2>9. Settled'
    BY <1>1, <1>2, <2>2, <2>3, <2>4, <2>8 DEF Settled, Undecided, Created
  <2>10. Removals'
    BY <1>1, <1>2 DEF Removals
  <2> QED BY <2>5, <2>6, <2>7, <2>9, <2>10
<1>3. CASE DockerFails("TARGET_STATE_READ_FAILED") /\ UNCHANGED <<docker, target, verdict>>
  BY <1>1, <1>3, DockerFailsKeeps, NotYetCleaned
<1> QED BY <1>2, <1>3 DEF Verify

LEMMA RescueKeeps == ASSUME NetworkInd, Rescue PROVE NetworkInd'
<1> USE DEF NetworkInd
<1>1. phase = "rescue" /\ phase' = "cleanup" /\ UNCHANGED <<env, fault, docker, target, verdict>>
  BY DEF Rescue
<1>2. run.terminal # NoError
  BY <1>1 DEF Undecided
<1>3. /\ run' \in RunRow /\ run'.terminal = run.terminal /\ run'.fault = run.fault
      /\ run'.request = run.request /\ run'.action = run.action
  BY DEF Rescue, Types, RunRow, TargetRow
<1>4. Types' /\ Created' /\ Ways' /\ Requests'
  BY <1>1, <1>3 DEF Types, Created, Ways, Requests, Phases, Deciding, Unsent
<1>5. Toxics' /\ Undecided' /\ Settled' /\ PassIsClean'
  BY <1>1, <1>2, <1>3 DEF Toxics, Undecided, Settled, PassIsClean, Deciding
<1>6. Removals'
  BY <1>1 DEF Removals
<1> QED BY <1>4, <1>5, <1>6

(* The clean-up.  Its steps leave the driver's record and the target alone. *)
LEMMA CleanupFrame ==
    ASSUME NetworkInd, phase' \in {"cleanup", "removing", "conclude", "raised", "done"},
           phase \in {"cleanup", "removing", "conclude"}, run' \in RunRow,
           run'.fault = run.fault, run'.request = run.request, run'.action = run.action,
           UNCHANGED target, fault'.observed = fault.observed,
           fault'.reconciled = fault.reconciled, env'.created = env.created
    PROVE  Created' /\ Ways' /\ Requests' /\ (Passed => Passed')
<1> USE DEF NetworkInd
<1>1. Created' /\ Ways'
  BY DEF Created, Ways, Deciding
<1>2. Requests'
  BY DEF Requests, Unsent
<1>3. Passed => Passed'
  BY DEF Passed
<1> QED BY <1>1, <1>2, <1>3

LEMMA CleanupStartsKeeps == ASSUME NetworkInd, CleanupStarts PROVE NetworkInd'
<1> USE DEF NetworkInd
<1>1. /\ phase = "cleanup" /\ phase' = "removing" /\ phase' \in Phases
      /\ UNCHANGED <<run, target, verdict>>
  BY DEF CleanupStarts, Phases
<1>2. PICK ok \in BOOLEAN :
        /\ env' = [env EXCEPT !.todo = CleanupOrder, !.errors = ~ok, !.toxics = FALSE]
        /\ docker' = [docker EXCEPT !.toxic = @ /\ ~(env.toxics /\ ok)]
        /\ fault' = [fault EXCEPT !.reset = ok] \/ UNCHANGED fault
  BY DEF CleanupStarts
<1>3. CleanupOrder \in Seq(Names) /\ ToSet(CleanupOrder) = ToSet(env.created)
  BY CleanupOrderHasAll DEF Types, EnvRow
<1>4. /\ env' \in EnvRow /\ env'.created = env.created /\ env'.life = env.life
      /\ env'.todo = CleanupOrder /\ env'.errors = ~ok
  <2> DEFINE e == [env EXCEPT !.todo = CleanupOrder, !.errors = ~ok]
  <2>1. /\ e \in EnvRow /\ e.created = env.created /\ e.life = env.life
        /\ e.todo = CleanupOrder /\ e.errors = ~ok
    BY <1>3 DEF Types, EnvRow
  <2>2. env' = [e EXCEPT !.toxics = FALSE]
    BY <1>2
  <2> HIDE DEF e
  <2> QED BY <2>1, <2>2 DEF EnvRow
<1>5. /\ docker' \in Resourced /\ docker'.there = docker.there
      /\ docker'.toxic = (docker.toxic /\ ~(env.toxics /\ ok))
  <2> DEFINE t == docker.toxic /\ ~(env.toxics /\ ok)
  <2>1. docker' = [docker EXCEPT !.toxic = t] /\ t \in BOOLEAN
    BY <1>2
  <2> HIDE DEF t
  <2>2. docker' \in Resourced /\ docker'.there = docker.there /\ docker'.toxic = t
    BY <2>1 DEF Types, Resourced
  <2> QED BY <2>2 DEF t
<1>6. /\ fault' \in FaultRow /\ fault'.observed = fault.observed
      /\ fault'.reconciled = fault.reconciled
  BY <1>2 DEF Types, FaultRow
<1>7. Types' /\ Created' /\ Ways' /\ Requests' /\ (Passed => Passed')
  BY <1>1, <1>4, <1>5, <1>6, CleanupFrame DEF Types, Resourced
<1>8. Toxics'
  BY <1>1, <1>4, <1>5 DEF Toxics, Deciding
<1>9. Undecided' /\ PassIsClean'
  BY <1>1 DEF Undecided, PassIsClean, Deciding
<1>10. Settled'
  BY <1>1, <1>4, <1>7 DEF Settled, Undecided
<1>11. Removals'
  BY <1>1, <1>3, <1>4, <1>5 DEF Removals
<1> QED BY <1>7, <1>8, <1>9, <1>10, <1>11

LEMMA RemoveOneKeeps == ASSUME NetworkInd, RemoveOne PROVE NetworkInd'
<1> USE DEF NetworkInd
<1>1. /\ phase = "removing" /\ env.todo # <<>> /\ env.todo \in Seq(Names)
      /\ UNCHANGED <<phase, run, fault, target, verdict>>
  BY DEF RemoveOne, Types, EnvRow
<1> DEFINE r == Head(env.todo)
           rest == Tail(env.todo)
<1>2. r \in Names /\ rest \in Seq(Names) /\ ToSet(env.todo) = {r} \union ToSet(rest)
  BY <1>1, TailLosesHead
<1>3. \/ /\ docker' = [docker EXCEPT !.there = @ \ {r}]
         /\ env' = [env EXCEPT !.todo = rest]
      \/ /\ env' = [env EXCEPT !.todo = rest, !.errors = TRUE]
         /\ UNCHANGED docker
  BY DEF RemoveOne
<1> HIDE DEF r, rest
<1>4. /\ env' \in EnvRow /\ env'.created = env.created /\ env'.life = env.life
      /\ env'.todo = rest /\ env'.toxics = env.toxics
      /\ env.errors => env'.errors
  BY <1>2, <1>3 DEF Types, EnvRow
<1>5. /\ docker' \in Resourced /\ docker'.toxic = docker.toxic
      /\ docker'.there \subseteq docker.there
  BY <1>3 DEF Types, Resourced
<1>10. ~env'.errors => docker'.there = docker.there \ {r}
  BY <1>3 DEF Types, Resourced, EnvRow
<1>6. Types' /\ Created' /\ Ways' /\ Requests' /\ (Passed => Passed')
  BY <1>1, <1>4, <1>5, CleanupFrame DEF Types, Resourced
<1>7. Toxics' /\ Undecided' /\ PassIsClean'
  BY <1>1, <1>4, <1>5 DEF Toxics, Undecided, PassIsClean, Deciding
<1>8. Settled'
  BY <1>1, <1>4, <1>6 DEF Settled, Undecided
<1>9. Removals'
  BY <1>1, <1>2, <1>4, <1>5, <1>10 DEF Removals
<1> QED BY <1>6, <1>7, <1>8, <1>9

LEMMA RemoveRaisesKeeps == ASSUME NetworkInd, RemoveRaises PROVE NetworkInd'
<1> USE DEF NetworkInd
<1>1. /\ phase = "removing" /\ phase' = "raised" /\ env.todo # <<>> /\ phase' \in Phases
      /\ UNCHANGED <<run, env, fault, target, verdict>>
  BY DEF RemoveRaises, Phases
<1>2. docker' \in Resourced
  BY DEF RemoveRaises, Types, Resourced
<1>3. Types' /\ Created' /\ Ways' /\ Requests' /\ (Passed => Passed')
  BY <1>1, <1>2, CleanupFrame DEF Types, Resourced
<1>4. Toxics' /\ Undecided' /\ PassIsClean' /\ Settled'
  BY <1>1 DEF Toxics, Undecided, PassIsClean, Settled, Deciding
<1>5. Removals'
  BY <1>1 DEF Removals
<1> QED BY <1>3, <1>4, <1>5

LEMMA CleanupEndsKeeps == ASSUME NetworkInd, CleanupEnds PROVE NetworkInd'
<1> USE DEF NetworkInd
<1>1. /\ phase = "removing" /\ phase' = "conclude" /\ env.todo = <<>> /\ phase' \in Phases
      /\ UNCHANGED <<fault, docker, target, verdict>>
  BY DEF CleanupEnds, Phases
<1> DEFINE why == IF env.errors /\ run.terminal = NoError
                  THEN Failure("CLEANUP_UNVERIFIED") ELSE run.terminal
<1>2. run' = [run EXCEPT !.terminal = why]
  BY DEF CleanupEnds, Types, RunRow
<1>3. /\ why \in Failures \union {NoError}
      /\ why = NoError => run.terminal = NoError /\ ~env.errors
  BY FailureIsOne, FailuresAreErrors DEF Codes, Types, RunRow
<1> HIDE DEF why
<1>4. /\ run' \in RunRow /\ run'.terminal = why /\ run'.fault = run.fault
      /\ run'.verification = run.verification /\ run'.request = run.request
      /\ run'.action = run.action
  BY <1>2, <1>3 DEF Types, RunRow
<1>5. /\ env' \in EnvRow /\ env'.created = env.created
      /\ env'.life = IF env.errors THEN "QUARANTINED" ELSE "CLEANED"
  BY DEF CleanupEnds, Types, EnvRow
<1>6. Types' /\ Created' /\ Ways' /\ Requests' /\ (Passed => Passed')
  BY <1>1, <1>4, <1>5, CleanupFrame DEF Types
<1>7. Toxics' /\ Undecided' /\ PassIsClean'
  BY <1>1, <1>3, <1>4 DEF Toxics, Undecided, PassIsClean, Deciding
<1>8. Settled'
  BY <1>1, <1>3, <1>4, <1>5, <1>6 DEF Settled, Undecided
<1>9. ToSet(env.todo) = {}
  BY <1>1 DEF ToSet
<1>10. Removals'
  BY <1>1, <1>3, <1>4, <1>5, <1>9 DEF Removals
<1> QED BY <1>6, <1>7, <1>8, <1>10

(* A PASS is given with everything created and everything removed.         *)
LEMMA PassIsEarned ==
    ASSUME NetworkInd, Conclude
    PROVE  /\ verdict' \in Statuses
           /\ verdict' = "PASS" =>
                Passed /\ docker.there = {} /\ ~docker.toxic /\ env.life = "CLEANED"
<1> USE DEF NetworkInd
<1>1. phase = "conclude"
  BY DEF Conclude
<1>2. CASE run.terminal # NoError
  <2>1. run.terminal \in Failures /\ verdict' = run.terminal.outcome
    BY <1>2 DEF Conclude, Types, RunRow
  <2> QED BY <2>1, FailuresAreErrors DEF Statuses
<1>3. CASE run.terminal = NoError
  <2>1. Passed /\ Len(env.created) = Len(Resources) /\ ~docker.toxic /\ env.life = "CLEANED"
    BY <1>1, <1>3 DEF Settled, Toxics, Removals
  <2>2. docker.there \subseteq Names /\ env.created \in Seq(Names)
    BY DEF Types, EnvRow
  <2>3. ToSet(env.created) = Names
    BY <2>1, <2>2, AllCreated DEF NetworkInd
  <2>4. docker.there = {}
    BY <2>1, <2>2, <2>3 DEF Removals
  <2> QED BY <1>3, <2>1, <2>4 DEF Conclude, Statuses
<1> QED BY <1>2, <1>3

LEMMA ConcludeKeeps == ASSUME NetworkInd, Conclude PROVE NetworkInd'
<1> USE DEF NetworkInd
<1>1. /\ phase = "conclude" /\ phase' = "done" /\ phase' \in Phases
      /\ UNCHANGED <<env, fault, docker, target>>
  BY DEF Conclude, Phases
<1>2. LateVerification \in {Nothing, "passed", "failed"}
  BY DEF LateVerification, Verified, Types, RunRow
<1>3. /\ run' \in RunRow /\ run'.terminal = run.terminal /\ run'.fault = run.fault
      /\ run'.request = run.request /\ run'.action = run.action
  BY <1>2 DEF Conclude, Types, RunRow
<1>4. /\ verdict' \in Statuses
      /\ verdict' = "PASS" => Passed /\ docker.there = {} /\ ~docker.toxic /\ env.life = "CLEANED"
  BY PassIsEarned
<1>5. Types' /\ Created' /\ Ways' /\ Requests' /\ (Passed => Passed')
  BY <1>1, <1>3, <1>4, CleanupFrame DEF Types
<1>7. Toxics' /\ Undecided' /\ Settled' /\ PassIsClean'
  BY <1>1, <1>4, <1>5 DEF Toxics, Undecided, Settled, PassIsClean, Deciding
<1>8. Removals'
  BY <1>1 DEF Removals
<1> QED BY <1>5, <1>7, <1>8

LEMMA ContainerStopsKeeps == ASSUME NetworkInd, ContainerStops PROVE NetworkInd'
<1> USE DEF NetworkInd
<1>1. /\ phase \notin {"done", "raised"}
      /\ UNCHANGED <<phase, run, env, fault, target, verdict>>
  BY DEF ContainerStops
<1>2. /\ docker' \in Resourced /\ docker'.there = docker.there /\ docker'.toxic = docker.toxic
      /\ docker.stopped \subseteq docker'.stopped
  BY DEF ContainerStops, Types, Resourced
<1>3. Types' /\ Created' /\ Ways' /\ Requests'
  BY <1>1, <1>2 DEF Types, Resourced, Created, Ways, Requests
<1>4. Toxics' /\ Undecided' /\ PassIsClean' /\ Removals'
  BY <1>1, <1>2 DEF Toxics, Undecided, PassIsClean, Removals
<1>5. Settled'
  BY <1>1 DEF Settled, Passed
<1> QED BY <1>3, <1>4, <1>5

LEMMA StepsAreSound == ASSUME NetworkInd, [Next]_vars PROVE NetworkInd'
<1>1. CASE RunStep
  BY <1>1, NoEnvironmentKeeps, ProvisionKeeps, ProvisionFailsKeeps, ProvisionedKeeps,
     ReadinessKeeps, VerifyInitialKeeps, ReadStateKeeps, ActivateFaultKeeps, HealthFaultKeeps,
     ClearFaultKeeps, RecoverKeeps, SendRequestKeeps, ReceiveReplyKeeps, InspectKeeps,
     ReconcileKeeps, VerifyKeeps, RescueKeeps, CleanupStartsKeeps, RemoveOneKeeps,
     RemoveRaisesKeeps, CleanupEndsKeeps, ConcludeKeeps
     DEF RunStep
<1>2. CASE UNCHANGED vars
  BY <1>2 DEF vars, NetworkInd, Types, Created, Ways, Requests, Toxics, Undecided, Settled,
     Passed, Removals, PassIsClean
<1> QED BY <1>1, <1>2, DeliverKeeps, ContainerStopsKeeps DEF Next

(* The record of the run, the adapter and the containers is in order in    *)
(* every reachable state: which way the fault took, what is known of the   *)
(* request, which toxic is still on and what is still to be removed.       *)
THEOREM NetworkInductive == Spec => []NetworkInd
<1>1. Init => NetworkInd
  BY InitIsSound, NetworkRunConstants DEF Profiles
<1>2. NetworkInd /\ [Next]_vars => NetworkInd'
  BY StepsAreSound
<1> QED BY <1>1, <1>2, PTL DEF Spec

(* Types, and nothing is left behind by a PASS: no container, no network   *)
(* and no toxic, whatever failed on the way (clear_fault, _cleanup_impl).  *)
THEOREM NetworkRunsAreClean == Spec => []NetworkRunInv
<1>1. NetworkInd => NetworkRunInv
  <2> SUFFICES ASSUME NetworkInd PROVE NetworkRunInv
    OBVIOUS
  <2>1. env.created \in Seq(Names) /\ Len(env.created) \in Nat /\ Len(env.created) <= 5
    BY ResourcesAreNames DEF NetworkInd, Types, EnvRow, Created
  <2>2. IsPrefix(env.created, Resources)
    <3> DEFINE n == Len(env.created)
    <3>1. \A i \in 1 .. n : env.created[i] = Resources[i]
      BY DEF NetworkInd, Created
    <3>2. SubSeq(env.created, 1, n) = [i \in 1 .. n |-> env.created[i]]
      BY <2>1
    <3>3. SubSeq(Resources, 1, n) = [i \in 1 .. n |-> Resources[i]]
      BY <2>1, ResourcesAreNames
    <3> QED BY <2>1, <3>1, <3>2, <3>3, ResourcesAreNames DEF IsPrefix
  <2>3. docker.there \subseteq ToSet(Resources) /\ docker.stopped \subseteq ToSet(Resources)
    BY ResourcesAreNames DEF NetworkInd, Types
  <2>4. target.count \in 0 .. 1 /\ (target.flight => target.reply = Nothing)
    BY DEF NetworkInd, Types, TargetRow, Fresh, Coming, Served, Refused
  <2>5. /\ run.request \in {Nothing, "200", "503", "lost"} /\ run.actual \in -1 .. 1
        /\ env.life \in {"UNPROVISIONED", "PROVISIONED", "READY_UNVERIFIED", "READY_VERIFIED",
                          "QUARANTINED", "CLEANED"}
        /\ verdict \in Statuses \union {"NONE"} /\ PassIsClean
    BY DEF NetworkInd, Types, RunRow, EnvRow
  <2> QED BY <2>2, <2>3, <2>4, <2>5 DEF NetworkRunInv, NetworkTypeOK
<1> QED BY <1>1, NetworkInductive, PTL

(* CLEANED means that nothing the adapter knew of is left, in whatever     *)
(* order its removals failed (_cleanup_impl).                              *)
THEOREM CleanedIsGone == Spec => []KnownResourcesAreGone
<1>1. NetworkInd => KnownResourcesAreGone
  BY DEF NetworkInd, Removals, KnownResourcesAreGone
<1> QED BY <1>1, NetworkInductive, PTL

(* A PASS has seen its fault on both sides of the wire, or its answer      *)
(* (_apply_change_impl, reconcile, _formal_verification).                  *)
THEOREM PassesHaveBothSides == Spec => []PassHasBothSides
<1>1. NetworkInd => PassHasBothSides
  <2> SUFFICES ASSUME NetworkInd, verdict = "PASS"
               PROVE  /\ run.fault = "response-lost" => run.request = "lost" /\ target.count = 1
                      /\ run.fault = "dependency-unavailable" => target.dependency = "UNAVAILABLE"
                      /\ run.fault = "none" => run.request = "200"
    BY DEF PassHasBothSides
  <2>1. Passed /\ Requests
    BY DEF NetworkInd, Settled
  <2>2. CASE run.fault = "none"
    BY <2>1, <2>2 DEF Passed, Requests
  <2>3. CASE run.fault = "response-lost"
    BY <2>1, <2>3 DEF Passed, Requests, Served
  <2>4. CASE run.fault = "dependency-unavailable"
    BY <2>1, <2>4 DEF Passed, Refused
  <2> QED BY <2>2, <2>3, <2>4
<1> QED BY <1>1, NetworkInductive, PTL

-----------------------------------------------------------------------------
(* The contract of every runner, step by step.                             *)

(* What the contract speaks of stays as it is.                             *)
Quiet ==
    /\ run'.fault = run.fault /\ fault'.reconciled = fault.reconciled
    /\ run'.action = "APPLIED" <=> run.action = "APPLIED"
    /\ UNCHANGED <<target, verdict>>
    /\ phase' = "raised" <=> phase = "raised"

\* A step that is quiet is a stutter of the contract.
LEMMA QuietStutters == ASSUME Quiet PROVE UNCHANGED Contract!contractVars
  BY DEF Quiet, Contract!contractVars

\* The contract does not see an exception before the end,
LEMMA RaiseIsQuiet ==
    ASSUME NetworkInd, phase \in Deciding, NEW e, Raise(e), UNCHANGED <<fault, target, verdict>>
    PROVE  Quiet
<1>1. phase = "verify" \/ run.action # "APPLIED"
  BY DEF NetworkInd, Ways, Requests, Deciding, Unsent, Nothing
<1>2. /\ run'.fault = run.fault /\ phase' = "rescue"
      /\ run'.action = IF phase = "verify" THEN run.action ELSE Nothing
  BY DEF Raise, NetworkInd, Types, RunRow
<1> QED BY <1>1, <1>2 DEF Quiet, Deciding, Nothing

\* nor a failing docker command,
LEMMA DockerFailsIsQuiet ==
    ASSUME NetworkInd, phase \in Deciding, NEW c, DockerFails(c), UNCHANGED <<target, verdict>>
    PROVE  Quiet
  BY RaiseIsQuiet DEF DockerFails

\* nor the steps of the driver that deliver and settle nothing,
LEMMA DriverIsQuiet ==
    ASSUME NetworkInd,
           \/ NoEnvironment \/ Provision \/ ProvisionFails \/ Provisioned \/ Readiness
           \/ VerifyInitial \/ ReadState \/ ActivateFault \/ HealthFault \/ ClearFault
           \/ Recover \/ ReceiveReply \/ Verify
    PROVE  Quiet
<1>1. run \in RunRow /\ fault \in FaultRow
  BY DEF NetworkInd, Types
<1>2. ASSUME NoEnvironment \/ Provision \/ Provisioned
      PROVE  Quiet
  BY <1>1, <1>2 DEF NoEnvironment, Provision, Provisioned, Quiet, RunRow
<1>3. ASSUME ProvisionFails PROVE Quiet
  BY <1>3, DockerFailsIsQuiet DEF ProvisionFails, Deciding
<1>4. ASSUME Readiness PROVE Quiet
  <2>1. phase \in Deciding /\ phase # "raised"
    BY <1>4 DEF Readiness, Deciding
  <2> QED BY <1>4, <2>1, RaiseIsQuiet, DockerFailsIsQuiet DEF Readiness, Quiet
<1>5. ASSUME VerifyInitial PROVE Quiet
  <2>1. phase \in Deciding /\ phase # "raised"
    BY <1>5 DEF VerifyInitial, Deciding
  <2> QED BY <1>1, <1>5, <2>1, DockerFailsIsQuiet DEF VerifyInitial, Quiet, RunRow
<1>6. ASSUME ReadState PROVE Quiet
  <2>1. phase \in Deciding /\ phase # "raised"
    BY <1>6 DEF ReadState, Deciding
  <2> QED BY <1>1, <1>6, <2>1, DockerFailsIsQuiet DEF ReadState, Quiet
<1>7. ASSUME ActivateFault PROVE Quiet
  <2>1. phase \in Deciding /\ phase # "raised"
    BY <1>7 DEF ActivateFault, Deciding
  <2> QED BY <1>1, <1>7, <2>1, DockerFailsIsQuiet DEF ActivateFault, Quiet, FaultRow
<1>8. ASSUME HealthFault PROVE Quiet
  <2>1. phase \in Deciding /\ phase # "raised"
    BY <1>8 DEF HealthFault, Deciding
  <2> QED BY <1>1, <1>8, <2>1, DockerFailsIsQuiet DEF HealthFault, Quiet, FaultRow
<1>9. ASSUME ClearFault PROVE Quiet
  <2>1. phase \in Deciding /\ phase # "raised"
    BY <1>9 DEF ClearFault, Deciding
  <2> QED BY <1>1, <1>9, <2>1, DockerFailsIsQuiet DEF ClearFault, Quiet, FaultRow
<1>10. ASSUME Recover PROVE Quiet
  <2>1. phase \in Deciding /\ phase # "raised"
    BY <1>10 DEF Recover, Deciding
  <2> QED BY <1>1, <1>10, <2>1, DockerFailsIsQuiet DEF Recover, Quiet, RunRow
<1>11. ASSUME ReceiveReply PROVE Quiet
  <2>1. phase \in Deciding /\ phase # "raised"
    BY <1>11 DEF ReceiveReply, Deciding
  <2> QED BY <1>1, <1>11, <2>1, DockerFailsIsQuiet DEF ReceiveReply, Quiet, RunRow
<1>12. ASSUME Verify PROVE Quiet
  <2>1. phase \in Deciding /\ phase # "raised"
    BY <1>12 DEF Verify, Deciding
  <2> QED BY <1>1, <1>12, <2>1, DockerFailsIsQuiet DEF Verify, Quiet, RunRow
<1> QED BY <1>2, <1>3, <1>4, <1>5, <1>6, <1>7, <1>8, <1>9, <1>10, <1>11, <1>12

\* nor the rescue and the removals.
LEMMA CleanupIsQuiet ==
    ASSUME NetworkInd, Rescue \/ CleanupStarts \/ RemoveOne \/ CleanupEnds \/ ContainerStops
    PROVE  Quiet
<1>1. run \in RunRow /\ fault \in FaultRow
  BY DEF NetworkInd, Types
<1>2. ASSUME Rescue \/ CleanupStarts \/ CleanupEnds
      PROVE  Quiet
  BY <1>1, <1>2 DEF Rescue, CleanupStarts, CleanupEnds, Quiet, RunRow, FaultRow
<1>3. ASSUME RemoveOne \/ ContainerStops
      PROVE  Quiet
  BY <1>3 DEF RemoveOne, ContainerStops, Quiet
<1> QED BY <1>2, <1>3

(* The request is in flight: from now on its outcome is in doubt.          *)
LEMMA SendIsTheDoubt ==
    ASSUME NetworkInd, SendRequest
    PROVE  [Contract!ContractNext]_(Contract!contractVars)
<1>1. phase = "send" /\ phase' = "reply" /\ UNCHANGED <<run, fault, verdict>>
  BY DEF SendRequest
<1>2. Fresh(target) /\ target \in TargetRow /\ verdict = "NONE"
  BY <1>1 DEF NetworkInd, Types, Requests, Undecided, Unsent
<1>3. PICK sent \in BOOLEAN : target' = [target EXCEPT !.flight = sent]
  BY DEF SendRequest
<1>4. target'.flight = sent /\ target'.count = 0 /\ target.count = 0 /\ ~target.flight
  BY <1>2, <1>3 DEF TargetRow, Fresh
<1>5. CASE sent = TRUE
  <2>1. Contract!Doubt
    BY <1>1, <1>2, <1>4, <1>5 DEF Contract!Doubt
  <2> QED BY <2>1 DEF Contract!ContractNext
<1>6. CASE sent = FALSE
  BY <1>1, <1>4, <1>6 DEF Contract!contractVars
<1> QED BY <1>5, <1>6

(* The target serves the request, which is the effect, or refuses it.      *)
LEMMA DeliverIsTheEffect ==
    ASSUME NetworkInd, Deliver
    PROVE  [Contract!ContractNext]_(Contract!contractVars)
<1>1. UNCHANGED <<phase, run, fault, verdict>>
  BY DEF Deliver
<1>2. ~Passed /\ ~fault.reconciled /\ run.action # "APPLIED"
  <2>1. ~Fresh(target) /\ ~Served(target) /\ ~Refused(target)
    BY TargetIsOne, DeliverIsOne DEF NetworkInd
  <2> QED BY <2>1 DEF Passed, NetworkInd, Requests
<1>3. verdict # "PASS"
  BY <1>2 DEF NetworkInd, Settled
<1>4. Coming(target)
  BY DeliverIsOne DEF NetworkInd
<1>5. target.count = 0 /\ target.flight
  BY <1>4 DEF Coming
<1>6. CASE Served(target')
  <2>1. target'.count = 1 /\ ~target'.flight
    BY <1>6 DEF Served
  <2>2. Contract!Effect
    BY <1>1, <1>3, <1>5, <2>1 DEF Contract!Effect
  <2> QED BY <2>2 DEF Contract!ContractNext
<1>7. CASE Refused(target')
  <2>1. target'.count = 0 /\ ~target'.flight
    BY <1>7 DEF Refused
  <2>2. Contract!Reconcile
    BY <1>1, <1>3, <1>5, <2>1 DEF Contract!Reconcile
  <2> QED BY <2>2 DEF Contract!ContractNext
<1> QED BY <1>6, <1>7, DeliverIsOne DEF NetworkInd

(* The answer that was received settles the doubt; so does the receipt.    *)
LEMMA InspectSettles ==
    ASSUME NetworkInd, Inspect
    PROVE  [Contract!ContractNext]_(Contract!contractVars)
<1>1. /\ phase = "inspect" /\ phase \in Deciding /\ verdict = "NONE"
      /\ run.action = Nothing /\ ~fault.reconciled /\ run.fault \notin HealthFaults
      /\ run \in RunRow /\ fault \in FaultRow
  BY DEF Inspect, Deciding, NetworkInd, Undecided, Requests, Ways, Types
<1>2. CASE DockerFails("TARGET_STATE_READ_FAILED") /\ UNCHANGED <<docker, target, verdict>>
  BY <1>1, <1>2, DockerFailsIsQuiet, QuietStutters
<1>3. CASE /\ run' = [run EXCEPT !.action = Classified]
           /\ fault' = [fault EXCEPT !.observed = run.fault # "none" /\ Classified # "ERROR"]
           /\ phase' = (IF run.fault = "response-lost" THEN "reconcile" ELSE "verify")
           /\ UNCHANGED <<env, docker, target, verdict>>
  <2>1. /\ run'.fault = run.fault /\ run'.action = Classified
        /\ fault'.reconciled = fault.reconciled /\ phase' # "raised"
    BY <1>1, <1>3 DEF RunRow, FaultRow
  <2>2. CASE Classified = "APPLIED"
    <3>1. Served(target)
      BY <1>1, <2>2, ClassifiedIsOne DEF NetworkInd, Requests
    <3>2. target.count = 1 /\ ~target.flight
      BY <3>1 DEF Served
    <3>3. Contract!Reconcile
      BY <1>1, <1>3, <2>1, <2>2, <3>2 DEF Contract!Reconcile, Nothing
    <3> QED BY <3>3 DEF Contract!ContractNext
  <2>3. CASE Classified # "APPLIED"
    BY <1>1, <1>3, <2>1, <2>3, QuietStutters DEF Quiet, Nothing
  <2> QED BY <2>2, <2>3
<1> QED BY <1>2, <1>3 DEF Inspect

\* The reconciliation settles the doubt of the contract.
LEMMA ReconcileSettles ==
    ASSUME NetworkInd, Reconcile
    PROVE  [Contract!ContractNext]_(Contract!contractVars)
<1>1. /\ phase = "reconcile" /\ phase \in Deciding /\ verdict = "NONE"
      /\ run.action # "APPLIED" /\ fault \in FaultRow
  BY DEF Reconcile, Deciding, NetworkInd, Undecided, Requests, Ways, Types
<1>2. CASE Raise([Failure("RECONCILE_RECEIPT_MISSING") EXCEPT !.outcome = "INCONCLUSIVE"])
           /\ UNCHANGED <<fault, target, verdict>>
  BY <1>1, <1>2, RaiseIsQuiet, QuietStutters
<1>3. CASE DockerFails("DOCKER_COMMAND_FAILED") /\ UNCHANGED <<target, verdict>>
  BY <1>1, <1>3, DockerFailsIsQuiet, QuietStutters
<1>4. CASE /\ target.count = 1 /\ fault' = [fault EXCEPT !.reconciled = TRUE]
           /\ phase' = "verify" /\ UNCHANGED <<run, target, verdict>>
  <2>1. fault'.reconciled = TRUE /\ ~target.flight
    BY <1>1, <1>4 DEF FaultRow, NetworkInd, Types, Fresh, Coming, Refused, Served
  <2>2. CASE fault.reconciled
    BY <1>1, <1>4, <2>1, <2>2, QuietStutters DEF Quiet
  <2>3. CASE ~fault.reconciled
    <3>1. Contract!Reconcile
      BY <1>1, <1>4, <2>1, <2>3 DEF Contract!Reconcile
    <3> QED BY <3>1 DEF Contract!ContractNext
  <2> QED BY <2>2, <2>3
<1> QED BY <1>2, <1>3, <1>4 DEF Reconcile

\* The end of the run is the contract's end.
LEMMA ConcludeIsTheVerdict ==
    ASSUME NetworkInd, Conclude
    PROVE  [Contract!ContractNext]_(Contract!contractVars)
<1>1. /\ phase = "conclude" /\ phase' = "done" /\ verdict = "NONE"
      /\ UNCHANGED <<fault, target>> /\ run \in RunRow
  BY DEF Conclude, NetworkInd, Undecided, Types
<1>2. run'.fault = run.fault /\ run'.action = run.action
  BY <1>1 DEF Conclude, RunRow
<1>3. verdict' \in Statuses /\ (verdict' = "PASS" => Passed)
  BY PassIsEarned
<1>4. ASSUME Passed
      PROVE  /\ target.count = IF run.fault \in {"none", "response-lost"} THEN 1 ELSE 0
             /\ ~target.flight
             /\ target.count = 1 => run.action = "APPLIED" \/ fault.reconciled
  <2>1. CASE run.fault = "none"
    BY <1>4, <2>1 DEF Passed, Served
  <2>2. CASE run.fault = "response-lost"
    BY <1>4, <2>2 DEF Passed, Served
  <2>3. CASE run.fault = "dependency-unavailable"
    BY <1>4, <2>3 DEF Passed, Refused
  <2>4. CASE run.fault \notin {"none", "response-lost", "dependency-unavailable"}
    BY <1>4, <2>4 DEF Passed, Fresh
  <2> QED BY <2>1, <2>2, <2>3, <2>4
<1>5. Contract!Conclude
  BY <1>1, <1>2, <1>3, <1>4 DEF Contract!Conclude
<1> QED BY <1>5 DEF Contract!ContractNext

\* A removal that raises abandons the run without a verdict.
LEMMA RaisedIsAbandoned ==
    ASSUME NetworkInd, RemoveRaises
    PROVE  [Contract!ContractNext]_(Contract!contractVars)
<1>1. phase = "removing" /\ phase' = "raised" /\ verdict = "NONE"
  BY DEF RemoveRaises, NetworkInd, Undecided
<1>2. Contract!Abandon
  BY <1>1 DEF RemoveRaises, Contract!Abandon
<1> QED BY <1>2 DEF Contract!ContractNext

(* Every run refines the contract of the runners: one effect at most, also *)
(* for a request that arrives after the client has given up, and a PASS    *)
(* only with the effects its profile calls for and no doubt left.  That a  *)
(* run ends is fairness, and model-checked (run_multi_service_slice).      *)
THEOREM NetworkRunRefinement == Spec => Contract!ContractSafety
<1>1. Init => Contract!ContractInit
  BY DEF Init, Contract!ContractInit
<1>2. ASSUME NetworkInd, [Next]_vars
      PROVE  [Contract!ContractNext]_(Contract!contractVars)
  <2>1. CASE UNCHANGED vars
    BY <2>1, QuietStutters DEF vars, Quiet
  <2>2. CASE \/ NoEnvironment \/ Provision \/ ProvisionFails \/ Provisioned \/ Readiness
             \/ VerifyInitial \/ ReadState \/ ActivateFault \/ HealthFault \/ ClearFault
             \/ Recover \/ ReceiveReply \/ Verify
    BY <1>2, <2>2, DriverIsQuiet, QuietStutters
  <2>3. CASE Rescue \/ CleanupStarts \/ RemoveOne \/ CleanupEnds \/ ContainerStops
    BY <1>2, <2>3, CleanupIsQuiet, QuietStutters
  <2> QED BY <1>2, <2>1, <2>2, <2>3, SendIsTheDoubt, DeliverIsTheEffect, InspectSettles,
             ReconcileSettles, ConcludeIsTheVerdict, RaisedIsAbandoned DEF Next, RunStep
<1> QED BY <1>1, <1>2, NetworkInductive, PTL DEF Spec, Contract!ContractSafety
=============================================================================
