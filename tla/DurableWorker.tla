--------------------------- MODULE DurableWorker ---------------------------
(***************************************************************************)
(* The durable Evaluation worker (durable_worker.py) against the durable   *)
(* execution boundary: several worker processes poll one Evaluation job,   *)
(* claim it, drive its single operation, run the Agent, store evidence and *)
(* complete it, each with a lease renewer in a thread of its own.          *)
(*                                                                         *)
(* A worker's HTTP call is one step: the handler's action of               *)
(* DurableExecution together with the worker's use of the reply.  Other    *)
(* workers, the renewer, an operator's cancellation and the clock act      *)
(* between two calls.  A reply that is lost after the handler committed    *)
(* makes the worker give the job up (TransportUncertainError), so it is    *)
(* that call followed by Crash.                                            *)
(***************************************************************************)
EXTENDS DurableExecution

CONSTANTS
  Dispatch,           \* operation-<job>-evaluation-dispatch
  Evaluation,         \* the job's target: the entity all its evidence is about
  ExecutionEvidence,  \* execution-evidence-<job>
  CancelEvidence,     \* execution-cancel-<job>
  PlatformEvidence,   \* platform-evidence-<job>
  MayCancel,          \* whether an operator may cancel the job
  MaxFaults,          \* bound: crashes, lost replies, stalls and Agent failures
  MaxRenewals         \* bound: heartbeats the renewers send

ASSUME WorkerAssumption ==
  /\ Dispatch \in Operations
  /\ Evaluation \in Entities
  /\ {ExecutionEvidence, CancelEvidence, PlatformEvidence} \subseteq EvidenceIds
  /\ {"PASS", "ERROR", "CANCELLED"} \subseteq Outcomes
  /\ MayCancel \in BOOLEAN
  /\ MaxFaults \in Nat /\ MaxRenewals \in Nat

VARIABLES
  worker,    \* for each worker: where it is, its owner record and its renewer
  artifact,  \* whether <evaluation_id>.json is in the output directory
  ran,       \* attempts under which the Agent was executed
  faults, renewals   \* what was used of the two bounds

local == <<artifact, ran>>
budget == <<faults, renewals>>
workerVars == <<job, attempt, operation, effect, evidence, canonical,
                worker, artifact, ran, faults, renewals>>

\* Steps of _execute_claimed_inner that send the owner record, in their order
\* with those that do not, then those of _cancel_if_requested and
\* _fail_platform_if_possible.
FencedSteps == {"start", "prepare", "dispatch", "confirm", "evidence", "complete",
                "release", "cancelEvidence", "ack", "failing", "failPlatform"}
IngestSteps == {"evidence", "cancelEvidence", "failing"}
Steps == FencedSteps \cup
  {"idle", "fetch", "inspect", "precheck", "check", "execute", "running", "register",
   "doubt", "settleCancel", "refresh", "detail", "unknown", "settle"}

\* `attempt` and `version` are the owner record, which the renewer shares;
\* `reply` is the version in a heartbeat reply under way, 0 when there is none.
WorkerRow == [pc : Steps, attempt : 0 .. MaxAttempts, version : 0 .. MaxVersion,
              renewing : BOOLEAN, reply : 0 .. MaxVersion]

IdleWorker == [pc |-> "idle", attempt |-> 0, version |-> 0, renewing |-> FALSE, reply |-> 0]

WorkerTypeOK ==
  /\ TypeOK
  /\ worker \in [Workers -> WorkerRow]
  /\ artifact \in BOOLEAN
  /\ ran \subseteq Attempts
  /\ faults \in 0 .. MaxFaults
  /\ renewals \in 0 .. MaxRenewals

WorkerInit ==
  /\ Init
  /\ worker = [w \in Workers |-> IdleWorker]
  /\ artifact = FALSE
  /\ ran = {}
  /\ faults = 0
  /\ renewals = 0

Owner(w) == [worker |-> w, attempt |-> worker[w].attempt, version |-> worker[w].version]
At(w, pc) == worker[w].pc = pc
Status == operation[Dispatch].status

\* Leaving the job ends the renewer and drops the owner record.
Goto(w, pc) ==
  worker' = [worker EXCEPT ![w] = IF pc = "idle" THEN IdleWorker ELSE [@ EXCEPT !.pc = pc]]

\* A reply that changes nothing: an idempotent replay, or a read.
Answered(w, pc) == Goto(w, pc) /\ UNCHANGED vars

\* A refused request raises, and the worker returns to polling.
Refused(w) == Answered(w, "idle")

\* The evidence handler asks for the owner only in the owner states.
Rejected(w) ==
  /\ worker[w].pc \in FencedSteps
  /\ ~RequireOwner(Owner(w))
  /\ worker[w].pc \in IngestSteps => job.state # "QUEUED"
  /\ Refused(w)

-----------------------------------------------------------------------------
\* Polling, claiming and reconciling (run_once).

\* The claim's own guard is the eligible predicate for jobs without doubt, so
\* the poll that finds the job is not a step of its own.
ClaimJob(w) ==
  /\ At(w, "idle")
  /\ Claim(w)
  /\ worker' = IF job'.state = "CLAIMED"
               THEN [worker EXCEPT ![w] =
                       [pc |-> "start", attempt |-> job'.active, version |-> job'.version,
                        renewing |-> FALSE, reply |-> 0]]
               ELSE worker

\* The poll lists a job in doubt; its detail is fetched afterwards.
DiscoverDoubt(w) ==
  /\ At(w, "idle")
  /\ job.state = "RECONCILE_REQUIRED"
  /\ Answered(w, "detail")

\* Mutant of ReadDetail: prepared operations are not counted as unresolved.
ReadDetailInFlight(w) ==
  /\ At(w, "detail")
  /\ Answered(w, IF Status \in {"IN_FLIGHT", "UNKNOWN_OUTCOME"} THEN "unknown" ELSE "idle")

ReadDetail(w) ==
  /\ At(w, "detail")
  /\ Answered(w, IF Status \in UnsafeStatuses THEN "unknown" ELSE "idle")

\* OPERATION_NOT_UNKNOWNABLE is raised for an operation that is already unknown.
ReportUnknown(w, from, to) ==
  /\ At(w, from)
  /\ \/ MarkUnknownOutcome(Dispatch) /\ Goto(w, to)
     \/ Status \in {"CONFIRMED", "NOT_SUBMITTED"} /\ Answered(w, to)
     \/ Status = "UNKNOWN_OUTCOME" /\ Refused(w)

Settle(w, from, to) ==
  /\ At(w, from)
  /\ \/ Reconcile(Dispatch) /\ Goto(w, to)
     \/ Status \in {"CONFIRMED", "NOT_SUBMITTED"} /\ Answered(w, to)

ReconcileJob(w) ==
  DiscoverDoubt(w) \/ ReadDetail(w) \/ ReportUnknown(w, "unknown", "settle")
    \/ Settle(w, "settle", "idle")

-----------------------------------------------------------------------------
\* Executing a claimed job.

\* start_job takes the new version over; only then does the renewer run.
StartJob(w) ==
  /\ At(w, "start")
  /\ Start(Owner(w))
  /\ worker' = [worker EXCEPT ![w].pc = "fetch", ![w].version = job'.version,
                              ![w].renewing = TRUE]

\* Where _cancel_if_requested continues, given the operation it read.
CancelStep ==
  CASE Status = "PREPARED" -> "release"
    [] Status \in {"IN_FLIGHT", "UNKNOWN_OUTCOME"} -> "doubt"
    [] OTHER -> "refresh"

\* A read of the job at one of the three places that look for a cancellation.
CheckCancel(w, from, to) ==
  /\ At(w, from)
  /\ Answered(w, IF job.state = "CANCEL_REQUESTED" THEN CancelStep ELSE to)

Prepare(w) ==
  /\ At(w, "prepare")
  /\ \/ PrepareOperation(Owner(w), Dispatch) /\ Goto(w, "inspect")
     \/ RequireOwner(Owner(w)) /\ Status # "ABSENT" /\ Answered(w, "inspect")

\* Mutant of Inspect: the dispatch boundary is skipped.
InspectSkipsDispatch(w) == At(w, "inspect") /\ Answered(w, "check")

Inspect(w) ==
  /\ At(w, "inspect")
  /\ Answered(w, IF Status \in {"PREPARED", "NOT_SUBMITTED"} THEN "precheck" ELSE "check")

DispatchJob(w) ==
  /\ At(w, "dispatch")
  /\ \/ DispatchOperation(Owner(w), Dispatch) /\ Goto(w, "check")
     \/ RequireOwner(Owner(w)) /\ Status \in {"CONFIRMED", "IN_FLIGHT"} /\ Answered(w, "check")

\* The evaluation file is reused when there is one; otherwise the Agent runs.
Execute(w) ==
  /\ At(w, "execute")
  /\ IF artifact
     THEN Answered(w, "confirm") /\ UNCHANGED ran
     ELSE Answered(w, "running") /\ ran' = ran \cup {worker[w].attempt}
  /\ UNCHANGED artifact

\* Mutant of WriteArtifact: the operation is confirmed before the file is written.
WriteArtifactLater(w) ==
  /\ At(w, "running")
  /\ Answered(w, "confirm")
  /\ UNCHANGED local

WriteArtifact(w) ==
  /\ At(w, "running")
  /\ artifact' = TRUE
  /\ Answered(w, "confirm")
  /\ UNCHANGED ran

Confirm(w) ==
  /\ At(w, "confirm")
  /\ \/ ConfirmOperation(Owner(w), Dispatch, TRUE) /\ Goto(w, "register")
     \/ RequireOwner(Owner(w)) /\ Status = "CONFIRMED" /\ Answered(w, "register")

\* ingest_file: canonical metadata is not fenced.
Register(w) ==
  /\ At(w, "register")
  /\ RegisterCanonical(Evaluation)
  /\ Goto(w, "evidence")

\* Evidence about the target, whose content its id determines.  Only the attempt
\* that stored it can replay it; the natural key refuses everything else.  A
\* queued job accepts it from anyone, as evidence of no attempt.
Ingest(w, from, e, out, to) ==
  LET admitted == RequireOwner(Owner(w)) \/ job.state = "QUEUED"
      mine == Stored(e) /\ evidence[e].attempt = job.active
      taken == \E f \in EvidenceIds : evidence[f].entity = Evaluation
  IN /\ At(w, from)
     /\ \/ IngestOwned(Owner(w), e, Evaluation, out) /\ Goto(w, to)
        \/ IngestQueued(e, Evaluation, out) /\ Goto(w, to)
        \/ admitted /\ mine /\ Answered(w, to)
        \/ admitted /\ taken /\ ~mine /\ Refused(w)

CompleteJob(w) ==
  /\ At(w, "complete")
  /\ Complete(Owner(w), ExecutionEvidence)
  /\ Goto(w, "idle")

ExecuteJob(w) ==
  \/ StartJob(w)
  \/ CheckCancel(w, "fetch", "prepare")
  \/ Prepare(w)
  \/ Inspect(w)
  \/ CheckCancel(w, "precheck", "dispatch")
  \/ DispatchJob(w)
  \/ CheckCancel(w, "check", "execute")
  \/ Confirm(w)
  \/ Register(w)
  \/ Ingest(w, "evidence", ExecutionEvidence, "PASS", "complete")
  \/ CompleteJob(w)

-----------------------------------------------------------------------------
\* Cancelling and failing a claimed job.

\* A prepared operation is released with the owner record as it was before the
\* cancellation.
Release(w) ==
  /\ At(w, "release")
  /\ \/ MarkNotSubmitted(Owner(w), Dispatch) /\ Goto(w, "refresh")
     \/ /\ RequireOwner(Owner(w))
        /\ Status # "PREPARED"
        /\ Answered(w, IF Status = "NOT_SUBMITTED" THEN "refresh" ELSE "idle")

\* Mutant of Refresh: the worker takes over the active attempt with the version.
RefreshAdoptsAttempt(w) ==
  /\ At(w, "refresh")
  /\ job.state = "CANCEL_REQUESTED"
  /\ worker' = [worker EXCEPT ![w].pc = "cancelEvidence", ![w].version = job.version,
                              ![w].attempt = job.active]
  /\ UNCHANGED vars

\* Only now does the worker take over the version the cancellation made.
Refresh(w) ==
  /\ At(w, "refresh")
  /\ worker' = IF job.state = "CANCEL_REQUESTED"
               THEN [worker EXCEPT ![w].pc = "cancelEvidence", ![w].version = job.version]
               ELSE [worker EXCEPT ![w].pc = "failing"]
  /\ UNCHANGED vars

\* An unresolved operation refuses the acknowledgement.
Acknowledge(w) ==
  /\ At(w, "ack")
  /\ \/ AcknowledgeCancel(Owner(w), CancelEvidence) /\ Goto(w, "idle")
     \/ RequireOwner(Owner(w)) /\ HasUnsafeOperation /\ Refused(w)

CancelJob(w) ==
  \/ Release(w)
  \/ ReportUnknown(w, "doubt", "settleCancel")
  \/ Settle(w, "settleCancel", "refresh")
  \/ Refresh(w)
  \/ Ingest(w, "cancelEvidence", CancelEvidence, "CANCELLED", "ack")
  \/ Acknowledge(w)

FailJob(w) ==
  \/ Ingest(w, "failing", PlatformEvidence, "ERROR", "failPlatform")
  \/ At(w, "failPlatform") /\ FailPlatform(Owner(w), PlatformEvidence) /\ Goto(w, "idle")

-----------------------------------------------------------------------------
\* The renewer thread.

\* The handler has renewed the lease; its reply is under way.
Renew(w) ==
  /\ worker[w].renewing
  /\ worker[w].reply = 0
  /\ renewals < MaxRenewals
  /\ Heartbeat(Owner(w))
  /\ worker' = [worker EXCEPT ![w].reply = job'.version]
  /\ renewals' = renewals + 1
  /\ UNCHANGED <<local, faults>>

\* A refused heartbeat is not retriable and ends the thread.
RenewRefused(w) ==
  /\ worker[w].renewing
  /\ worker[w].reply = 0
  /\ ~RequireOwner(Owner(w))
  /\ worker' = [worker EXCEPT ![w].renewing = FALSE]
  /\ UNCHANGED <<vars, local, budget>>

ReceiveRenewal(w) ==
  /\ worker[w].reply # 0
  /\ worker' = [worker EXCEPT ![w].version = worker[w].reply, ![w].reply = 0]
  /\ UNCHANGED <<vars, local, budget>>

-----------------------------------------------------------------------------
\* The environment.

Fault ==
  /\ faults < MaxFaults
  /\ faults' = faults + 1
  /\ UNCHANGED <<local, renewals>>

\* The process dies, a reply is lost, or an unforeseen answer raises.  A worker
\* is started again with the same id.
Crash(w) == Fault /\ ~At(w, "idle") /\ Refused(w)

\* The renewer goes on after a lost reply, with the version it had.
LoseRenewal(w) ==
  /\ Fault
  /\ worker[w].reply # 0
  /\ worker' = [worker EXCEPT ![w].reply = 0]
  /\ UNCHANGED vars

\* A bad contract, missing input or Agent failure raises a WorkerFailure.
AgentFails(w) ==
  /\ Fault
  /\ worker[w].pc \in {"prepare", "execute", "running"}
  /\ Answered(w, "failing")

Attended == \E w \in Workers : worker[w].attempt = job.active

\* The lease of an owner that is gone runs out; that of a working owner only
\* when it is not renewed in time.
Abandoned == LeaseLapses /\ ~Attended /\ UNCHANGED <<worker, local, budget>>
Stall == LeaseLapses /\ Attended /\ Fault /\ UNCHANGED worker

OperatorCancels ==
  /\ MayCancel
  /\ ~job.cancelRequested
  /\ RequestCancel
  /\ UNCHANGED <<worker, local, budget>>

-----------------------------------------------------------------------------
WorkerStep(w) ==
  /\ \/ /\ \/ ClaimJob(w) \/ ReconcileJob(w) \/ ExecuteJob(w) \/ CancelJob(w) \/ FailJob(w)
           \/ Rejected(w)
        /\ UNCHANGED local
     \/ Execute(w)
     \/ WriteArtifact(w)
  /\ UNCHANGED budget

Renewal(w) == Renew(w) \/ RenewRefused(w) \/ ReceiveRenewal(w)

Expire == LeaseExpires /\ UNCHANGED <<worker, local, budget>>
TimePasses == Abandoned \/ Expire

WorkerNext ==
  \/ \E w \in Workers :
       WorkerStep(w) \/ Renewal(w) \/ Crash(w) \/ LoseRenewal(w) \/ AgentFails(w)
  \/ TimePasses
  \/ Stall
  \/ OperatorCancels

\* A worker's main thread keeps taking its next step (it polls every 0.2 s and a
\* supervisor restarts it), and leases nobody renews run out.
WorkerFairness ==
  /\ \A w \in Workers : WF_workerVars(WorkerStep(w))
  /\ WF_workerVars(TimePasses)

WorkerSpec == WorkerInit /\ [][WorkerNext]_workerVars /\ WorkerFairness

-----------------------------------------------------------------------------
\* Safety.

Holds(w) == worker[w].attempt # 0

\* Workers never share an attempt, and what a worker or a heartbeat reply says of
\* the version is never newer than the row: the fencing tuple a worker presents
\* was handed out to this worker.
CredentialsAreOwn ==
  \A w \in Workers : Holds(w) =>
    /\ attempt[worker[w].attempt].worker = w
    /\ worker[w].version =< job.version /\ worker[w].reply =< job.version
    /\ \A v \in Workers \ {w} : worker[v].attempt # worker[w].attempt

\* While the worker with the current fencing tuple runs the Agent, its operation
\* is in flight: no recovery by another worker can have resolved it meanwhile.
CurrentRunIsInFlight ==
  \A w \in Workers :
    At(w, "running") /\ Fences(worker[w].attempt, worker[w].version) => Status = "IN_FLIGHT"

\* A completed job has a written artifact, an Agent run behind it, and its
\* operation confirmed by receipt, not merely resolved as never submitted.
CompletedIsConfirmed ==
  job.state = "COMPLETED" => artifact /\ ran # {} /\ Status = "CONFIRMED"

\* What the workers hold and what a completed job rests on are in order.
WorkerSafety == WorkerTypeOK /\ CompletedIsConfirmed

\* Together the workers, their renewers and the clock do nothing to the job that
\* the handlers do not allow: what is proved of DurableExecution holds here.
UsesOnlyTheHandlers == Spec

-----------------------------------------------------------------------------
\* Liveness.

Finished == job.state \in TerminalStates

\* The states no worker gets the job out of: a cancellation whose owner is gone,
\* an operation left unknown with nobody about to reconcile it, and evidence of
\* an attempt that is over.
Wedged ==
  \/ /\ job.state = "CANCEL_REQUESTED"
     /\ \A w \in Workers : worker[w].attempt # job.active
  \/ /\ job.state = "RECONCILE_REQUIRED"
     /\ Status = "UNKNOWN_OUTCOME"
     /\ \A w \in Workers : worker[w].pc \notin {"settle", "settleCancel"}
  \/ /\ ~Finished
     /\ \E e \in EvidenceIds : Stored(e) /\ evidence[e].attempt \notin {job.active} \ {0}

\* Whatever crashes, stalls, heartbeats and takeovers happen, an attempt ends: the
\* job is finished, wedged in one of those three ways, or granted again until
\* MaxAttempts is used up.  No refusal leaves a worker waiting for ever.
EveryAttemptEnds == <>(Finished \/ Wedged \/ job.attemptNumber = MaxAttempts)

\* A single worker needs only finitely many attempts: it cannot be evicted by
\* another worker that reconciles from a stale reading of the job.
LoneWorkerFinishes == <>(Finished \/ Wedged)

\* A wedge is for good: no poll, claim, reconcile or expiry ends it.
WedgeIsPermanent == [][Wedged => Wedged']_workerVars
=============================================================================
