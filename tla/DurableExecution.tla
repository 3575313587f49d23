-------------------------- MODULE DurableExecution --------------------------
(***************************************************************************)
(* The durable execution boundary of the Control Plane                     *)
(* (DurableExecutionController.java): one job row with its attempts, its   *)
(* side-effecting operations and its evidence rows.                        *)
(*                                                                         *)
(* Every HTTP handler runs in one database transaction that first takes    *)
(* the row lock of the job (SELECT ... FOR UPDATE), so a handler is one    *)
(* action here and the actions of different callers interleave.  All the   *)
(* rows a handler reads or writes belong to the job it locked; the module  *)
(* is therefore about one job, and a request that the code rejects or      *)
(* answers as an idempotent replay is a step that changes nothing.         *)
(*                                                                         *)
(* Data kept abstract: an attempt id (a fresh UUID) is its attempt number, *)
(* the lease token is implied by the attempt it was minted for, an         *)
(* artifact reference is the entity it names, and the event log, the       *)
(* telemetry context and the diagnostic columns are left out.              *)
(***************************************************************************)
EXTENDS Integers

CONSTANTS
  Workers,       \* ids a worker process may present as worker_id
  Operations,    \* operation ids callers prepare on this job
  EvidenceIds,   \* evidence ids callers ingest on this job
  Entities,      \* (entity_type, entity_id) pairs an evidence row may be about
  Outcomes,      \* the evidence outcomes callers report, of EVIDENCE_OUTCOMES
  NoWorker,      \* a NULL active_worker_id
  NoEvidence,    \* a NULL terminal_evidence_id
  NoEntity,      \* the entity of an evidence row that does not exist
  MaxAttempts,   \* bound: attempts that are ever created
  MaxVersion     \* bound: value of the job's version column

EvidenceOutcomes ==
  {"PASS", "FAIL", "ERROR", "INVALID", "INCONCLUSIVE", "CANCELLED"}

ASSUME BoundsAssumption == MaxAttempts \in Nat /\ MaxVersion \in Nat
ASSUME OutcomesAssumption == Outcomes \subseteq EvidenceOutcomes
ASSUME NullsAssumption ==
  NoWorker \notin Workers /\ NoEvidence \notin EvidenceIds /\ NoEntity \notin Entities

TerminalStates == {"COMPLETED", "FAILED_PLATFORM", "CANCELLED"}
OwnerStates == {"CLAIMED", "RUNNING", "CANCEL_REQUESTED"}
JobStates == TerminalStates \cup OwnerStates \cup {"QUEUED", "RECONCILE_REQUIRED"}

UnsafeStatuses == {"PREPARED", "IN_FLIGHT", "UNKNOWN_OUTCOME"}
OperationStatuses == UnsafeStatuses \cup {"CONFIRMED", "NOT_SUBMITTED"}

PlatformOutcomes == {"ERROR", "INCONCLUSIVE"}

Attempts == 1 .. MaxAttempts
AttemptStatuses == TerminalStates \cup
  {"CLAIMED", "RUNNING", "EXPIRED", "RECONCILE_REQUIRED", "RECONCILED"}

VARIABLES
  job,        \* the row of rpf_execution_job
  attempt,    \* rows of rpf_execution_attempt, by attempt number
  operation,  \* rows of rpf_execution_operation
  effect,     \* operations with a row in rpf_simulated_effect
  evidence,   \* rows of rpf_execution_evidence
  canonical   \* entities whose artifact the metadata service has registered

vars == <<job, attempt, operation, effect, evidence, canonical>>

(***************************************************************************)
(* What a worker presents with an owner request (owner_payload).  A        *)
(* credential names the attempt and the lease version its holder last      *)
(* heard of.                                                               *)
(***************************************************************************)
Credential == [worker : Workers, attempt : Attempts, version : 0 .. MaxVersion]

NoAttempt == [status |-> "ABSENT", worker |-> NoWorker]
NoOperation == [status |-> "ABSENT", attempt |-> 0, receipt |-> "NULL"]
NoRow == [entity |-> NoEntity, attempt |-> 0, outcome |-> "ABSENT"]

(***************************************************************************)
(* The lease.  Expiry is judged by CURRENT_TIMESTAMP, which PostgreSQL     *)
(* fixes when a transaction starts, before it waits for the row lock.      *)
(* While the lease is LAPSING there are transactions of both kinds: some   *)
(* started before the expiry and still see a valid lease, others see an    *)
(* expired one.                                                            *)
(***************************************************************************)
LeaseStates == {"NONE", "LIVE", "LAPSING", "EXPIRED"}

SeenLive == job.lease \in {"LIVE", "LAPSING"}
SeenExpired == job.lease \in {"LAPSING", "EXPIRED"}

Receipts == {"NULL", "REF"}   \* receipt_ref: NULL or some reference

\* Columns of the four tables; 0 is a NULL attempt id.
JobRow ==
  [state : JobStates, version : 0 .. MaxVersion,
   attemptNumber : 0 .. MaxAttempts, active : 0 .. MaxAttempts,
   worker : Workers \cup {NoWorker}, lease : LeaseStates, cancelRequested : BOOLEAN,
   outcome : Outcomes \cup {"ABSENT"}, evidence : EvidenceIds \cup {NoEvidence}]

AttemptRow == [status : AttemptStatuses \cup {"ABSENT"}, worker : Workers \cup {NoWorker}]

OperationRow ==
  [status : OperationStatuses \cup {"ABSENT"}, attempt : 0 .. MaxAttempts, receipt : Receipts]

EvidenceRow ==
  [entity : Entities \cup {NoEntity}, attempt : 0 .. MaxAttempts,
   outcome : Outcomes \cup {"ABSENT"}]

TypeOK ==
  /\ job \in JobRow
  /\ attempt \in [Attempts -> AttemptRow]
  /\ operation \in [Operations -> OperationRow]
  /\ effect \subseteq Operations
  /\ evidence \in [EvidenceIds -> EvidenceRow]
  /\ canonical \subseteq Entities

\* A job that submit has just stored.
Init ==
  /\ job = [state |-> "QUEUED", version |-> 0, attemptNumber |-> 0, active |-> 0,
            worker |-> NoWorker, lease |-> "NONE", cancelRequested |-> FALSE,
            outcome |-> "ABSENT", evidence |-> NoEvidence]
  /\ attempt = [a \in Attempts |-> NoAttempt]
  /\ operation = [o \in Operations |-> NoOperation]
  /\ effect = {}
  /\ evidence = [e \in EvidenceIds |-> NoRow]
  /\ canonical = {}

-----------------------------------------------------------------------------
\* Helpers shared by the handlers.

RequireOwner(c) ==
  /\ job.state \in OwnerStates
  /\ SeenLive
  /\ job.active = c.attempt
  /\ job.worker = c.worker
  /\ job.version = c.version

UnsafeOperations == {o \in Operations : operation[o].status \in UnsafeStatuses}
HasUnsafeOperation == UnsafeOperations # {}
HasUnsafeOperationForAttempt(a) == \E o \in UnsafeOperations : operation[o].attempt = a

\* The attempt rows with one status rewritten; a NULL attempt id writes nothing.
WithStatus(a, status) ==
  [b \in Attempts |-> IF b = a THEN [attempt[b] EXCEPT !.status = status] ELSE attempt[b]]

\* Mutant of UpdateStateClear: the worker column is left behind.
UpdateStateClearKeepsWorker(state, outcome, ev) ==
  [job EXCEPT !.state = state, !.version = @ + 1, !.active = 0,
              !.lease = "NONE", !.outcome = outcome, !.evidence = ev]

\* updateStateClear: the new row of a job that loses its owner.
UpdateStateClear(state, outcome, ev) ==
  [job EXCEPT !.state = state, !.version = @ + 1, !.active = 0, !.worker = NoWorker,
              !.lease = "NONE", !.outcome = outcome, !.evidence = ev]

FinishTerminal(state, outcome, ev) ==
  /\ job.version < MaxVersion
  /\ attempt' = WithStatus(job.active, state)
  /\ job' = UpdateStateClear(state, outcome, ev)
  /\ UNCHANGED <<operation, effect, evidence, canonical>>

\* The job returns to a state without an owner because of an uncertain effect.
Park(a) ==
  /\ job.version < MaxVersion
  /\ attempt' = WithStatus(a, "RECONCILE_REQUIRED")
  /\ job' = UpdateStateClear("RECONCILE_REQUIRED", "ABSENT", NoEvidence)
  /\ UNCHANGED <<operation, effect, evidence, canonical>>

\* A new version of the job row that keeps its owner.
Advance(row) ==
  /\ job.version < MaxVersion
  /\ job' = [row EXCEPT !.version = @ + 1]

\* The evidence of this job, or 404 when the id names no row.
Stored(e) == evidence[e].entity # NoEntity

-----------------------------------------------------------------------------
\* Claim and lease.

\* The INSERT of a fresh attempt and the UPDATE that makes it the owner;
\* `bumps` counts the versions the transaction has used.
Grant(w, rows, bumps) ==
  /\ job.attemptNumber < MaxAttempts
  /\ job.version + bumps =< MaxVersion
  /\ LET a == job.attemptNumber + 1
     IN /\ attempt' = [rows EXCEPT ![a] = [status |-> "CLAIMED", worker |-> w]]
        /\ job' = [job EXCEPT !.state = "CLAIMED", !.version = @ + bumps,
                              !.attemptNumber = a, !.active = a, !.worker = w,
                              !.lease = "LIVE"]
  /\ UNCHANGED <<operation, effect, evidence, canonical>>

\* Mutant of Claim: an expired lease is never taken over.
ClaimQueuedOnly(w) ==
  /\ job.state = "QUEUED"
  /\ Grant(w, attempt, 1)

\* Mutant of Claim: a pending cancellation does not keep the job from being taken over.
ClaimCancelling(w) ==
  /\ job.active # 0 => SeenExpired
  /\ job.state \notin TerminalStates \cup {"RECONCILE_REQUIRED"}
  /\ Grant(w, WithStatus(job.active, "EXPIRED"), IF job.active = 0 THEN 1 ELSE 2)

\* A queued job is granted; an owned one is taken over only after its lease is
\* seen expired, and parked instead when its attempt left an unsafe operation.
Claim(w) ==
  /\ job.state \notin TerminalStates \cup {"RECONCILE_REQUIRED", "CANCEL_REQUESTED"}
  /\ \/ /\ job.active = 0
        /\ job.state = "QUEUED"
        /\ Grant(w, attempt, 1)
     \/ /\ job.active # 0
        /\ SeenExpired
        /\ HasUnsafeOperationForAttempt(job.active)
        /\ Park(job.active)
     \/ /\ job.active # 0
        /\ SeenExpired
        /\ ~HasUnsafeOperationForAttempt(job.active)
        /\ Grant(w, WithStatus(job.active, "EXPIRED"), 2)

Start(c) ==
  /\ RequireOwner(c)
  /\ job.state = "CLAIMED"
  /\ Advance([job EXCEPT !.state = "RUNNING"])
  /\ attempt' = WithStatus(job.active, "RUNNING")
  /\ UNCHANGED <<operation, effect, evidence, canonical>>

Heartbeat(c) ==
  /\ RequireOwner(c)
  /\ Advance([job EXCEPT !.lease = "LIVE"])
  /\ UNCHANGED <<attempt, operation, effect, evidence, canonical>>

\* The passage of time.
LeaseLapses ==
  /\ job.lease = "LIVE"
  /\ job' = [job EXCEPT !.lease = "LAPSING"]
  /\ UNCHANGED <<attempt, operation, effect, evidence, canonical>>

LeaseExpires ==
  /\ job.lease = "LAPSING"
  /\ job' = [job EXCEPT !.lease = "EXPIRED"]
  /\ UNCHANGED <<attempt, operation, effect, evidence, canonical>>

-----------------------------------------------------------------------------
\* Operations: the stable identity of a side effect.

SetStatus(o, status) ==
  /\ operation' = [operation EXCEPT ![o].status = status]
  /\ UNCHANGED <<job, attempt, evidence, canonical>>

\* Preparing an operation that exists is a replay: it keeps its first attempt.
PrepareOperation(c, o) ==
  /\ RequireOwner(c)
  /\ operation[o].status = "ABSENT"
  /\ operation' = [operation EXCEPT ![o] = [status |-> "PREPARED", attempt |-> job.active,
                                            receipt |-> "NULL"]]
  /\ UNCHANGED <<job, attempt, effect, evidence, canonical>>

DispatchOperation(c, o) ==
  /\ RequireOwner(c)
  /\ operation[o].status \in {"PREPARED", "NOT_SUBMITTED"}
  /\ SetStatus(o, "IN_FLIGHT")
  /\ UNCHANGED effect

MarkNotSubmitted(c, o) ==
  /\ RequireOwner(c)
  /\ operation[o].status = "PREPARED"
  /\ SetStatus(o, "NOT_SUBMITTED")
  /\ UNCHANGED effect

\* The probe's controlled side effect: recorded and in flight in one transaction.
Apply(c, o) ==
  /\ RequireOwner(c)
  /\ operation[o].status \in {"PREPARED", "NOT_SUBMITTED"}
  /\ effect' = effect \cup {o}
  /\ SetStatus(o, "IN_FLIGHT")

\* The receipt comes from the caller or from the recorded effect.
ConfirmOperation(c, o, callerReceipt) ==
  /\ RequireOwner(c)
  /\ operation[o].status = "IN_FLIGHT"
  /\ callerReceipt \/ o \in effect
  /\ operation' = [operation EXCEPT ![o].status = "CONFIRMED", ![o].receipt = "REF"]
  /\ UNCHANGED <<job, attempt, effect, evidence, canonical>>

\* Mutant of MarkUnknownOutcome: the job is parked whatever its state is.
MarkUnknownOutcomeParks(o) ==
  /\ operation[o].status \in {"PREPARED", "IN_FLIGHT"}
  /\ job.version < MaxVersion
  /\ operation' = [operation EXCEPT ![o].status = "UNKNOWN_OUTCOME"]
  /\ attempt' = WithStatus(operation[o].attempt, "RECONCILE_REQUIRED")
  /\ job' = UpdateStateClear("RECONCILE_REQUIRED", "ABSENT", NoEvidence)
  /\ UNCHANGED <<effect, evidence, canonical>>

\* Not fenced: any worker may report an unknown outcome.  The attempt that is
\* closed is the one that prepared the operation, not the active one.
MarkUnknownOutcome(o) ==
  /\ operation[o].status \in {"PREPARED", "IN_FLIGHT"}
  /\ operation' = [operation EXCEPT ![o].status = "UNKNOWN_OUTCOME"]
  /\ attempt' = WithStatus(operation[o].attempt, "RECONCILE_REQUIRED")
  /\ \/ /\ job.state = "CANCEL_REQUESTED"
        /\ Advance([job EXCEPT !.outcome = "ABSENT"])
     \/ /\ job.state \in {"QUEUED", "CLAIMED", "RUNNING"}
        /\ job.version < MaxVersion
        /\ job' = UpdateStateClear("RECONCILE_REQUIRED", "ABSENT", NoEvidence)
     \/ /\ job.state \in TerminalStates \cup {"RECONCILE_REQUIRED"}
        /\ UNCHANGED job
  /\ UNCHANGED <<effect, evidence, canonical>>

\* Mutant of Reconcile: the recorded effect is not consulted.
ReconcileBlindly(o) ==
  /\ operation[o].status \in UnsafeStatuses
  /\ job.state \notin TerminalStates \cup {"CANCEL_REQUESTED"}
  /\ job.version < MaxVersion
  /\ operation' = [operation EXCEPT ![o].status = "NOT_SUBMITTED"]
  /\ attempt' = WithStatus(operation[o].attempt, "RECONCILED")
  /\ job' = UpdateStateClear("QUEUED", "ABSENT", NoEvidence)
  /\ UNCHANGED <<effect, evidence, canonical>>

\* Not fenced either.  The recorded effect decides; the job is requeued
\* whatever its other operations are, unless a cancellation is pending.
Reconcile(o) ==
  /\ operation[o].status \in UnsafeStatuses
  /\ operation' = [operation EXCEPT
       ![o].status = IF o \in effect THEN "CONFIRMED" ELSE "NOT_SUBMITTED",
       ![o].receipt = IF o \in effect THEN "REF" ELSE "NULL"]
  /\ attempt' = WithStatus(operation[o].attempt, "RECONCILED")
  /\ \/ /\ job.state = "CANCEL_REQUESTED"
        /\ Advance([job EXCEPT !.outcome = "ABSENT"])
     \/ /\ job.state \notin TerminalStates \cup {"CANCEL_REQUESTED"}
        /\ job.version < MaxVersion
        /\ job' = UpdateStateClear("QUEUED", "ABSENT", NoEvidence)
     \/ /\ job.state \in TerminalStates
        /\ UNCHANGED job
  /\ UNCHANGED <<effect, evidence, canonical>>

-----------------------------------------------------------------------------
\* Evidence.

\* Mutant of FreshEvidence: existing evidence is overwritten.
FreshEvidenceAlways(e, n) == e \in EvidenceIds /\ n \in Entities

\* Neither the evidence id nor the entity (the natural key) is taken.
FreshEvidence(e, n) ==
  /\ ~Stored(e)
  /\ \A f \in EvidenceIds : evidence[f].entity # n

StoreEvidence(e, n, out, a) ==
  /\ FreshEvidence(e, n)
  /\ evidence' = [evidence EXCEPT ![e] = [entity |-> n, attempt |-> a, outcome |-> out]]
  /\ UNCHANGED <<job, attempt, operation, effect, canonical>>

IngestOwned(c, e, n, out) == RequireOwner(c) /\ StoreEvidence(e, n, out, job.active)

\* A queued job has no owner: the evidence is stored with a NULL attempt.
IngestQueued(e, n, out) == job.state = "QUEUED" /\ StoreEvidence(e, n, out, 0)

\* Canonical metadata ingest registers the artifact of an entity.
RegisterCanonical(n) ==
  /\ canonical' = canonical \cup {n}
  /\ UNCHANGED <<job, attempt, operation, effect, evidence>>

-----------------------------------------------------------------------------
\* Terminal transitions.

\* requireVerifiedTerminalEvidence
VerifiedTerminalEvidence(e) ==
  /\ evidence[e].attempt = job.active
  /\ evidence[e].outcome = "PASS"
  /\ evidence[e].entity \in canonical

\* Mutant of Complete: only the operations of the active attempt are looked at.
CompleteOwnAttempt(c, e) ==
  /\ RequireOwner(c)
  /\ job.state \in {"CLAIMED", "RUNNING"}
  /\ Stored(e)
  /\ ~HasUnsafeOperationForAttempt(job.active)
  /\ VerifiedTerminalEvidence(e)
  /\ FinishTerminal("COMPLETED", evidence[e].outcome, e)

Complete(c, e) ==
  /\ RequireOwner(c)
  /\ job.state \in {"CLAIMED", "RUNNING"}
  /\ Stored(e)
  /\ ~HasUnsafeOperation
  /\ VerifiedTerminalEvidence(e)
  /\ FinishTerminal("COMPLETED", evidence[e].outcome, e)

FailPlatform(c, e) ==
  /\ RequireOwner(c)
  /\ Stored(e)
  /\ evidence[e].outcome \in PlatformOutcomes
  /\ FinishTerminal("FAILED_PLATFORM", evidence[e].outcome, e)

CancelQueued(e) ==
  /\ job.state = "QUEUED"
  /\ Stored(e)
  /\ evidence[e].outcome = "CANCELLED"
  /\ FinishTerminal("CANCELLED", "CANCELLED", e)

\* Mutant of RequestCancel: the version is not advanced.
RequestCancelUnversioned ==
  /\ job.state \in OwnerStates \ {"CANCEL_REQUESTED"}
  /\ job' = [job EXCEPT !.state = "CANCEL_REQUESTED", !.cancelRequested = TRUE]
  /\ UNCHANGED <<attempt, operation, effect, evidence, canonical>>

RequestCancel ==
  /\ job.state \in OwnerStates \ {"CANCEL_REQUESTED"}
  /\ Advance([job EXCEPT !.state = "CANCEL_REQUESTED", !.cancelRequested = TRUE])
  /\ UNCHANGED <<attempt, operation, effect, evidence, canonical>>

AcknowledgeCancel(c, e) ==
  /\ RequireOwner(c)
  /\ job.state = "CANCEL_REQUESTED"
  /\ ~HasUnsafeOperation
  /\ Stored(e)
  /\ evidence[e].outcome = "CANCELLED"
  /\ FinishTerminal("CANCELLED", "CANCELLED", e)

TimeoutQueued(e) ==
  /\ job.state = "QUEUED"
  /\ Stored(e)
  /\ evidence[e].outcome \in PlatformOutcomes
  /\ FinishTerminal("FAILED_PLATFORM", evidence[e].outcome, e)

\* Mutant of TimeoutOwned: a job without unresolved operations is parked as well.
TimeoutOwnedParks(c, e) ==
  /\ RequireOwner(c)
  /\ e \in EvidenceIds
  /\ Park(job.active)

\* The evidence is looked up only at a safe boundary.
TimeoutOwned(c, e) ==
  /\ RequireOwner(c)
  /\ \/ HasUnsafeOperation /\ Park(job.active)
     \/ /\ ~HasUnsafeOperation
        /\ Stored(e)
        /\ evidence[e].outcome \in PlatformOutcomes
        /\ FinishTerminal("FAILED_PLATFORM", evidence[e].outcome, e)

-----------------------------------------------------------------------------
\* Requests that carry an owner credential.
OwnerRequest(c) ==
  \/ Start(c)
  \/ Heartbeat(c)
  \/ \E o \in Operations :
       \/ PrepareOperation(c, o)
       \/ DispatchOperation(c, o)
       \/ MarkNotSubmitted(c, o)
       \/ Apply(c, o)
       \/ \E r \in BOOLEAN : ConfirmOperation(c, o, r)
  \/ \E e \in EvidenceIds :
       \/ \E n \in Entities, out \in Outcomes : IngestOwned(c, e, n, out)
       \/ Complete(c, e)
       \/ FailPlatform(c, e)
       \/ AcknowledgeCancel(c, e)
       \/ TimeoutOwned(c, e)

\* Requests that any authorised caller may send.
OpenRequest ==
  \/ \E w \in Workers : Claim(w)
  \/ \E o \in Operations : MarkUnknownOutcome(o) \/ Reconcile(o)
  \/ \E e \in EvidenceIds :
       \/ \E n \in Entities, out \in Outcomes : IngestQueued(e, n, out)
       \/ CancelQueued(e)
       \/ TimeoutQueued(e)
  \/ RequestCancel

Next ==
  \/ \E c \in Credential : OwnerRequest(c)
  \/ OpenRequest
  \/ \E n \in Entities : RegisterCanonical(n)
  \/ LeaseLapses
  \/ LeaseExpires

Spec == Init /\ [][Next]_vars

-----------------------------------------------------------------------------
\* Safety.

\* The owner columns and the lease are set together exactly in the owner states,
\* and the owner is always the newest attempt, held by the worker that claimed
\* it: no path makes an earlier attempt the owner again (claimLocked,
\* updateStateClear).
OwnerIsNewestAttempt ==
  /\ job.state \in OwnerStates <=> job.active # 0
  /\ job.active = 0 <=> job.worker = NoWorker
  /\ job.active = 0 <=> job.lease = "NONE"
  /\ job.active # 0 => /\ job.active = job.attemptNumber
                       /\ job.worker = attempt[job.active].worker
  /\ \A a \in Attempts : attempt[a].status = "ABSENT" <=> a > job.attemptNumber

\* A terminal job carries the evidence its verdict needs, and COMPLETED needs
\* all of: PASS evidence of the one attempt that completed, a registered
\* artifact, and no operation of any attempt left unresolved.
VerdictIsProved ==
  /\ job.state \in TerminalStates =>
       /\ job.evidence \in EvidenceIds
       /\ Stored(job.evidence)
       /\ job.outcome = evidence[job.evidence].outcome
  /\ job.state = "FAILED_PLATFORM" => job.outcome \in PlatformOutcomes
  /\ job.state = "CANCELLED" => job.outcome = "CANCELLED"
  /\ job.state = "COMPLETED" =>
       /\ job.outcome = "PASS"
       /\ evidence[job.evidence].entity \in canonical
       /\ evidence[job.evidence].attempt = job.attemptNumber
       /\ ~HasUnsafeOperation
  /\ \A a \in Attempts : attempt[a].status = "COMPLETED" =>
       job.state = "COMPLETED" /\ a = job.attemptNumber

\* A parked job always has an operation to reconcile.  Reconcile is the only
\* way out of RECONCILE_REQUIRED, so without one the job could never move.
ParkedJobHasWork == job.state = "RECONCILE_REQUIRED" => HasUnsafeOperation

\* A recorded side effect is never declared NOT_SUBMITTED, nor is its operation
\* at a point from which it may be submitted again, and an operation is
\* CONFIRMED exactly when a receipt is on record.
EffectIsNeverDenied ==
  /\ \A o \in effect : operation[o].status \in {"IN_FLIGHT", "UNKNOWN_OUTCOME", "CONFIRMED"}
  /\ \A o \in Operations : operation[o].status = "CONFIRMED" <=> operation[o].receipt = "REF"

\* Every prepared operation names the attempt that prepared it.
OperationsHaveAttempts ==
  \A o \in Operations :
    /\ operation[o].status = "ABSENT" <=> operation[o].attempt = 0
    /\ operation[o].attempt =< job.attemptNumber

\* The inductive invariant: the invariants above support one another.
IndInv ==
  /\ TypeOK
  /\ OwnerIsNewestAttempt
  /\ VerdictIsProved
  /\ ParkedJobHasWork
  /\ EffectIsNeverDenied
  /\ OperationsHaveAttempts

Fences(a, v) == job.active = a /\ job.version = v

\* The version is a fencing token: whatever changes the state or the owner of
\* the job invalidates every credential handed out before, and a credential
\* that has stopped being valid never becomes valid again.
FencingToken ==
  [][/\ <<job.state, job.active>>' # <<job.state, job.active>> => job.version' > job.version
     /\ \A a \in Attempts, v \in 0 .. job.version :
          ~Fences(a, v) => ~(job.active' = a /\ job.version' = v)]_vars

\* A terminal row never changes again, and neither does the evidence it cites,
\* although unknown, reconcile and claim may still be called on the job.
TerminalIsFinal ==
  [][job.state \in TerminalStates =>
       /\ UNCHANGED job
       /\ evidence'[job.evidence] = evidence[job.evidence]]_vars

-----------------------------------------------------------------------------
\* Refinement: the detailed job row seen as a FencedJob.
Phase ==
  CASE job.state = "QUEUED" -> "READY"
    [] job.state \in {"CLAIMED", "RUNNING"} -> "OWNED"
    [] job.state = "CANCEL_REQUESTED" -> "STOPPING"
    [] job.state = "RECONCILE_REQUIRED" -> "DOUBT"
    [] OTHER -> job.state

Promise == INSTANCE FencedJob WITH
  phase <- Phase, epoch <- job.attemptNumber, fence <- job.version

\* Every transaction on the job row is a step the abstract job allows; the
\* transactions on operations and evidence alone are stuttering steps.
ImplementsFencedJob == Promise!JobSpec
=============================================================================
