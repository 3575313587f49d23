------------------------ MODULE DurableWorkerProofs ------------------------
(***************************************************************************)
(* Theorems about DurableExecution and DurableWorker, for any number of    *)
(* workers, operations, evidence ids, entities and faults and any bounds.  *)
(* Of the boundary: its safety invariants, what no step may do, and that   *)
(* it implements FencedJob.  Of the workers: they use only what the        *)
(* handlers allow, so all of that holds of them too; none ever presents a  *)
(* fencing tuple that was handed out to another; where the workers are     *)
(* agrees with the job, its operation, its file and its evidence           *)
(* (PlaceInv, an inductive invariant), so a completed job is confirmed and *)
(* a run of the Agent is in flight; and a wedge is for good.               *)
(***************************************************************************)
EXTENDS DurableWorker, TLAPS

-----------------------------------------------------------------------------
\* Rewriting the status of one attempt keeps the attempt table well typed.
LEMMA WithStatusType ==
  ASSUME TypeOK, NEW a, NEW s \in AttemptStatuses
  PROVE  WithStatus(a, s) \in [Attempts -> AttemptRow]
  BY DEF TypeOK, WithStatus, AttemptRow

\* Only the named attempt changes, and only in its status (the UPDATE ... WHERE
\* attempt_id = ? of every handler).
LEMMA WithStatusValue ==
  ASSUME TypeOK, NEW a, NEW s, NEW b \in Attempts
  PROVE  /\ WithStatus(a, s)[b].status = IF b = a THEN s ELSE attempt[b].status
         /\ WithStatus(a, s)[b].worker = attempt[b].worker
  BY DEF TypeOK, WithStatus, AttemptRow

\* A cleared row is well typed below the version bound.
LEMMA UpdateStateClearType ==
  ASSUME TypeOK, job.version < MaxVersion, NEW s \in JobStates,
         NEW out \in Outcomes \cup {"ABSENT"}, NEW ev \in EvidenceIds \cup {NoEvidence}
  PROVE  UpdateStateClear(s, out, ev) \in JobRow
<1>1. job.version + 1 \in 0 .. MaxVersion /\ 0 \in 0 .. MaxAttempts
  BY BoundsAssumption DEF TypeOK, JobRow
<1>2. "NONE" \in LeaseStates
  BY DEF LeaseStates
<1>3. QED
  BY <1>1, <1>2 DEF TypeOK, UpdateStateClear, JobRow

\* A terminal transition (finishTerminal) keeps the tables well typed.
LEMMA FinishTerminalType ==
  ASSUME TypeOK, NEW s \in TerminalStates, NEW out \in Outcomes \cup {"ABSENT"},
         NEW ev \in EvidenceIds, FinishTerminal(s, out, ev)
  PROVE  TypeOK'
<1>1. s \in JobStates /\ s \in AttemptStatuses
  BY DEF JobStates, AttemptStatuses
<1>2. QED
  BY <1>1, WithStatusType, UpdateStateClearType DEF FinishTerminal, TypeOK

\* Parking a job for reconciliation keeps the tables well typed.
LEMMA ParkType ==
  ASSUME TypeOK, NEW a, Park(a)
  PROVE  TypeOK'
<1>1. "RECONCILE_REQUIRED" \in JobStates /\ "RECONCILE_REQUIRED" \in AttemptStatuses
  BY DEF JobStates, AttemptStatuses
<1>2. QED
  BY <1>1, WithStatusType, UpdateStateClearType DEF Park, TypeOK

\* A new version of a well typed row is well typed below the version bound.
LEMMA AdvanceType ==
  ASSUME TypeOK, NEW row \in JobRow, row.version = job.version, Advance(row)
  PROVE  job' \in JobRow
<1>1. job.version + 1 \in 0 .. MaxVersion
  BY BoundsAssumption DEF TypeOK, JobRow, Advance
<1>2. QED
  BY <1>1 DEF Advance, JobRow

\* The INSERT and UPDATE that make a fresh attempt the owner are well typed within
\* the bounds.
LEMMA GrantType ==
  ASSUME TypeOK, NEW w \in Workers, NEW k \in Nat,
         NEW rows \in [Attempts -> AttemptRow], Grant(w, rows, k)
  PROVE  TypeOK'
<1> DEFINE a == job.attemptNumber + 1
<1>1. a \in Attempts /\ a \in 0 .. MaxAttempts /\ job.version + k \in 0 .. MaxVersion
  BY BoundsAssumption DEF Grant, TypeOK, JobRow, Attempts
<1>2. "CLAIMED" \in JobStates /\ "CLAIMED" \in AttemptStatuses /\ "LIVE" \in LeaseStates
  BY DEF JobStates, OwnerStates, AttemptStatuses, LeaseStates
<1>3. job' \in JobRow
  BY <1>1, <1>2 DEF Grant, TypeOK, JobRow
<1>4. attempt' \in [Attempts -> AttemptRow]
  BY <1>1, <1>2 DEF Grant, AttemptRow
<1>5. QED
  BY <1>3, <1>4 DEF Grant, TypeOK

\* Each outcome of claimLocked keeps the tables well typed.
LEMMA ClaimType ==
  ASSUME TypeOK, NEW w \in Workers, Claim(w)
  PROVE  TypeOK'
<1>1. CASE Grant(w, attempt, 1)
  BY <1>1, GrantType DEF TypeOK
<1>2. CASE Park(job.active)
  BY <1>2, ParkType
<1>3. CASE Grant(w, WithStatus(job.active, "EXPIRED"), 2)
  BY <1>3, GrantType, WithStatusType DEF AttemptStatuses
<1>4. QED
  BY <1>1, <1>2, <1>3 DEF Claim

\* Each owner request keeps the tables well typed.
LEMMA OwnerRequestType ==
  ASSUME TypeOK, NEW c \in Credential, OwnerRequest(c)
  PROVE  TypeOK'
<1> USE DEF TypeOK
<1>0. /\ OwnerStates \subseteq JobStates /\ "RUNNING" \in JobStates
      /\ {"RUNNING"} \cup TerminalStates \subseteq AttemptStatuses
      /\ {"LIVE", "LAPSING", "EXPIRED"} \subseteq LeaseStates
  BY DEF JobStates, OwnerStates, AttemptStatuses, LeaseStates
<1>1. CASE Start(c)
  <2>1. job' \in JobRow
    <3>1. [job EXCEPT !.state = "RUNNING"] \in JobRow
      BY <1>0 DEF JobRow
    <3>2. QED
      BY <1>1, <3>1, AdvanceType DEF Start, JobRow
  <2>2. QED
    BY <1>0, <1>1, <2>1, WithStatusType DEF Start
<1>2. CASE Heartbeat(c)
  <2>1. [job EXCEPT !.lease = "LIVE"] \in JobRow
    BY <1>0 DEF JobRow
  <2>2. QED
    BY <1>2, <2>1, AdvanceType DEF Heartbeat, JobRow
<1>3. ASSUME NEW o \in Operations, PrepareOperation(c, o) PROVE TypeOK'
  BY <1>3 DEF PrepareOperation, OperationRow, Receipts, OperationStatuses, UnsafeStatuses, JobRow
<1>4. ASSUME NEW o \in Operations, DispatchOperation(c, o) PROVE TypeOK'
  BY <1>4 DEF DispatchOperation, SetStatus, OperationRow, OperationStatuses, UnsafeStatuses
<1>5. ASSUME NEW o \in Operations, MarkNotSubmitted(c, o) PROVE TypeOK'
  BY <1>5 DEF MarkNotSubmitted, SetStatus, OperationRow, OperationStatuses
<1>6. ASSUME NEW o \in Operations, Apply(c, o) PROVE TypeOK'
  BY <1>6 DEF Apply, SetStatus, OperationRow, OperationStatuses, UnsafeStatuses
<1>7. ASSUME NEW o \in Operations, NEW r \in BOOLEAN, ConfirmOperation(c, o, r) PROVE TypeOK'
  BY <1>7 DEF ConfirmOperation, OperationRow, Receipts, OperationStatuses
<1>8. ASSUME NEW e \in EvidenceIds, NEW n \in Entities, NEW out \in Outcomes,
             IngestOwned(c, e, n, out)
      PROVE  TypeOK'
  BY <1>8 DEF IngestOwned, StoreEvidence, EvidenceRow, JobRow
<1>9. ASSUME NEW e \in EvidenceIds, Complete(c, e) PROVE TypeOK'
  BY <1>9, FinishTerminalType DEF Complete, EvidenceRow, TerminalStates
<1>10. ASSUME NEW e \in EvidenceIds, FailPlatform(c, e) PROVE TypeOK'
  BY <1>10, FinishTerminalType DEF FailPlatform, EvidenceRow, TerminalStates
<1>11. ASSUME NEW e \in EvidenceIds, AcknowledgeCancel(c, e) PROVE TypeOK'
  <2>1. "CANCELLED" \in Outcomes \cup {"ABSENT"}
    BY <1>11 DEF AcknowledgeCancel, EvidenceRow
  <2>2. QED
    BY <1>11, <2>1, FinishTerminalType DEF AcknowledgeCancel, TerminalStates
<1>12. ASSUME NEW e \in EvidenceIds, TimeoutOwned(c, e) PROVE TypeOK'
  BY <1>12, FinishTerminalType, ParkType DEF TimeoutOwned, EvidenceRow, TerminalStates
<1>13. QED
  BY <1>1, <1>2, <1>3, <1>4, <1>5, <1>6, <1>7, <1>8, <1>9, <1>10, <1>11, <1>12
  DEF OwnerRequest

\* Each request that carries no credential keeps the tables well typed.
LEMMA OpenRequestType ==
  ASSUME TypeOK, OpenRequest
  PROVE  TypeOK'
<1> USE DEF TypeOK
<1>0. /\ {"QUEUED", "RECONCILE_REQUIRED", "CANCEL_REQUESTED"} \subseteq JobStates
      /\ {"RECONCILE_REQUIRED", "RECONCILED"} \subseteq AttemptStatuses
      /\ {"UNKNOWN_OUTCOME", "CONFIRMED", "NOT_SUBMITTED"} \subseteq OperationStatuses
  BY DEF JobStates, OwnerStates, AttemptStatuses, OperationStatuses, UnsafeStatuses
<1>a. [job EXCEPT !.outcome = "ABSENT"] \in JobRow
  BY DEF JobRow
<1>1. ASSUME NEW w \in Workers, Claim(w) PROVE TypeOK'
  BY <1>1, ClaimType
<1>2. ASSUME NEW o \in Operations, MarkUnknownOutcome(o) PROVE TypeOK'
  <2>1. job' \in JobRow
    <3>1. CASE Advance([job EXCEPT !.outcome = "ABSENT"])
      BY <3>1, <1>a, AdvanceType DEF JobRow
    <3>2. CASE /\ job.version < MaxVersion
               /\ job' = UpdateStateClear("RECONCILE_REQUIRED", "ABSENT", NoEvidence)
      BY <3>2, <1>0, UpdateStateClearType
    <3>3. QED
      BY <1>2, <3>1, <3>2 DEF MarkUnknownOutcome
  <2>2. operation' \in [Operations -> OperationRow]
    BY <1>2, <1>0 DEF MarkUnknownOutcome, OperationRow
  <2>3. QED
    BY <1>2, <1>0, <2>1, <2>2, WithStatusType DEF MarkUnknownOutcome
<1>3. ASSUME NEW o \in Operations, Reconcile(o) PROVE TypeOK'
  <2>1. job' \in JobRow
    <3>1. CASE Advance([job EXCEPT !.outcome = "ABSENT"])
      BY <3>1, <1>a, AdvanceType DEF JobRow
    <3>2. CASE /\ job.version < MaxVersion
               /\ job' = UpdateStateClear("QUEUED", "ABSENT", NoEvidence)
      BY <3>2, <1>0, UpdateStateClearType
    <3>3. QED
      BY <1>3, <3>1, <3>2 DEF Reconcile
  <2>2. operation' \in [Operations -> OperationRow]
    <3>1. operation[o] \in OperationRow
      OBVIOUS
    <3>2. [operation[o] EXCEPT !.status = operation'[o].status, !.receipt = operation'[o].receipt] \in OperationRow
      BY <1>3, <1>0, <3>1 DEF Reconcile, OperationRow, Receipts
    <3>3. QED
      BY <1>3, <3>1, <3>2 DEF Reconcile
  <2>3. QED
    BY <1>3, <1>0, <2>1, <2>2, WithStatusType DEF Reconcile
<1>4. ASSUME NEW e \in EvidenceIds, NEW n \in Entities, NEW out \in Outcomes,
             IngestQueued(e, n, out)
      PROVE  TypeOK'
  BY <1>4, BoundsAssumption DEF IngestQueued, StoreEvidence, EvidenceRow
<1>5. ASSUME NEW e \in EvidenceIds, CancelQueued(e) PROVE TypeOK'
  <2>1. "CANCELLED" \in Outcomes \cup {"ABSENT"}
    BY <1>5 DEF CancelQueued, EvidenceRow
  <2>2. QED
    BY <1>5, <2>1, FinishTerminalType DEF CancelQueued, TerminalStates
<1>6. ASSUME NEW e \in EvidenceIds, TimeoutQueued(e) PROVE TypeOK'
  BY <1>6, FinishTerminalType DEF TimeoutQueued, EvidenceRow, TerminalStates
<1>7. CASE RequestCancel
  <2>1. [job EXCEPT !.state = "CANCEL_REQUESTED", !.cancelRequested = TRUE] \in JobRow
    BY <1>0 DEF JobRow
  <2>2. QED
    BY <1>7, <2>1, AdvanceType DEF RequestCancel, JobRow
<1>8. QED
  BY <1>1, <1>2, <1>3, <1>4, <1>5, <1>6, <1>7 DEF OpenRequest

\* Every transaction, and the clock, keeps the tables well typed.
LEMMA TypeStep ==
  ASSUME TypeOK, [Next]_vars
  PROVE  TypeOK'
<1>1. ASSUME NEW n \in Entities, RegisterCanonical(n) PROVE TypeOK'
  BY <1>1 DEF RegisterCanonical, TypeOK
<1>2. CASE LeaseLapses
  BY <1>2 DEF LeaseLapses, TypeOK, JobRow, LeaseStates
<1>3. CASE LeaseExpires
  BY <1>3 DEF LeaseExpires, TypeOK, JobRow, LeaseStates
<1>4. CASE UNCHANGED vars
  BY <1>4 DEF vars, TypeOK
<1>5. QED
  BY <1>1, <1>2, <1>3, <1>4, OwnerRequestType, OpenRequestType DEF Next

\* The row that submit stores is well typed.
LEMMA TypeInit == Init => TypeOK
  BY BoundsAssumption
  DEF Init, TypeOK, JobRow, AttemptRow, OperationRow, EvidenceRow, NoAttempt,
      NoOperation, NoRow, JobStates, LeaseStates, Receipts

\* The rows of the four tables always have columns of their types.
THEOREM TypeCorrect == Spec => []TypeOK
  BY TypeInit, TypeStep, PTL DEF Spec

-----------------------------------------------------------------------------
\* The inductive invariant, one lemma per kind of transaction.

\* A job that has just been submitted satisfies the inductive invariant.
LEMMA IndInit == Init => IndInv
<1> SUFFICES ASSUME Init PROVE IndInv
  OBVIOUS
<1>1. TypeOK
  BY TypeInit
<1>2. OwnerIsNewestAttempt
  BY BoundsAssumption DEF Init, OwnerIsNewestAttempt, NoAttempt, Attempts, OwnerStates
<1>3. VerdictIsProved
  BY DEF Init, VerdictIsProved, NoAttempt, TerminalStates
<1>4. ParkedJobHasWork /\ EffectIsNeverDenied /\ OperationsHaveAttempts
  BY DEF Init, ParkedJobHasWork, EffectIsNeverDenied, OperationsHaveAttempts, NoOperation
<1>5. QED
  BY <1>1, <1>2, <1>3, <1>4 DEF IndInv

\* A terminal transition, given what its handler checked of the evidence.
LEMMA FinishTerminalSafe ==
  ASSUME IndInv, TypeOK', NEW s \in TerminalStates, NEW ev \in EvidenceIds,
         FinishTerminal(s, evidence[ev].outcome, ev),
         job.state \notin TerminalStates,
         Stored(ev),
         s = "FAILED_PLATFORM" => evidence[ev].outcome \in PlatformOutcomes,
         s = "CANCELLED" => evidence[ev].outcome = "CANCELLED",
         s = "COMPLETED" => /\ job.active # 0
                            /\ VerifiedTerminalEvidence(ev)
                            /\ ~HasUnsafeOperation
  PROVE  IndInv'
<1> USE DEF IndInv
<1>0. /\ job' = UpdateStateClear(s, evidence[ev].outcome, ev)
      /\ attempt' = WithStatus(job.active, s)
      /\ UNCHANGED <<operation, effect, evidence, canonical>>
  BY DEF FinishTerminal
<1>1. /\ job'.state = s /\ job'.active = 0 /\ job'.worker = NoWorker /\ job'.lease = "NONE"
      /\ job'.attemptNumber = job.attemptNumber /\ job'.evidence = ev
      /\ job'.outcome = evidence[ev].outcome
  BY <1>0 DEF UpdateStateClear, TypeOK, JobRow
<1>2. OwnerIsNewestAttempt'
  <2>1. \A a \in Attempts : attempt'[a].status = "ABSENT" <=> attempt[a].status = "ABSENT"
    BY <1>0, WithStatusValue DEF OwnerIsNewestAttempt, TerminalStates, TypeOK, JobRow, Attempts
  <2>2. QED
    BY <1>1, <2>1 DEF OwnerIsNewestAttempt, TerminalStates, OwnerStates
<1>3. VerdictIsProved'
  <2>1. \A a \in Attempts : attempt'[a].status = "COMPLETED" =>
          job'.state = "COMPLETED" /\ a = job'.attemptNumber
    BY <1>0, <1>1 DEF VerdictIsProved, OwnerIsNewestAttempt, WithStatus, TypeOK, AttemptRow, TerminalStates
  <2>2. Stored(ev)' /\ HasUnsafeOperation' = HasUnsafeOperation
    BY <1>0 DEF Stored, HasUnsafeOperation, UnsafeOperations
  <2>3. s = "COMPLETED" => /\ evidence[ev].entity \in canonical
                           /\ evidence[ev].attempt = job.attemptNumber
                           /\ evidence[ev].outcome = "PASS"
    BY DEF VerifiedTerminalEvidence, OwnerIsNewestAttempt
  <2>4. QED
    BY <1>0, <1>1, <2>1, <2>2, <2>3 DEF VerdictIsProved
<1>4. ParkedJobHasWork'
  BY <1>1 DEF ParkedJobHasWork, TerminalStates
<1>5. EffectIsNeverDenied' /\ OperationsHaveAttempts'
  BY <1>0, <1>1 DEF EffectIsNeverDenied, OperationsHaveAttempts
<1>6. QED
  BY <1>2, <1>3, <1>4, <1>5

\* Parking a job, given that some operation is unsafe.
LEMMA ParkSafe ==
  ASSUME IndInv, TypeOK', Park(job.active), HasUnsafeOperation,
         job.state \notin TerminalStates
  PROVE  IndInv'
<1> USE DEF IndInv
<1>0. /\ job' = UpdateStateClear("RECONCILE_REQUIRED", "ABSENT", NoEvidence)
      /\ attempt' = WithStatus(job.active, "RECONCILE_REQUIRED")
      /\ UNCHANGED <<operation, effect, evidence, canonical>>
  BY DEF Park
<1>1. /\ job'.state = "RECONCILE_REQUIRED" /\ job'.active = 0 /\ job'.worker = NoWorker
      /\ job'.lease = "NONE" /\ job'.attemptNumber = job.attemptNumber
  BY <1>0 DEF UpdateStateClear, TypeOK, JobRow
<1>2. OwnerIsNewestAttempt'
  <2>1. \A a \in Attempts : attempt'[a].status = "ABSENT" <=> attempt[a].status = "ABSENT"
    BY <1>0, WithStatusValue DEF OwnerIsNewestAttempt, TypeOK, JobRow, Attempts
  <2>2. QED
    BY <1>1, <2>1 DEF OwnerIsNewestAttempt, OwnerStates
<1>3. VerdictIsProved'
  BY <1>0, <1>1 DEF VerdictIsProved, WithStatus, TypeOK, AttemptRow, TerminalStates
<1>4. ParkedJobHasWork'
  BY <1>0 DEF HasUnsafeOperation, UnsafeOperations, ParkedJobHasWork
<1>5. EffectIsNeverDenied' /\ OperationsHaveAttempts'
  BY <1>0, <1>1 DEF EffectIsNeverDenied, OperationsHaveAttempts
<1>6. QED
  BY <1>2, <1>3, <1>4, <1>5

\* A grant out of an attempt table that only differs in the rows of ended attempts.
LEMMA GrantSafe ==
  ASSUME IndInv, TypeOK', NEW w \in Workers, NEW k \in Nat,
         NEW rows \in [Attempts -> AttemptRow],
         \A a \in Attempts : /\ rows[a].status = "ABSENT" <=> attempt[a].status = "ABSENT"
                             /\ rows[a].status = "COMPLETED" => attempt[a].status = "COMPLETED",
         Grant(w, rows, k),
         job.state \notin TerminalStates
  PROVE  IndInv'
<1> USE DEF IndInv
<1> DEFINE n == job.attemptNumber + 1
<1>0. /\ n \in Attempts /\ n # 0
      /\ attempt' = [rows EXCEPT ![n] = [status |-> "CLAIMED", worker |-> w]]
      /\ UNCHANGED <<operation, effect, evidence, canonical>>
  BY BoundsAssumption DEF Grant, TypeOK, JobRow, Attempts
<1>1. /\ job'.state = "CLAIMED" /\ job'.active = n /\ job'.worker = w
      /\ job'.lease = "LIVE" /\ job'.attemptNumber = n
  BY DEF Grant, TypeOK, JobRow
<1>2. OwnerIsNewestAttempt'
  <2>1. \A a \in Attempts : attempt'[a].status = "ABSENT" <=> a > job'.attemptNumber
    BY <1>0, <1>1 DEF OwnerIsNewestAttempt, TypeOK, JobRow, Attempts
  <2>2. attempt'[n].worker = w /\ w # NoWorker
    BY <1>0, NullsAssumption
  <2>3. QED
    BY <1>0, <1>1, <2>1, <2>2 DEF OwnerIsNewestAttempt, OwnerStates
<1>3. VerdictIsProved'
  BY <1>0, <1>1 DEF VerdictIsProved, TerminalStates
<1>4. ParkedJobHasWork'
  BY <1>1 DEF ParkedJobHasWork
<1>5. EffectIsNeverDenied' /\ OperationsHaveAttempts'
  BY <1>0, <1>1 DEF EffectIsNeverDenied, OperationsHaveAttempts, TypeOK, JobRow, OperationRow
<1>6. QED
  BY <1>2, <1>3, <1>4, <1>5

\* Owner requests on one operation: the job, the attempts and the evidence stay.
LEMMA OperationSafe ==
  ASSUME IndInv, TypeOK', NEW c \in Credential, NEW o \in Operations,
         \/ PrepareOperation(c, o)
         \/ DispatchOperation(c, o)
         \/ MarkNotSubmitted(c, o)
         \/ Apply(c, o)
         \/ \E r \in BOOLEAN : ConfirmOperation(c, o, r)
  PROVE  IndInv'
<1> USE DEF IndInv
<1>0. /\ UNCHANGED <<job, attempt, evidence, canonical>>
      /\ job.state \in OwnerStates
  BY DEF RequireOwner, PrepareOperation, DispatchOperation, MarkNotSubmitted, Apply,
         ConfirmOperation, SetStatus
<1>1. OwnerIsNewestAttempt'
  BY <1>0 DEF OwnerIsNewestAttempt
<1>2. VerdictIsProved'
  <2>1. job.state \notin TerminalStates
    BY <1>0 DEF OwnerStates, TerminalStates
  <2>2. QED
    BY <1>0, <2>1 DEF VerdictIsProved, TerminalStates
<1>3. ParkedJobHasWork'
  BY <1>0 DEF ParkedJobHasWork, OwnerStates
<1>4. EffectIsNeverDenied'
  <2> USE DEF EffectIsNeverDenied, TypeOK, OperationRow
  <2>1. CASE PrepareOperation(c, o)
    BY <2>1 DEF PrepareOperation
  <2>2. CASE DispatchOperation(c, o)
    BY <2>2 DEF DispatchOperation, SetStatus
  <2>3. CASE MarkNotSubmitted(c, o)
    BY <2>3 DEF MarkNotSubmitted, SetStatus
  <2>4. CASE Apply(c, o)
    BY <2>4 DEF Apply, SetStatus
  <2>5. ASSUME NEW r \in BOOLEAN, ConfirmOperation(c, o, r) PROVE EffectIsNeverDenied'
    BY <2>5 DEF ConfirmOperation
  <2>6. QED
    BY <2>1, <2>2, <2>3, <2>4, <2>5
<1>5. OperationsHaveAttempts'
  <2>1. job.active # 0 /\ job.active = job.attemptNumber /\ job.attemptNumber \in Nat
    BY <1>0 DEF OwnerIsNewestAttempt, TypeOK, JobRow
  <2>2. QED
    BY <1>0, <2>1 DEF OperationsHaveAttempts, PrepareOperation, DispatchOperation,
       MarkNotSubmitted, Apply, ConfirmOperation, SetStatus, TypeOK, OperationRow
<1>6. QED
  BY <1>1, <1>2, <1>3, <1>4, <1>5

\* The attempt that unknown and reconcile close has been created, and is not the
\* one of a completed job.
LEMMA ClosedAttempt ==
  ASSUME IndInv, NEW o \in Operations, operation[o].status \in UnsafeStatuses
  PROVE  /\ operation[o].attempt \in Attempts
         /\ attempt[operation[o].attempt].status # "ABSENT"
         /\ job.state # "COMPLETED"
         /\ \A a \in Attempts : attempt[a].status # "COMPLETED"
<1> USE DEF IndInv
<1>1. operation[o].attempt # 0 /\ operation[o].attempt =< job.attemptNumber
  BY DEF OperationsHaveAttempts, UnsafeStatuses
<1>2. operation[o].attempt \in Attempts
  BY <1>1, BoundsAssumption DEF TypeOK, OperationRow, Attempts
<1>3. attempt[operation[o].attempt].status # "ABSENT"
  BY <1>1, <1>2 DEF OwnerIsNewestAttempt, TypeOK, JobRow, Attempts
<1>4. job.state # "COMPLETED"
  BY DEF VerdictIsProved, HasUnsafeOperation, UnsafeOperations
<1>5. QED
  BY <1>2, <1>3, <1>4 DEF VerdictIsProved

\* unknown and reconcile, given the three ways they leave the job row.
LEMMA UnfencedSafe ==
  ASSUME IndInv, TypeOK', NEW o \in Operations, NEW s \in {"RECONCILE_REQUIRED", "RECONCILED"},
         operation[o].status \in UnsafeStatuses,
         attempt' = WithStatus(operation[o].attempt, s),
         UNCHANGED <<effect, evidence, canonical>>,
         \/ /\ job.state = "CANCEL_REQUESTED"
            /\ Advance([job EXCEPT !.outcome = "ABSENT"])
         \/ /\ job.state \notin TerminalStates
            /\ \E t \in {"QUEUED", "RECONCILE_REQUIRED"} :
                 job' = UpdateStateClear(t, "ABSENT", NoEvidence)
         \/ UNCHANGED job
  PROVE  OwnerIsNewestAttempt' /\ VerdictIsProved'
<1> USE DEF IndInv
<1>1. \A a \in Attempts : /\ attempt'[a].status = "ABSENT" <=> attempt[a].status = "ABSENT"
                          /\ attempt'[a].status # "COMPLETED"
                          /\ attempt'[a].worker = attempt[a].worker
  BY ClosedAttempt, WithStatusValue
<1>2. CASE job.state = "CANCEL_REQUESTED" /\ Advance([job EXCEPT !.outcome = "ABSENT"])
  <2>1. /\ job'.state = job.state /\ job'.active = job.active /\ job'.worker = job.worker
        /\ job'.lease = job.lease /\ job'.attemptNumber = job.attemptNumber
    BY <1>2 DEF Advance, TypeOK, JobRow
  <2>2. OwnerIsNewestAttempt'
    BY <1>1, <2>1 DEF OwnerIsNewestAttempt, TypeOK, JobRow, Attempts
  <2>3. VerdictIsProved'
    BY <1>1, <1>2, <2>1 DEF VerdictIsProved, TerminalStates
  <2>4. QED
    BY <2>2, <2>3
<1>3. ASSUME job.state \notin TerminalStates, NEW t \in {"QUEUED", "RECONCILE_REQUIRED"},
             job' = UpdateStateClear(t, "ABSENT", NoEvidence)
      PROVE  OwnerIsNewestAttempt' /\ VerdictIsProved'
  <2>1. /\ job'.state = t /\ job'.active = 0 /\ job'.worker = NoWorker
        /\ job'.lease = "NONE" /\ job'.attemptNumber = job.attemptNumber
    BY <1>3 DEF UpdateStateClear, TypeOK, JobRow
  <2>2. OwnerIsNewestAttempt'
    BY <1>1, <2>1 DEF OwnerIsNewestAttempt, OwnerStates
  <2>3. VerdictIsProved'
    BY <1>1, <2>1 DEF VerdictIsProved, TerminalStates
  <2>4. QED
    BY <2>2, <2>3
<1>4. CASE UNCHANGED job
  <2>1. OwnerIsNewestAttempt'
    BY <1>1, <1>4 DEF OwnerIsNewestAttempt, TypeOK, JobRow, Attempts
  <2>2. job.state # "COMPLETED"
    BY ClosedAttempt
  <2>3. VerdictIsProved'
    BY <1>1, <1>4, <2>2 DEF VerdictIsProved, Stored
  <2>4. QED
    BY <2>1, <2>3
<1>5. QED
  BY <1>2, <1>3, <1>4

\* Reporting an unknown outcome, in whatever state the job is and whoever does it.
LEMMA MarkUnknownSafe ==
  ASSUME IndInv, TypeOK', NEW o \in Operations, MarkUnknownOutcome(o)
  PROVE  IndInv'
<1> USE DEF IndInv
<1>0. operation[o].status \in UnsafeStatuses
  BY DEF MarkUnknownOutcome, UnsafeStatuses
<1>1. OwnerIsNewestAttempt' /\ VerdictIsProved'
  BY <1>0, UnfencedSafe DEF MarkUnknownOutcome, TerminalStates
<1>2. ParkedJobHasWork'
  <2>1. operation'[o].status = "UNKNOWN_OUTCOME"
    BY DEF MarkUnknownOutcome, TypeOK, OperationRow
  <2>2. QED
    BY <2>1 DEF ParkedJobHasWork, HasUnsafeOperation, UnsafeOperations, UnsafeStatuses
<1>3. EffectIsNeverDenied'
  BY DEF EffectIsNeverDenied, MarkUnknownOutcome, TypeOK, OperationRow
<1>4. job'.attemptNumber = job.attemptNumber
  BY DEF MarkUnknownOutcome, Advance, UpdateStateClear, TypeOK, JobRow
<1>5. OperationsHaveAttempts'
  BY <1>4 DEF OperationsHaveAttempts, MarkUnknownOutcome, TypeOK, OperationRow
<1>6. QED
  BY <1>1, <1>2, <1>3, <1>5

\* Reconciling an operation, in whatever state the job is and whoever does it.
LEMMA ReconcileSafe ==
  ASSUME IndInv, TypeOK', NEW o \in Operations, Reconcile(o)
  PROVE  IndInv'
<1> USE DEF IndInv
<1>0. operation[o].status \in UnsafeStatuses
  BY DEF Reconcile
<1>1. OwnerIsNewestAttempt' /\ VerdictIsProved'
  BY <1>0, UnfencedSafe DEF Reconcile
<1>2. ParkedJobHasWork'
  BY DEF Reconcile, ParkedJobHasWork, Advance, UpdateStateClear, TypeOK, JobRow, TerminalStates
<1>3. EffectIsNeverDenied'
  BY DEF EffectIsNeverDenied, Reconcile, TypeOK, OperationRow
<1>4. job'.attemptNumber = job.attemptNumber
  BY DEF Reconcile, Advance, UpdateStateClear, TypeOK, JobRow
<1>5. OperationsHaveAttempts'
  BY <1>0, <1>4 DEF OperationsHaveAttempts, Reconcile, TypeOK, OperationRow, UnsafeStatuses
<1>6. QED
  BY <1>1, <1>2, <1>3, <1>5

\* Steps that rewrite at most the state, version or lease of the job row, and the
\* status of an attempt that is in progress.
LEMMA RowSafe ==
  ASSUME IndInv, TypeOK', NEW s \in OwnerStates,
         job.state \in OwnerStates, job'.state = s,
         job'.active = job.active, job'.worker = job.worker,
         job'.attemptNumber = job.attemptNumber, job'.lease # "NONE",
         attempt' \in {attempt, WithStatus(job.active, "RUNNING")},
         UNCHANGED <<operation, effect, evidence, canonical>>
  PROVE  IndInv'
<1> USE DEF IndInv
<1>1. \A a \in Attempts : /\ attempt'[a].status = "ABSENT" <=> attempt[a].status = "ABSENT"
                          /\ attempt'[a].status = "COMPLETED" => attempt[a].status = "COMPLETED"
                          /\ attempt'[a].worker = attempt[a].worker
  <2>1. CASE attempt' = attempt
    BY <2>1
  <2>2. CASE attempt' = WithStatus(job.active, "RUNNING")
    <3>1. \A a \in Attempts : a = job.active => attempt[a].status # "ABSENT"
      BY DEF OwnerIsNewestAttempt, TypeOK, JobRow, Attempts
    <3>2. QED
      BY <2>2, <3>1, WithStatusValue
  <2>3. QED
    BY <2>1, <2>2
<1>2. OwnerIsNewestAttempt'
  BY <1>1 DEF OwnerIsNewestAttempt, TypeOK, JobRow, Attempts
<1>3. VerdictIsProved'
  BY <1>1 DEF VerdictIsProved, OwnerStates, TerminalStates
<1>4. ParkedJobHasWork'
  BY DEF ParkedJobHasWork, OwnerStates
<1>5. EffectIsNeverDenied' /\ OperationsHaveAttempts'
  BY DEF EffectIsNeverDenied, OperationsHaveAttempts
<1>6. QED
  BY <1>2, <1>3, <1>4, <1>5

\* Evidence and canonical metadata only grow: no verdict loses its proof.
LEMMA EvidenceSafe ==
  ASSUME IndInv, TypeOK', UNCHANGED <<job, attempt, operation, effect>>,
         \A e \in EvidenceIds : Stored(e) => evidence'[e] = evidence[e],
         canonical \subseteq canonical'
  PROVE  IndInv'
<1> USE DEF IndInv
<1>1. OwnerIsNewestAttempt' /\ EffectIsNeverDenied' /\ OperationsHaveAttempts'
  BY DEF OwnerIsNewestAttempt, EffectIsNeverDenied, OperationsHaveAttempts
<1>2. HasUnsafeOperation' = HasUnsafeOperation
  BY DEF HasUnsafeOperation, UnsafeOperations
<1>3. VerdictIsProved'
  BY <1>2 DEF VerdictIsProved, Stored, TerminalStates
<1>4. QED
  BY <1>1, <1>2, <1>3 DEF ParkedJobHasWork

\* The evidence handler overwrites no row, so no verdict loses its proof.
LEMMA StoreEvidenceSafe ==
  ASSUME IndInv, TypeOK', NEW e \in EvidenceIds, NEW n \in Entities, NEW out \in Outcomes,
         NEW a, StoreEvidence(e, n, out, a)
  PROVE  IndInv'
<1>1. \A f \in EvidenceIds : Stored(f) => evidence'[f] = evidence[f]
  BY DEF IndInv, StoreEvidence, FreshEvidence, TypeOK
<1>2. QED
  BY <1>1, EvidenceSafe DEF StoreEvidence

\* Each outcome of claimLocked: a grant, a takeover or parking.
LEMMA ClaimSafe ==
  ASSUME IndInv, TypeOK', NEW w \in Workers, Claim(w)
  PROVE  IndInv'
<1> USE DEF IndInv
<1>0. job.state \notin TerminalStates
  BY DEF Claim
<1>1. CASE Grant(w, attempt, 1)
  BY <1>0, <1>1, GrantSafe DEF TypeOK
<1>2. CASE HasUnsafeOperationForAttempt(job.active) /\ Park(job.active)
  BY <1>0, <1>2, ParkSafe DEF HasUnsafeOperationForAttempt, HasUnsafeOperation
<1>3. CASE job.active # 0 /\ Grant(w, WithStatus(job.active, "EXPIRED"), 2)
  <2>1. WithStatus(job.active, "EXPIRED") \in [Attempts -> AttemptRow]
    BY WithStatusType DEF AttemptStatuses
  <2>2. \A a \in Attempts :
          LET r == WithStatus(job.active, "EXPIRED")
          IN  /\ r[a].status = "ABSENT" <=> attempt[a].status = "ABSENT"
              /\ r[a].status = "COMPLETED" => attempt[a].status = "COMPLETED"
    BY <1>3, WithStatusValue DEF OwnerIsNewestAttempt, TypeOK, JobRow, Attempts
  <2>3. QED
    BY <1>0, <1>3, <2>1, <2>2, GrantSafe
<1>4. QED
  BY <1>1, <1>2, <1>3 DEF Claim

\* The handlers that ask for the owner (requireOwner).
LEMMA OwnerRequestSafe ==
  ASSUME IndInv, TypeOK', NEW c \in Credential, OwnerRequest(c)
  PROVE  IndInv'
<1> USE DEF IndInv
<1>0. ASSUME RequireOwner(c)
      PROVE  /\ job.state \in OwnerStates /\ job.state \notin TerminalStates
             /\ job.active # 0 /\ job.lease # "NONE"
  BY <1>0 DEF RequireOwner, OwnerIsNewestAttempt, OwnerStates, TerminalStates
<1>1. CASE Start(c)
  BY <1>0, <1>1, RowSafe DEF Start, Advance, TypeOK, JobRow, OwnerStates
<1>2. CASE Heartbeat(c)
  BY <1>0, <1>2, RowSafe DEF Heartbeat, Advance, TypeOK, JobRow
<1>3. ASSUME NEW o \in Operations,
             \/ PrepareOperation(c, o)
             \/ DispatchOperation(c, o)
             \/ MarkNotSubmitted(c, o)
             \/ Apply(c, o)
             \/ \E r \in BOOLEAN : ConfirmOperation(c, o, r)
      PROVE  IndInv'
  BY <1>3, OperationSafe
<1>4. ASSUME NEW e \in EvidenceIds, NEW n \in Entities, NEW out \in Outcomes,
             IngestOwned(c, e, n, out)
      PROVE  IndInv'
  BY <1>4, StoreEvidenceSafe DEF IngestOwned
<1>5. ASSUME NEW e \in EvidenceIds, Complete(c, e) PROVE IndInv'
  BY <1>0, <1>5, FinishTerminalSafe DEF Complete, TerminalStates
<1>6. ASSUME NEW e \in EvidenceIds, FailPlatform(c, e) PROVE IndInv'
  BY <1>0, <1>6, FinishTerminalSafe DEF FailPlatform, TerminalStates
<1>7. ASSUME NEW e \in EvidenceIds, AcknowledgeCancel(c, e) PROVE IndInv'
  BY <1>0, <1>7, FinishTerminalSafe DEF AcknowledgeCancel, TerminalStates
<1>8. ASSUME NEW e \in EvidenceIds, TimeoutOwned(c, e) PROVE IndInv'
  BY <1>0, <1>8, FinishTerminalSafe, ParkSafe DEF TimeoutOwned, TerminalStates
<1>9. QED
  BY <1>1, <1>2, <1>3, <1>4, <1>5, <1>6, <1>7, <1>8 DEF OwnerRequest

\* The handlers that any authorised caller may use, with no fencing tuple.
LEMMA OpenRequestSafe ==
  ASSUME IndInv, TypeOK', OpenRequest
  PROVE  IndInv'
<1> USE DEF IndInv
<1>1. ASSUME NEW w \in Workers, Claim(w) PROVE IndInv'
  BY <1>1, ClaimSafe
<1>2. ASSUME NEW o \in Operations, MarkUnknownOutcome(o) \/ Reconcile(o) PROVE IndInv'
  BY <1>2, MarkUnknownSafe, ReconcileSafe
<1>3. ASSUME NEW e \in EvidenceIds, NEW n \in Entities, NEW out \in Outcomes,
             IngestQueued(e, n, out)
      PROVE  IndInv'
  BY <1>3, StoreEvidenceSafe DEF IngestQueued
<1>4. ASSUME NEW e \in EvidenceIds, CancelQueued(e) PROVE IndInv'
  BY <1>4, FinishTerminalSafe DEF CancelQueued, TerminalStates
<1>5. ASSUME NEW e \in EvidenceIds, TimeoutQueued(e) PROVE IndInv'
  BY <1>5, FinishTerminalSafe DEF TimeoutQueued, TerminalStates
<1>6. CASE RequestCancel
  BY <1>6, RowSafe DEF RequestCancel, Advance, TypeOK, JobRow, OwnerStates, OwnerIsNewestAttempt
<1>7. QED
  BY <1>1, <1>2, <1>3, <1>4, <1>5, <1>6 DEF OpenRequest

\* Every transaction preserves the inductive invariant.
LEMMA IndStep ==
  ASSUME IndInv, [Next]_vars
  PROVE  IndInv'
<1>0. TypeOK'
  BY TypeStep DEF IndInv
<1>1. ASSUME NEW n \in Entities, RegisterCanonical(n) PROVE IndInv'
  BY <1>0, <1>1, EvidenceSafe DEF RegisterCanonical
<1>2. CASE LeaseLapses \/ LeaseExpires
  BY <1>0, <1>2, RowSafe
  DEF LeaseLapses, LeaseExpires, IndInv, TypeOK, JobRow, OwnerIsNewestAttempt
<1>3. CASE UNCHANGED vars
  BY <1>0, <1>3, EvidenceSafe DEF vars
<1>4. QED
  BY <1>0, <1>1, <1>2, <1>3, OwnerRequestSafe, OpenRequestSafe DEF Next

\* The invariants hold together in every reachable state.
THEOREM Inductive == Spec => []IndInv
  BY IndInit, IndStep, PTL DEF Spec

-----------------------------------------------------------------------------
\* What a transaction may do to the job row.

\* The lease clock leaves everything else of the row alone.
LeaseOnly == job.lease # "NONE" /\ \E l \in LeaseStates : job' = [job EXCEPT !.lease = l]

\* A transaction that takes a new version, seen as a step of the abstract job.
Versioned ==
  /\ job.state \notin TerminalStates
  /\ job'.version > job.version
  /\ Promise!JobNext

\* A larger version is a larger fence of the abstract job.
LEMMA FencedVersion ==
  ASSUME TypeOK, TypeOK', job'.version > job.version
  PROVE  Promise!Fenced
  BY DEF Promise!Fenced, TypeOK, JobRow

\* finishTerminal is the abstract job's verdict.
LEMMA FinishStep ==
  ASSUME TypeOK, TypeOK', NEW s \in TerminalStates, NEW out, NEW ev, FinishTerminal(s, out, ev),
         job.state \in OwnerStates \cup {"QUEUED"},
         s = "COMPLETED" => job.state \in {"CLAIMED", "RUNNING"}
  PROVE  Versioned
<1>1. /\ job'.state = s /\ job'.version = job.version + 1 /\ job'.version > job.version
      /\ job'.attemptNumber = job.attemptNumber
  BY DEF FinishTerminal, UpdateStateClear, TypeOK, JobRow
<1>2. Promise!FinishJob
  BY <1>1, FencedVersion DEF Promise!FinishJob, Promise!Verdicts, Phase, TerminalStates, OwnerStates
<1>3. QED
  BY <1>1, <1>2 DEF Versioned, Promise!JobNext, OwnerStates, TerminalStates

\* Parking an owned job is the abstract job's doubt.
LEMMA ParkStep ==
  ASSUME TypeOK, TypeOK', Park(job.active), job.state \in OwnerStates
  PROVE  Versioned
<1>1. /\ job'.state = "RECONCILE_REQUIRED" /\ job'.version = job.version + 1
      /\ job'.version > job.version /\ job'.attemptNumber = job.attemptNumber
  BY DEF Park, UpdateStateClear, TypeOK, JobRow
<1>2. Promise!DoubtJob
  BY <1>1, FencedVersion DEF Promise!DoubtJob, Phase, OwnerStates
<1>3. QED
  BY <1>1, <1>2 DEF Versioned, Promise!JobNext, OwnerStates, TerminalStates

\* start, heartbeat, cancel and the reconciliation of a job with a pending
\* cancellation keep the owner under a larger fence.
LEMMA AdvanceStep ==
  ASSUME TypeOK, TypeOK', NEW row \in JobRow, Advance(row), row.version = job.version,
         row.attemptNumber = job.attemptNumber,
         \/ job.state \in {"CLAIMED", "RUNNING"} /\ row.state \in OwnerStates
         \/ job.state = "CANCEL_REQUESTED" /\ row.state = "CANCEL_REQUESTED"
  PROVE  Versioned
<1>1. /\ job'.state = row.state /\ job'.version = job.version + 1
      /\ job'.version > job.version /\ job'.attemptNumber = job.attemptNumber
  BY DEF Advance, TypeOK, JobRow
<1>2. Promise!KeepJob
  BY <1>1, FencedVersion DEF Promise!KeepJob, Phase, OwnerStates
<1>3. QED
  BY <1>1, <1>2 DEF Versioned, Promise!JobNext, OwnerStates, TerminalStates

\* A grant is the abstract job's grant, with a new epoch and a larger fence.
LEMMA GrantStep ==
  ASSUME TypeOK, TypeOK', NEW w, NEW rows, NEW k \in Nat \ {0}, Grant(w, rows, k),
         job.state \in {"QUEUED", "CLAIMED", "RUNNING"}
  PROVE  Versioned
<1>1. /\ job'.state = "CLAIMED" /\ job'.version > job.version
      /\ job'.attemptNumber = job.attemptNumber + 1
  BY DEF Grant, TypeOK, JobRow
<1>2. Promise!GrantJob
  BY <1>1, FencedVersion DEF Promise!GrantJob, Phase
<1>3. QED
  BY <1>1, <1>2 DEF Versioned, Promise!JobNext, TerminalStates

\* claimLocked grants the abstract job or puts it in doubt.
LEMMA ClaimStep ==
  ASSUME IndInv, TypeOK', NEW w \in Workers, Claim(w)
  PROVE  Versioned
<1> USE DEF IndInv
<1>1. job.state \in {"QUEUED", "CLAIMED", "RUNNING"}
  BY DEF Claim, TypeOK, JobRow, JobStates, OwnerStates
<1>2. CASE Grant(w, attempt, 1)
  BY <1>1, <1>2, GrantStep
<1>3. CASE job.active # 0 /\ Park(job.active)
  BY <1>3, ParkStep DEF OwnerIsNewestAttempt
<1>4. CASE Grant(w, WithStatus(job.active, "EXPIRED"), 2)
  BY <1>1, <1>4, GrantStep
<1>5. QED
  BY <1>2, <1>3, <1>4 DEF Claim

\* unknown puts the abstract job in doubt, keeps it stopping, or leaves it alone.
LEMMA UnknownStep ==
  ASSUME TypeOK, TypeOK', NEW o \in Operations, MarkUnknownOutcome(o)
  PROVE  UNCHANGED job \/ Versioned
<1>1. CASE job.state = "CANCEL_REQUESTED" /\ Advance([job EXCEPT !.outcome = "ABSENT"])
  <2>1. [job EXCEPT !.outcome = "ABSENT"] \in JobRow
    BY DEF TypeOK, JobRow
  <2>2. QED
    BY <1>1, <2>1, AdvanceStep DEF TypeOK, JobRow
<1>2. CASE /\ job.state \in {"QUEUED", "CLAIMED", "RUNNING"}
           /\ job' = UpdateStateClear("RECONCILE_REQUIRED", "ABSENT", NoEvidence)
  <2>1. /\ job'.state = "RECONCILE_REQUIRED" /\ job'.version = job.version + 1
        /\ job'.version > job.version /\ job'.attemptNumber = job.attemptNumber
    BY <1>2 DEF UpdateStateClear, TypeOK, JobRow
  <2>2. Promise!DoubtJob
    BY <1>2, <2>1, FencedVersion DEF Promise!DoubtJob, Phase
  <2>3. QED
    BY <1>2, <2>1, <2>2 DEF Versioned, Promise!JobNext, TerminalStates
<1>3. QED
  BY <1>1, <1>2 DEF MarkUnknownOutcome

\* reconcile settles the abstract job, keeps it stopping, or leaves it alone.
LEMMA ReconcileStep ==
  ASSUME TypeOK, TypeOK', NEW o \in Operations, Reconcile(o)
  PROVE  UNCHANGED job \/ Versioned
<1>1. CASE job.state = "CANCEL_REQUESTED" /\ Advance([job EXCEPT !.outcome = "ABSENT"])
  <2>1. [job EXCEPT !.outcome = "ABSENT"] \in JobRow
    BY DEF TypeOK, JobRow
  <2>2. QED
    BY <1>1, <2>1, AdvanceStep DEF TypeOK, JobRow
<1>2. CASE /\ job.state \notin TerminalStates \cup {"CANCEL_REQUESTED"}
           /\ job' = UpdateStateClear("QUEUED", "ABSENT", NoEvidence)
  <2>1. /\ job'.state = "QUEUED" /\ job'.version = job.version + 1
        /\ job'.version > job.version /\ job'.attemptNumber = job.attemptNumber
    BY <1>2 DEF UpdateStateClear, TypeOK, JobRow
  <2>2. job.state \in {"QUEUED", "CLAIMED", "RUNNING", "RECONCILE_REQUIRED"}
    BY <1>2 DEF TypeOK, JobRow, JobStates, OwnerStates
  <2>3. Promise!SettleJob
    BY <2>1, <2>2, FencedVersion DEF Promise!SettleJob, Phase
  <2>4. QED
    BY <2>1, <2>2, <2>3 DEF Versioned, Promise!JobNext, TerminalStates
<1>3. QED
  BY <1>1, <1>2 DEF Reconcile

\* No transaction changes the job row but by the lease clock or under a new version.
LEMMA JobStep ==
  ASSUME IndInv, [Next]_vars
  PROVE  UNCHANGED job \/ LeaseOnly \/ Versioned
<1> USE DEF IndInv
<1>0. TypeOK'
  BY TypeStep
<1>1. ASSUME NEW c \in Credential, OwnerRequest(c)
      PROVE  UNCHANGED job \/ Versioned
  <2>1. CASE Start(c)
    <3>1. [job EXCEPT !.state = "RUNNING"] \in JobRow
      BY DEF TypeOK, JobRow, JobStates, OwnerStates
    <3>2. QED
      BY <1>0, <2>1, <3>1, AdvanceStep DEF Start, TypeOK, JobRow, OwnerStates
  <2>2. CASE Heartbeat(c)
    <3>1. [job EXCEPT !.lease = "LIVE"] \in JobRow
      BY DEF TypeOK, JobRow, LeaseStates
    <3>2. QED
      BY <1>0, <2>2, <3>1, AdvanceStep DEF Heartbeat, RequireOwner, TypeOK, JobRow, OwnerStates
  <2>3. ASSUME NEW o \in Operations,
               \/ PrepareOperation(c, o)
               \/ DispatchOperation(c, o)
               \/ MarkNotSubmitted(c, o)
               \/ Apply(c, o)
               \/ \E r \in BOOLEAN : ConfirmOperation(c, o, r)
        PROVE  UNCHANGED job
    BY <2>3 DEF PrepareOperation, DispatchOperation, MarkNotSubmitted, Apply,
       ConfirmOperation, SetStatus
  <2>4. ASSUME NEW e \in EvidenceIds,
               \E n \in Entities, out \in Outcomes : IngestOwned(c, e, n, out)
        PROVE  UNCHANGED job
    BY <2>4 DEF IngestOwned, StoreEvidence
  <2>5. ASSUME NEW e \in EvidenceIds, Complete(c, e) PROVE Versioned
    BY <1>0, <2>5, FinishStep DEF Complete, RequireOwner, TerminalStates
  <2>6. ASSUME NEW e \in EvidenceIds, FailPlatform(c, e) PROVE Versioned
    BY <1>0, <2>6, FinishStep DEF FailPlatform, RequireOwner, TerminalStates
  <2>7. ASSUME NEW e \in EvidenceIds, AcknowledgeCancel(c, e) PROVE Versioned
    BY <1>0, <2>7, FinishStep DEF AcknowledgeCancel, RequireOwner, TerminalStates
  <2>8. ASSUME NEW e \in EvidenceIds, TimeoutOwned(c, e) PROVE Versioned
    BY <1>0, <2>8, FinishStep, ParkStep DEF TimeoutOwned, RequireOwner, TerminalStates
  <2>9. QED
    BY <1>1, <2>1, <2>2, <2>3, <2>4, <2>5, <2>6, <2>7, <2>8 DEF OwnerRequest
<1>2. CASE OpenRequest
  <2>1. ASSUME NEW e \in EvidenceIds, NEW n \in Entities, NEW out \in Outcomes,
               IngestQueued(e, n, out)
        PROVE  UNCHANGED job
    BY <2>1 DEF IngestQueued, StoreEvidence
  <2>2. ASSUME NEW e \in EvidenceIds, CancelQueued(e) \/ TimeoutQueued(e) PROVE Versioned
    BY <1>0, <2>2, FinishStep DEF CancelQueued, TimeoutQueued, TerminalStates
  <2>3. CASE RequestCancel
    <3>1. [job EXCEPT !.state = "CANCEL_REQUESTED", !.cancelRequested = TRUE] \in JobRow
      BY DEF TypeOK, JobRow, JobStates, OwnerStates
    <3>2. QED
      BY <1>0, <2>3, <3>1, AdvanceStep DEF RequestCancel, TypeOK, JobRow, OwnerStates
  <2>4. QED
    BY <1>0, <1>2, <2>1, <2>2, <2>3, ClaimStep, UnknownStep, ReconcileStep DEF OpenRequest
<1>3. CASE LeaseLapses \/ LeaseExpires
  BY <1>3 DEF LeaseLapses, LeaseExpires, LeaseOnly, LeaseStates
<1>4. CASE UNCHANGED vars \/ \E n \in Entities : RegisterCanonical(n)
  BY <1>4 DEF vars, RegisterCanonical
<1>5. QED
  BY <1>1, <1>2, <1>3, <1>4 DEF Next

\* A row changes its state or owner only with a larger version.
LEMMA FencingStep ==
  ASSUME IndInv, [Next]_vars
  PROVE  /\ <<job.state, job.active>>' # <<job.state, job.active>> => job.version' > job.version
         /\ \A a \in Attempts, v \in 0 .. job.version :
              ~Fences(a, v) => ~(job.active' = a /\ job.version' = v)
<1> USE DEF IndInv
<1>1. \/ /\ job'.state = job.state /\ job'.active = job.active /\ job'.version = job.version
      \/ job'.version > job.version
  <2>1. CASE LeaseOnly
    BY <2>1 DEF LeaseOnly, TypeOK, JobRow
  <2>2. QED
    BY <2>1, JobStep DEF Versioned
<1>2. job.version \in Nat
  BY DEF TypeOK, JobRow
<1>3. QED
  BY <1>1, <1>2 DEF Fences

\* Evidence is accepted from the owner of a job and for a queued job only.
LEMMA EvidenceStep ==
  ASSUME [Next]_vars
  PROVE  UNCHANGED evidence \/ job.state \in OwnerStates \cup {"QUEUED"}
<1>1. ASSUME NEW c \in Credential, OwnerRequest(c)
      PROVE  job.state \in OwnerStates
  BY <1>1 DEF OwnerRequest, RequireOwner, Start, Heartbeat, PrepareOperation, DispatchOperation,
     MarkNotSubmitted, Apply, ConfirmOperation, IngestOwned, Complete, FailPlatform,
     AcknowledgeCancel, TimeoutOwned
<1>2. ASSUME OpenRequest, job.state # "QUEUED"
      PROVE  UNCHANGED evidence
  BY <1>2 DEF OpenRequest, Claim, Grant, Park, MarkUnknownOutcome, Reconcile, IngestQueued,
     CancelQueued, TimeoutQueued, RequestCancel
<1>3. QED
  BY <1>1, <1>2 DEF Next, RegisterCanonical, LeaseLapses, LeaseExpires, vars

\* A terminal row is never written again, by whatever request.
LEMMA TerminalStep ==
  ASSUME IndInv, [Next]_vars, job.state \in TerminalStates
  PROVE  UNCHANGED job /\ evidence'[job.evidence] = evidence[job.evidence]
<1>1. job.lease = "NONE"
  BY DEF IndInv, OwnerIsNewestAttempt, TerminalStates, OwnerStates
<1>2. UNCHANGED job
  BY <1>1, JobStep DEF LeaseOnly, Versioned
<1>3. UNCHANGED evidence
  BY EvidenceStep DEF OwnerStates, TerminalStates
<1>4. QED
  BY <1>2, <1>3

\* Along every behaviour the version is a fencing token.
THEOREM Fencing == Spec => FencingToken
  BY Inductive, FencingStep, PTL DEF Spec, FencingToken

\* Along every behaviour a verdict and its evidence are final.
THEOREM TerminalFinal == Spec => TerminalIsFinal
  BY Inductive, TerminalStep, PTL DEF Spec, TerminalIsFinal

\* The owner of a job is its newest attempt.
THEOREM OwnerNewest == Spec => []OwnerIsNewestAttempt
  BY Inductive, PTL DEF IndInv

\* No job is ever COMPLETED, FAILED_PLATFORM or CANCELLED without its proof.
THEOREM VerdictProved == Spec => []VerdictIsProved
  BY Inductive, PTL DEF IndInv

\* A parked job never lacks the operation that reconcile needs to release it.
THEOREM ParkedHasWork == Spec => []ParkedJobHasWork
  BY Inductive, PTL DEF IndInv

\* A recorded effect is never denied.
THEOREM EffectNeverDenied == Spec => []EffectIsNeverDenied
  BY Inductive, PTL DEF IndInv

\* The durable execution boundary implements the abstract fenced job: its initial
\* row is the abstract initial state and each transaction is an abstract step.
THEOREM Refinement == Spec => ImplementsFencedJob
<1>1. Init => Promise!JobInit
  BY DEF Init, Promise!JobInit, Phase
<1>2. ASSUME IndInv, [Next]_vars
      PROVE  [Promise!JobNext]_(Promise!jobVars)
  <2>1. CASE LeaseOnly
    BY <1>2, <2>1 DEF LeaseOnly, IndInv, TypeOK, JobRow, Promise!jobVars, Phase
  <2>2. CASE UNCHANGED job
    BY <2>2 DEF Promise!jobVars, Phase
  <2>3. QED
    BY <1>2, <2>1, <2>2, JobStep DEF Versioned
<1>3. QED
  BY <1>1, <1>2, Inductive, PTL DEF Spec, ImplementsFencedJob, Promise!JobSpec

-----------------------------------------------------------------------------
(***************************************************************************)
(* The workers.                                                            *)
(***************************************************************************)

-----------------------------------------------------------------------------
\* What a step may do to a worker's owner record: keep its attempt with a version
\* the worker, a heartbeat reply or the row has, drop it, or take a claim over.
Keeps(w) ==
  /\ worker'[w].attempt = worker[w].attempt
  /\ worker'[w].version \in {worker[w].version, worker[w].reply, job'.version}
  /\ worker'[w].reply \in {worker[w].reply, 0, job'.version}

Drops(w) == worker'[w].attempt = 0

Takes(w) ==
  /\ job'.active # 0 /\ job'.worker = w /\ job'.state = "CLAIMED"
  /\ worker'[w].attempt = job'.active
  /\ worker'[w].version = job'.version
  /\ worker'[w].reply = 0

RecordsFollow ==
  /\ worker' \in [Workers -> WorkerRow]
  /\ \A w \in Workers : Keeps(w) \/ Drops(w) \/ Takes(w)

\* Moving to another step, or back to polling, keeps or drops the record.
LEMMA GotoFollows ==
  ASSUME worker \in [Workers -> WorkerRow], NEW w \in Workers, NEW pc \in Steps, Goto(w, pc)
  PROVE  RecordsFollow
<1>1. IdleWorker \in WorkerRow
  BY BoundsAssumption DEF IdleWorker, WorkerRow, Steps
<1>2. worker' \in [Workers -> WorkerRow]
  BY <1>1 DEF Goto, WorkerRow
<1>3. \A v \in Workers : Keeps(v) \/ Drops(v)
  BY DEF Goto, Keeps, Drops, IdleWorker, WorkerRow
<1>4. QED
  BY <1>2, <1>3 DEF RecordsFollow

\* Steps that leave all workers where they are.
LEMMA StayFollows ==
  ASSUME worker \in [Workers -> WorkerRow], UNCHANGED worker
  PROVE  RecordsFollow
  BY DEF RecordsFollow, Keeps

\* A worker that passes requireOwner presents a credential of the boundary.
LEMMA OwnerIsCredential ==
  ASSUME IndInv, NEW w \in Workers, RequireOwner(Owner(w))
  PROVE  Owner(w) \in Credential
<1>1. job.active # 0 /\ job.active \in 0 .. MaxAttempts /\ job.version \in 0 .. MaxVersion
  BY DEF IndInv, OwnerIsNewestAttempt, RequireOwner, TypeOK, JobRow
<1>2. Owner(w).attempt \in Attempts /\ Owner(w).version \in 0 .. MaxVersion
  BY <1>1, BoundsAssumption DEF RequireOwner, Attempts
<1>3. QED
  BY <1>2 DEF Owner, Credential

\* A granted job belongs to the worker that claimed it.
LEMMA GrantOwner ==
  ASSUME IndInv, NEW w \in Workers, NEW rows, NEW k \in Nat, Grant(w, rows, k)
  PROVE  job'.active \in Attempts /\ job'.worker = w /\ job'.version \in 0 .. MaxVersion
  BY BoundsAssumption DEF IndInv, Grant, TypeOK, JobRow, Attempts

\* A claim answers with the claimed row, or the worker learns nothing from it.
LEMMA ClaimFollows ==
  ASSUME IndInv, worker \in [Workers -> WorkerRow], NEW w \in Workers, ClaimJob(w)
  PROVE  RecordsFollow
<1>1. CASE job'.state # "CLAIMED"
  BY <1>1, StayFollows DEF ClaimJob
<1>2. CASE job'.state = "CLAIMED"
  <2>1. ~Park(job.active)
    BY <1>2 DEF Park, UpdateStateClear, IndInv, TypeOK, JobRow
  <2>2. Grant(w, attempt, 1) \/ Grant(w, WithStatus(job.active, "EXPIRED"), 2)
    BY <2>1 DEF ClaimJob, Claim
  <2>3. job'.active \in Attempts /\ job'.worker = w /\ job'.version \in 0 .. MaxVersion
    BY <2>2, GrantOwner
  <2>4. job'.active # 0 /\ job'.active \in 0 .. MaxAttempts /\ 0 \in 0 .. MaxVersion
    BY <2>3, BoundsAssumption DEF Attempts
  <2> DEFINE row == [pc |-> "start", attempt |-> job'.active, version |-> job'.version,
                     renewing |-> FALSE, reply |-> 0]
  <2>5. worker' = [worker EXCEPT ![w] = row]
    BY <1>2 DEF ClaimJob
  <2>6. row \in WorkerRow
    BY <2>3, <2>4 DEF WorkerRow, Steps, FencedSteps
  <2>7. worker' \in [Workers -> WorkerRow] /\ worker'[w] = row
    BY <2>5, <2>6
  <2>8. Takes(w)
    BY <1>2, <2>3, <2>4, <2>7 DEF Takes
  <2>9. \A v \in Workers \ {w} : Keeps(v)
    BY <2>5 DEF Keeps
  <2>10. QED
    BY <2>7, <2>8, <2>9 DEF RecordsFollow
<1>3. QED
  BY <1>1, <1>2

-----------------------------------------------------------------------------
\* Every step of the workers is one of a handler, or none.

\* A step of the workers is faithful when the boundary allows it and the owner
\* records follow it.
Faithful == [Next]_vars /\ RecordsFollow

\* A reply that changes nothing at the boundary.
LEMMA AnsweredFaithful ==
  ASSUME worker \in [Workers -> WorkerRow], NEW w \in Workers, NEW pc \in Steps, Answered(w, pc)
  PROVE  Faithful
  BY GotoFollows DEF Answered, Faithful

\* An owner request that the handler accepted.
LEMMA OwnerFaithful ==
  ASSUME IndInv, worker \in [Workers -> WorkerRow], NEW w \in Workers, NEW pc \in Steps,
         RequireOwner(Owner(w)), OwnerRequest(Owner(w)), Goto(w, pc)
  PROVE  Faithful
  BY OwnerIsCredential, GotoFollows DEF Faithful, Next

\* A request without a fencing tuple that the handler accepted.
LEMMA OpenFaithful ==
  ASSUME worker \in [Workers -> WorkerRow], NEW w \in Workers, NEW pc \in Steps,
         OpenRequest, Goto(w, pc)
  PROVE  Faithful
  BY GotoFollows DEF Faithful, Next

\* Marking the operation unknown and reconciling it, from wherever it is done.
LEMMA DoubtFaithful ==
  ASSUME worker \in [Workers -> WorkerRow], NEW w \in Workers,
         NEW from \in Steps, NEW to \in Steps,
         ReportUnknown(w, from, to) \/ Settle(w, from, to)
  PROVE  Faithful
<1>1. "idle" \in Steps /\ Dispatch \in Operations
  BY WorkerAssumption DEF Steps
<1>2. CASE OpenRequest /\ Goto(w, to)
  BY <1>2, OpenFaithful
<1>3. CASE Answered(w, to) \/ Answered(w, "idle")
  BY <1>1, <1>3, AnsweredFaithful
<1>4. QED
  BY <1>1, <1>2, <1>3 DEF ReportUnknown, Settle, Refused, OpenRequest

\* Storing evidence, whether or not the job still has an owner.
LEMMA IngestFaithful ==
  ASSUME IndInv, worker \in [Workers -> WorkerRow], NEW w \in Workers,
         NEW from \in Steps, NEW to \in Steps, NEW e \in EvidenceIds, NEW out \in Outcomes,
         Ingest(w, from, e, out, to)
  PROVE  Faithful
<1>1. "idle" \in Steps /\ Evaluation \in Entities
  BY WorkerAssumption DEF Steps
<1>2. CASE IngestOwned(Owner(w), e, Evaluation, out) /\ Goto(w, to)
  BY <1>1, <1>2, OwnerFaithful DEF IngestOwned, OwnerRequest
<1>3. CASE IngestQueued(e, Evaluation, out) /\ Goto(w, to)
  BY <1>1, <1>3, OpenFaithful DEF OpenRequest
<1>4. CASE Answered(w, to) \/ Answered(w, "idle")
  BY <1>1, <1>4, AnsweredFaithful
<1>5. QED
  BY <1>2, <1>3, <1>4 DEF Ingest, Refused

\* Claiming, reconciling, executing, cancelling and failing a job.
LEMMA MainFaithful ==
  ASSUME IndInv, worker \in [Workers -> WorkerRow], NEW w \in Workers, WorkerStep(w)
  PROVE  Faithful
<1>0. /\ Dispatch \in Operations /\ Evaluation \in Entities
      /\ {ExecutionEvidence, CancelEvidence, PlatformEvidence} \subseteq EvidenceIds
      /\ {"PASS", "ERROR", "CANCELLED"} \subseteq Outcomes
  BY WorkerAssumption
<1>a. /\ {"idle", "fetch", "inspect", "precheck", "check", "execute", "running", "register",
          "doubt", "settleCancel", "refresh", "detail", "unknown", "settle"} \subseteq Steps
      /\ {"start", "prepare", "dispatch", "confirm", "evidence", "complete", "release",
          "cancelEvidence", "ack", "failing", "failPlatform"} \subseteq Steps
  BY DEF Steps, FencedSteps
<1>1. ASSUME NEW pc \in Steps, Answered(w, pc) PROVE Faithful
  BY <1>1, AnsweredFaithful
<1>2. CASE ClaimJob(w)
  BY <1>2, ClaimFollows DEF Faithful, Next, OpenRequest, ClaimJob
<1>3. CASE ReconcileJob(w)
  BY <1>a, <1>1, <1>3, DoubtFaithful DEF ReconcileJob, DiscoverDoubt, ReadDetail
<1>4. CASE ExecuteJob(w)
  <2>1. CASE StartJob(w)
    <3>0. job'.version \in 0 .. MaxVersion
      BY <2>1, BoundsAssumption DEF StartJob, Start, Advance, IndInv, TypeOK, JobRow
    <3>1. worker' \in [Workers -> WorkerRow] /\ \A v \in Workers : Keeps(v)
      BY <1>a, <2>1, <3>0 DEF StartJob, WorkerRow, Keeps
    <3>2. [Next]_vars
      BY <2>1, OwnerIsCredential DEF StartJob, Start, OwnerRequest, Next
    <3>3. QED
      BY <3>1, <3>2 DEF Faithful, RecordsFollow
  <2>2. CASE \/ CheckCancel(w, "fetch", "prepare")
             \/ CheckCancel(w, "precheck", "dispatch")
             \/ CheckCancel(w, "check", "execute")
    <3>1. CancelStep \in Steps
      BY <1>a DEF CancelStep
    <3>2. QED
      BY <1>a, <1>1, <2>2, <3>1 DEF CheckCancel
  <2>3. CASE Prepare(w)
    BY <1>0, <1>a, <1>1, <2>3, OwnerFaithful DEF Prepare, PrepareOperation, OwnerRequest
  <2>4. CASE Inspect(w)
    BY <1>a, <1>1, <2>4 DEF Inspect
  <2>5. CASE DispatchJob(w)
    BY <1>0, <1>a, <1>1, <2>5, OwnerFaithful DEF DispatchJob, DispatchOperation, OwnerRequest
  <2>6. CASE Confirm(w)
    BY <1>0, <1>a, <1>1, <2>6, OwnerFaithful DEF Confirm, ConfirmOperation, OwnerRequest
  <2>7. CASE Register(w)
    BY <1>0, <1>a, <2>7, GotoFollows DEF Register, Faithful, Next
  <2>8. CASE Ingest(w, "evidence", ExecutionEvidence, "PASS", "complete")
    BY <1>0, <1>a, <2>8, IngestFaithful
  <2>9. CASE CompleteJob(w)
    BY <1>0, <1>a, <2>9, OwnerFaithful DEF CompleteJob, Complete, OwnerRequest
  <2>10. QED
    BY <1>4, <2>1, <2>2, <2>3, <2>4, <2>5, <2>6, <2>7, <2>8, <2>9 DEF ExecuteJob
<1>5. CASE CancelJob(w)
  <2>1. CASE Release(w)
    BY <1>0, <1>a, <1>1, <2>1, OwnerFaithful DEF Release, MarkNotSubmitted, OwnerRequest
  <2>2. CASE ReportUnknown(w, "doubt", "settleCancel") \/ Settle(w, "settleCancel", "refresh")
    BY <1>a, <2>2, DoubtFaithful
  <2>3. CASE Refresh(w)
    <3>1. job.version \in 0 .. MaxVersion /\ UNCHANGED vars
      BY <2>3 DEF Refresh, IndInv, TypeOK, JobRow
    <3>2. job'.version = job.version
      BY <3>1 DEF vars
    <3>3. worker' \in [Workers -> WorkerRow] /\ \A v \in Workers : Keeps(v)
      BY <1>a, <2>3, <3>1, <3>2 DEF Refresh, WorkerRow, Keeps
    <3>4. QED
      BY <3>1, <3>3 DEF Faithful, RecordsFollow
  <2>4. CASE Ingest(w, "cancelEvidence", CancelEvidence, "CANCELLED", "ack")
    BY <1>0, <1>a, <2>4, IngestFaithful
  <2>5. CASE Acknowledge(w)
    BY <1>0, <1>a, <1>1, <2>5, OwnerFaithful
    DEF Acknowledge, AcknowledgeCancel, Refused, OwnerRequest
  <2>6. QED
    BY <1>5, <2>1, <2>2, <2>3, <2>4, <2>5 DEF CancelJob
<1>6. CASE FailJob(w)
  <2>1. CASE Ingest(w, "failing", PlatformEvidence, "ERROR", "failPlatform")
    BY <1>0, <1>a, <2>1, IngestFaithful
  <2>2. CASE FailPlatform(Owner(w), PlatformEvidence) /\ Goto(w, "idle")
    BY <1>0, <1>a, <2>2, OwnerFaithful DEF FailPlatform, OwnerRequest
  <2>3. QED
    BY <1>6, <2>1, <2>2 DEF FailJob
<1>7. CASE Rejected(w)
  BY <1>a, <1>1, <1>7 DEF Rejected, Refused
<1>8. CASE Execute(w) \/ WriteArtifact(w)
  BY <1>a, <1>1, <1>8 DEF Execute, WriteArtifact
<1>9. QED
  BY <1>2, <1>3, <1>4, <1>5, <1>6, <1>7, <1>8 DEF WorkerStep

\* The renewer thread: only the version in the owner record may change.
LEMMA RenewalFaithful ==
  ASSUME IndInv, worker \in [Workers -> WorkerRow], NEW w \in Workers,
         Renewal(w) \/ LoseRenewal(w)
  PROVE  Faithful
<1>1. CASE Renew(w)
  <2>1. job'.version \in 0 .. MaxVersion
    BY <1>1, BoundsAssumption DEF Renew, Heartbeat, Advance, IndInv, TypeOK, JobRow
  <2>2. worker' \in [Workers -> WorkerRow] /\ \A v \in Workers : Keeps(v)
    BY <1>1, <2>1 DEF Renew, WorkerRow, Keeps
  <2>3. [Next]_vars
    BY <1>1, OwnerIsCredential DEF Renew, Heartbeat, OwnerRequest, Next
  <2>4. QED
    BY <2>2, <2>3 DEF Faithful, RecordsFollow
<1>2. CASE RenewRefused(w) \/ ReceiveRenewal(w) \/ LoseRenewal(w)
  <2>1. worker' \in [Workers -> WorkerRow] /\ \A v \in Workers : Keeps(v)
    <3>1. 0 \in 0 .. MaxVersion
      BY BoundsAssumption
    <3>2. CASE RenewRefused(w)
      BY <3>2 DEF RenewRefused, WorkerRow, Keeps
    <3>3. CASE ReceiveRenewal(w)
      BY <3>1, <3>3 DEF ReceiveRenewal, WorkerRow, Keeps
    <3>4. CASE LoseRenewal(w)
      BY <3>1, <3>4 DEF LoseRenewal, WorkerRow, Keeps
    <3>5. QED
      BY <1>2, <3>2, <3>3, <3>4
  <2>2. QED
    BY <1>2, <2>1 DEF RenewRefused, ReceiveRenewal, LoseRenewal, Faithful, RecordsFollow
<1>3. QED
  BY <1>1, <1>2 DEF Renewal

\* Whatever happens among the workers, the job sees a handler's step or none.
LEMMA WorkerNextFaithful ==
  ASSUME IndInv, worker \in [Workers -> WorkerRow], [WorkerNext]_workerVars
  PROVE  Faithful
<1>1. ASSUME NEW w \in Workers,
             WorkerStep(w) \/ Renewal(w) \/ Crash(w) \/ LoseRenewal(w) \/ AgentFails(w)
      PROVE  Faithful
  <2>1. "idle" \in Steps /\ "failing" \in Steps
    BY DEF Steps, FencedSteps
  <2>2. CASE Crash(w) \/ AgentFails(w)
    BY <2>1, <2>2, AnsweredFaithful DEF Crash, AgentFails, Refused
  <2>3. QED
    BY <1>1, <2>2, MainFaithful, RenewalFaithful DEF Renewal
<1>2. CASE TimePasses \/ Stall \/ OperatorCancels
  <2>1. [Next]_vars /\ UNCHANGED worker
    BY <1>2 DEF TimePasses, Abandoned, Expire, Stall, OperatorCancels, Next, OpenRequest
  <2>2. QED
    BY <2>1, StayFollows DEF Faithful
<1>3. CASE UNCHANGED workerVars
  BY <1>3, StayFollows DEF workerVars, vars, Faithful
<1>4. QED
  BY <1>1, <1>2, <1>3 DEF WorkerNext

\* Idle workers hold no owner record.
LEMMA WorkersStartIdle ==
  ASSUME WorkerInit
  PROVE  worker \in [Workers -> WorkerRow]
  BY BoundsAssumption DEF WorkerInit, IdleWorker, WorkerRow, Steps

\* The workers, their renewers, crashes and the clock implement the boundary's
\* specification: they take no step on the job that the handlers do not allow.
THEOREM WorkersUseHandlers == WorkerSpec => UsesOnlyTheHandlers
<1> DEFINE Inv == IndInv /\ worker \in [Workers -> WorkerRow]
<1>1. WorkerInit => Init /\ Inv
  BY WorkersStartIdle, IndInit DEF WorkerInit
<1>2. ASSUME Inv, [WorkerNext]_workerVars
      PROVE  [Next]_vars /\ Inv'
  BY <1>2, WorkerNextFaithful, IndStep DEF Faithful, RecordsFollow
<1>3. QED
  BY <1>1, <1>2, PTL DEF WorkerSpec, UsesOnlyTheHandlers, Spec

\* What is proved of the boundary holds of the workers: a verdict has its proof ...
THEOREM WorkersProveVerdicts == WorkerSpec => []VerdictIsProved
  BY WorkersUseHandlers, VerdictProved, PTL DEF UsesOnlyTheHandlers

\* ... and is final, whatever a late or restarted worker still sends.
THEOREM WorkersKeepVerdicts == WorkerSpec => TerminalIsFinal
  BY WorkersUseHandlers, TerminalFinal, PTL DEF UsesOnlyTheHandlers

\* Workers, renewers, crashes and lost replies included, the system implements the
\* abstract fenced job.
THEOREM WorkersRefine == WorkerSpec => ImplementsFencedJob
  BY WorkersUseHandlers, Refinement, PTL DEF UsesOnlyTheHandlers

-----------------------------------------------------------------------------
\* Fencing tuples stay with the worker they were handed out to.

\* Versions and attempt numbers only grow, and the INSERT of an attempt is the
\* only write of its worker column.
LEMMA HistoryStep ==
  ASSUME IndInv, [Next]_vars
  PROVE  /\ job'.version >= job.version
         /\ job'.attemptNumber >= job.attemptNumber
         /\ \A a \in Attempts :
              attempt[a].status # "ABSENT" => attempt'[a].worker = attempt[a].worker
<1> USE DEF IndInv
<1>1. job'.version >= job.version /\ job'.attemptNumber >= job.attemptNumber
  <2>1. CASE UNCHANGED job \/ LeaseOnly
    BY <2>1 DEF LeaseOnly, TypeOK, JobRow
  <2>2. CASE Versioned
    <3>1. job'.attemptNumber \in {job.attemptNumber, job.attemptNumber + 1}
      BY <2>2 DEF Versioned, Promise!JobNext, Promise!GrantJob, Promise!KeepJob,
         Promise!DoubtJob, Promise!SettleJob, Promise!FinishJob
    <3>2. job.attemptNumber \in Nat /\ job.version \in Nat /\ job'.version \in Nat
      BY IndStep DEF TypeOK, JobRow
    <3>3. QED
      BY <2>2, <3>1, <3>2 DEF Versioned
  <2>3. QED
    BY <2>1, <2>2, JobStep
<1>2. ASSUME NEW b, NEW s, attempt' = WithStatus(b, s)
      PROVE  \A a \in Attempts : attempt'[a].worker = attempt[a].worker
  BY <1>2, WithStatusValue
<1>3. ASSUME NEW w, NEW k, NEW rows \in {attempt, WithStatus(job.active, "EXPIRED")},
             Grant(w, rows, k)
      PROVE  \A a \in Attempts :
               attempt[a].status # "ABSENT" => attempt'[a].worker = attempt[a].worker
  <2>1. \A a \in Attempts : attempt[a].status # "ABSENT" => a # job.attemptNumber + 1
    BY DEF OwnerIsNewestAttempt, TypeOK, JobRow, Attempts
  <2>2. \A a \in Attempts : rows[a].worker = attempt[a].worker
    BY <1>3, WithStatusValue
  <2>3. \A a \in Attempts : a # job.attemptNumber + 1 => attempt'[a] = rows[a]
    BY <1>3, WithStatusType DEF Grant, TypeOK, AttemptStatuses
  <2>4. QED
    BY <2>1, <2>2, <2>3
<1>4. \/ UNCHANGED attempt
      \/ \E b, s : attempt' = WithStatus(b, s)
      \/ \E w \in Workers : \/ Grant(w, attempt, 1)
                            \/ Grant(w, WithStatus(job.active, "EXPIRED"), 2)
  <2>1. ASSUME NEW c \in Credential, OwnerRequest(c)
        PROVE  UNCHANGED attempt \/ \E b, s : attempt' = WithStatus(b, s)
    BY <2>1 DEF OwnerRequest, Start, Heartbeat, PrepareOperation, DispatchOperation,
       MarkNotSubmitted, Apply, ConfirmOperation, SetStatus, IngestOwned, StoreEvidence,
       Complete, FailPlatform, AcknowledgeCancel, TimeoutOwned, FinishTerminal, Park
  <2>2. CASE OpenRequest
    BY <2>2 DEF OpenRequest, Claim, Park, MarkUnknownOutcome, Reconcile, IngestQueued,
       StoreEvidence, CancelQueued, TimeoutQueued, FinishTerminal, RequestCancel
  <2>3. QED
    BY <2>1, <2>2 DEF Next, RegisterCanonical, LeaseLapses, LeaseExpires, vars
<1>5. QED
  BY <1>1, <1>2, <1>3, <1>4

\* The strengthening: the attempt of an owner record exists, as its worker's.
RecordsAreOwn ==
  \A w \in Workers : Holds(w) =>
    /\ attempt[worker[w].attempt].status # "ABSENT"
    /\ attempt[worker[w].attempt].worker = w
    /\ worker[w].version =< job.version
    /\ worker[w].reply =< job.version

WorkerInv == IndInv /\ worker \in [Workers -> WorkerRow] /\ RecordsAreOwn

\* Each step keeps every owner record the record of its worker.
LEMMA RecordsStep ==
  ASSUME WorkerInv, [WorkerNext]_workerVars
  PROVE  WorkerInv'
<1> USE DEF WorkerInv
<1>1. [Next]_vars /\ RecordsFollow /\ IndInv'
  BY WorkerNextFaithful, IndStep DEF Faithful
<1>2. /\ job.version \in Nat /\ job'.version \in Nat /\ job'.version >= job.version
      /\ job.attemptNumber \in Nat /\ job'.attemptNumber \in Nat
      /\ job'.attemptNumber >= job.attemptNumber
  BY <1>1, HistoryStep DEF IndInv, TypeOK, JobRow
<1>3. \A a \in Attempts : attempt[a].status # "ABSENT" =>
        attempt'[a].status # "ABSENT" /\ attempt'[a].worker = attempt[a].worker
  <2>1. \A a \in Attempts : /\ attempt[a].status = "ABSENT" <=> a > job.attemptNumber
                            /\ attempt'[a].status = "ABSENT" <=> a > job'.attemptNumber
    BY <1>1 DEF IndInv, OwnerIsNewestAttempt
  <2>2. QED
    BY <1>1, <1>2, <2>1, HistoryStep DEF Attempts
<1>4. ASSUME NEW w \in Workers, Holds(w)'
      PROVE  /\ attempt'[worker'[w].attempt].status # "ABSENT"
             /\ attempt'[worker'[w].attempt].worker = w
             /\ worker'[w].version =< job'.version
             /\ worker'[w].reply =< job'.version
  <2>1. CASE Keeps(w)
    <3>1. Holds(w) /\ worker[w].attempt \in Attempts /\ worker'[w].attempt = worker[w].attempt
      BY <1>4, <2>1, BoundsAssumption DEF Holds, Keeps, WorkerRow, Attempts
    <3>2. worker[w].version \in Nat /\ worker[w].reply \in Nat
      BY DEF WorkerRow
    <3>3. QED
      BY <1>2, <1>3, <2>1, <3>1, <3>2 DEF RecordsAreOwn, Keeps
  <2>2. CASE Takes(w)
    <3>1. /\ job'.active = job'.attemptNumber /\ job'.worker = attempt'[job'.active].worker
          /\ job'.active \in 0 .. MaxAttempts
      BY <1>1, <2>2 DEF Takes, IndInv, OwnerIsNewestAttempt, TypeOK, JobRow
    <3>2. attempt'[job'.active].status # "ABSENT"
      BY <1>1, <2>2, <3>1, BoundsAssumption DEF Takes, IndInv, OwnerIsNewestAttempt, Attempts
    <3>3. QED
      BY <1>2, <2>2, <3>1, <3>2 DEF Takes
  <2>3. QED
    BY <1>1, <1>4, <2>1, <2>2 DEF RecordsFollow, Drops, Holds
<1>5. RecordsAreOwn'
  BY <1>4 DEF RecordsAreOwn
<1>6. QED
  BY <1>1, <1>5 DEF RecordsFollow

\* No worker ever holds a fencing tuple handed out to another, nor a version
\* from the future: requireOwner tells the workers apart.
THEOREM CredentialsOwn == WorkerSpec => []CredentialsAreOwn
<1>1. ASSUME WorkerInit PROVE WorkerInv
  <2>1. \A w \in Workers : ~Holds(w)
    BY <1>1 DEF WorkerInit, Holds, IdleWorker
  <2>2. QED
    BY <1>1, <2>1, WorkersStartIdle, IndInit DEF WorkerInit, WorkerInv, RecordsAreOwn
<1>2. WorkerInv => CredentialsAreOwn
  BY DEF WorkerInv, RecordsAreOwn, CredentialsAreOwn, Holds
<1>3. QED
  BY <1>1, <1>2, RecordsStep, PTL DEF WorkerSpec

-----------------------------------------------------------------------------
\* Where the workers are, and what that says of the job and its operation.

\* The worker may present the current fencing tuple: it has the version, or the
\* reply to a heartbeat that brings it is under way.
Current(w) ==
  /\ Holds(w) /\ worker[w].attempt = job.active
  /\ \/ worker[w].version = job.version
     \/ worker[w].reply # 0 /\ worker[w].reply = job.version

Unowned == {"idle", "detail", "unknown", "settle"}
Driven == {"fetch", "prepare", "inspect", "precheck", "dispatch", "check", "execute", "running"}
Settled == {"register", "evidence", "complete"}

\* The one operation of the job, its file and its verdict.
Books ==
  /\ effect = {}
  /\ Status = "CONFIRMED" => artifact
  /\ artifact => ran # {}
  /\ Status = "UNKNOWN_OUTCOME" =>
       job.state \in {"RECONCILE_REQUIRED", "CANCEL_REQUESTED"} \cup TerminalStates
  /\ job.state = "COMPLETED" => Status = "CONFIRMED"

\* There is one evidence row at most, about the target, of a granted attempt.
Filed ==
  /\ \A e \in EvidenceIds : Stored(e) =>
       evidence[e].entity = Evaluation /\ evidence[e].attempt =< job.attemptNumber
  /\ \A e, f \in EvidenceIds : Stored(e) /\ Stored(f) => e = f

\* What a step of a worker presumes, whoever owns the job by now.
Bound(w) ==
  /\ worker[w].pc \notin Unowned => Holds(w)
  /\ At(w, "running") => ran # {}
  /\ At(w, "confirm") => artifact
  /\ worker[w].pc \in Settled => Status = "CONFIRMED"

\* What it presumes of the job and the operation while it is still the owner.
Driving(w) == Current(w) =>
  /\ worker[w].pc \in Driven => job.state = "RUNNING"
  /\ At(w, "inspect") => Status # "ABSENT"
  /\ worker[w].pc \in {"check", "execute"} => Status \in {"IN_FLIGHT", "CONFIRMED"}
  /\ At(w, "running") => Status = "IN_FLIGHT"

\* The evidence a worker is about to cite is that of its own attempt.
CitedBy(w) ==
  IF At(w, "complete") THEN {ExecutionEvidence}
  ELSE IF At(w, "ack") THEN {CancelEvidence}
  ELSE IF At(w, "failPlatform") THEN {PlatformEvidence} ELSE {}

Proving(w) == Holds(w) /\ worker[w].attempt = job.active =>
  \A e \in CitedBy(w) : Stored(e) /\ evidence[e].attempt = job.active

Placed(w) == Bound(w) /\ Driving(w) /\ Proving(w)

Counters ==
  /\ artifact \in BOOLEAN
  /\ ran \subseteq Attempts
  /\ faults \in 0 .. MaxFaults
  /\ renewals \in 0 .. MaxRenewals

PlaceInv == WorkerInv /\ Counters /\ Books /\ Filed /\ \A w \in Workers : Placed(w)

\* The row keeps its state and owner under one version, and an attempt that was
\* granted once never becomes the owner a second time.
LEMMA OwnerStep ==
  ASSUME IndInv, [Next]_vars
  PROVE  /\ job'.version = job.version => job'.state = job.state /\ job'.active = job.active
         /\ job'.version >= job.version /\ job'.attemptNumber >= job.attemptNumber
         /\ \A a \in 1 .. job.attemptNumber : job'.active = a => job.active = a
         /\ job.state \in TerminalStates => job' = job
<1>1. IndInv'
  BY IndStep
<1>2. ASSUME NEW a \in 1 .. job.attemptNumber, job'.active = a
      PROVE  job.active = a
  <2>1. job'.state \in OwnerStates /\ a = job'.attemptNumber
    BY <1>1, <1>2 DEF IndInv, OwnerIsNewestAttempt, TypeOK, JobRow
  <2>2. CASE UNCHANGED job \/ LeaseOnly
    BY <1>2, <2>2 DEF LeaseOnly, IndInv, TypeOK, JobRow
  <2>3. CASE Promise!JobNext
    <3>1. job'.attemptNumber = job.attemptNumber + 1 \/ job.state \in OwnerStates
      BY <2>1, <2>3 DEF Promise!JobNext, Promise!GrantJob, Promise!KeepJob, Promise!DoubtJob,
         Promise!SettleJob, Promise!FinishJob, Promise!Verdicts, Phase, OwnerStates, IndInv,
         TypeOK, JobRow, JobStates, TerminalStates
    <3>2. job.state \in OwnerStates /\ job'.attemptNumber = job.attemptNumber
      BY <1>2, <2>1, <2>3, <3>1 DEF Promise!JobNext, Promise!GrantJob, Promise!KeepJob,
         Promise!DoubtJob, Promise!SettleJob, Promise!FinishJob, IndInv, TypeOK, JobRow
    <3>3. QED
      BY <2>1, <3>2 DEF IndInv, OwnerIsNewestAttempt
  <2>4. QED
    BY <2>2, <2>3, JobStep DEF Versioned
<1>3. job.version \in Nat /\ job'.version \in Nat
  BY <1>1 DEF IndInv, TypeOK, JobRow
<1>4. QED
  BY <1>2, <1>3, FencingStep, HistoryStep, TerminalStep

\* Stored evidence is never written again, and a confirmed operation stays so.
LEMMA RowsStay ==
  ASSUME IndInv, [Next]_vars
  PROVE  /\ \A e \in EvidenceIds : Stored(e) => evidence'[e] = evidence[e]
         /\ Status = "CONFIRMED" => Status' = "CONFIRMED"
<1> USE DEF IndInv
<1>0. Dispatch \in Operations
  BY WorkerAssumption
<1> DEFINE Kept == /\ \A e \in EvidenceIds : Stored(e) => evidence'[e] = evidence[e]
                   /\ Status = "CONFIRMED" => Status' = "CONFIRMED"
<1>1. UNCHANGED <<evidence, operation>> => Kept
  BY DEF Status
<1>2. ASSUME NEW e, NEW n, NEW out, NEW a, StoreEvidence(e, n, out, a)
      PROVE  Kept
  <2>1. /\ ~Stored(e)
        /\ evidence' = [evidence EXCEPT ![e] = [entity |-> n, attempt |-> a, outcome |-> out]]
        /\ UNCHANGED operation
    BY <1>2 DEF StoreEvidence, FreshEvidence
  <2>2. evidence \in [EvidenceIds -> EvidenceRow]
    BY DEF TypeOK
  <2>3. \A f \in EvidenceIds : Stored(f) => evidence'[f] = evidence[f]
    BY <2>1, <2>2
  <2>4. QED
    BY <2>1, <2>3 DEF Status
<1>3. ASSUME NEW c, NEW o \in Operations,
             \/ PrepareOperation(c, o) \/ DispatchOperation(c, o) \/ MarkNotSubmitted(c, o)
             \/ Apply(c, o) \/ \E r \in BOOLEAN : ConfirmOperation(c, o, r)
      PROVE  Kept
  <2>1. UNCHANGED evidence
    BY <1>3 DEF PrepareOperation, DispatchOperation, MarkNotSubmitted, Apply, SetStatus,
       ConfirmOperation
  <2>2. Status = "CONFIRMED" => Status' = "CONFIRMED"
    BY <1>0, <1>3 DEF PrepareOperation, DispatchOperation, MarkNotSubmitted, Apply, SetStatus,
       ConfirmOperation, Status, TypeOK, OperationRow
  <2>3. QED
    BY <2>1, <2>2
<1>4. ASSUME NEW o \in Operations, MarkUnknownOutcome(o) \/ Reconcile(o)
      PROVE  Kept
  <2>1. UNCHANGED evidence
    BY <1>4 DEF MarkUnknownOutcome, Reconcile
  <2>2. Status = "CONFIRMED" => Status' = "CONFIRMED"
    BY <1>0, <1>4 DEF MarkUnknownOutcome, Reconcile, UnsafeStatuses, Status, TypeOK, OperationRow
  <2>3. QED
    BY <2>1, <2>2
<1>5. ASSUME NEW c \in Credential, OwnerRequest(c)
      PROVE  Kept
  <2>1. ASSUME \/ Start(c) \/ Heartbeat(c)
               \/ \E e \in EvidenceIds :
                    Complete(c, e) \/ FailPlatform(c, e) \/ AcknowledgeCancel(c, e)
                      \/ TimeoutOwned(c, e)
        PROVE  UNCHANGED <<evidence, operation>>
    BY <2>1 DEF Start, Heartbeat, Complete, FailPlatform, AcknowledgeCancel, TimeoutOwned,
       FinishTerminal, Park
  <2>2. QED
    BY <1>1, <1>2, <1>3, <1>5, <2>1 DEF OwnerRequest, IngestOwned
<1>6. CASE OpenRequest
  <2>1. ASSUME \/ \E w \in Workers : Claim(w)
               \/ \E e \in EvidenceIds : CancelQueued(e) \/ TimeoutQueued(e)
               \/ RequestCancel
        PROVE  UNCHANGED <<evidence, operation>>
    BY <2>1 DEF Claim, Grant, Park, CancelQueued, TimeoutQueued, FinishTerminal, RequestCancel
  <2>2. QED
    BY <1>1, <1>2, <1>4, <1>6, <2>1 DEF OpenRequest, IngestQueued
<1>7. QED
  BY <1>1, <1>5, <1>6 DEF Next, RegisterCanonical, LeaseLapses, LeaseExpires, vars

\* A worker that does not move keeps its place while another one acts.
LEMMA BystanderKeeps ==
  ASSUME PlaceInv, NEW w \in Workers, [Next]_vars, worker'[w] = worker[w],
         artifact => artifact', ran \subseteq ran',
         Current(w) /\ job'.version = job.version => Status' = Status
  PROVE  Placed(w)'
<1>1. /\ worker[w] \in WorkerRow /\ job.version \in Nat /\ job'.version \in Nat
      /\ job.attemptNumber \in Nat
  BY IndStep DEF PlaceInv, WorkerInv, IndInv, TypeOK, JobRow
<1>2. Holds(w) => worker[w].attempt \in 1 .. job.attemptNumber
  BY <1>1, BoundsAssumption DEF PlaceInv, WorkerInv, RecordsAreOwn, Holds, IndInv,
     OwnerIsNewestAttempt, WorkerRow, Attempts
<1>3. Bound(w)'
  BY RowsStay DEF PlaceInv, WorkerInv, Placed, Bound, Holds, At
<1>4. Current(w)' => Current(w) /\ job'.version = job.version
  <2>1. SUFFICES ASSUME Current(w)' PROVE job'.version = job.version
    BY <1>1, <1>2, OwnerStep DEF Current, Holds, PlaceInv, WorkerInv
  <2>2. worker[w].version =< job.version /\ worker[w].reply =< job.version
    BY <2>1 DEF Current, Holds, PlaceInv, WorkerInv, RecordsAreOwn
  <2>3. job'.version >= job.version
    BY OwnerStep DEF PlaceInv, WorkerInv
  <2>4. QED
    BY <1>1, <2>1, <2>2, <2>3 DEF Current, WorkerRow
<1>5. Driving(w)'
  BY <1>4, OwnerStep DEF PlaceInv, WorkerInv, Placed, Driving, At
<1>6. Proving(w)'
  <2>1. CitedBy(w)' = CitedBy(w) /\ CitedBy(w) \subseteq EvidenceIds
    BY WorkerAssumption DEF CitedBy, At
  <2>2. Holds(w)' /\ worker'[w].attempt = job'.active =>
          Holds(w) /\ worker[w].attempt = job.active /\ job'.active = job.active
    BY <1>2, OwnerStep DEF PlaceInv, WorkerInv, Holds
  <2>3. QED
    BY <2>1, <2>2, RowsStay DEF PlaceInv, WorkerInv, Placed, Proving, Stored
<1>7. QED
  BY <1>3, <1>5, <1>6 DEF Placed

\* What a step of worker v leaves to the others.
Aside(v) ==
  /\ \A w \in Workers \ {v} : worker'[w] = worker[w]
  /\ (artifact => artifact') /\ ran \subseteq ran'
  /\ \/ Status' = Status
     \/ job'.version # job.version
     \/ RequireOwner(Owner(v))
     \/ job.state \notin OwnerStates

\* Nobody else moves the operation of a worker that is the owner.
LEMMA OthersKeep ==
  ASSUME PlaceInv, NEW v \in Workers, [Next]_vars, Aside(v), NEW w \in Workers \ {v}
  PROVE  Placed(w)'
<1>1. ASSUME Current(w), job'.version = job.version
      PROVE  Status' = Status
  <2>1. worker[w].attempt = job.active /\ job.active # 0 /\ job.state \in OwnerStates
    BY <1>1 DEF Current, Holds, PlaceInv, WorkerInv, IndInv, OwnerIsNewestAttempt
  <2>2. attempt[job.active].worker = w
    BY <1>1, <2>1 DEF Current, PlaceInv, WorkerInv, RecordsAreOwn
  <2>3. ASSUME RequireOwner(Owner(v)) PROVE FALSE
    <3>1. Holds(v) /\ worker[v].attempt = job.active
      BY <2>1, <2>3 DEF RequireOwner, Owner, Holds
    <3>2. attempt[job.active].worker = v
      BY <3>1 DEF PlaceInv, WorkerInv, RecordsAreOwn
    <3>3. QED
      BY <2>2, <3>2
  <2>4. QED
    BY <1>1, <2>1, <2>3 DEF Aside
<1>2. QED
  BY <1>1, BystanderKeeps DEF Aside

\* Where a worker is after it has moved to another step.
LEMMA GotoMoves ==
  ASSUME worker \in [Workers -> WorkerRow], NEW v \in Workers, NEW pc \in Steps, Goto(v, pc)
  PROVE  /\ \A w \in Workers \ {v} : worker'[w] = worker[w]
         /\ worker'[v].pc = pc
         /\ pc = "idle" => worker'[v].attempt = 0
         /\ pc # "idle" => /\ worker'[v].attempt = worker[v].attempt
                           /\ worker'[v].version = worker[v].version
                           /\ worker'[v].reply = worker[v].reply
  BY DEF Goto, IdleWorker, WorkerRow

\* Steps at which nothing is presumed of the job.
Elsewhere == {"idle", "detail", "unknown", "settle", "start", "release", "cancelEvidence",
              "failing", "doubt", "settleCancel", "refresh"}

\* Outside the execution of its claim a worker has nothing to answer for but its
\* credentials.
LEMMA ElsewherePlaced ==
  ASSUME NEW v \in Workers, worker'[v].pc \in Elsewhere,
         worker'[v].pc \notin Unowned => Holds(v)'
  PROVE  Placed(v)'
  BY DEF Elsewhere, Unowned, Driven, Settled, Placed, Bound, Driving, Proving, CitedBy, At

\* Evidence rows are not touched: their attempts have long been granted.
LEMMA FiledKeeps ==
  ASSUME PlaceInv, [Next]_vars, UNCHANGED evidence
  PROVE  Filed'
<1>1. job'.attemptNumber >= job.attemptNumber
  BY OwnerStep DEF PlaceInv, WorkerInv
<1>2. job.attemptNumber \in Nat /\ job'.attemptNumber \in Nat
  BY IndStep DEF PlaceInv, WorkerInv, IndInv, TypeOK, JobRow
<1>3. \A e \in EvidenceIds : evidence[e].attempt \in Nat
  BY DEF PlaceInv, WorkerInv, IndInv, TypeOK, EvidenceRow
<1>4. QED
  BY <1>1, <1>2, <1>3 DEF PlaceInv, Filed, Stored

\* Handlers that write the job row, and not the operation.
LEMMA JobBooks ==
  ASSUME PlaceInv, [Next]_vars, UNCHANGED <<operation, effect, evidence, artifact, ran>>,
         job'.state = "COMPLETED" => Status = "CONFIRMED",
         Status = "UNKNOWN_OUTCOME" =>
           job'.state \in {"RECONCILE_REQUIRED", "CANCEL_REQUESTED"} \cup TerminalStates
  PROVE  Books' /\ Filed'
<1>1. Filed'
  BY FiledKeeps
<1>2. Books'
  BY DEF PlaceInv, Books, Status
<1>3. QED
  BY <1>1, <1>2

\* Handlers of the owner that write the operation, and not the job row.
LEMMA OperationBooks ==
  ASSUME PlaceInv, [Next]_vars, UNCHANGED <<job, effect, evidence, artifact, ran>>,
         Status' \in {"PREPARED", "IN_FLIGHT", "NOT_SUBMITTED", "CONFIRMED"},
         Status' = "CONFIRMED" => artifact,
         job.state # "COMPLETED"
  PROVE  Books' /\ Filed'
<1>1. Filed'
  BY FiledKeeps
<1>2. Books'
  BY DEF PlaceInv, Books
<1>3. QED
  BY <1>1, <1>2

\* What unknown and reconcile write to the job row.
LEMMA UnfencedRow ==
  ASSUME job \in JobRow
  PROVE  /\ Advance([job EXCEPT !.outcome = "ABSENT"]) =>
              job'.state = job.state /\ job'.active = job.active /\ job'.version # job.version
         /\ \A s : job' = UpdateStateClear(s, "ABSENT", NoEvidence) =>
              job'.state = s /\ job'.active = 0 /\ job'.version # job.version
<1>1. job.version + 1 # job.version
  BY DEF JobRow
<1>2. ASSUME Advance([job EXCEPT !.outcome = "ABSENT"])
      PROVE  job'.state = job.state /\ job'.active = job.active /\ job'.version # job.version
  BY <1>1, <1>2 DEF Advance, JobRow
<1>3. ASSUME NEW s, job' = UpdateStateClear(s, "ABSENT", NoEvidence)
      PROVE  job'.state = s /\ job'.active = 0 /\ job'.version # job.version
  BY <1>1, <1>3 DEF UpdateStateClear, JobRow
<1>4. QED
  BY <1>2, <1>3

\* Marking the operation unknown parks the job or leaves it stopping or ended.
LEMMA UnknownBooks ==
  ASSUME PlaceInv, [Next]_vars, UNCHANGED <<artifact, ran>>, MarkUnknownOutcome(Dispatch)
  PROVE  /\ Books' /\ Filed'
         /\ job'.version # job.version \/ job.state \notin OwnerStates
<1>0. Dispatch \in Operations
  BY WorkerAssumption
<1>1. Status' = "UNKNOWN_OUTCOME" /\ UNCHANGED <<effect, evidence>>
  BY <1>0 DEF MarkUnknownOutcome, Status, PlaceInv, WorkerInv, IndInv, TypeOK, OperationRow
<1>2. job \in JobRow /\ Filed'
  BY <1>1, FiledKeeps DEF PlaceInv, WorkerInv, IndInv, TypeOK
<1>3. job'.state \in {"RECONCILE_REQUIRED", "CANCEL_REQUESTED"} \cup TerminalStates
      /\ (job'.version # job.version \/ job.state \notin OwnerStates)
  BY <1>2, UnfencedRow DEF MarkUnknownOutcome, TerminalStates, OwnerStates
<1>4. job'.state # "COMPLETED"
  <2>1. operation[Dispatch].status \in UnsafeStatuses
    BY DEF MarkUnknownOutcome, UnsafeStatuses
  <2>2. job.state # "COMPLETED"
    BY <1>0, <2>1, ClosedAttempt DEF PlaceInv, WorkerInv
  <2>3. QED
    BY <1>2, <2>2, UnfencedRow DEF MarkUnknownOutcome
<1>5. QED
  BY <1>1, <1>2, <1>3, <1>4 DEF PlaceInv, Books

\* No effect is recorded for an Evaluation: reconciling settles it as never
\* submitted, and requeues the job.
LEMMA ReconcileBooks ==
  ASSUME PlaceInv, [Next]_vars, UNCHANGED <<artifact, ran>>, Reconcile(Dispatch)
  PROVE  /\ Books' /\ Filed'
         /\ job'.version # job.version \/ job.state \notin OwnerStates
<1>0. Dispatch \in Operations
  BY WorkerAssumption
<1>1. Status' = "NOT_SUBMITTED" /\ UNCHANGED <<effect, evidence>>
  BY <1>0 DEF Reconcile, Status, PlaceInv, Books, WorkerInv, IndInv, TypeOK, OperationRow
<1>2. job \in JobRow /\ Filed'
  BY <1>1, FiledKeeps DEF PlaceInv, WorkerInv, IndInv, TypeOK
<1>3. job.state # "COMPLETED"
  BY <1>0, ClosedAttempt DEF PlaceInv, WorkerInv, Reconcile
<1>4. job'.state # "COMPLETED" /\ (job'.version # job.version \/ job.state \notin OwnerStates)
  BY <1>2, <1>3, UnfencedRow DEF Reconcile, TerminalStates, OwnerStates
<1>5. QED
  BY <1>1, <1>2, <1>4 DEF PlaceInv, Books

\* Evidence about the target is the first, and of the active attempt or of none.
LEMMA EvidenceBooks ==
  ASSUME PlaceInv, [Next]_vars, UNCHANGED <<artifact, ran>>, NEW e \in EvidenceIds, NEW out,
         NEW a \in {0, job.active}, StoreEvidence(e, Evaluation, out, a)
  PROVE  Books' /\ Filed' /\ Stored(e)' /\ evidence'[e].attempt = a /\ UNCHANGED <<job, operation>>
<1>1. /\ UNCHANGED <<job, operation, effect>>
      /\ evidence' =
           [evidence EXCEPT ![e] = [entity |-> Evaluation, attempt |-> a, outcome |-> out]]
      /\ \A f \in EvidenceIds : evidence[f].entity # Evaluation
  BY DEF StoreEvidence, FreshEvidence
<1>2. evidence \in [EvidenceIds -> EvidenceRow] /\ job \in JobRow
  BY DEF PlaceInv, WorkerInv, IndInv, TypeOK
<1>3. /\ evidence'[e].entity = Evaluation /\ evidence'[e].attempt = a
      /\ \A f \in EvidenceIds \ {e} : evidence'[f] = evidence[f]
  BY <1>1, <1>2
<1>4. a =< job.attemptNumber
  BY <1>2 DEF PlaceInv, WorkerInv, IndInv, OwnerIsNewestAttempt, JobRow
<1>5. \A f \in EvidenceIds : ~Stored(f)
  BY <1>1 DEF PlaceInv, Filed
<1>6. Evaluation # NoEntity
  BY WorkerAssumption, NullsAssumption
<1>7. Filed' /\ Stored(e)'
  BY <1>1, <1>3, <1>4, <1>5, <1>6 DEF Filed, Stored
<1>8. Books'
  BY <1>1 DEF PlaceInv, Books, Status
<1>9. QED
  BY <1>1, <1>3, <1>7, <1>8

\* A step of worker v keeps the books and its own place, and leaves the others be.
StepOK(v) == Aside(v) /\ Books' /\ Filed' /\ Placed(v)'

\* Replies that change nothing at the boundary.
LEMMA SilentMoves ==
  ASSUME PlaceInv, NEW v \in Workers, NEW pc \in Steps, Answered(v, pc),
         artifact => artifact', ran \subseteq ran', artifact' => ran' # {}
  PROVE  /\ Aside(v) /\ Books' /\ Filed' /\ worker'[v].pc = pc
         /\ UNCHANGED <<job, operation, evidence>> /\ Status' = Status
         /\ pc # "idle" => /\ worker'[v].attempt = worker[v].attempt
                           /\ Current(v)' = Current(v) /\ Holds(v)' = Holds(v)
<1>1. worker \in [Workers -> WorkerRow] /\ UNCHANGED vars /\ Goto(v, pc)
  BY DEF PlaceInv, WorkerInv, Answered
<1>2. UNCHANGED <<job, operation, effect, evidence>> /\ Status' = Status
  BY <1>1 DEF vars, Status
<1>3. Aside(v)
  BY <1>1, <1>2, GotoMoves DEF Aside
<1>4. Books' /\ Filed'
  BY <1>2 DEF PlaceInv, Books, Filed, Stored
<1>5. pc # "idle" => /\ worker'[v].attempt = worker[v].attempt
                     /\ Current(v)' = Current(v) /\ Holds(v)' = Holds(v)
  BY <1>1, <1>2, GotoMoves DEF Current, Holds
<1>6. QED
  BY <1>1, <1>2, <1>3, <1>4, <1>5, GotoMoves

\* A refused request, or an answer that sends the worker elsewhere.
LEMMA SilentElsewhere ==
  ASSUME PlaceInv, NEW v \in Workers, NEW pc \in Elsewhere, Answered(v, pc),
         UNCHANGED <<artifact, ran>>,
         pc \notin Unowned => worker[v].pc \notin Unowned
  PROVE  StepOK(v)
<1>1. pc \in Steps /\ (artifact' => ran' # {})
  BY DEF Elsewhere, Steps, FencedSteps, PlaceInv, Books
<1>2. pc \notin Unowned => Holds(v) /\ pc # "idle"
  BY DEF PlaceInv, Placed, Bound, Unowned
<1>3. Placed(v)'
  BY <1>1, <1>2, SilentMoves, ElsewherePlaced
<1>4. QED
  BY <1>1, <1>3, SilentMoves DEF StepOK

\* An answer that sends the worker on to a step of its main line.
LEMMA SilentOn ==
  ASSUME PlaceInv, NEW v \in Workers,
         NEW pc \in {"prepare", "inspect", "precheck", "dispatch", "check", "execute"},
         Answered(v, pc), UNCHANGED <<artifact, ran>>,
         worker[v].pc \in Driven,
         pc = "inspect" => Status # "ABSENT",
         pc \in {"check", "execute"} => (Current(v) => Status \in {"IN_FLIGHT", "CONFIRMED"})
  PROVE  StepOK(v)
<1>1. pc \in Steps /\ pc \in Driven /\ pc # "idle" /\ (artifact' => ran' # {})
  BY DEF Driven, Steps, FencedSteps, PlaceInv, Books
<1>2. Holds(v) /\ (Current(v) => job.state = "RUNNING")
  BY DEF PlaceInv, Placed, Bound, Driving, Unowned, Driven
<1>3. Bound(v)' /\ Proving(v)'
  BY <1>1, <1>2, SilentMoves DEF Bound, Proving, CitedBy, At, Settled
<1>4. Driving(v)'
  BY <1>1, <1>2, SilentMoves DEF Driving, At
<1>5. QED
  BY <1>1, <1>3, <1>4, SilentMoves DEF StepOK, Placed

\* The owner of a job that is not being cancelled drives a known operation.
LEMMA DrivenStatus ==
  ASSUME PlaceInv, NEW v \in Workers, Current(v), worker[v].pc \in Driven
  PROVE  Status # "UNKNOWN_OUTCOME" /\ job.state = "RUNNING"
  BY DEF PlaceInv, Placed, Driving, Books, TerminalStates

\* Polling and reconciling.
LEMMA PollOK ==
  ASSUME PlaceInv, NEW v \in Workers, [Next]_vars, UNCHANGED <<artifact, ran>>,
         DiscoverDoubt(v) \/ ReadDetail(v) \/ Rejected(v)
  PROVE  StepOK(v)
<1>1. {"idle", "detail", "unknown"} \subseteq Elsewhere \cap Unowned
  BY DEF Elsewhere, Unowned
<1>2. QED
  BY <1>1, SilentElsewhere DEF DiscoverDoubt, ReadDetail, Rejected, Refused

LEMMA UnfencedOK ==
  ASSUME PlaceInv, NEW v \in Workers, [Next]_vars, UNCHANGED <<artifact, ran>>,
         NEW from \in Steps, NEW to \in Elsewhere, from \notin Unowned \/ to \in Unowned,
         ReportUnknown(v, from, to) \/ Settle(v, from, to)
  PROVE  StepOK(v)
<1>1. worker[v].pc = from /\ "idle" \in Elsewhere /\ "idle" \in Unowned /\ to \in Steps
  BY DEF ReportUnknown, Settle, At, Elsewhere, Unowned, Steps, FencedSteps
<1>2. CASE Goto(v, to) /\ (MarkUnknownOutcome(Dispatch) \/ Reconcile(Dispatch))
  <2>1. /\ Books' /\ Filed'
        /\ job'.version # job.version \/ job.state \notin OwnerStates
    BY <1>2, UnknownBooks, ReconcileBooks
  <2>2. worker \in [Workers -> WorkerRow] /\ (from \notin Unowned => Holds(v))
    BY <1>1 DEF PlaceInv, WorkerInv, Placed, Bound
  <2>3. worker'[v].pc = to /\ (to \notin Unowned => Holds(v)')
    BY <1>1, <1>2, <2>2, GotoMoves DEF Holds, Unowned
  <2>4. Aside(v)
    BY <1>1, <1>2, <2>1, <2>2, GotoMoves DEF Aside
  <2>5. QED
    BY <2>1, <2>3, <2>4, ElsewherePlaced DEF StepOK
<1>3. CASE Answered(v, to) \/ Answered(v, "idle")
  BY <1>1, <1>3, SilentElsewhere
<1>4. QED
  BY <1>2, <1>3 DEF ReportUnknown, Settle, Refused

\* A claim that is granted starts a worker with its own record.
LEMMA ClaimOK ==
  ASSUME PlaceInv, NEW v \in Workers, [Next]_vars, UNCHANGED <<artifact, ran>>, ClaimJob(v)
  PROVE  StepOK(v)
<1> USE DEF PlaceInv, WorkerInv
<1>1. job.state \notin TerminalStates \cup {"RECONCILE_REQUIRED", "CANCEL_REQUESTED"}
      /\ UNCHANGED <<operation, effect, evidence>>
  BY DEF ClaimJob, Claim, Grant, Park
<1>2. job'.state # "COMPLETED" /\ Status # "UNKNOWN_OUTCOME"
  <2>1. job'.state \in {"CLAIMED", "RECONCILE_REQUIRED"}
    BY DEF ClaimJob, Claim, Grant, Park, UpdateStateClear, IndInv, TypeOK, JobRow
  <2>2. QED
    BY <1>1, <2>1 DEF Books
<1>3. Books' /\ Filed'
  BY <1>1, <1>2, JobBooks
<1>4. CASE job'.state # "CLAIMED"
  <2>1. UNCHANGED worker /\ worker[v].pc = "idle"
    BY <1>4 DEF ClaimJob, At
  <2>2. QED
    BY <1>1, <1>3, <2>1, ElsewherePlaced DEF StepOK, Aside, Elsewhere, Unowned, Status
<1>5. CASE job'.state = "CLAIMED"
  <2>1. job'.active # 0
    BY <1>5, IndStep DEF IndInv, OwnerIsNewestAttempt, OwnerStates
  <2>2. /\ worker'[v].pc = "start" /\ worker'[v].attempt = job'.active
        /\ \A w \in Workers \ {v} : worker'[w] = worker[w]
    BY <1>5 DEF ClaimJob
  <2>3. Aside(v) /\ Placed(v)'
    BY <1>1, <2>1, <2>2, ElsewherePlaced DEF Aside, Elsewhere, Holds, Status
  <2>4. QED
    BY <1>3, <2>3 DEF StepOK
<1>6. QED
  BY <1>4, <1>5

\* start_job: the worker has the new version, and the job is running.
LEMMA StartOK ==
  ASSUME PlaceInv, NEW v \in Workers, [Next]_vars, UNCHANGED <<artifact, ran>>, StartJob(v)
  PROVE  StepOK(v)
<1> USE DEF PlaceInv, WorkerInv
<1>1. /\ job.state = "CLAIMED" /\ job'.state = "RUNNING" /\ RequireOwner(Owner(v))
      /\ UNCHANGED <<operation, effect, evidence>>
  BY DEF StartJob, Start, Advance, IndInv, TypeOK, JobRow
<1>2. Books' /\ Filed'
  BY <1>1, JobBooks DEF Books, TerminalStates
<1>3. /\ \A w \in Workers \ {v} : worker'[w] = worker[w]
      /\ worker'[v].pc = "fetch" /\ worker'[v].attempt = worker[v].attempt
  BY DEF StartJob, WorkerRow
<1>4. Holds(v)
  BY DEF StartJob, Placed, Bound, Unowned, At
<1>5. Placed(v)'
  BY <1>1, <1>3, <1>4 DEF Placed, Bound, Driving, Proving, CitedBy, At, Holds, Settled
<1>6. QED
  BY <1>1, <1>2, <1>3, <1>5 DEF StepOK, Aside

LEMMA CheckOK ==
  ASSUME PlaceInv, NEW v \in Workers, [Next]_vars, UNCHANGED <<artifact, ran>>,
         \/ CheckCancel(v, "fetch", "prepare")
         \/ CheckCancel(v, "precheck", "dispatch")
         \/ CheckCancel(v, "check", "execute")
         \/ Inspect(v)
  PROVE  StepOK(v)
<1> USE DEF PlaceInv
<1>1. CancelStep \in Elsewhere /\ CancelStep \notin Unowned
  BY DEF CancelStep, Elsewhere, Unowned
<1>2. ASSUME NEW from, NEW to,
             <<from, to>> \in {<<"fetch", "prepare">>, <<"precheck", "dispatch">>,
                               <<"check", "execute">>},
             CheckCancel(v, from, to)
      PROVE  StepOK(v)
  <2>1. worker[v].pc = from /\ from \in Driven /\ from \notin Unowned
        /\ to \in {"prepare", "dispatch", "execute"} /\ (to = "execute" => from = "check")
    BY <1>2 DEF CheckCancel, At, Driven, Unowned
  <2>2. CASE Answered(v, CancelStep)
    BY <1>1, <2>1, <2>2, SilentElsewhere
  <2>3. CASE Answered(v, to)
    BY <2>1, <2>3, SilentOn DEF Placed, Driving
  <2>4. QED
    BY <1>2, <2>2, <2>3 DEF CheckCancel
<1>3. CASE Inspect(v)
  <2>1. worker[v].pc = "inspect" /\ "inspect" \in Driven
    BY <1>3 DEF Inspect, At, Driven
  <2>2. Current(v) => Status \notin {"ABSENT", "UNKNOWN_OUTCOME"}
    BY <2>1, DrivenStatus DEF Placed, Driving, At
  <2>3. Status \in OperationStatuses \cup {"ABSENT"}
    BY WorkerAssumption DEF Status, WorkerInv, IndInv, TypeOK, OperationRow
  <2>4. CASE Status \in {"PREPARED", "NOT_SUBMITTED"} /\ Answered(v, "precheck")
    BY <2>1, <2>4, SilentOn
  <2>5. CASE Status \notin {"PREPARED", "NOT_SUBMITTED"} /\ Answered(v, "check")
    <3>1. Current(v) => Status \in {"IN_FLIGHT", "CONFIRMED"}
      BY <2>2, <2>3, <2>5 DEF OperationStatuses, UnsafeStatuses
    <3>2. QED
      BY <2>1, <2>5, <3>1, SilentOn
  <2>6. QED
    BY <1>3, <2>4, <2>5 DEF Inspect
<1>4. QED
  BY <1>2, <1>3

\* The owner's writes to the operation.
LEMMA OwnerWrites ==
  ASSUME PlaceInv, NEW v \in Workers, [Next]_vars, UNCHANGED <<artifact, ran>>,
         NEW pc \in Steps \ {"idle"}, Goto(v, pc), RequireOwner(Owner(v)),
         UNCHANGED <<job, effect, evidence>>,
         Status' \in {"PREPARED", "IN_FLIGHT", "NOT_SUBMITTED", "CONFIRMED"},
         Status' = "CONFIRMED" => artifact
  PROVE  /\ Aside(v) /\ Books' /\ Filed' /\ worker'[v].pc = pc
         /\ worker'[v].attempt = worker[v].attempt
         /\ Current(v)' = Current(v) /\ Holds(v)' = Holds(v)
<1>1. worker \in [Workers -> WorkerRow] /\ job.state # "COMPLETED"
  BY DEF PlaceInv, WorkerInv, RequireOwner, OwnerStates
<1>2. Books' /\ Filed'
  BY <1>1, OperationBooks
<1>3. Current(v)' = Current(v) /\ Holds(v)' = Holds(v)
  BY <1>1, GotoMoves DEF Current, Holds
<1>4. QED
  BY <1>1, <1>2, <1>3, GotoMoves DEF Aside

LEMMA PrepareOK ==
  ASSUME PlaceInv, NEW v \in Workers, [Next]_vars, UNCHANGED <<artifact, ran>>, Prepare(v)
  PROVE  StepOK(v)
<1>0. worker[v].pc = "prepare" /\ "prepare" \in Driven /\ "inspect" \in Steps \ {"idle"}
      /\ Dispatch \in Operations
  BY WorkerAssumption DEF Prepare, At, Driven, Steps, FencedSteps
<1>1. CASE PrepareOperation(Owner(v), Dispatch) /\ Goto(v, "inspect")
  <2>1. Status' = "PREPARED" /\ RequireOwner(Owner(v)) /\ UNCHANGED <<job, effect, evidence>>
    BY <1>0, <1>1 DEF PrepareOperation, Status, PlaceInv, WorkerInv, IndInv, TypeOK
  <2>2. /\ Aside(v) /\ Books' /\ Filed' /\ worker'[v].pc = "inspect"
        /\ Current(v)' = Current(v) /\ Holds(v)' = Holds(v)
    BY <1>0, <1>1, <2>1, OwnerWrites
  <2>3. Holds(v) /\ (Current(v) => job'.state = "RUNNING")
    BY <1>0, <2>1 DEF PlaceInv, Placed, Bound, Driving, Unowned
  <2>4. Placed(v)'
    BY <2>1, <2>2, <2>3 DEF Placed, Bound, Driving, Proving, CitedBy, At, Settled
  <2>5. QED
    BY <2>2, <2>4 DEF StepOK
<1>2. CASE Status # "ABSENT" /\ Answered(v, "inspect")
  BY <1>0, <1>2, SilentOn
<1>3. QED
  BY <1>1, <1>2 DEF Prepare

LEMMA DispatchOK ==
  ASSUME PlaceInv, NEW v \in Workers, [Next]_vars, UNCHANGED <<artifact, ran>>, DispatchJob(v)
  PROVE  StepOK(v)
<1>0. worker[v].pc = "dispatch" /\ "dispatch" \in Driven /\ "check" \in Steps \ {"idle"}
      /\ Dispatch \in Operations
  BY WorkerAssumption DEF DispatchJob, At, Driven, Steps, FencedSteps
<1>1. CASE DispatchOperation(Owner(v), Dispatch) /\ Goto(v, "check")
  <2>1. Status' = "IN_FLIGHT" /\ RequireOwner(Owner(v)) /\ UNCHANGED <<job, effect, evidence>>
    BY <1>0, <1>1 DEF DispatchOperation, SetStatus, Status, PlaceInv, WorkerInv, IndInv, TypeOK,
       OperationRow
  <2>2. /\ Aside(v) /\ Books' /\ Filed' /\ worker'[v].pc = "check"
        /\ Current(v)' = Current(v) /\ Holds(v)' = Holds(v)
    BY <1>0, <1>1, <2>1, OwnerWrites
  <2>3. Holds(v) /\ (Current(v) => job'.state = "RUNNING")
    BY <1>0, <2>1 DEF PlaceInv, Placed, Bound, Driving, Unowned
  <2>4. Placed(v)'
    BY <2>1, <2>2, <2>3 DEF Placed, Bound, Driving, Proving, CitedBy, At, Settled
  <2>5. QED
    BY <2>2, <2>4 DEF StepOK
<1>2. CASE Status \in {"CONFIRMED", "IN_FLIGHT"} /\ Answered(v, "check")
  BY <1>0, <1>2, SilentOn
<1>3. QED
  BY <1>1, <1>2 DEF DispatchJob

LEMMA ConfirmOK ==
  ASSUME PlaceInv, NEW v \in Workers, [Next]_vars, UNCHANGED <<artifact, ran>>, Confirm(v)
  PROVE  StepOK(v)
<1>0. worker[v].pc = "confirm" /\ "register" \in Steps \ {"idle"} /\ Dispatch \in Operations
  BY WorkerAssumption DEF Confirm, At, Steps
<1>a. Holds(v) /\ artifact
  BY <1>0 DEF PlaceInv, Placed, Bound, Unowned, At
<1>1. CASE ConfirmOperation(Owner(v), Dispatch, TRUE) /\ Goto(v, "register")
  <2>1. Status' = "CONFIRMED" /\ RequireOwner(Owner(v)) /\ UNCHANGED <<job, effect, evidence>>
    BY <1>0, <1>1 DEF ConfirmOperation, Status, PlaceInv, WorkerInv, IndInv, TypeOK, OperationRow
  <2>2. /\ Aside(v) /\ Books' /\ Filed' /\ worker'[v].pc = "register" /\ Holds(v)' = Holds(v)
    BY <1>0, <1>a, <1>1, <2>1, OwnerWrites
  <2>3. Placed(v)'
    BY <1>a, <2>1, <2>2 DEF Placed, Bound, Driving, Proving, CitedBy, At, Settled, Driven
  <2>4. QED
    BY <2>2, <2>3 DEF StepOK
<1>2. CASE Status = "CONFIRMED" /\ Answered(v, "register")
  <2>1. artifact' => ran' # {}
    BY DEF PlaceInv, Books
  <2>2. /\ Aside(v) /\ Books' /\ Filed' /\ worker'[v].pc = "register" /\ Holds(v)' = Holds(v)
        /\ Status' = "CONFIRMED"
    BY <1>0, <1>2, <2>1, SilentMoves
  <2>3. Placed(v)'
    BY <1>a, <2>2 DEF Placed, Bound, Driving, Proving, CitedBy, At, Settled, Driven
  <2>4. QED
    BY <2>2, <2>3 DEF StepOK
<1>3. QED
  BY <1>1, <1>2 DEF Confirm

\* ingest_file: registering the artifact changes neither the job nor its operation.
LEMMA RegisterOK ==
  ASSUME PlaceInv, NEW v \in Workers, [Next]_vars, UNCHANGED <<artifact, ran>>, Register(v)
  PROVE  StepOK(v)
<1>1. worker \in [Workers -> WorkerRow] /\ "evidence" \in Steps
      /\ UNCHANGED <<job, operation, effect, evidence>> /\ Status' = Status
  BY DEF PlaceInv, WorkerInv, Steps, FencedSteps, Register, RegisterCanonical, Status
<1>2. Holds(v) /\ Status = "CONFIRMED"
  BY DEF PlaceInv, Placed, Bound, Register, At, Unowned, Settled
<1>3. Books' /\ Filed'
  BY <1>1, FiledKeeps DEF PlaceInv, Books
<1>4. worker'[v].pc = "evidence" /\ Holds(v)'
  BY <1>1, <1>2, GotoMoves DEF Register, Holds
<1>5. Placed(v)'
  BY <1>1, <1>2, <1>4 DEF Placed, Bound, Driving, Proving, CitedBy, At, Driven
<1>6. Aside(v)
  BY <1>1, GotoMoves DEF Aside, Register
<1>7. QED
  BY <1>3, <1>5, <1>6 DEF StepOK

\* Where a worker goes to cite the evidence it has stored or replayed.
Cites(to, e) ==
  <<to, e>> \in {<<"complete", ExecutionEvidence>>, <<"ack", CancelEvidence>>,
                 <<"failPlatform", PlatformEvidence>>}

\* Evidence that was accepted is of the active attempt, or the job has none.
LEMMA IngestOK ==
  ASSUME PlaceInv, NEW v \in Workers, [Next]_vars, UNCHANGED <<artifact, ran>>,
         NEW from, NEW e \in EvidenceIds, NEW out, NEW to \in Steps,
         <<from, to>> \in {<<"evidence", "complete">>, <<"cancelEvidence", "ack">>,
                           <<"failing", "failPlatform">>},
         Cites(to, e), Ingest(v, from, e, out, to)
  PROVE  StepOK(v)
<1>0. worker \in [Workers -> WorkerRow] /\ "idle" \in Steps
  BY DEF PlaceInv, WorkerInv, Steps
<1>1. worker[v].pc = from /\ from \notin Unowned /\ Holds(v)
  BY DEF Ingest, At, Unowned, PlaceInv, Placed, Bound
<1>2. to = "complete" => Status = "CONFIRMED"
  BY <1>1 DEF PlaceInv, Placed, Bound, Settled
<1>3. to # "idle" /\ to \notin Driven /\ to \in {"complete", "ack", "failPlatform"}
  BY DEF Driven
<1>4. ASSUME worker'[v].pc = to, Holds(v)', Status' = Status,
             worker'[v].attempt = job'.active => Stored(e)' /\ evidence'[e].attempt = job'.active
      PROVE  Placed(v)'
  <2>1. Bound(v)' /\ Driving(v)'
    BY <1>2, <1>3, <1>4 DEF Bound, Driving, At, Settled
  <2>2. CitedBy(v)' = {e}
    BY <1>3, <1>4 DEF CitedBy, At, Cites
  <2>3. Proving(v)'
    BY <1>4, <2>2 DEF Proving
  <2>4. QED
    BY <2>1, <2>3 DEF Placed
<1>5. ASSUME NEW a \in {0, job.active}, StoreEvidence(e, Evaluation, out, a), Goto(v, to),
             a = job.active \/ job.active = 0
      PROVE  StepOK(v)
  <2>1. /\ Books' /\ Filed' /\ Stored(e)' /\ evidence'[e].attempt = a
        /\ UNCHANGED <<job, operation>>
    BY <1>5, EvidenceBooks
  <2>2. Status' = Status
    BY <2>1 DEF Status
  <2>3. worker'[v].pc = to /\ Holds(v)' /\ Aside(v)
    BY <1>0, <1>1, <1>3, <1>5, <2>2, GotoMoves DEF Holds, Aside
  <2>4. worker'[v].attempt # 0
    BY <2>3 DEF Holds
  <2>5. QED
    BY <1>4, <1>5, <2>1, <2>2, <2>3, <2>4 DEF StepOK
<1>6. CASE IngestOwned(Owner(v), e, Evaluation, out) /\ Goto(v, to)
  BY <1>5, <1>6 DEF IngestOwned
<1>7. CASE IngestQueued(e, Evaluation, out) /\ Goto(v, to)
  <2>1. job.active = 0
    BY <1>7 DEF IngestQueued, PlaceInv, WorkerInv, IndInv, OwnerIsNewestAttempt, OwnerStates
  <2>2. QED
    BY <1>5, <1>7, <2>1 DEF IngestQueued
<1>8. CASE Stored(e) /\ evidence[e].attempt = job.active /\ Answered(v, to)
  <2>0. artifact' => ran' # {}
    BY DEF PlaceInv, Books
  <2>1. /\ Aside(v) /\ Books' /\ Filed' /\ worker'[v].pc = to /\ Holds(v)'
        /\ UNCHANGED <<job, operation, evidence>> /\ Status' = Status
    BY <1>1, <1>3, <1>8, <2>0, SilentMoves
  <2>2. QED
    BY <1>4, <1>8, <2>1 DEF StepOK, Stored
<1>9. CASE Refused(v)
  BY <1>9, SilentElsewhere DEF Refused, Elsewhere, Unowned
<1>10. QED
  BY <1>6, <1>7, <1>8, <1>9 DEF Ingest

\* A verdict ends the job, and its worker returns to polling.
LEMMA FinishOK ==
  ASSUME PlaceInv, NEW v \in Workers, [Next]_vars, UNCHANGED <<artifact, ran>>,
         NEW s \in TerminalStates, NEW out, NEW e, FinishTerminal(s, out, e),
         Goto(v, "idle"), s = "COMPLETED" => Status = "CONFIRMED"
  PROVE  StepOK(v)
<1>1. worker \in [Workers -> WorkerRow] /\ job \in JobRow /\ "idle" \in Steps
  BY DEF PlaceInv, WorkerInv, IndInv, TypeOK, Steps
<1>2. job'.state = s /\ UNCHANGED <<operation, effect, evidence>> /\ Status' = Status
  BY <1>1 DEF FinishTerminal, UpdateStateClear, JobRow, Status
<1>3. Books' /\ Filed'
  BY <1>2, JobBooks DEF TerminalStates
<1>4. Aside(v) /\ worker'[v].pc = "idle"
  BY <1>1, <1>2, GotoMoves DEF Aside
<1>5. Placed(v)'
  BY <1>4, ElsewherePlaced DEF Elsewhere, Unowned
<1>6. QED
  BY <1>3, <1>4, <1>5 DEF StepOK

LEMMA VerdictOK ==
  ASSUME PlaceInv, NEW v \in Workers, [Next]_vars, UNCHANGED <<artifact, ran>>,
         \/ CompleteJob(v)
         \/ Acknowledge(v)
         \/ FailPlatform(Owner(v), PlatformEvidence) /\ Goto(v, "idle")
  PROVE  StepOK(v)
<1>1. CASE CompleteJob(v)
  <2>1. Status = "CONFIRMED"
    BY <1>1 DEF CompleteJob, At, Settled, PlaceInv, Placed, Bound
  <2>2. QED
    BY <1>1, <2>1, FinishOK DEF CompleteJob, Complete, TerminalStates
<1>2. CASE Acknowledge(v)
  <2>1. CASE Refused(v)
    BY <2>1, SilentElsewhere DEF Refused, Elsewhere, Unowned
  <2>2. CASE AcknowledgeCancel(Owner(v), CancelEvidence) /\ Goto(v, "idle")
    BY <2>2, FinishOK DEF AcknowledgeCancel, TerminalStates
  <2>3. QED
    BY <1>2, <2>1, <2>2 DEF Acknowledge
<1>3. CASE FailPlatform(Owner(v), PlatformEvidence) /\ Goto(v, "idle")
  BY <1>3, FinishOK DEF FailPlatform, TerminalStates
<1>4. QED
  BY <1>1, <1>2, <1>3

\* Releasing a prepared operation, and taking the cancelled version over.
LEMMA ReleaseOK ==
  ASSUME PlaceInv, NEW v \in Workers, [Next]_vars, UNCHANGED <<artifact, ran>>, Release(v)
  PROVE  StepOK(v)
<1>0. worker[v].pc = "release" /\ "release" \notin Unowned /\ Holds(v)
      /\ {"refresh", "idle"} \subseteq Elsewhere /\ "idle" \in Unowned
      /\ "refresh" \in Steps \ {"idle"} /\ Dispatch \in Operations
  BY WorkerAssumption DEF Release, At, Elsewhere, Unowned, Steps, PlaceInv, Placed, Bound
<1>1. CASE MarkNotSubmitted(Owner(v), Dispatch) /\ Goto(v, "refresh")
  <2>1. Status' = "NOT_SUBMITTED" /\ RequireOwner(Owner(v)) /\ UNCHANGED <<job, effect, evidence>>
    BY <1>0, <1>1 DEF MarkNotSubmitted, SetStatus, Status, PlaceInv, WorkerInv, IndInv, TypeOK,
       OperationRow
  <2>2. /\ Aside(v) /\ Books' /\ Filed' /\ worker'[v].pc = "refresh" /\ Holds(v)' = Holds(v)
    BY <1>0, <1>1, <2>1, OwnerWrites
  <2>3. QED
    BY <1>0, <2>2, ElsewherePlaced DEF StepOK
<1>2. CASE Answered(v, "refresh") \/ Answered(v, "idle")
  BY <1>0, <1>2, SilentElsewhere
<1>3. QED
  BY <1>1, <1>2 DEF Release

LEMMA RefreshOK ==
  ASSUME PlaceInv, NEW v \in Workers, [Next]_vars, UNCHANGED <<artifact, ran>>, Refresh(v)
  PROVE  StepOK(v)
<1>0. UNCHANGED <<job, operation, effect, evidence>> /\ Status' = Status /\ Holds(v)
      /\ worker[v].pc = "refresh"
  BY DEF Refresh, vars, Status, PlaceInv, Placed, Bound, At, Unowned
<1>1. /\ \A w \in Workers \ {v} : worker'[w] = worker[w]
      /\ worker'[v].pc \in {"cancelEvidence", "failing"}
      /\ worker'[v].attempt = worker[v].attempt
  BY DEF Refresh, PlaceInv, WorkerInv, WorkerRow
<1>2. Books' /\ Filed'
  BY <1>0, FiledKeeps DEF PlaceInv, Books
<1>3. Aside(v)
  BY <1>0, <1>1 DEF Aside
<1>4. Placed(v)'
  BY <1>0, <1>1, ElsewherePlaced DEF Elsewhere, Holds
<1>5. QED
  BY <1>2, <1>3, <1>4 DEF StepOK

\* The Agent is started only where its operation is in flight, or by a worker
\* that is no longer the owner; it leaves a file behind.
LEMMA AgentOK ==
  ASSUME PlaceInv, NEW v \in Workers, [Next]_vars, Execute(v) \/ WriteArtifact(v)
  PROVE  StepOK(v)
<1>0. {"confirm", "running"} \subseteq Steps /\ worker[v].pc \in {"execute", "running"} /\ Holds(v)
  BY DEF Execute, WriteArtifact, At, Steps, FencedSteps, PlaceInv, Placed, Bound, Unowned
<1>1. CASE artifact' /\ Answered(v, "confirm") /\ UNCHANGED ran /\ ran # {}
  <2>1. /\ Aside(v) /\ Books' /\ Filed' /\ worker'[v].pc = "confirm" /\ Holds(v)'
    BY <1>0, <1>1, SilentMoves
  <2>2. Placed(v)'
    BY <1>1, <2>1 DEF Placed, Bound, Driving, Proving, CitedBy, At, Driven, Settled
  <2>3. QED
    BY <2>1, <2>2 DEF StepOK
<1>2. CASE /\ At(v, "execute") /\ ~artifact /\ UNCHANGED artifact
           /\ Answered(v, "running") /\ ran' = ran \cup {worker[v].attempt}
  <2>1. /\ Aside(v) /\ Books' /\ Filed' /\ worker'[v].pc = "running" /\ Holds(v)'
        /\ UNCHANGED <<job, operation, evidence>> /\ Status' = Status
        /\ Current(v)' = Current(v)
    BY <1>0, <1>2, SilentMoves
  <2>2. Current(v) => Status = "IN_FLIGHT" /\ job.state = "RUNNING"
    BY <1>2 DEF PlaceInv, Placed, Driving, At, Books, Driven
  <2>3. Placed(v)'
    BY <1>2, <2>1, <2>2 DEF Placed, Bound, Driving, Proving, CitedBy, At, Driven, Settled
  <2>4. QED
    BY <2>1, <2>3 DEF StepOK
<1>3. artifact => ran # {}
  BY DEF PlaceInv, Books
<1>4. CASE Execute(v)
  BY <1>1, <1>2, <1>3, <1>4 DEF Execute
<1>5. CASE WriteArtifact(v)
  <2>1. ran # {}
    BY <1>5 DEF WriteArtifact, PlaceInv, Placed, Bound
  <2>2. QED
    BY <1>1, <1>5, <2>1 DEF WriteArtifact
<1>6. QED
  BY <1>4, <1>5

\* The renewer: with the reply to a heartbeat the worker is as current as before.
LEMMA RenewalOK ==
  ASSUME PlaceInv, NEW v \in Workers, [Next]_vars, Renewal(v) \/ LoseRenewal(v)
  PROVE  StepOK(v)
<1>0. worker \in [Workers -> WorkerRow] /\ job \in JobRow /\ UNCHANGED <<artifact, ran>>
  BY DEF PlaceInv, WorkerInv, IndInv, TypeOK, Renewal, Renew, RenewRefused, ReceiveRenewal,
     LoseRenewal, Fault, local
<1>1. /\ \A w \in Workers \ {v} : worker'[w] = worker[w]
      /\ worker'[v].pc = worker[v].pc /\ worker'[v].attempt = worker[v].attempt
  BY <1>0 DEF Renewal, Renew, RenewRefused, ReceiveRenewal, LoseRenewal, WorkerRow
<1>2. UNCHANGED <<operation, effect, evidence>> /\ Status' = Status
      /\ job'.state = job.state /\ job'.active = job.active
  BY <1>0 DEF Renewal, Renew, RenewRefused, ReceiveRenewal, LoseRenewal, Heartbeat, Advance,
     vars, JobRow, Status
<1>3. Books' /\ Filed'
  BY <1>0, <1>2, JobBooks DEF PlaceInv, Books
<1>4. Current(v)' => Current(v)
  <2>1. CASE Renew(v)
    <3>1. worker[v].attempt = job.active /\ worker[v].version = job.version
      BY <2>1 DEF Renew, Heartbeat, RequireOwner, Owner
    <3>2. QED
      BY <1>1, <3>1 DEF Current, Holds
  <2>2. CASE RenewRefused(v) \/ ReceiveRenewal(v) \/ LoseRenewal(v)
    <3>1. UNCHANGED job
      BY <2>2 DEF RenewRefused, ReceiveRenewal, LoseRenewal, vars
    <3>2. \/ worker'[v].version = worker[v].version /\ worker'[v].reply \in {worker[v].reply, 0}
          \/ worker[v].reply # 0 /\ worker'[v].version = worker[v].reply /\ worker'[v].reply = 0
      BY <1>0, <2>2 DEF RenewRefused, ReceiveRenewal, LoseRenewal, WorkerRow
    <3>3. QED
      BY <1>1, <3>1, <3>2 DEF Current, Holds
  <2>3. QED
    BY <2>1, <2>2 DEF Renewal
<1>5. Placed(v)'
  <2>1. Bound(v)' /\ Driving(v)'
    BY <1>0, <1>1, <1>2, <1>4 DEF PlaceInv, Placed, Bound, Driving, At, Holds
  <2>2. Proving(v)'
    BY <1>1, <1>2 DEF PlaceInv, Placed, Proving, CitedBy, At, Holds, Stored
  <2>3. QED
    BY <2>1, <2>2 DEF Placed
<1>6. Aside(v)
  BY <1>0, <1>1, <1>2 DEF Aside
<1>7. QED
  BY <1>3, <1>5, <1>6 DEF StepOK

\* Every step of a worker's main thread.
LEMMA MainOK ==
  ASSUME PlaceInv, NEW v \in Workers, [Next]_vars, WorkerStep(v)
  PROVE  StepOK(v)
<1>0. {ExecutionEvidence, CancelEvidence, PlatformEvidence} \subseteq EvidenceIds
  BY WorkerAssumption
<1>a. /\ {"complete", "ack", "failPlatform", "unknown", "doubt", "settle", "settleCancel"}
            \subseteq Steps
      /\ {"settle", "idle", "settleCancel", "refresh"} \subseteq Elsewhere
      /\ "settle" \in Unowned /\ "idle" \in Unowned
      /\ "doubt" \notin Unowned /\ "settleCancel" \notin Unowned
  BY DEF Steps, FencedSteps, Elsewhere, Unowned
<1>1. CASE Execute(v) \/ WriteArtifact(v)
  BY <1>1, AgentOK
<1>2. CASE UNCHANGED <<artifact, ran>>
  <2>1. CASE ClaimJob(v)
    BY <1>2, <2>1, ClaimOK
  <2>2. CASE ReconcileJob(v)
    BY <1>2, <1>a, <2>2, PollOK, UnfencedOK DEF ReconcileJob
  <2>3. CASE ExecuteJob(v)
    <3>1. CASE Ingest(v, "evidence", ExecutionEvidence, "PASS", "complete")
      BY <1>0, <1>2, <1>a, <3>1, IngestOK DEF Cites
    <3>2. CASE CompleteJob(v)
      BY <1>2, <3>2, VerdictOK
    <3>3. QED
      BY <1>2, <2>3, <3>1, <3>2, StartOK, CheckOK, PrepareOK, DispatchOK, ConfirmOK, RegisterOK
      DEF ExecuteJob
  <2>4. CASE CancelJob(v)
    <3>1. CASE Ingest(v, "cancelEvidence", CancelEvidence, "CANCELLED", "ack")
      BY <1>0, <1>2, <1>a, <3>1, IngestOK DEF Cites
    <3>2. CASE ReportUnknown(v, "doubt", "settleCancel") \/ Settle(v, "settleCancel", "refresh")
      BY <1>2, <1>a, <3>2, UnfencedOK
    <3>3. CASE Acknowledge(v)
      BY <1>2, <3>3, VerdictOK
    <3>4. QED
      BY <1>2, <2>4, <3>1, <3>2, <3>3, ReleaseOK, RefreshOK DEF CancelJob
  <2>5. CASE FailJob(v)
    <3>1. CASE Ingest(v, "failing", PlatformEvidence, "ERROR", "failPlatform")
      BY <1>0, <1>2, <1>a, <3>1, IngestOK DEF Cites
    <3>2. CASE FailPlatform(Owner(v), PlatformEvidence) /\ Goto(v, "idle")
      BY <1>2, <3>2, VerdictOK
    <3>3. QED
      BY <2>5, <3>1, <3>2 DEF FailJob
  <2>6. CASE Rejected(v)
    BY <1>2, <2>6, PollOK
  <2>7. CASE Execute(v) \/ WriteArtifact(v)
    BY <2>7, AgentOK
  <2>8. QED
    BY <2>1, <2>2, <2>3, <2>4, <2>5, <2>6, <2>7 DEF WorkerStep
<1>3. QED
  BY <1>1, <1>2 DEF WorkerStep, local

\* A crash, a lost reply, a failing Agent.
LEMMA FaultOK ==
  ASSUME PlaceInv, NEW v \in Workers, [Next]_vars, Crash(v) \/ AgentFails(v)
  PROVE  StepOK(v)
<1>1. UNCHANGED <<artifact, ran>>
  BY DEF Crash, AgentFails, Fault, local
<1>2. CASE Crash(v)
  BY <1>1, <1>2, SilentElsewhere DEF Crash, Refused, Elsewhere, Unowned
<1>3. CASE AgentFails(v)
  BY <1>1, <1>3, SilentElsewhere DEF AgentFails, Elsewhere, Unowned
<1>4. QED
  BY <1>2, <1>3

\* The clock and the operator move no worker, and no operation.
LEMMA EnvironmentOK ==
  ASSUME PlaceInv, [Next]_vars, TimePasses \/ Stall \/ OperatorCancels
  PROVE  Books' /\ Filed' /\ \A w \in Workers : Placed(w)'
<1>1. UNCHANGED <<operation, effect, evidence, worker, artifact, ran>> /\ Status' = Status
  BY DEF TimePasses, Abandoned, Expire, Stall, OperatorCancels, LeaseLapses, LeaseExpires,
     RequestCancel, local, Fault, Status
<1>2. job'.state \in {job.state, "CANCEL_REQUESTED"}
  BY DEF TimePasses, Abandoned, Expire, Stall, OperatorCancels, LeaseLapses, LeaseExpires,
     RequestCancel, Advance, PlaceInv, WorkerInv, IndInv, TypeOK, JobRow
<1>3. Books' /\ Filed'
  BY <1>1, <1>2, JobBooks DEF PlaceInv, Books
<1>4. \A w \in Workers : Placed(w)'
  BY <1>1, BystanderKeeps
<1>5. QED
  BY <1>3, <1>4

\* Files, runs and the two bounds are what they should be.
LEMMA CountersStep ==
  ASSUME PlaceInv, [WorkerNext]_workerVars
  PROVE  Counters'
<1> USE DEF Counters
<1>1. faults \in 0 .. MaxFaults /\ renewals \in 0 .. MaxRenewals /\ MaxFaults \in Nat
      /\ MaxRenewals \in Nat /\ artifact \in BOOLEAN /\ ran \subseteq Attempts
  BY WorkerAssumption DEF PlaceInv
<1>2. CASE UNCHANGED <<artifact, ran, faults, renewals>>
  BY <1>1, <1>2
<1>3. CASE Fault
  <2>1. faults' \in 0 .. MaxFaults
    BY <1>1, <1>3 DEF Fault
  <2>2. QED
    BY <1>1, <1>3, <2>1 DEF Fault, local
<1>4. ASSUME NEW w \in Workers, Execute(w) \/ WriteArtifact(w), UNCHANGED budget
      PROVE  Counters'
  <2>1. ran' \subseteq Attempts
    <3>1. worker[w].attempt \in Attempts
      BY <1>4, BoundsAssumption DEF Execute, WriteArtifact, At, PlaceInv, Placed, Bound, Holds,
         Unowned, WorkerInv, WorkerRow, Attempts
    <3>2. QED
      BY <1>1, <1>4, <3>1 DEF Execute, WriteArtifact
  <2>2. QED
    BY <1>1, <1>4, <2>1 DEF Execute, WriteArtifact, budget
<1>5. ASSUME NEW w \in Workers, Renewal(w)
      PROVE  Counters'
  <2>1. CASE Renew(w)
    <3>1. renewals' \in 0 .. MaxRenewals
      BY <1>1, <2>1 DEF Renew
    <3>2. QED
      BY <1>1, <2>1, <3>1 DEF Renew, local
  <2>2. QED
    BY <1>2, <1>5, <2>1 DEF Renewal, RenewRefused, ReceiveRenewal, local, budget
<1>6. ASSUME NEW w \in Workers, WorkerStep(w)
      PROVE  Counters'
  BY <1>2, <1>4, <1>6 DEF WorkerStep, local, budget
<1>7. QED
  BY <1>2, <1>3, <1>5, <1>6 DEF WorkerNext, workerVars, Crash, LoseRenewal, AgentFails, TimePasses,
     Abandoned, Expire, Stall, OperatorCancels, local, budget

LEMMA PlaceStep ==
  ASSUME PlaceInv, [WorkerNext]_workerVars
  PROVE  PlaceInv'
<1>1. WorkerInv' /\ [Next]_vars
  BY RecordsStep, WorkerNextFaithful DEF PlaceInv, WorkerInv, Faithful
<1>2. Counters'
  BY CountersStep
<1>3. ASSUME NEW v \in Workers,
             WorkerStep(v) \/ Renewal(v) \/ Crash(v) \/ LoseRenewal(v) \/ AgentFails(v)
      PROVE  Books' /\ Filed' /\ \A w \in Workers : Placed(w)'
  <2>1. StepOK(v)
    BY <1>1, <1>3, MainOK, RenewalOK, FaultOK
  <2>2. QED
    BY <1>1, <2>1, OthersKeep DEF StepOK
<1>4. ASSUME UNCHANGED workerVars
      PROVE  Books' /\ Filed' /\ \A w \in Workers : Placed(w)'
  <2>1. UNCHANGED <<job, operation, effect, evidence, worker, artifact, ran>>
    BY <1>4 DEF workerVars
  <2>2. Books' /\ Filed'
    BY <1>1, <2>1, FiledKeeps DEF PlaceInv, Books, Status
  <2>3. \A w \in Workers : Placed(w)'
    BY <1>1, <2>1, BystanderKeeps DEF Status
  <2>4. QED
    BY <2>2, <2>3
<1>5. Books' /\ Filed' /\ \A w \in Workers : Placed(w)'
  BY <1>1, <1>3, <1>4, EnvironmentOK DEF WorkerNext
<1>6. QED
  BY <1>1, <1>2, <1>5 DEF PlaceInv

LEMMA PlaceInit == WorkerInit => PlaceInv
<1> SUFFICES ASSUME WorkerInit PROVE PlaceInv
  OBVIOUS
<1>1. \A w \in Workers : ~Holds(w) /\ worker[w].pc = "idle"
  BY DEF WorkerInit, Holds, IdleWorker
<1>2. WorkerInv
  BY <1>1, WorkersStartIdle, IndInit DEF WorkerInit, WorkerInv, RecordsAreOwn
<1>3. Counters
  <2>1. 0 \in 0 .. MaxFaults /\ 0 \in 0 .. MaxRenewals
    BY WorkerAssumption
  <2>2. QED
    BY <2>1 DEF WorkerInit, Counters
<1>4. Books
  BY WorkerAssumption DEF WorkerInit, Init, Books, Status, NoOperation
<1>5. Filed
  BY DEF WorkerInit, Init, Filed, Stored, NoRow
<1>6. \A w \in Workers : Placed(w)
  BY <1>1 DEF Placed, Bound, Driving, Proving, CitedBy, At, Unowned, Driven, Settled
<1>7. QED
  BY <1>2, <1>3, <1>4, <1>5, <1>6 DEF PlaceInv

\* Where the workers are agrees with the job, its operation, its file and its
\* evidence, whoever crashes, stalls, renews, takes over or cancels.
THEOREM PlacesAgree == WorkerSpec => []PlaceInv
  BY PlaceInit, PlaceStep, PTL DEF WorkerSpec

\* The workers' state has its type, and a completed job has a written artifact,
\* an Agent run and a receipt.
THEOREM WorkersAreSafe == WorkerSpec => []WorkerSafety
<1>1. PlaceInv => WorkerSafety
  BY DEF PlaceInv, WorkerInv, IndInv, Counters, Books, WorkerSafety, WorkerTypeOK,
     CompletedIsConfirmed
<1>2. QED
  BY <1>1, PlacesAgree, PTL

\* While the worker with the current fencing tuple runs the Agent, the operation
\* is in flight.
THEOREM RunIsInFlight == WorkerSpec => []CurrentRunIsInFlight
<1>1. PlaceInv => CurrentRunIsInFlight
  <2> SUFFICES ASSUME PlaceInv, NEW w \in Workers, At(w, "running"),
                      Fences(worker[w].attempt, worker[w].version)
               PROVE  Status = "IN_FLIGHT"
    BY DEF CurrentRunIsInFlight
  <2>1. Current(w)
    BY DEF PlaceInv, Placed, Bound, At, Unowned, Fences, Current
  <2>2. QED
    BY <2>1 DEF PlaceInv, Placed, Driving
<1>2. QED
  BY <1>1, PlacesAgree, PTL

-----------------------------------------------------------------------------
\* The wedges.

Settling == {"settle", "settleCancel"}

\* What a step of worker w can be to the job and its operation: the owner's, or
\* one of the requests that need no owner.
Kind(w) ==
  \/ RequireOwner(Owner(w)) /\ (job'.state \in TerminalStates => CitedBy(w) # {})
  \/ Claim(w)
  \/ MarkUnknownOutcome(Dispatch)
  \/ Reconcile(Dispatch) /\ worker[w].pc \in Settling
  \/ UNCHANGED <<job, operation>>

\* A worker is about to reconcile only after it reported the operation unknown
\* or found it resolved.
Enters(w) ==
  worker'[w].pc \in Settling =>
    \/ worker[w].pc \in Settling
    \/ MarkUnknownOutcome(Dispatch)
    \/ Status \in {"CONFIRMED", "NOT_SUBMITTED"}

\* A call that only moves the worker on leaves the job and its operation alone.
LEMMA SilentKind ==
  ASSUME PlaceInv, NEW w \in Workers, NEW pc \in Steps \ Settling, Answered(w, pc)
  PROVE  Kind(w) /\ Enters(w)
  BY GotoMoves DEF PlaceInv, WorkerInv, Answered, vars, Kind, Enters

\* Requests that carry the owner record.
LEMMA OwnerKind ==
  ASSUME PlaceInv, NEW w \in Workers, NEW pc \in Steps \ Settling, Goto(w, pc),
         RequireOwner(Owner(w)),
         UNCHANGED job \/ CitedBy(w) # {}
  PROVE  Kind(w) /\ Enters(w)
<1>1. job.state \notin TerminalStates
  BY DEF RequireOwner, OwnerStates, TerminalStates
<1>2. QED
  BY <1>1, GotoMoves DEF PlaceInv, WorkerInv, Kind, Enters

\* So does evidence, accepted or refused.
LEMMA IngestKind ==
  ASSUME PlaceInv, NEW w \in Workers, NEW from, NEW to \in Steps \ Settling,
         NEW e, NEW out, Ingest(w, from, e, out, to)
  PROVE  Kind(w) /\ Enters(w)
<1>1. "idle" \in Steps \ Settling
  BY DEF Steps, Settling
<1>2. CASE /\ Goto(w, to)
           /\ IngestOwned(Owner(w), e, Evaluation, out) \/ IngestQueued(e, Evaluation, out)
  <2>1. UNCHANGED <<job, operation>>
    BY <1>2 DEF IngestOwned, IngestQueued, StoreEvidence
  <2>2. QED
    BY <1>2, <2>1, GotoMoves DEF PlaceInv, WorkerInv, Kind, Enters
<1>3. QED
  BY <1>1, <1>2, SilentKind DEF Ingest, Refused

\* unknown and reconcile are calls of the recovery, the second after the first.
LEMMA UnfencedKind ==
  ASSUME PlaceInv, NEW w \in Workers,
         \/ ReportUnknown(w, "unknown", "settle")
         \/ ReportUnknown(w, "doubt", "settleCancel")
         \/ Settle(w, "settle", "idle")
         \/ Settle(w, "settleCancel", "refresh")
  PROVE  Kind(w) /\ Enters(w)
<1>1. {"settle", "settleCancel"} \subseteq Steps /\ {"idle", "refresh"} \subseteq Steps \ Settling
  BY DEF Steps, Settling
<1>2. CASE ReportUnknown(w, "unknown", "settle") \/ ReportUnknown(w, "doubt", "settleCancel")
  <2>1. CASE Refused(w)
    BY <1>1, <2>1, SilentKind DEF Refused
  <2>2. CASE MarkUnknownOutcome(Dispatch)
    BY <2>2 DEF Kind, Enters
  <2>3. CASE Status \in {"CONFIRMED", "NOT_SUBMITTED"} /\ UNCHANGED vars
    BY <2>3 DEF Kind, Enters, vars
  <2>4. QED
    BY <1>2, <2>1, <2>2, <2>3 DEF ReportUnknown, Answered
<1>3. CASE Settle(w, "settle", "idle") \/ Settle(w, "settleCancel", "refresh")
  <2>1. worker[w].pc \in Settling
    BY <1>3 DEF Settle, At, Settling
  <2>2. CASE Reconcile(Dispatch)
    BY <2>1, <2>2 DEF Kind, Enters
  <2>3. CASE Answered(w, "idle") \/ Answered(w, "refresh")
    BY <1>1, <2>3, SilentKind
  <2>4. QED
    BY <1>3, <2>2, <2>3 DEF Settle
<1>4. QED
  BY <1>2, <1>3

\* Every step of a worker is of one of the kinds.
LEMMA StepKind ==
  ASSUME PlaceInv, NEW w \in Workers, WorkerStep(w)
  PROVE  Kind(w) /\ Enters(w)
<1>a. Steps \ Settling =
        FencedSteps \cup {"idle", "fetch", "inspect", "precheck", "check", "execute", "running",
                          "register", "doubt", "refresh", "detail", "unknown"}
  BY DEF Steps, FencedSteps, Settling
<1>1. CASE \/ Execute(w) \/ WriteArtifact(w) \/ Rejected(w) \/ DiscoverDoubt(w) \/ ReadDetail(w)
           \/ CheckCancel(w, "fetch", "prepare") \/ CheckCancel(w, "precheck", "dispatch")
           \/ CheckCancel(w, "check", "execute") \/ Inspect(w)
  <2>1. CancelStep \in Steps \ Settling
    BY <1>a DEF CancelStep, FencedSteps
  <2>2. \E pc \in Steps \ Settling : Answered(w, pc)
    BY <1>1, <1>a, <2>1 DEF FencedSteps, Execute, WriteArtifact, Rejected, Refused, DiscoverDoubt,
       ReadDetail, CheckCancel, Inspect
  <2>3. QED
    BY <2>2, SilentKind
<1>2. CASE ClaimJob(w)
  <2>1. worker'[w].pc \notin Settling
    BY <1>2 DEF ClaimJob, At, Settling, PlaceInv, WorkerInv
  <2>2. QED
    BY <1>2, <2>1 DEF ClaimJob, Kind, Enters
<1>3. CASE \/ ReportUnknown(w, "unknown", "settle") \/ ReportUnknown(w, "doubt", "settleCancel")
           \/ Settle(w, "settle", "idle") \/ Settle(w, "settleCancel", "refresh")
  BY <1>3, UnfencedKind
<1>4. CASE StartJob(w)
  <2>1. RequireOwner(Owner(w)) /\ job'.state = "RUNNING"
    BY <1>4 DEF StartJob, Start, Advance, PlaceInv, WorkerInv, IndInv, TypeOK, JobRow
  <2>2. worker'[w].pc = "fetch"
    BY <1>4 DEF StartJob, PlaceInv, WorkerInv, WorkerRow
  <2>3. QED
    BY <2>1, <2>2 DEF Kind, Enters, TerminalStates, Settling
<1>5. CASE Prepare(w) \/ DispatchJob(w) \/ Confirm(w) \/ Release(w)
  <2>1. RequireOwner(Owner(w)) /\ UNCHANGED job
    BY <1>5 DEF Prepare, DispatchJob, Confirm, Release, PrepareOperation, DispatchOperation,
       ConfirmOperation, MarkNotSubmitted, SetStatus, Answered, vars
  <2>2. \E pc \in Steps \ Settling : Goto(w, pc)
    BY <1>5, <1>a DEF FencedSteps, Prepare, DispatchJob, Confirm, Release, Answered
  <2>3. QED
    BY <2>1, <2>2, OwnerKind
<1>6. CASE Register(w)
  <2>1. "evidence" \in Steps /\ UNCHANGED <<job, operation>>
    BY <1>6 DEF Steps, FencedSteps, Register, RegisterCanonical
  <2>2. QED
    BY <1>6, <2>1, GotoMoves DEF Register, PlaceInv, WorkerInv, Kind, Enters, Settling
<1>7. CASE \/ Ingest(w, "evidence", ExecutionEvidence, "PASS", "complete")
           \/ Ingest(w, "cancelEvidence", CancelEvidence, "CANCELLED", "ack")
           \/ Ingest(w, "failing", PlatformEvidence, "ERROR", "failPlatform")
  BY <1>7, <1>a, IngestKind DEF FencedSteps
<1>8. CASE \/ CompleteJob(w) \/ Acknowledge(w)
           \/ At(w, "failPlatform") /\ FailPlatform(Owner(w), PlatformEvidence) /\ Goto(w, "idle")
  <2>1. RequireOwner(Owner(w)) /\ Goto(w, "idle") /\ CitedBy(w) # {}
    BY <1>8 DEF CompleteJob, Complete, Acknowledge, AcknowledgeCancel, FailPlatform, Refused,
       Answered, CitedBy, At
  <2>2. QED
    BY <1>a, <2>1, OwnerKind
<1>9. CASE Refresh(w)
  <2>1. UNCHANGED <<job, operation>> /\ worker'[w].pc \in {"cancelEvidence", "failing"}
    BY <1>9 DEF Refresh, vars, PlaceInv, WorkerInv, WorkerRow
  <2>2. QED
    BY <2>1 DEF Kind, Enters, Settling
<1>10. QED
  BY <1>1, <1>2, <1>3, <1>4, <1>5, <1>6, <1>7, <1>8, <1>9
  DEF WorkerStep, ReconcileJob, ExecuteJob, CancelJob, FailJob

\* The same for the renewer, for faults, for the clock and for the operator.
EnvironmentKind ==
  \/ LeaseLapses \/ LeaseExpires \/ RequestCancel
  \/ UNCHANGED <<job, operation>>
  \/ \E w \in Workers : RequireOwner(Owner(w)) /\ job'.state \notin TerminalStates

\* So is what renewers, faults, the clock and the operator do.
LEMMA OtherKinds ==
  ASSUME PlaceInv,
         \/ \E w \in Workers : Renewal(w) \/ Crash(w) \/ LoseRenewal(w) \/ AgentFails(w)
         \/ TimePasses \/ Stall \/ OperatorCancels
  PROVE  /\ EnvironmentKind
         /\ \A w \in Workers : worker'[w].pc \in Settling => worker[w].pc \in Settling
<1>1. ASSUME NEW w \in Workers, Renewal(w) \/ LoseRenewal(w)
      PROVE  EnvironmentKind /\ \A v \in Workers : worker'[v].pc = worker[v].pc
  <2>1. \A v \in Workers : worker'[v].pc = worker[v].pc
    BY <1>1 DEF Renewal, Renew, RenewRefused, ReceiveRenewal, LoseRenewal, PlaceInv, WorkerInv,
       WorkerRow
  <2>2. CASE Renew(w)
    <3>1. RequireOwner(Owner(w)) /\ job'.state = job.state
      BY <2>2 DEF Renew, Heartbeat, Advance, PlaceInv, WorkerInv, IndInv, TypeOK, JobRow
    <3>2. QED
      BY <2>1, <3>1 DEF EnvironmentKind, RequireOwner, OwnerStates, TerminalStates
  <2>3. CASE UNCHANGED vars
    BY <2>1, <2>3 DEF EnvironmentKind, vars
  <2>4. QED
    BY <1>1, <2>2, <2>3 DEF Renewal, RenewRefused, ReceiveRenewal, LoseRenewal
<1>2. ASSUME NEW w \in Workers, Crash(w) \/ AgentFails(w)
      PROVE  /\ EnvironmentKind
             /\ \A v \in Workers : worker'[v].pc \in Settling => worker[v].pc \in Settling
  <2>1. \E pc \in {"idle", "failing"} : Answered(w, pc)
    BY <1>2 DEF Crash, AgentFails, Refused
  <2>2. {"idle", "failing"} \subseteq Steps \ Settling
    BY DEF Steps, FencedSteps, Settling
  <2>3. QED
    BY <2>1, <2>2, GotoMoves DEF Answered, vars, EnvironmentKind, PlaceInv, WorkerInv
<1>3. CASE TimePasses \/ Stall \/ OperatorCancels
  BY <1>3 DEF TimePasses, Abandoned, Expire, Stall, OperatorCancels, EnvironmentKind
<1>4. QED
  BY <1>1, <1>2, <1>3

\* A cancellation that lost its owner: nobody passes requireOwner, and what needs
\* no owner leaves the job stopping.
Orphaned ==
  job.state = "CANCEL_REQUESTED" /\ \A w \in Workers : worker[w].attempt # job.active

\* A cancellation whose owner gave up is never answered.
LEMMA OrphanedStays ==
  ASSUME PlaceInv, WorkerNext, Orphaned
  PROVE  Orphaned'
<1>1. RecordsFollow
  BY WorkerNextFaithful DEF PlaceInv, WorkerInv, Faithful
<1>2. job \in JobRow /\ job.active # 0
  BY DEF Orphaned, PlaceInv, WorkerInv, IndInv, TypeOK, OwnerIsNewestAttempt, OwnerStates
<1>3. \A w \in Workers : ~RequireOwner(Owner(w)) /\ ~Claim(w)
  BY DEF Orphaned, RequireOwner, Owner, Claim
<1>4. job'.state = "CANCEL_REQUESTED" /\ job'.active = job.active
  <2>1. CASE MarkUnknownOutcome(Dispatch) \/ Reconcile(Dispatch)
    BY <1>2, <2>1, UnfencedRow DEF Orphaned, MarkUnknownOutcome, Reconcile, TerminalStates
  <2>2. CASE LeaseLapses \/ LeaseExpires
    BY <1>2, <2>2 DEF Orphaned, LeaseLapses, LeaseExpires, JobRow
  <2>3. CASE UNCHANGED job
    BY <2>3 DEF Orphaned
  <2>4. ~RequestCancel
    BY DEF Orphaned, RequestCancel
  <2>5. ASSUME NEW w \in Workers, WorkerStep(w)
        PROVE  job'.state = "CANCEL_REQUESTED" /\ job'.active = job.active
    BY <1>3, <2>1, <2>3, <2>5, StepKind DEF Kind
  <2>6. QED
    BY <1>3, <2>2, <2>3, <2>4, <2>5, OtherKinds DEF WorkerNext, EnvironmentKind
<1>5. \A w \in Workers : worker'[w].attempt # job'.active
  BY <1>1, <1>2, <1>4 DEF Orphaned, RecordsFollow, Keeps, Drops, Takes
<1>6. QED
  BY <1>4, <1>5 DEF Orphaned

\* An unknown operation that nobody is about to reconcile: a worker that finds
\* it is refused before it gets there.
Unreconciled ==
  /\ job.state = "RECONCILE_REQUIRED"
  /\ Status = "UNKNOWN_OUTCOME"
  /\ \A w \in Workers : worker[w].pc \notin Settling

\* An unknown operation that no worker is about to reconcile never is.
LEMMA UnreconciledStays ==
  ASSUME PlaceInv, WorkerNext, Unreconciled
  PROVE  Unreconciled'
<1>1. job.lease = "NONE" /\ [Next]_vars
  BY WorkerNextFaithful DEF Unreconciled, PlaceInv, WorkerInv, IndInv, OwnerIsNewestAttempt,
     OwnerStates, Faithful
<1>2. \A w \in Workers : ~RequireOwner(Owner(w)) /\ ~Claim(w)
  BY DEF Unreconciled, RequireOwner, OwnerStates, Claim
<1>3. ~LeaseLapses /\ ~LeaseExpires /\ ~RequestCancel /\ ~MarkUnknownOutcome(Dispatch)
  BY <1>1 DEF Unreconciled, LeaseLapses, LeaseExpires, RequestCancel, OwnerStates,
     MarkUnknownOutcome, Status
<1>4. UNCHANGED <<job, operation>> /\ \A v \in Workers : worker'[v].pc \notin Settling
  <2>1. ASSUME NEW w \in Workers, WorkerStep(w)
        PROVE  UNCHANGED <<job, operation>> /\ \A v \in Workers : worker'[v].pc \notin Settling
    <3>1. UNCHANGED <<job, operation>> /\ worker'[w].pc \notin Settling
      BY <1>2, <1>3, <2>1, StepKind DEF Unreconciled, Kind, Enters
    <3>2. \A v \in Workers \ {w} : worker'[v] = worker[v]
      BY <1>1, <2>1, MainOK DEF StepOK, Aside
    <3>3. QED
      BY <3>1, <3>2 DEF Unreconciled
  <2>2. QED
    BY <1>2, <1>3, <2>1, OtherKinds DEF WorkerNext, EnvironmentKind, Unreconciled
<1>5. QED
  BY <1>4 DEF Unreconciled, Status

\* Evidence of an attempt that is over: the natural key refuses any other, and no
\* verdict can cite it.
Outdated(e) == Stored(e) /\ evidence[e].attempt \notin {job.active} \ {0}

\* Evidence that names another attempt goes on being refused to the next ones.
LEMMA OutdatedStays ==
  ASSUME PlaceInv, WorkerNext, ~Finished, NEW e \in EvidenceIds, Outdated(e)
  PROVE  ~Finished' /\ Outdated(e)'
<1>1. [Next]_vars /\ IndInv
  BY WorkerNextFaithful DEF PlaceInv, WorkerInv, Faithful
<1>2. Outdated(e)'
  <2>1. evidence'[e] = evidence[e]
    BY <1>1, RowsStay DEF Outdated
  <2>2. evidence[e].attempt \in 0 .. job.attemptNumber
    BY <1>1 DEF Outdated, PlaceInv, Filed, IndInv, TypeOK, EvidenceRow, JobRow
  <2>3. evidence[e].attempt # 0 => job'.active # evidence[e].attempt
    BY <1>1, <2>2, OwnerStep DEF Outdated, IndInv, TypeOK, JobRow
  <2>4. QED
    BY <2>1, <2>3 DEF Outdated, Stored
<1>3. ASSUME NEW w \in Workers, RequireOwner(Owner(w))
      PROVE  CitedBy(w) = {}
  <2>1. Holds(w) /\ worker[w].attempt = job.active /\ job.active # 0
    BY <1>1, <1>3 DEF RequireOwner, Owner, Holds, IndInv, OwnerIsNewestAttempt
  <2>2. ASSUME NEW f \in CitedBy(w) PROVE FALSE
    <3>1. Stored(f) /\ evidence[f].attempt = job.active /\ f \in EvidenceIds
      BY <2>1, <2>2, WorkerAssumption DEF PlaceInv, Placed, Proving, CitedBy
    <3>2. e = f
      BY <3>1 DEF Outdated, PlaceInv, Filed
    <3>3. QED
      BY <2>1, <3>1, <3>2 DEF Outdated
  <2>3. QED
    BY <2>2
<1>4. job \in JobRow /\ job.state \notin TerminalStates
  BY <1>1 DEF IndInv, TypeOK, Finished
<1>5. job'.state \notin TerminalStates
  <2>1. CASE MarkUnknownOutcome(Dispatch) \/ Reconcile(Dispatch)
    BY <1>4, <2>1, UnfencedRow DEF MarkUnknownOutcome, Reconcile, TerminalStates
  <2>2. CASE LeaseLapses \/ LeaseExpires \/ RequestCancel
    BY <1>4, <2>2 DEF LeaseLapses, LeaseExpires, RequestCancel, Advance, JobRow, TerminalStates
  <2>3. CASE UNCHANGED job
    BY <1>4, <2>3
  <2>4. ASSUME NEW w \in Workers, Claim(w)
        PROVE  job'.state \notin TerminalStates
    BY <1>4, <2>4 DEF Claim, Grant, Park, UpdateStateClear, JobRow, TerminalStates
  <2>5. ASSUME NEW w \in Workers, WorkerStep(w)
        PROVE  job'.state \notin TerminalStates
    BY <1>3, <2>1, <2>3, <2>4, <2>5, StepKind DEF Kind
  <2>6. QED
    BY <2>2, <2>3, <2>5, OtherKinds DEF WorkerNext, EnvironmentKind
<1>6. QED
  BY <1>2, <1>5 DEF Finished

\* The three wedges are for good: neither polling nor claiming, reconciling,
\* crashing, renewing or waiting ends any of them.
THEOREM WedgesArePermanent == WorkerSpec => WedgeIsPermanent
<1>1. Wedged <=> \/ Orphaned \/ Unreconciled
                 \/ ~Finished /\ \E e \in EvidenceIds : Outdated(e)
  BY DEF Wedged, Orphaned, Unreconciled, Settling, Outdated
<1>2. ASSUME PlaceInv, [WorkerNext]_workerVars, Wedged
      PROVE  Wedged'
  <2>1. CASE WorkerNext
    <3>1. CASE Orphaned
      BY <2>1, <3>1, <1>2, OrphanedStays DEF Orphaned, Wedged
    <3>2. CASE Unreconciled
      BY <2>1, <3>2, <1>2, UnreconciledStays DEF Unreconciled, Wedged, Settling
    <3>3. CASE ~Finished /\ \E e \in EvidenceIds : Outdated(e)
      BY <2>1, <3>3, <1>2, OutdatedStays DEF Outdated, Wedged
    <3>4. QED
      BY <1>1, <1>2, <3>1, <3>2, <3>3
  <2>2. CASE UNCHANGED workerVars
    <3>1. UNCHANGED <<job, operation, evidence, worker>>
      BY <2>2 DEF workerVars
    <3>2. QED
      BY <1>2, <3>1 DEF Wedged, Finished, Status, Stored
  <2>3. QED
    BY <1>2, <2>1, <2>2
<1>3. QED
  BY <1>2, PlacesAgree, PTL DEF WorkerSpec, WedgeIsPermanent
=============================================================================
