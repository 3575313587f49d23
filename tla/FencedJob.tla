----------------------------- MODULE FencedJob -----------------------------
(***************************************************************************)
(* What the durable execution boundary promises its callers, without       *)
(* operations, evidence, attempts' histories or leases: a job is READY,    *)
(* OWNED by one attempt, STOPPING (owned, with a cancellation pending),    *)
(* in DOUBT about a side effect, or has one of three terminal verdicts.    *)
(*                                                                         *)
(*   - every change of phase or owner takes a larger fence, so a holder of *)
(*     an old one can be told apart;                                       *)
(*   - only a grant makes an owner, and each grant makes a new one;        *)
(*   - a job in DOUBT is settled first: it is neither granted nor ended;   *)
(*   - a job that is STOPPING is never granted before it was in DOUBT or   *)
(*     settled, and a verdict is final.                                    *)
(***************************************************************************)
EXTENDS Integers

Verdicts == {"COMPLETED", "FAILED_PLATFORM", "CANCELLED"}
Phases == {"READY", "OWNED", "STOPPING", "DOUBT"} \cup Verdicts

VARIABLES
  phase,
  epoch,   \* number of owners the job has had
  fence    \* the version a request has to present

jobVars == <<phase, epoch, fence>>

JobTypeOK == phase \in Phases /\ epoch \in Nat /\ fence \in Nat

JobInit == phase = "READY" /\ epoch = 0 /\ fence = 0

Fenced == fence' > fence /\ fence' \in Nat

\* A new owner for a ready job, or for one whose owner is presumed gone.
GrantJob ==
  /\ phase \in {"READY", "OWNED"}
  /\ phase' = "OWNED"
  /\ epoch' = epoch + 1
  /\ Fenced

\* The owner renews its hold, or a cancellation is requested of it.
KeepJob ==
  /\ \/ phase = "OWNED" /\ phase' \in {"OWNED", "STOPPING"}
     \/ phase = "STOPPING" /\ phase' = "STOPPING"
  /\ UNCHANGED epoch
  /\ Fenced

\* A side effect of the job may or may not have happened.
DoubtJob ==
  /\ phase \in {"READY", "OWNED", "STOPPING"}
  /\ phase' = "DOUBT"
  /\ UNCHANGED epoch
  /\ Fenced

\* An outcome is settled; the job waits for a new owner.
SettleJob ==
  /\ phase \in {"READY", "OWNED", "DOUBT"}
  /\ phase' = "READY"
  /\ UNCHANGED epoch
  /\ Fenced

\* Only an owner completes; a ready job can be cancelled or timed out.
FinishJob ==
  /\ phase \in {"READY", "OWNED", "STOPPING"}
  /\ phase' \in Verdicts
  /\ phase' = "COMPLETED" => phase = "OWNED"
  /\ UNCHANGED epoch
  /\ Fenced

JobNext == GrantJob \/ KeepJob \/ DoubtJob \/ SettleJob \/ FinishJob

JobSpec == JobInit /\ [][JobNext]_jobVars
=============================================================================
