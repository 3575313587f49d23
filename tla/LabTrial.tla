------------------------------ MODULE LabTrial ------------------------------
(***************************************************************************)
(* One controlled trial: cross_trial.run_trial with the Orchestrator and   *)
(* its task-owned SQLite sandbox.  The effect is committed while its       *)
(* response is lost, so it is settled from the receipt before the sandbox  *)
(* is reset and removed; a trial that fails anywhere keeps its sandbox.    *)
(***************************************************************************)
EXTENDS Integers

CONSTANTS Runs   \* the run identities that are reserved one by one

VARIABLES
    place,   \* by run: where its executor is
    box      \* by run: where its sandbox is, and whether an effect is in it

trialVars == <<place, box>>

NoBox == [at |-> "none", effect |-> FALSE]
InTrial == {"initialize", "dispatch", "settle", "cleanup"}
InUse(r) == place[r] \in InTrial
At(r, p) == place' = [place EXCEPT ![r] = p]

TrialInit ==
    /\ place = [r \in Runs |-> "idle"]
    /\ box = [r \in Runs |-> NoBox]

Initialize(r) ==
    /\ place[r] = "initialize"
    /\ box' = [box EXCEPT ![r] = [at |-> "open", effect |-> FALSE]]
    /\ At(r, "dispatch")

(* The tool call commits; the Orchestrator takes an UNKNOWN_OUTCOME for    *)
(* pending until it is reconciled.                                         *)
Dispatch(r) ==
    /\ place[r] = "dispatch"
    /\ box' = [box EXCEPT ![r].effect = TRUE]
    /\ At(r, "settle")

(* The receipt, the final authority snapshot and the oracle agree.         *)
Settle(r) ==
    /\ place[r] = "settle" /\ box[r].effect
    /\ At(r, "cleanup")
    /\ UNCHANGED box

CleanUp(r) ==
    /\ place[r] = "cleanup"
    /\ box' = [box EXCEPT ![r] = [at |-> "removed", effect |-> FALSE]]
    /\ At(r, "done")

(* What a failure at this place leaves: its step may or may not have taken *)
(* effect.  A sandbox that exists is kept, moved to quarantine if it can   *)
(* be; nobody looks at where it is, so the model does not either.          *)
LeftBehind(r) ==
    CASE place[r] = "initialize" -> {NoBox, [at |-> "open", effect |-> FALSE]}
      [] place[r] = "dispatch" -> [at : {"open"}, effect : BOOLEAN]
      [] place[r] = "settle" -> {box[r]}
      [] place[r] = "cleanup" ->
           [at : {"open"}, effect : BOOLEAN] \cup {[at |-> "removed", effect |-> FALSE]}

TrialFails(r) ==
    /\ place[r] \in InTrial
    /\ \E left \in LeftBehind(r) : box' = [box EXCEPT ![r] = left]
    /\ At(r, "failed")

TrialStep(r) == Initialize(r) \/ Dispatch(r) \/ Settle(r) \/ CleanUp(r)
=============================================================================
