---------------------------- MODULE RunContract ----------------------------
(***************************************************************************)
(* What every runner promises about one Run, whatever its environment:     *)
(* the external effect happens at most once, an outcome the Agent was not  *)
(* told is settled before the Run can PASS, and the Run is concluded once, *)
(* with PASS only when exactly the required number of effects exists.      *)
(***************************************************************************)
EXTENDS Integers

CONSTANTS Statuses

VARIABLES
    required,   \* how many effects the scenario's required outcome has
    effects,    \* how many the environment has really seen
    uncertain,  \* an effect was attempted and the Agent was not told its outcome
    verdict     \* "NONE" until the artifact carries an outcome, "ABANDONED" if
                \* the runner raised and there will be no artifact

contractVars == <<required, effects, uncertain, verdict>>

ContractInit ==
    /\ required \in {0, 1}
    /\ effects = 0
    /\ uncertain = FALSE
    /\ verdict = "NONE"

Effect ==
    /\ verdict # "PASS" /\ effects = 0
    /\ effects' = 1
    /\ uncertain' \in BOOLEAN
    /\ UNCHANGED <<required, verdict>>

Doubt ==
    /\ verdict = "NONE" /\ ~uncertain
    /\ uncertain' = TRUE
    /\ UNCHANGED <<required, effects, verdict>>

Reconcile ==
    /\ verdict # "PASS" /\ uncertain
    /\ uncertain' = FALSE
    /\ UNCHANGED <<required, effects, verdict>>

(* Once a Run has PASSed, nothing of it can happen any more; the effect of  *)
(* any other Run may still come to light.                                  *)
Conclude ==
    /\ verdict = "NONE"
    /\ verdict' \in Statuses
    /\ verdict' = "PASS" => effects = required /\ ~uncertain
    /\ UNCHANGED <<required, effects, uncertain>>

Abandon ==
    /\ verdict = "NONE"
    /\ verdict' = "ABANDONED"
    /\ UNCHANGED <<required, effects, uncertain>>

ContractNext == Effect \/ Doubt \/ Reconcile \/ Conclude \/ Abandon

(* No runner waits for ever: a Run is concluded or abandoned in the end.    *)
RunEnds == <>(verdict # "NONE")

ContractSafety == ContractInit /\ [][ContractNext]_contractVars

ContractSpec == ContractSafety /\ RunEnds
=============================================================================
