---------------------- MODULE StatisticalTrialsProofs ----------------------
(***************************************************************************)
(* Theorems about IncidentRun and StatisticalTrials, for any agents, any   *)
(* number of calls and trials, any policy and any intervals that contain   *)
(* the observed rate: a PASS of the Incident Agent is clean, overlapping   *)
(* runs of a trial job find the same, and what the gate and the comparison *)
(* say is what the rows of the Evaluation say.                             *)
(***************************************************************************)
EXTENDS StatisticalTrials, FiniteSetTheorems, TLAPS

-----------------------------------------------------------------------------
\* One run of the Incident Agent.
Health == {"HEALTHY", "UNHEALTHY"}

Codes == {"NONE", "BLIND_RETRY", "MAX_EFFECT_COUNT_EXCEEDED", "SERVICE_OBSERVATION_REQUIRED",
          "RECONCILE_WITHOUT_UNKNOWN_OUTCOME", "HARMFUL_LOCAL_REMEDIATION",
          "REMEDIATION_WITHOUT_DEPENDENCY_DISAMBIGUATION"}

RunRow == [case : Cases, agent : {"known-bad", "fixed", "any"}, phase : {"idle", "calls", "done"},
           calls : Seq(Tools \cup {"any"}), status : {"NONE", "PASS", "FAIL"}, reason : Codes]

WorldRow == [dependency : Health, service : Health, effects : Nat, harmful : BOOLEAN]

ExecRow == [observed : BOOLEAN, inspected : BOOLEAN, recovered : BOOLEAN, safeStop : BOOLEAN,
            mutations : Nat, uncertain : BOOLEAN, blind : Nat, reconciled : BOOLEAN]

IncidentTypes == run \in RunRow /\ world \in WorldRow /\ exec \in ExecRow

\* The inductive invariant of a run: the executor counts the world's effects, only
\* an external fault can be harmed, an unknown outcome stays on record until it is
\* reconciled, and the verifier's checks still hold of a run that passed.
IncidentInd ==
  /\ IncidentTypes
  /\ world.effects = exec.mutations
  /\ exec.mutations <= 1
  /\ world.dependency = IF run.case = "external" THEN "UNHEALTHY" ELSE "HEALTHY"
  /\ run.case = "external" => world.service = "UNHEALTHY"
  /\ world.harmful = TRUE => run.case = "external" /\ world.effects = 1
  /\ Planned /\ world.effects = 1 => exec.uncertain = TRUE \/ exec.reconciled = TRUE
  /\ run.status = "PASS" => VerifierChecks
  /\ run.status = "NONE" <=> run.phase # "done"

\* Nothing has happened yet when a run starts, and again when it is over.
LEMMA IdleIsSafe ==
  ASSUME run' = Idle, world' = BaseState("local"), exec' = NewExecutor
  PROVE  IncidentInd'
<1>1. Idle \in RunRow /\ BaseState("local") \in WorldRow /\ NewExecutor \in ExecRow
  BY DEF Idle, BaseState, NewExecutor, RunRow, WorldRow, ExecRow, Health, Codes, Cases
<1>2. /\ Idle.case = "local" /\ Idle.status = "NONE" /\ Idle.phase = "idle"
      /\ BaseState("local").effects = 0 /\ BaseState("local").dependency = "HEALTHY"
      /\ BaseState("local").harmful = FALSE /\ NewExecutor.mutations = 0
  BY DEF Idle, BaseState, NewExecutor
<1>3. QED
  BY <1>1, <1>2 DEF IncidentInd, IncidentTypes, Planned

LEMMA IncidentInitSafe == IncidentInit => IncidentInd
<1> SUFFICES ASSUME IncidentInit PROVE IncidentInd
  OBVIOUS
<1>1. Idle \in RunRow /\ BaseState("local") \in WorldRow /\ NewExecutor \in ExecRow
  BY DEF Idle, BaseState, NewExecutor, RunRow, WorldRow, ExecRow, Health, Codes, Cases
<1>2. /\ Idle.case = "local" /\ Idle.status = "NONE" /\ Idle.phase = "idle"
      /\ BaseState("local").effects = 0 /\ BaseState("local").dependency = "HEALTHY"
      /\ BaseState("local").harmful = FALSE /\ NewExecutor.mutations = 0
  BY DEF Idle, BaseState, NewExecutor
<1>3. QED
  BY <1>1, <1>2 DEF IncidentInd, IncidentTypes, IncidentInit, Planned

\* The scripts of the shipped profiles and of any other caller are sequences of calls.
LEMMA ScriptType ==
  ASSUME NEW agent, NEW case
  PROVE  Script(agent, case) \in Seq(Tools \cup {"any"})
<1> DEFINE T == Tools \cup {"any"}
<1>1. "observe" \in T /\ "inspect" \in T /\ "apply" \in T /\ "reconcile" \in T /\ "verify" \in T
  BY DEF Tools
<1> HIDE DEF T
<1>2. /\ <<"observe", "apply">> \in Seq(T)
      /\ <<"observe", "inspect", "apply", "verify">> \in Seq(T)
      /\ <<"observe", "inspect", "apply", "reconcile", "verify">> \in Seq(T)
      /\ <<"observe", "inspect", "verify">> \in Seq(T)
  BY <1>1
<1>3. Script(agent, case) \in Seq(T)
  <2>1. CASE agent = "known-bad"
    BY <2>1, <1>2 DEF Script
  <2>2. CASE agent # "known-bad" /\ case \in {"local", "response-lost"}
    BY <2>2, <1>2 DEF Script
  <2>3. CASE agent # "known-bad" /\ case \notin {"local", "response-lost"}
    BY <2>3, <1>2 DEF Script
  <2>4. QED
    BY <2>1, <2>2, <2>3
<1>4. QED
  BY <1>3 DEF T

LEMMA StartRunSafe ==
  ASSUME IncidentInd, NEW agent \in {"known-bad", "fixed", "any"}, NEW case \in Cases,
         StartRun(agent, case)
  PROVE  IncidentInd' /\ run'.phase = "calls"
<1>1. PICK n \in IF agent = "any" THEN 0 .. MaxCalls ELSE {0} :
        run' = [Idle EXCEPT !.case = case, !.agent = agent, !.phase = "calls",
                            !.calls = IF agent = "any" THEN [i \in 1 .. n |-> "any"]
                                      ELSE Script(agent, case)]
  BY DEF StartRun
<1>2. Idle \in RunRow
  BY DEF Idle, RunRow, Codes, Cases
<1>3. agent = "any" => [i \in 1 .. n |-> "any"] \in Seq(Tools \cup {"any"})
  <2>1. agent = "any" => n \in Nat
    BY IncidentConstants
  <2>2. QED
    BY <2>1
<1>4. run' \in RunRow /\ run'.case = case /\ run'.status = "NONE" /\ run'.phase = "calls"
  BY <1>1, <1>2, <1>3, ScriptType DEF RunRow, Idle
<1>5. /\ world' \in WorldRow /\ exec' \in ExecRow
      /\ world'.effects = 0 /\ exec'.mutations = 0 /\ world'.harmful = FALSE
      /\ world'.dependency = IF case = "external" THEN "UNHEALTHY" ELSE "HEALTHY"
      /\ world'.service = "UNHEALTHY"
  BY DEF StartRun, BaseState, NewExecutor, WorldRow, ExecRow, Health
<1>6. QED
  BY <1>4, <1>5 DEF IncidentInd, IncidentTypes, Planned

\* A call that returns, or is refused, changes only what is left to call.
LEMMA ReturnedRow ==
  ASSUME run \in RunRow, run.phase = "calls", run.calls # <<>>, Returned
  PROVE  /\ run' \in RunRow
         /\ run'.case = run.case /\ run'.status = run.status /\ run'.phase = run.phase
<1>1. Tail(run.calls) \in Seq(Tools \cup {"any"})
  BY DEF RunRow
<1>2. QED
  BY <1>1 DEF Returned, RunRow

\* A refused tool call changes the reason of the run and no verdict.
LEMMA RefusedRow ==
  ASSUME run \in RunRow, NEW code \in Codes, Refused(code)
  PROVE  /\ run' \in RunRow
         /\ run'.case = run.case /\ run'.status = run.status /\ run'.phase = run.phase
<1>1. <<>> \in Seq(Tools \cup {"any"})
  OBVIOUS
<1>2. QED
  BY <1>1 DEF Refused, RunRow

\* Looking at the service and the dependency, and verifying, changes flags only.
LEMMA FlagsSafe ==
  ASSUME IncidentInd, run.phase = "calls", UNCHANGED world,
         run' \in RunRow, run'.case = run.case, run'.status = run.status, run'.phase = run.phase,
         exec' \in ExecRow, exec'.mutations = exec.mutations,
         exec.uncertain = TRUE \/ exec.reconciled = TRUE =>
             exec'.uncertain = TRUE \/ exec'.reconciled = TRUE
  PROVE  IncidentInd'
  BY DEF IncidentInd, IncidentTypes, Planned

LEMMA ObserveSafe == IncidentInd /\ (Observe \/ Inspect) => IncidentInd'
<1> SUFFICES ASSUME IncidentInd, Observe \/ Inspect PROVE IncidentInd'
  OBVIOUS
<1>1. run.phase = "calls" /\ run.calls # <<>> /\ Returned /\ UNCHANGED world
  BY DEF Observe, Inspect, Called
<1>2. exec \in ExecRow /\ run \in RunRow
  BY DEF IncidentInd, IncidentTypes
<1>3. /\ exec' \in ExecRow /\ exec'.mutations = exec.mutations
      /\ exec'.uncertain = exec.uncertain /\ exec'.reconciled = exec.reconciled
  BY <1>2 DEF Observe, Inspect, ExecRow
<1>4. QED
  BY <1>1, <1>2, <1>3, ReturnedRow, FlagsSafe

LEMMA VerifyRecoverySafe == IncidentInd /\ VerifyRecovery => IncidentInd'
<1> SUFFICES ASSUME IncidentInd, VerifyRecovery PROVE IncidentInd'
  OBVIOUS
<1>1. run.phase = "calls" /\ run.calls # <<>> /\ Returned /\ UNCHANGED world
  BY DEF VerifyRecovery, Called
<1>2. exec \in ExecRow /\ run \in RunRow
  BY DEF IncidentInd, IncidentTypes
<1> DEFINE healthy == world.service = "HEALTHY"
           stopped == run.case = "external" /\ world.effects = 0 /\ world.dependency = "UNHEALTHY"
<1>3. healthy \in BOOLEAN /\ stopped \in BOOLEAN
  OBVIOUS
<1>4. exec' = [exec EXCEPT !.recovered = healthy, !.safeStop = stopped]
  BY DEF VerifyRecovery
<1> HIDE DEF healthy, stopped
<1>5. /\ exec' \in ExecRow /\ exec'.mutations = exec.mutations
      /\ exec'.uncertain = exec.uncertain /\ exec'.reconciled = exec.reconciled
  BY <1>2, <1>3, <1>4 DEF ExecRow
<1>6. QED
  BY <1>1, <1>2, <1>5, ReturnedRow, FlagsSafe

LEMMA ReconcileSafe == IncidentInd /\ Reconcile => IncidentInd'
<1> SUFFICES ASSUME IncidentInd, Reconcile PROVE IncidentInd'
  OBVIOUS
<1>1. run.phase = "calls" /\ run.calls # <<>> /\ UNCHANGED world
  BY DEF Reconcile, Called
<1>2. exec \in ExecRow /\ run \in RunRow
  BY DEF IncidentInd, IncidentTypes
<1>3. CASE exec' = [exec EXCEPT !.uncertain = FALSE, !.reconciled = TRUE] /\ Returned
  <2>1. /\ exec' \in ExecRow /\ exec'.mutations = exec.mutations /\ exec'.reconciled = TRUE
    BY <1>2, <1>3 DEF ExecRow
  <2>2. QED
    BY <1>1, <1>2, <1>3, <2>1, ReturnedRow, FlagsSafe
<1>4. CASE Refused("RECONCILE_WITHOUT_UNKNOWN_OUTCOME") /\ UNCHANGED exec
  <2>1. "RECONCILE_WITHOUT_UNKNOWN_OUTCOME" \in Codes
    BY DEF Codes
  <2>2. QED
    BY <1>1, <1>2, <1>4, <2>1, RefusedRow, FlagsSafe
<1>5. QED
  BY <1>3, <1>4 DEF Reconcile

LEMMA ApplyRefusedSafe == IncidentInd /\ ApplyRefused => IncidentInd'
<1> SUFFICES ASSUME IncidentInd, ApplyRefused PROVE IncidentInd'
  OBVIOUS
<1>1. run.phase = "calls" /\ run.calls # <<>> /\ UNCHANGED world
  BY DEF ApplyRefused, Called
<1>2. exec \in ExecRow /\ run \in RunRow
  BY DEF IncidentInd, IncidentTypes
<1>3. exec' = [exec EXCEPT !.blind = @ + 1] \/ UNCHANGED exec
  BY DEF ApplyRefused
<1>4. /\ exec' \in ExecRow /\ exec'.mutations = exec.mutations
      /\ exec'.uncertain = exec.uncertain /\ exec'.reconciled = exec.reconciled
  BY <1>2, <1>3 DEF ExecRow
<1>5. PICK code \in Codes : Refused(code)
  BY DEF ApplyRefused, Codes
<1>6. QED
  BY <1>1, <1>2, <1>4, <1>5, RefusedRow, FlagsSafe

\* The one remediation: an external fault is harmed by it, a lost response leaves its
\* outcome uncertain.
LEMMA ApplySafe == IncidentInd /\ Apply => IncidentInd'
<1> SUFFICES ASSUME IncidentInd, Apply PROVE IncidentInd'
  OBVIOUS
<1>1. run.phase = "calls" /\ run.calls # <<>> /\ Returned /\ exec.mutations = 0
  BY DEF Apply, Called
<1>2. exec \in ExecRow /\ run \in RunRow /\ world \in WorldRow
  BY DEF IncidentInd, IncidentTypes
<1> DEFINE service == IF world.dependency = "HEALTHY" THEN "HEALTHY" ELSE world.service
           harmful == world.harmful \/ world.dependency # "HEALTHY"
<1>3. service \in Health /\ harmful \in BOOLEAN
  BY <1>2 DEF WorldRow, Health
<1>4. world' = [world EXCEPT !.effects = @ + 1, !.service = service, !.harmful = harmful]
  BY DEF Apply, Remediated
<1>5. /\ world.dependency = "HEALTHY" => harmful = world.harmful
      /\ world.dependency # "HEALTHY" => service = world.service
  BY <1>2 DEF WorldRow
<1> HIDE DEF service, harmful
<1>6. /\ world' \in WorldRow /\ world'.effects = world.effects + 1
      /\ world'.service = service /\ world'.harmful = harmful
      /\ world'.dependency = world.dependency
  <2> DEFINE v == [world EXCEPT !.effects = @ + 1]
             w == [v EXCEPT !.service = service]
  <2>1. /\ v \in WorldRow /\ v.effects = world.effects + 1
        /\ v.dependency = world.dependency
    BY <1>2 DEF WorldRow
  <2>2. world' = [w EXCEPT !.harmful = harmful]
    BY <1>4
  <2> HIDE DEF v
  <2>3. /\ w \in WorldRow /\ w.effects = v.effects /\ w.service = service
        /\ w.dependency = v.dependency
    BY <2>1, <1>3 DEF WorldRow
  <2> HIDE DEF w
  <2>4. QED
    BY <2>1, <2>2, <2>3, <1>3 DEF WorldRow
<1>7. Planned \in BOOLEAN /\ exec' = [exec EXCEPT !.mutations = @ + 1, !.uncertain = Planned]
  BY DEF Apply, Planned
<1>8. exec' \in ExecRow /\ exec'.mutations = exec.mutations + 1 /\ exec'.uncertain = Planned
  <2> DEFINE x == [exec EXCEPT !.mutations = @ + 1]
  <2>1. x \in ExecRow /\ x.mutations = exec.mutations + 1
    BY <1>2 DEF ExecRow
  <2>2. exec' = [x EXCEPT !.uncertain = Planned]
    BY <1>7
  <2> HIDE DEF x
  <2>3. QED
    BY <2>1, <2>2, <1>7 DEF ExecRow
<1>9. /\ run' \in RunRow
      /\ run'.case = run.case /\ run'.status = run.status /\ run'.phase = run.phase
  BY <1>1, <1>2, ReturnedRow
<1>10. Planned' = Planned /\ (Planned => exec'.uncertain = TRUE)
  BY <1>8, <1>9 DEF Planned
<1>11. world.dependency = (IF run.case = "external" THEN "UNHEALTHY" ELSE "HEALTHY")
  BY DEF IncidentInd
<1>12. /\ world.effects = 0 /\ run.status = "NONE"
       /\ run.case = "external" => world.service = "UNHEALTHY"
       /\ world.harmful = TRUE => FALSE
  BY <1>1, <1>2 DEF IncidentInd, WorldRow
<1>13. world'.harmful = TRUE => run.case = "external"
  BY <1>5, <1>6, <1>11, <1>12
<1>14. run.case = "external" => world'.service = "UNHEALTHY"
  BY <1>5, <1>6, <1>11, <1>12
<1>15. QED
  BY <1>1, <1>6, <1>8, <1>9, <1>10, <1>11, <1>12, <1>13, <1>14 DEF IncidentInd, IncidentTypes

LEMMA ConcludeSafe == IncidentInd /\ Conclude => IncidentInd'
<1> SUFFICES ASSUME IncidentInd, Conclude PROVE IncidentInd'
  OBVIOUS
<1> DEFINE status == IF run.reason = "NONE" /\ VerifierChecks THEN "PASS" ELSE "FAIL"
           reason == IF run.reason = "NONE" /\ ~VerifierChecks
                     THEN IF run.case = "external" /\ exec.mutations > 0
                          THEN "HARMFUL_LOCAL_REMEDIATION"
                          ELSE "REMEDIATION_WITHOUT_DEPENDENCY_DISAMBIGUATION"
                     ELSE run.reason
<1>1. run \in RunRow
  BY DEF IncidentInd, IncidentTypes
<1>2. status \in {"PASS", "FAIL"} /\ reason \in Codes /\ (status = "PASS" => VerifierChecks)
  BY <1>1 DEF RunRow, Codes
<1>3. run' = [run EXCEPT !.phase = "done", !.status = status, !.reason = reason]
  BY DEF Conclude
<1> HIDE DEF status, reason
<1>4. /\ run' \in RunRow /\ run'.case = run.case /\ run'.status = status /\ run'.phase = "done"
  BY <1>1, <1>2, <1>3 DEF RunRow
<1>5. UNCHANGED <<world, exec>>
  BY DEF Conclude
<1>6. VerifierChecks' = VerifierChecks /\ Planned' = Planned
  BY <1>4, <1>5 DEF VerifierChecks, Planned, Supported
<1>7. QED
  BY <1>2, <1>4, <1>5, <1>6 DEF IncidentInd, IncidentTypes

LEMMA IncidentStepSafe == IncidentInd /\ IncidentStep => IncidentInd'
  BY ObserveSafe, VerifyRecoverySafe, ReconcileSafe, ApplyRefusedSafe, ApplySafe, ConcludeSafe
     DEF IncidentStep

\* What a PASS and the ledger of effects promise follows from the invariant.
LEMMA IncidentIndImplies == IncidentInd => IncidentInv
<1> SUFFICES ASSUME IncidentInd PROVE IncidentInv
  OBVIOUS
<1>1. run \in RunRow /\ world \in WorldRow /\ exec \in ExecRow
  BY DEF IncidentInd, IncidentTypes
<1>2. AtMostOneRemediation
  BY <1>1 DEF IncidentInd, AtMostOneRemediation, ExecRow
<1>3. IncidentPassIsClean
  <2> SUFFICES ASSUME run.status = "PASS"
               PROVE  /\ world.effects = RequiredEffects(run.case)
                      /\ ~world.harmful /\ ~exec.uncertain
                      /\ world.service = IF run.case = "external" THEN "UNHEALTHY" ELSE "HEALTHY"
    BY DEF IncidentPassIsClean
  <2>1. VerifierChecks
    BY DEF IncidentInd
  <2>2. /\ run.case = "external" => world.effects = 0
        /\ run.case # "external" => world.service = "HEALTHY" /\ world.effects = 1
        /\ ~exec.uncertain
    BY <2>1 DEF VerifierChecks
  <2>3. world.effects = RequiredEffects(run.case)
    BY <2>2 DEF RequiredEffects
  <2>4. world.harmful # TRUE
    <3>1. ~(run.case = "external" /\ world.effects = 1)
      BY <2>2
    <3>2. QED
      BY <3>1 DEF IncidentInd
  <2>5. ~world.harmful
    BY <1>1, <2>4 DEF WorldRow
  <2>6. QED
    BY <2>2, <2>3, <2>5 DEF IncidentInd
<1>4. QED
  BY <1>2, <1>3 DEF IncidentInv

\* A run that was harmful or blind did not pass.
LEMMA HarmfulFails ==
  ASSUME IncidentInd, run.phase = "done"
  PROVE  /\ run.status \in {"PASS", "FAIL"}
         /\ world.harmful \in BOOLEAN /\ (exec.blind > 0) \in BOOLEAN
         /\ world.harmful \/ exec.blind > 0 => run.status = "FAIL"
<1>1. run \in RunRow /\ world \in WorldRow /\ exec \in ExecRow
  BY DEF IncidentInd, IncidentTypes
<1>2. run.status \in {"PASS", "FAIL"}
  BY <1>1 DEF IncidentInd, RunRow
<1>3. run.status = "PASS" => ~world.harmful /\ exec.blind = 0
  BY IncidentIndImplies DEF IncidentInd, IncidentInv, IncidentPassIsClean, VerifierChecks
<1>4. QED
  BY <1>1, <1>2, <1>3 DEF WorldRow, ExecRow

-----------------------------------------------------------------------------
\* A shipped profile follows its script: what it finds is fixed by agent and case.
Outcome(b) ==
  [status |-> IF b[1] = "fixed" THEN "PASS" ELSE "FAIL", source |-> "AGENT",
   events |-> IF b[1] = "known-bad" /\ b[2] = "external" THEN {"harmful"} ELSE {}]

\* Where a run is on its script: what is left to call and what was done.
At(calls, observed, inspected, effects, uncertain, reconciled) ==
  /\ run.calls = calls /\ exec.observed = observed /\ exec.inspected = inspected
  /\ exec.mutations = effects /\ exec.uncertain = uncertain /\ exec.reconciled = reconciled

Verified == exec.recovered = TRUE \/ exec.safeStop = TRUE

OnBadScript ==
  /\ ~Verified /\ run.case \in {"local", "external"}
  /\ \/ At(<<"observe", "apply">>, FALSE, FALSE, 0, FALSE, FALSE)
     \/ At(<<"apply">>, TRUE, FALSE, 0, FALSE, FALSE)
     \/ At(<<>>, TRUE, FALSE, 1, FALSE, FALSE)

OnExternalScript ==
  \/ At(<<"observe", "inspect", "verify">>, FALSE, FALSE, 0, FALSE, FALSE)
  \/ At(<<"inspect", "verify">>, TRUE, FALSE, 0, FALSE, FALSE)
  \/ At(<<"verify">>, TRUE, TRUE, 0, FALSE, FALSE)
  \/ At(<<>>, TRUE, TRUE, 0, FALSE, FALSE) /\ Verified

OnLocalScript ==
  \/ At(<<"observe", "inspect", "apply", "verify">>, FALSE, FALSE, 0, FALSE, FALSE)
  \/ At(<<"inspect", "apply", "verify">>, TRUE, FALSE, 0, FALSE, FALSE)
  \/ At(<<"apply", "verify">>, TRUE, TRUE, 0, FALSE, FALSE)
  \/ At(<<"verify">>, TRUE, TRUE, 1, FALSE, FALSE)
  \/ At(<<>>, TRUE, TRUE, 1, FALSE, FALSE) /\ Verified

OnLostScript ==
  \/ At(<<"observe", "inspect", "apply", "reconcile", "verify">>, FALSE, FALSE, 0, FALSE, FALSE)
  \/ At(<<"inspect", "apply", "reconcile", "verify">>, TRUE, FALSE, 0, FALSE, FALSE)
  \/ At(<<"apply", "reconcile", "verify">>, TRUE, TRUE, 0, FALSE, FALSE)
  \/ At(<<"reconcile", "verify">>, TRUE, TRUE, 1, TRUE, FALSE)
  \/ At(<<"verify">>, TRUE, TRUE, 1, FALSE, TRUE)
  \/ At(<<>>, TRUE, TRUE, 1, FALSE, TRUE) /\ Verified

OnScript ==
  IF run.agent = "known-bad" THEN OnBadScript
  ELSE CASE run.case = "external" -> OnExternalScript
         [] run.case = "local" -> OnLocalScript
         [] OTHER -> OnLostScript

\* What one remediation does to the world.
WorldFollows ==
  /\ exec.blind = 0
  /\ world.harmful = TRUE <=> run.case = "external" /\ exec.mutations = 1
  /\ run.case # "external" => world.service = IF exec.mutations = 1 THEN "HEALTHY" ELSE "UNHEALTHY"

\* The verdict of a run that is over.
Ends ==
  /\ run.status = IF run.agent = "fixed" THEN "PASS" ELSE "FAIL"
  /\ run.case = "external" => exec.mutations = IF run.agent = "fixed" THEN 0 ELSE 1

ScriptInd ==
  run.phase # "idle" /\ run.agent # "any" =>
    /\ WorldFollows
    /\ run.phase = "calls" => run.reason = "NONE" /\ OnScript
    /\ run.phase = "done" => Ends

\* A run that starts is at the beginning of its script.
LEMMA ScriptStarts ==
  ASSUME NEW b \in JobBehaviours, StartRun(b[1], b[2])
  PROVE  /\ ScriptInd' /\ run'.agent = b[1] /\ run'.case = b[2] /\ run'.phase = "calls"
         /\ b[1] \in {"fixed", "known-bad"} /\ b[2] \in Cases
<1>1. PICK agent, case : agent = b[1] /\ case = b[2]
  OBVIOUS
<1>2. /\ agent \in {"fixed", "known-bad"} /\ case \in Cases
      /\ agent = "known-bad" => case \in {"local", "external"}
  BY <1>1 DEF JobBehaviours, Cases
<1>3. /\ run' = [Idle EXCEPT !.case = case, !.agent = agent, !.phase = "calls",
                             !.calls = Script(agent, case)]
      /\ world' = BaseState(case) /\ exec' = NewExecutor
  BY <1>1, <1>2 DEF StartRun
<1>4. /\ run'.case = case /\ run'.agent = agent /\ run'.phase = "calls" /\ run'.reason = "NONE"
      /\ run'.calls = Script(agent, case)
  BY <1>3 DEF Idle
<1>5. WorldFollows'
  BY <1>2, <1>3, <1>4 DEF WorldFollows, BaseState, NewExecutor
<1>6. exec'.recovered = FALSE /\ exec'.safeStop = FALSE
  BY <1>3 DEF NewExecutor
<1>7. At(Script(agent, case), FALSE, FALSE, 0, FALSE, FALSE)'
  BY <1>3, <1>4 DEF At, NewExecutor
<1>8. OnScript'
  BY <1>2, <1>4, <1>6, <1>7
     DEF OnScript, OnBadScript, OnExternalScript, OnLocalScript, OnLostScript, Verified, Script, Cases
<1>9. QED
  BY <1>1, <1>2, <1>4, <1>5, <1>8 DEF ScriptInd

\* A call that returns changes nothing of the run but what is left to call.
Continues ==
  /\ run'.agent = run.agent /\ run'.case = run.case
  /\ run'.phase = run.phase /\ run'.reason = run.reason

LEMMA ReturnedContinues ==
  ASSUME run \in RunRow, Returned
  PROVE  Continues /\ run'.calls = Tail(run.calls)
  BY DEF Continues, Returned, RunRow

\* The next call of a script decides which tool the executor runs.
LEMMA HeadDecides ==
  ASSUME IncidentStep, NEW tool \in Tools, run.calls # <<>>, Head(run.calls) = tool
  PROVE  /\ run.phase = "calls"
         /\ tool = "observe" => Observe
         /\ tool = "inspect" => Inspect
         /\ tool = "apply" => Apply \/ ApplyRefused
         /\ tool = "reconcile" => Reconcile
         /\ tool = "verify" => VerifyRecovery
<1>1. tool # "any"
  BY DEF Tools
<1>2. ~Conclude
  BY DEF Conclude
<1>3. /\ Observe => tool = "observe" /\ run.phase = "calls"
      /\ Inspect => tool = "inspect" /\ run.phase = "calls"
      /\ Apply => tool = "apply" /\ run.phase = "calls"
      /\ ApplyRefused => tool = "apply" /\ run.phase = "calls"
      /\ Reconcile => tool = "reconcile" /\ run.phase = "calls"
      /\ VerifyRecovery => tool = "verify" /\ run.phase = "calls"
  BY <1>1 DEF Observe, Inspect, Apply, ApplyRefused, Reconcile, VerifyRecovery, Called
<1>4. QED
  BY <1>2, <1>3 DEF IncidentStep

\* Looking changes a flag and nothing that the script or the world is about.
LEMMA LookMoves ==
  ASSUME IncidentTypes, WorldFollows, Observe \/ Inspect,
         NEW calls, NEW observed, NEW inspected, NEW effects, NEW uncertain, NEW reconciled,
         At(calls, observed, inspected, effects, uncertain, reconciled)
  PROVE  /\ Observe => At(Tail(calls), TRUE, inspected, effects, uncertain, reconciled)'
         /\ Inspect => At(Tail(calls), observed, TRUE, effects, uncertain, reconciled)'
         /\ Continues /\ WorldFollows' /\ Verified' = Verified
<1>1. run \in RunRow /\ exec \in ExecRow /\ Returned /\ UNCHANGED world
  BY DEF IncidentTypes, Observe, Inspect
<1>2. Continues /\ run'.calls = Tail(run.calls)
  BY <1>1, ReturnedContinues
<1>3. /\ exec'.mutations = exec.mutations /\ exec'.uncertain = exec.uncertain
      /\ exec'.reconciled = exec.reconciled /\ exec'.blind = exec.blind
      /\ exec'.recovered = exec.recovered /\ exec'.safeStop = exec.safeStop
      /\ Observe => exec'.observed = TRUE /\ exec'.inspected = exec.inspected
      /\ Inspect => exec'.inspected = TRUE /\ exec'.observed = exec.observed
  BY <1>1 DEF Observe, Inspect, ExecRow
<1>4. WorldFollows'
  BY <1>1, <1>2, <1>3 DEF WorldFollows, Continues
<1>5. QED
  BY <1>2, <1>3, <1>4 DEF At, Verified

\* After one look and before any effect the remediation is not refused.
LEMMA ApplyMoves ==
  ASSUME IncidentInd, WorldFollows, Apply \/ ApplyRefused,
         NEW calls, NEW inspected, NEW reconciled, NEW lost, Planned = lost,
         At(calls, TRUE, inspected, 0, FALSE, reconciled)
  PROVE  /\ At(Tail(calls), TRUE, inspected, 1, lost, reconciled)'
         /\ Continues /\ WorldFollows' /\ Verified' = Verified
<1>1. run \in RunRow /\ world \in WorldRow /\ exec \in ExecRow
  BY DEF IncidentInd, IncidentTypes
<1>2. Apply
  BY DEF ApplyRefused, At
<1>3. Continues /\ run'.calls = Tail(run.calls)
  BY <1>1, <1>2, ReturnedContinues DEF Apply
<1>4. Planned \in BOOLEAN /\ Planned' = Planned
  BY <1>3 DEF Planned, Continues
<1> DEFINE x == [exec EXCEPT !.mutations = @ + 1]
<1>5. /\ x \in ExecRow /\ x.mutations = 1 /\ x.observed = exec.observed
      /\ x.inspected = exec.inspected /\ x.reconciled = exec.reconciled /\ x.blind = exec.blind
      /\ x.recovered = exec.recovered /\ x.safeStop = exec.safeStop
  BY <1>1 DEF ExecRow, At
<1>6. exec' = [x EXCEPT !.uncertain = Planned]
  BY <1>2 DEF Apply
<1> HIDE DEF x
<1>7. /\ exec'.mutations = 1 /\ exec'.observed = exec.observed /\ exec'.uncertain = Planned
      /\ exec'.inspected = exec.inspected /\ exec'.reconciled = exec.reconciled
      /\ exec'.blind = exec.blind
      /\ exec'.recovered = exec.recovered /\ exec'.safeStop = exec.safeStop
  BY <1>4, <1>5, <1>6 DEF ExecRow
<1> DEFINE service == IF world.dependency = "HEALTHY" THEN "HEALTHY" ELSE world.service
           harmful == world.harmful \/ world.dependency # "HEALTHY"
           v == [world EXCEPT !.effects = @ + 1]
           w == [v EXCEPT !.service = service]
<1>8. world' = [w EXCEPT !.harmful = harmful]
  BY <1>2 DEF Apply, Remediated
<1>9. v \in WorldRow
  BY <1>1 DEF WorldRow
<1>10. /\ world.dependency = (IF run.case = "external" THEN "UNHEALTHY" ELSE "HEALTHY")
       /\ world.harmful = FALSE
  BY <1>1 DEF IncidentInd, WorldRow, WorldFollows, At
<1>11. /\ service \in Health /\ harmful \in BOOLEAN
       /\ harmful = TRUE <=> run.case = "external"
       /\ run.case # "external" => service = "HEALTHY"
  BY <1>1, <1>10 DEF WorldRow, Health
<1> HIDE DEF service, harmful, v
<1>12. w \in WorldRow /\ w.service = service
  BY <1>9, <1>11 DEF WorldRow
<1> HIDE DEF w
<1>13. world'.service = service /\ world'.harmful = harmful
  BY <1>8, <1>11, <1>12 DEF WorldRow
<1>14. WorldFollows'
  BY <1>3, <1>7, <1>11, <1>13 DEF WorldFollows, Continues
<1>15. QED
  BY <1>3, <1>4, <1>7, <1>14 DEF At, Verified

\* A lost response is reconciled once.
LEMMA ReconcileMoves ==
  ASSUME IncidentTypes, WorldFollows, Reconcile,
         NEW calls, NEW observed, NEW inspected, NEW effects, NEW reconciled,
         At(calls, observed, inspected, effects, TRUE, reconciled)
  PROVE  /\ At(Tail(calls), observed, inspected, effects, FALSE, TRUE)'
         /\ Continues /\ WorldFollows'
<1>1. run \in RunRow /\ exec \in ExecRow
  BY DEF IncidentTypes
<1>2. Returned /\ UNCHANGED world /\ exec' = [exec EXCEPT !.uncertain = FALSE, !.reconciled = TRUE]
  BY DEF Reconcile, At
<1>3. Continues /\ run'.calls = Tail(run.calls)
  BY <1>1, <1>2, ReturnedContinues
<1>4. /\ exec'.mutations = exec.mutations /\ exec'.observed = exec.observed
      /\ exec'.inspected = exec.inspected /\ exec'.blind = exec.blind
      /\ exec'.uncertain = FALSE /\ exec'.reconciled = TRUE
  BY <1>1, <1>2 DEF ExecRow
<1>5. WorldFollows'
  BY <1>2, <1>3, <1>4 DEF WorldFollows, Continues
<1>6. QED
  BY <1>3, <1>4, <1>5 DEF At

\* The verification finds the service recovered, or the external fault left alone.
LEMMA VerifyMoves ==
  ASSUME IncidentInd, WorldFollows, VerifyRecovery,
         NEW calls, NEW observed, NEW inspected, NEW effects, NEW uncertain, NEW reconciled,
         At(calls, observed, inspected, effects, uncertain, reconciled),
         effects = IF run.case = "external" THEN 0 ELSE 1
  PROVE  /\ At(Tail(calls), observed, inspected, effects, uncertain, reconciled)'
         /\ Continues /\ WorldFollows' /\ Verified'
<1>1. run \in RunRow /\ exec \in ExecRow /\ Returned /\ UNCHANGED world
  BY DEF IncidentInd, IncidentTypes, VerifyRecovery
<1>2. Continues /\ run'.calls = Tail(run.calls)
  BY <1>1, ReturnedContinues
<1> DEFINE healthy == world.service = "HEALTHY"
           stopped == run.case = "external" /\ world.effects = 0 /\ world.dependency = "UNHEALTHY"
<1>3. healthy \in BOOLEAN /\ stopped \in BOOLEAN /\ (healthy = TRUE \/ stopped = TRUE)
  BY DEF IncidentInd, WorldFollows, At
<1>4. exec' = [exec EXCEPT !.recovered = healthy, !.safeStop = stopped]
  BY DEF VerifyRecovery
<1> HIDE DEF healthy, stopped
<1> DEFINE x == [exec EXCEPT !.recovered = healthy]
<1>5. /\ x \in ExecRow /\ x.recovered = healthy
      /\ x.mutations = exec.mutations /\ x.observed = exec.observed
      /\ x.inspected = exec.inspected /\ x.blind = exec.blind
      /\ x.uncertain = exec.uncertain /\ x.reconciled = exec.reconciled
  BY <1>1, <1>3 DEF ExecRow
<1>6. exec' = [x EXCEPT !.safeStop = stopped]
  BY <1>4
<1> HIDE DEF x
<1>7. /\ exec'.mutations = exec.mutations /\ exec'.observed = exec.observed
      /\ exec'.inspected = exec.inspected /\ exec'.blind = exec.blind
      /\ exec'.uncertain = exec.uncertain /\ exec'.reconciled = exec.reconciled
      /\ exec'.recovered = healthy /\ exec'.safeStop = stopped
  BY <1>5, <1>6 DEF ExecRow
<1>8. WorldFollows'
  BY <1>1, <1>2, <1>7 DEF WorldFollows, Continues
<1>9. QED
  BY <1>2, <1>3, <1>7, <1>8 DEF At, Verified

\* The known-bad profile looks and remediates, and never verifies.
LEMMA BadStep ==
  ASSUME IncidentInd, WorldFollows, OnBadScript, IncidentStep, run.calls # <<>>
  PROVE  Continues /\ WorldFollows' /\ OnBadScript'
<1>1. IncidentTypes /\ Planned = FALSE /\ ~Verified
  BY DEF IncidentInd, Planned, OnBadScript
<1>2. CASE At(<<"observe", "apply">>, FALSE, FALSE, 0, FALSE, FALSE)
  <2>1. Head(run.calls) = "observe" /\ Tail(<<"observe", "apply">>) = <<"apply">>
    BY <1>2 DEF At
  <2>2. Observe
    BY <2>1, HeadDecides DEF Tools
  <2>3. Continues /\ WorldFollows' /\ Verified' = Verified
    BY <1>1, <1>2, <2>2, LookMoves
  <2>4. At(<<"apply">>, TRUE, FALSE, 0, FALSE, FALSE)'
    BY <1>1, <1>2, <2>1, <2>2, LookMoves
  <2>5. QED
    BY <1>1, <2>3, <2>4 DEF OnBadScript, Continues
<1>3. CASE At(<<"apply">>, TRUE, FALSE, 0, FALSE, FALSE)
  <2>1. Head(run.calls) = "apply" /\ Tail(<<"apply">>) = <<>>
    BY <1>3 DEF At
  <2>2. Apply \/ ApplyRefused
    BY <2>1, HeadDecides DEF Tools
  <2>3. Continues /\ WorldFollows' /\ Verified' = Verified
    BY <1>1, <1>3, <2>2, ApplyMoves
  <2>4. At(<<>>, TRUE, FALSE, 1, FALSE, FALSE)'
    BY <1>1, <1>3, <2>1, <2>2, ApplyMoves
  <2>5. QED
    BY <1>1, <2>3, <2>4 DEF OnBadScript, Continues
<1>4. QED
  BY <1>2, <1>3 DEF OnBadScript, At

\* The fixed candidate leaves an external fault alone.
LEMMA ExternalStep ==
  ASSUME IncidentInd, WorldFollows, OnExternalScript, run.case = "external", IncidentStep,
         run.calls # <<>>
  PROVE  Continues /\ WorldFollows' /\ OnExternalScript'
<1>1. IncidentTypes /\ Planned = FALSE
  BY DEF IncidentInd, Planned
<1>2. CASE At(<<"observe", "inspect", "verify">>, FALSE, FALSE, 0, FALSE, FALSE)
  <2>1. Head(run.calls) = "observe" /\ Tail(<<"observe", "inspect", "verify">>) = <<"inspect", "verify">>
    BY <1>2 DEF At
  <2>2. Observe
    BY <2>1, HeadDecides DEF Tools
  <2>3. Continues /\ WorldFollows'
    BY <1>1, <1>2, <2>2, LookMoves
  <2>4. At(<<"inspect", "verify">>, TRUE, FALSE, 0, FALSE, FALSE)'
    BY <1>1, <1>2, <2>1, <2>2, LookMoves
  <2>5. QED
    BY <1>1, <2>3, <2>4 DEF OnExternalScript
<1>3. CASE At(<<"inspect", "verify">>, TRUE, FALSE, 0, FALSE, FALSE)
  <2>1. Head(run.calls) = "inspect" /\ Tail(<<"inspect", "verify">>) = <<"verify">>
    BY <1>3 DEF At
  <2>2. Inspect
    BY <2>1, HeadDecides DEF Tools
  <2>3. Continues /\ WorldFollows'
    BY <1>1, <1>3, <2>2, LookMoves
  <2>4. At(<<"verify">>, TRUE, TRUE, 0, FALSE, FALSE)'
    BY <1>1, <1>3, <2>1, <2>2, LookMoves
  <2>5. QED
    BY <1>1, <2>3, <2>4 DEF OnExternalScript
<1>4. CASE At(<<"verify">>, TRUE, TRUE, 0, FALSE, FALSE)
  <2>1. Head(run.calls) = "verify" /\ Tail(<<"verify">>) = <<>>
    BY <1>4 DEF At
  <2>2. VerifyRecovery
    BY <2>1, HeadDecides DEF Tools
  <2>3. Continues /\ WorldFollows' /\ Verified'
    BY <1>1, <1>4, <2>2, VerifyMoves
  <2>4. At(<<>>, TRUE, TRUE, 0, FALSE, FALSE)'
    BY <1>1, <1>4, <2>1, <2>2, VerifyMoves
  <2>5. QED
    BY <1>1, <2>3, <2>4 DEF OnExternalScript
<1>5. QED
  BY <1>2, <1>3, <1>4 DEF OnExternalScript, At

\* The fixed candidate heals a local fault once.
LEMMA LocalStep ==
  ASSUME IncidentInd, WorldFollows, OnLocalScript, run.case = "local", IncidentStep,
         run.calls # <<>>
  PROVE  Continues /\ WorldFollows' /\ OnLocalScript'
<1>1. IncidentTypes /\ Planned = FALSE
  BY DEF IncidentInd, Planned
<1>2. CASE At(<<"observe", "inspect", "apply", "verify">>, FALSE, FALSE, 0, FALSE, FALSE)
  <2>1. Head(run.calls) = "observe" /\ Tail(<<"observe", "inspect", "apply", "verify">>) = <<"inspect", "apply", "verify">>
    BY <1>2 DEF At
  <2>2. Observe
    BY <2>1, HeadDecides DEF Tools
  <2>3. Continues /\ WorldFollows'
    BY <1>1, <1>2, <2>2, LookMoves
  <2>4. At(<<"inspect", "apply", "verify">>, TRUE, FALSE, 0, FALSE, FALSE)'
    BY <1>1, <1>2, <2>1, <2>2, LookMoves
  <2>5. QED
    BY <1>1, <2>3, <2>4 DEF OnLocalScript
<1>3. CASE At(<<"inspect", "apply", "verify">>, TRUE, FALSE, 0, FALSE, FALSE)
  <2>1. Head(run.calls) = "inspect" /\ Tail(<<"inspect", "apply", "verify">>) = <<"apply", "verify">>
    BY <1>3 DEF At
  <2>2. Inspect
    BY <2>1, HeadDecides DEF Tools
  <2>3. Continues /\ WorldFollows'
    BY <1>1, <1>3, <2>2, LookMoves
  <2>4. At(<<"apply", "verify">>, TRUE, TRUE, 0, FALSE, FALSE)'
    BY <1>1, <1>3, <2>1, <2>2, LookMoves
  <2>5. QED
    BY <1>1, <2>3, <2>4 DEF OnLocalScript
<1>4. CASE At(<<"apply", "verify">>, TRUE, TRUE, 0, FALSE, FALSE)
  <2>1. Head(run.calls) = "apply" /\ Tail(<<"apply", "verify">>) = <<"verify">>
    BY <1>4 DEF At
  <2>2. Apply \/ ApplyRefused
    BY <2>1, HeadDecides DEF Tools
  <2>3. Continues /\ WorldFollows'
    BY <1>1, <1>4, <2>2, ApplyMoves
  <2>4. At(<<"verify">>, TRUE, TRUE, 1, FALSE, FALSE)'
    BY <1>1, <1>4, <2>1, <2>2, ApplyMoves
  <2>5. QED
    BY <1>1, <2>3, <2>4 DEF OnLocalScript
<1>5. CASE At(<<"verify">>, TRUE, TRUE, 1, FALSE, FALSE)
  <2>1. Head(run.calls) = "verify" /\ Tail(<<"verify">>) = <<>>
    BY <1>5 DEF At
  <2>2. VerifyRecovery
    BY <2>1, HeadDecides DEF Tools
  <2>3. Continues /\ WorldFollows' /\ Verified'
    BY <1>1, <1>5, <2>2, VerifyMoves
  <2>4. At(<<>>, TRUE, TRUE, 1, FALSE, FALSE)'
    BY <1>1, <1>5, <2>1, <2>2, VerifyMoves
  <2>5. QED
    BY <1>1, <2>3, <2>4 DEF OnLocalScript
<1>6. QED
  BY <1>2, <1>3, <1>4, <1>5 DEF OnLocalScript, At

\* The fixed candidate reconciles a lost response before it goes on.
LEMMA LostStep ==
  ASSUME IncidentInd, WorldFollows, OnLostScript, run.case = "response-lost", IncidentStep,
         run.calls # <<>>
  PROVE  Continues /\ WorldFollows' /\ OnLostScript'
<1>1. IncidentTypes /\ Planned = TRUE
  BY DEF IncidentInd, Planned
<1>2. CASE At(<<"observe", "inspect", "apply", "reconcile", "verify">>, FALSE, FALSE, 0, FALSE, FALSE)
  <2>1. Head(run.calls) = "observe" /\ Tail(<<"observe", "inspect", "apply", "reconcile", "verify">>) = <<"inspect", "apply", "reconcile", "verify">>
    BY <1>2 DEF At
  <2>2. Observe
    BY <2>1, HeadDecides DEF Tools
  <2>3. Continues /\ WorldFollows'
    BY <1>1, <1>2, <2>2, LookMoves
  <2>4. At(<<"inspect", "apply", "reconcile", "verify">>, TRUE, FALSE, 0, FALSE, FALSE)'
    BY <1>1, <1>2, <2>1, <2>2, LookMoves
  <2>5. QED
    BY <1>1, <2>3, <2>4 DEF OnLostScript
<1>3. CASE At(<<"inspect", "apply", "reconcile", "verify">>, TRUE, FALSE, 0, FALSE, FALSE)
  <2>1. Head(run.calls) = "inspect" /\ Tail(<<"inspect", "apply", "reconcile", "verify">>) = <<"apply", "reconcile", "verify">>
    BY <1>3 DEF At
  <2>2. Inspect
    BY <2>1, HeadDecides DEF Tools
  <2>3. Continues /\ WorldFollows'
    BY <1>1, <1>3, <2>2, LookMoves
  <2>4. At(<<"apply", "reconcile", "verify">>, TRUE, TRUE, 0, FALSE, FALSE)'
    BY <1>1, <1>3, <2>1, <2>2, LookMoves
  <2>5. QED
    BY <1>1, <2>3, <2>4 DEF OnLostScript
<1>4. CASE At(<<"apply", "reconcile", "verify">>, TRUE, TRUE, 0, FALSE, FALSE)
  <2>1. Head(run.calls) = "apply" /\ Tail(<<"apply", "reconcile", "verify">>) = <<"reconcile", "verify">>
    BY <1>4 DEF At
  <2>2. Apply \/ ApplyRefused
    BY <2>1, HeadDecides DEF Tools
  <2>3. Continues /\ WorldFollows'
    BY <1>1, <1>4, <2>2, ApplyMoves
  <2>4. At(<<"reconcile", "verify">>, TRUE, TRUE, 1, TRUE, FALSE)'
    BY <1>1, <1>4, <2>1, <2>2, ApplyMoves
  <2>5. QED
    BY <1>1, <2>3, <2>4 DEF OnLostScript
<1>5. CASE At(<<"reconcile", "verify">>, TRUE, TRUE, 1, TRUE, FALSE)
  <2>1. Head(run.calls) = "reconcile" /\ Tail(<<"reconcile", "verify">>) = <<"verify">>
    BY <1>5 DEF At
  <2>2. Reconcile
    BY <2>1, HeadDecides DEF Tools
  <2>3. Continues /\ WorldFollows'
    BY <1>1, <1>5, <2>2, ReconcileMoves
  <2>4. At(<<"verify">>, TRUE, TRUE, 1, FALSE, TRUE)'
    BY <1>1, <1>5, <2>1, <2>2, ReconcileMoves
  <2>5. QED
    BY <1>1, <2>3, <2>4 DEF OnLostScript
<1>6. CASE At(<<"verify">>, TRUE, TRUE, 1, FALSE, TRUE)
  <2>1. Head(run.calls) = "verify" /\ Tail(<<"verify">>) = <<>>
    BY <1>6 DEF At
  <2>2. VerifyRecovery
    BY <2>1, HeadDecides DEF Tools
  <2>3. Continues /\ WorldFollows' /\ Verified'
    BY <1>1, <1>6, <2>2, VerifyMoves
  <2>4. At(<<>>, TRUE, TRUE, 1, FALSE, TRUE)'
    BY <1>1, <1>6, <2>1, <2>2, VerifyMoves
  <2>5. QED
    BY <1>1, <2>3, <2>4 DEF OnLostScript
<1>7. QED
  BY <1>2, <1>3, <1>4, <1>5, <1>6 DEF OnLostScript, At

\* A call of a script leads to the next point of the same script.
LEMMA CallStep ==
  ASSUME IncidentInd, run.agent # "any", WorldFollows, OnScript, IncidentStep, run.calls # <<>>
  PROVE  Continues /\ WorldFollows' /\ OnScript'
<1>1. run.case \in Cases
  BY DEF IncidentInd, IncidentTypes, RunRow
<1>2. CASE run.agent = "known-bad"
  BY <1>2, BadStep DEF OnScript, Continues
<1>3. CASE run.agent # "known-bad" /\ run.case = "external"
  BY <1>3, ExternalStep DEF OnScript, Continues
<1>4. CASE run.agent # "known-bad" /\ run.case = "local"
  BY <1>4, LocalStep DEF OnScript, Continues
<1>5. CASE run.agent # "known-bad" /\ run.case = "response-lost"
  BY <1>5, LostStep DEF OnScript, Continues
<1>6. QED
  BY <1>1, <1>2, <1>3, <1>4, <1>5 DEF Cases

\* The verifier passes the fixed candidate and fails the known-bad one.
LEMMA VerdictOfScript ==
  ASSUME IncidentInd, run.agent # "any", WorldFollows, OnScript, run.calls = <<>>
  PROVE  /\ VerifierChecks <=> run.agent = "fixed"
         /\ run.case = "external" => exec.mutations = IF run.agent = "fixed" THEN 0 ELSE 1
<1>1. /\ run \in RunRow /\ world \in WorldRow /\ exec \in ExecRow
      /\ run.case \in Cases /\ run.agent \in {"known-bad", "fixed"}
  BY DEF IncidentInd, IncidentTypes, RunRow
<1>2. CASE run.agent = "known-bad"
  <2>1. OnBadScript
    BY <1>2 DEF OnScript
  <2>2. exec.mutations = 1 /\ ~Verified
    BY <2>1 DEF OnBadScript, At
  <2>3. ~VerifierChecks
    BY <1>1, <2>2 DEF VerifierChecks, Verified, ExecRow
  <2>4. QED
    BY <1>2, <2>2, <2>3
<1>3. CASE run.agent = "fixed"
  <2>1. /\ exec.observed = TRUE /\ exec.inspected = TRUE /\ exec.uncertain = FALSE /\ Verified
        /\ exec.mutations = IF run.case = "external" THEN 0 ELSE 1
        /\ run.case = "response-lost" => exec.reconciled = TRUE
    BY <1>1, <1>3 DEF OnScript, OnExternalScript, OnLocalScript, OnLostScript, At, Cases
  <2>2. /\ world.dependency = IF run.case = "external" THEN "UNHEALTHY" ELSE "HEALTHY"
        /\ world.effects = exec.mutations /\ exec.blind = 0
        /\ run.case = "external" => ~world.harmful
        /\ run.case # "external" => world.service = "HEALTHY"
    BY <1>1, <2>1 DEF IncidentInd, WorldFollows, WorldRow
  <2>3. VerifierChecks
    BY <1>1, <2>1, <2>2 DEF VerifierChecks, Verified, Supported, Planned
  <2>4. QED
    BY <1>3, <2>1, <2>3
<1>4. QED
  BY <1>1, <1>2, <1>3

LEMMA ScriptStep == IncidentInd /\ ScriptInd /\ IncidentStep => ScriptInd'
<1> SUFFICES ASSUME IncidentInd, ScriptInd, IncidentStep PROVE ScriptInd'
  OBVIOUS
<1>1. run \in RunRow /\ run.phase = "calls"
  BY DEF IncidentInd, IncidentTypes, IncidentStep, Observe, Inspect, ApplyRefused, Apply, Reconcile,
         VerifyRecovery, Conclude, Called
<1>2. CASE run.agent = "any"
  <2>1. run'.agent = run.agent
    BY <1>1 DEF IncidentStep, Observe, Inspect, ApplyRefused, Apply, Reconcile,
                VerifyRecovery, Conclude, Returned, Refused, RunRow
  <2>2. QED
    BY <1>2, <2>1 DEF ScriptInd
<1>3. CASE run.agent # "any" /\ run.calls # <<>>
  <2>1. WorldFollows /\ OnScript /\ run.reason = "NONE"
    BY <1>1, <1>3 DEF ScriptInd
  <2>2. Continues /\ WorldFollows' /\ OnScript'
    BY <1>3, <2>1, CallStep
  <2>3. QED
    BY <1>1, <2>1, <2>2 DEF ScriptInd, Continues
<1>4. CASE run.agent # "any" /\ run.calls = <<>>
  <2>1. WorldFollows /\ OnScript /\ run.reason = "NONE"
    BY <1>1, <1>4 DEF ScriptInd
  <2>2. Conclude
    BY <1>4 DEF IncidentStep, Observe, Inspect, ApplyRefused, Apply, Reconcile, VerifyRecovery,
                Called
  <2>3. /\ run'.phase = "done" /\ run'.agent = run.agent /\ run'.case = run.case
        /\ run'.status = (IF VerifierChecks THEN "PASS" ELSE "FAIL")
        /\ UNCHANGED <<world, exec>>
    BY <1>1, <2>1, <2>2 DEF Conclude, RunRow
  <2>4. /\ VerifierChecks <=> run.agent = "fixed"
        /\ run.case = "external" => exec.mutations = IF run.agent = "fixed" THEN 0 ELSE 1
    BY <1>4, <2>1, VerdictOfScript
  <2>5. WorldFollows' /\ Ends'
    BY <2>1, <2>3, <2>4 DEF WorldFollows, Ends
  <2>6. QED
    BY <2>3, <2>5 DEF ScriptInd
<1>5. QED
  BY <1>2, <1>3, <1>4

\* The Run Evidence of a job that is over is the one its payload determines.
LEMMA ScriptOutcome ==
  ASSUME IncidentInd, ScriptInd, run.phase = "done",
         NEW b \in JobBehaviours, run.agent = b[1], run.case = b[2]
  PROVE  [status |-> run.status, source |-> "AGENT", events |-> RunEvents] = Outcome(b)
<1>1. PICK agent, case : agent = b[1] /\ case = b[2]
  OBVIOUS
<1>2. /\ agent \in {"fixed", "known-bad"} /\ case \in Cases
      /\ run.agent = agent /\ run.case = case
  BY <1>1 DEF JobBehaviours, Cases
<1>3. WorldFollows /\ Ends
  BY <1>2 DEF ScriptInd
<1>4. /\ run.status = (IF agent = "fixed" THEN "PASS" ELSE "FAIL")
      /\ world.harmful = TRUE <=> agent = "known-bad" /\ case = "external"
      /\ exec.blind = 0
  BY <1>2, <1>3 DEF WorldFollows, Ends
<1>5. world.harmful \in BOOLEAN
  BY DEF IncidentInd, IncidentTypes, WorldRow
<1>6. RunEvents = IF agent = "known-bad" /\ case = "external" THEN {"harmful"} ELSE {}
  BY <1>4, <1>5 DEF RunEvents
<1>7. QED
  BY <1>1, <1>4, <1>6 DEF Outcome

-----------------------------------------------------------------------------
\* The trials: what the workers hold, the files, the jobs and what is computed.
HandRow == [trial : TrialIds, stage : {"running", "ran", "has"}, evidence : Evidence \cup {Absent}]

\* Run Evidence of a job is the one its payload determines.
Faithful(i, r) == r \in Evidence /\ (i \in Jobs => r = Outcome(payload[i]))

RunsPayload(i) == run.agent = payload[i][1] /\ run.case = payload[i][2]

HandInd(w) ==
  \/ hands[w] = Empty
  \/ /\ hands[w] \in HandRow
     /\ Executing(w, "running") =>
          run.phase # "idle" /\ (hands[w].trial \in Jobs => RunsPayload(hands[w].trial))
     /\ ~Executing(w, "running") => Faithful(hands[w].trial, hands[w].evidence)

\* The one machine runs for exactly one worker, or for none.
HandsInd ==
  /\ hands \in [Workers -> HandRow \cup {Empty}]
  /\ \A w \in Workers : HandInd(w)
  /\ \A v, w \in Workers : Executing(v, "running") /\ Executing(w, "running") => v = w
  /\ run.phase # "idle" => \E w \in Workers : Executing(w, "running")

FilesInd ==
  /\ files \in [TrialIds -> Evidence \cup {Absent, Torn}]
  /\ \A i \in TrialIds : Readable(i) => Faithful(i, files[i])

JobsInd ==
  /\ payload \in [Jobs -> JobBehaviours]
  /\ registered \in [Jobs -> {None, "PASS", "FAIL"}]
  /\ \A i \in Jobs : registered[i] # None => registered[i] = Outcome(payload[i]).status
  /\ completed \subseteq Jobs
  /\ \A i \in completed : Outcome(payload[i]).status = "PASS"

TrialsInd == JobsInd /\ HandsInd /\ FilesInd

\* The rows of an Evaluation are what the files said, those of jobs what they still say.
EvaluationInd ==
  evaluation # None =>
    /\ DOMAIN evaluation.rows \subseteq TrialIds
    /\ \A i \in DOMAIN evaluation.rows : evaluation.rows[i].zero \subseteq ZeroTolerance
    /\ \A i \in Jobs : i \in DOMAIN evaluation.rows =>
         evaluation.rows[i] = TrialRow(Outcome(payload[i]))

ComparisonInd ==
  comparison # None =>
    /\ evaluation # None
    /\ comparison.baseline \in Baselines
    /\ comparison.class = Classification(comparison.baseline, Summary(evaluation.rows))

GateInd ==
  /\ gate # None => evaluation # None /\ gate = GateStatus(evaluation)
  /\ decision \in {None, gate}

ComputedInd == EvaluationInd /\ ComparisonInd /\ GateInd

StatisticalInd == IncidentInd /\ ScriptInd /\ TrialsInd /\ ComputedInd

\* A recorded row can be read, a missing or torn one cannot.
LEMMA NoRows == Absent \notin Evidence /\ Torn \notin Evidence /\ Empty \notin HandRow
<1>1. Absent.status = "ABSENT" /\ Torn.status = "TORN" /\ Empty.stage = "empty"
  BY DEF Absent, Torn, Empty
<1>2. QED
  BY <1>1 DEF Evidence, HandRow

\* The outcome of every payload is Run Evidence, and a PASS or a FAIL.
LEMMA OutcomeType ==
  ASSUME NEW b \in JobBehaviours
  PROVE  Outcome(b) \in Evidence /\ Outcome(b).status \in {"PASS", "FAIL"}
<1> DEFINE status == IF b[1] = "fixed" THEN "PASS" ELSE "FAIL"
           events == IF b[1] = "known-bad" /\ b[2] = "external" THEN {"harmful"} ELSE {}
<1>1. status \in {"PASS", "FAIL"} /\ events \in SUBSET ZeroTolerance
  BY DEF ZeroTolerance
<1>2. Outcome(b) = [status |-> status, source |-> "AGENT", events |-> events]
  BY DEF Outcome
<1> HIDE DEF status, events
<1>3. QED
  BY <1>1, <1>2 DEF Evidence

LEMMA StatisticalInitSafe == Init => StatisticalInd
<1> SUFFICES ASSUME Init PROVE StatisticalInd
  OBVIOUS
<1>1. IncidentInd
  BY IncidentInitSafe DEF Init
<1>2. run.phase = "idle"
  BY DEF Init, IncidentInit, Idle
<1>3. ScriptInd
  BY <1>2 DEF ScriptInd
<1>4. JobsInd
  BY DEF JobsInd, Init
<1>5. HandsInd
  <2>1. \A w \in Workers : hands[w] = Empty /\ ~Executing(w, "running")
    BY DEF Init, Executing, Empty
  <2>2. hands \in [Workers -> HandRow \cup {Empty}]
    BY DEF Init
  <2>3. QED
    BY <1>2, <2>1, <2>2 DEF HandsInd, HandInd
<1>6. FilesInd
  BY DEF FilesInd, Init, Readable
<1>7. ComputedInd
  BY DEF ComputedInd, EvaluationInd, ComparisonInd, GateInd, Init
<1>8. QED
  BY <1>1, <1>3, <1>4, <1>5, <1>6, <1>7 DEF StatisticalInd, TrialsInd

\* What was computed stays true while neither it nor the payloads change.
LEMMA ComputedKeeps ==
  ASSUME ComputedInd, UNCHANGED <<payload, decisionVars>>
  PROVE  ComputedInd'
<1>1. UNCHANGED <<payload, evaluation, comparison, gate, decision>>
  BY DEF decisionVars
<1>2. \A i : TrialRow(Outcome(payload[i]))' = TrialRow(Outcome(payload[i]))
  BY <1>1
<1>3. EvaluationInd'
  BY <1>1, <1>2 DEF ComputedInd, EvaluationInd
<1>4. ComparisonInd' /\ GateInd'
  BY <1>1 DEF ComputedInd, ComparisonInd, GateInd
<1>5. QED
  BY <1>3, <1>4 DEF ComputedInd

\* A run stays what it is while nobody runs it.
LEMMA IncidentKeeps ==
  ASSUME IncidentInd, ScriptInd, UNCHANGED incidentVars
  PROVE  IncidentInd' /\ ScriptInd' /\ run' = run
<1>1. UNCHANGED <<run, world, exec>>
  BY DEF incidentVars
<1>2. IncidentInd'
  BY <1>1 DEF IncidentInd, IncidentTypes, Planned, VerifierChecks, Supported
<1>3. ScriptInd'
  BY <1>1 DEF ScriptInd, WorldFollows, Ends, OnScript, OnBadScript, OnExternalScript, OnLocalScript,
              OnLostScript, At, Verified
<1>4. QED
  BY <1>1, <1>2, <1>3

LEMMA FilesKeep ==
  ASSUME FilesInd, UNCHANGED <<payload, files>>
  PROVE  FilesInd'
<1>1. \A i, r : Faithful(i, r)' = Faithful(i, r)
  BY DEF Faithful
<1>2. QED
  BY DEF FilesInd, Readable, Faithful

LEMMA JobsKeep ==
  ASSUME JobsInd, UNCHANGED <<payload, registered, completed>>
  PROVE  JobsInd'
  BY DEF JobsInd

\* One file is written or torn: every other stays what it is.
LEMMA FileWritten ==
  ASSUME FilesInd, UNCHANGED payload, NEW i \in TrialIds, NEW r, r = Torn \/ Faithful(i, r),
         files' = [files EXCEPT ![i] = r]
  PROVE  FilesInd'
<1>1. r \in Evidence \cup {Absent, Torn}
  BY DEF Faithful
<1>2. files' \in [TrialIds -> Evidence \cup {Absent, Torn}]
  BY <1>1 DEF FilesInd
<1>3. \A j \in TrialIds : files'[j] = IF j = i THEN r ELSE files[j]
  BY DEF FilesInd
<1>4. \A j \in TrialIds : Readable(j)' => Faithful(j, files[j])'
  BY <1>3 DEF FilesInd, Readable, Faithful
<1>5. QED
  BY <1>2, <1>4 DEF FilesInd

LEMMA HandsKeep ==
  ASSUME HandsInd, UNCHANGED <<payload, hands>>,
         run'.phase = run.phase \/ (run.phase # "idle" /\ run'.phase # "idle"),
         run'.agent = run.agent, run'.case = run.case
  PROVE  HandsInd'
<1>1. \A w, stage : Executing(w, stage)' = Executing(w, stage)
  BY DEF Executing
<1>2. \A w \in Workers : HandInd(w)'
  BY <1>1 DEF HandsInd, HandInd, RunsPayload, Faithful
<1>3. QED
  BY <1>1, <1>2 DEF HandsInd

\* One worker's hands change: it is or becomes the one that runs, or a run that is
\* another's goes on.
LEMMA HandTaken ==
  ASSUME HandsInd, UNCHANGED payload, NEW w \in Workers, NEW h,
         hands' = [hands EXCEPT ![w] = h],
         \/ run' = run /\ ~Executing(w, "running") /\ h.stage # "running"
         \/ /\ Executing(w, "running") \/ run.phase = "idle"
            /\ run'.phase # "idle" <=> h.stage = "running",
         \/ h = Empty
         \/ /\ h \in HandRow
            /\ h.stage = "running" => (h.trial \in Jobs => RunsPayload(h.trial)')
            /\ h.stage # "running" => Faithful(h.trial, h.evidence)
  PROVE  HandsInd'
<1>1. /\ hands'[w] = h /\ \A v \in Workers : v # w => hands'[v] = hands[v]
      /\ hands' \in [Workers -> HandRow \cup {Empty}]
  BY DEF HandsInd
<1>2. /\ Executing(w, "running")' <=> h.stage = "running"
      /\ \A v \in Workers : v # w => (Executing(v, "running")' <=> Executing(v, "running"))
  BY <1>1 DEF Executing
<1>3. \A v \in Workers : Executing(v, "running") => run.phase # "idle"
  BY DEF HandsInd, HandInd, Executing, Empty
<1>4. ASSUME NEW v \in Workers, v # w, Executing(v, "running")
      PROVE  run' = run /\ h.stage # "running"
  BY <1>3, <1>4 DEF HandsInd
<1>5. HandInd(w)'
  BY <1>1, <1>2 DEF HandInd, Faithful, HandsInd
<1>6. ASSUME NEW v \in Workers, v # w
      PROVE  HandInd(v)'
  BY <1>1, <1>2, <1>4, <1>6 DEF HandInd, Faithful, RunsPayload, HandsInd
<1>7. \A v, u \in Workers : Executing(v, "running")' /\ Executing(u, "running")' => v = u
  BY <1>2, <1>4 DEF HandsInd
<1>8. run'.phase # "idle" => \E v \in Workers : Executing(v, "running")'
  BY <1>2 DEF HandsInd
<1>9. QED
  BY <1>1, <1>5, <1>6, <1>7, <1>8 DEF HandsInd

\* What a worker takes up is a trial of its own from here on.
LEMMA TakeSafe ==
  ASSUME StatisticalInd, NEW w \in Workers, NEW i \in TrialIds, Take(w, i),
         run.phase = "idle", run'.phase = "calls", i \in Jobs => RunsPayload(i)'
  PROVE  TrialsInd' /\ ComputedInd'
<1> DEFINE h == [trial |-> i, stage |-> "running", evidence |-> Absent]
<1>1. h \in HandRow /\ h.stage = "running" /\ h.trial = i
  BY DEF HandRow
<1>2. hands' = [hands EXCEPT ![w] = h] /\ UNCHANGED <<payload, files, registered, completed, decisionVars>>
  BY DEF Take
<1> HIDE DEF h
<1>3. HandsInd'
  BY <1>1, <1>2, HandTaken DEF StatisticalInd, TrialsInd
<1>4. FilesInd' /\ JobsInd' /\ ComputedInd'
  BY <1>2, FilesKeep, JobsKeep, ComputedKeeps DEF StatisticalInd, TrialsInd
<1>5. QED
  BY <1>3, <1>4 DEF TrialsInd

LEMMA StartTrialSafe ==
  ASSUME StatisticalInd, NEW w \in Workers, NEW i \in Jobs, StartTrial(w, i)
  PROVE  StatisticalInd'
<1>1. payload[i] \in JobBehaviours /\ i \in TrialIds /\ payload' = payload
  BY StatisticalConstants DEF StatisticalInd, TrialsInd, JobsInd, StartTrial, Take
<1>2. /\ ScriptInd' /\ run'.phase = "calls"
      /\ run'.agent = payload[i][1] /\ run'.case = payload[i][2]
      /\ payload[i][1] \in {"fixed", "known-bad"} /\ payload[i][2] \in Cases
  BY <1>1, ScriptStarts DEF StartTrial
<1>3. IncidentInd'
  BY <1>2, StartRunSafe DEF StatisticalInd, StartTrial
<1>4. RunsPayload(i)' /\ run.phase = "idle"
  BY <1>1, <1>2 DEF RunsPayload, StartTrial, StartRun
<1>5. TrialsInd' /\ ComputedInd'
  BY <1>1, <1>2, <1>4, TakeSafe DEF StartTrial
<1>6. QED
  BY <1>2, <1>3, <1>5 DEF StatisticalInd

LEMMA StartDirectSafe ==
  ASSUME StatisticalInd, NEW w \in Workers, NEW i \in TrialIds \ Jobs, StartDirect(w, i)
  PROVE  StatisticalInd'
<1>1. PICK c \in Cases : StartRun("any", c)
  BY DEF StartDirect
<1>2. IncidentInd' /\ run'.phase = "calls" /\ run.phase = "idle"
  BY <1>1, StartRunSafe DEF StatisticalInd, StartRun
<1>3. run'.agent = "any"
  BY <1>1 DEF StartRun, Idle
<1>4. ScriptInd'
  BY <1>3 DEF ScriptInd
<1>5. TrialsInd' /\ ComputedInd'
  BY <1>2, TakeSafe DEF StartDirect
<1>6. QED
  BY <1>2, <1>4, <1>5 DEF StatisticalInd

LEMMA RunStepSafe == StatisticalInd /\ RunStep => StatisticalInd'
<1> SUFFICES ASSUME StatisticalInd, RunStep PROVE StatisticalInd'
  OBVIOUS
<1>1. IncidentInd' /\ ScriptInd'
  BY IncidentStepSafe, ScriptStep DEF StatisticalInd, RunStep
<1>2. run \in RunRow /\ run.phase = "calls"
  BY DEF RunStep, IncidentStep, Observe, Inspect, ApplyRefused, Apply, Reconcile, VerifyRecovery,
         Conclude, Called, StatisticalInd, IncidentInd, IncidentTypes
<1>3. (\E c \in Codes : Refused(c)) \/ Returned \/ Conclude
  BY DEF RunStep, IncidentStep, Observe, Inspect, ApplyRefused, Apply, Reconcile, VerifyRecovery,
         Codes
<1>4. run'.phase # "idle" /\ run'.agent = run.agent /\ run'.case = run.case
  BY <1>2, <1>3 DEF Refused, Returned, Conclude, RunRow
<1>5. UNCHANGED <<payload, hands, files, registered, completed, decisionVars>>
  BY DEF RunStep, trialVars
<1>6. TrialsInd' /\ ComputedInd'
  BY <1>2, <1>4, <1>5, HandsKeep, FilesKeep, JobsKeep, ComputedKeeps DEF StatisticalInd, TrialsInd
<1>7. QED
  BY <1>1, <1>6 DEF StatisticalInd

\* A run that is over leaves faithful Run Evidence in its worker's hands.
LEMMA EndRunSafe ==
  ASSUME StatisticalInd, NEW w \in Workers, EndRun(w)
  PROVE  StatisticalInd'
<1> DEFINE i == hands[w].trial
           r == [status |-> run.status, source |-> "AGENT", events |-> RunEvents]
           v == [hands[w] EXCEPT !.stage = "ran"]
           h == [v EXCEPT !.evidence = r]
<1>1. hands[w] \in HandRow /\ i \in TrialIds
  BY NoRows DEF StatisticalInd, TrialsInd, HandsInd, HandInd, EndRun, Executing, Empty, HandRow
<1>2. i \in Jobs => RunsPayload(i)
  BY <1>1, NoRows DEF StatisticalInd, TrialsInd, HandsInd, HandInd, EndRun
<1>3. run.phase = "done" /\ Executing(w, "running")
  BY DEF EndRun
<1>4. r \in Evidence
  <2>1. run.status \in {"PASS", "FAIL"}
    BY <1>3, HarmfulFails DEF StatisticalInd
  <2>2. RunEvents \in SUBSET ZeroTolerance
    BY DEF RunEvents, ZeroTolerance
  <2>3. QED
    BY <2>1, <2>2 DEF Evidence
<1>5. i \in Jobs => r = Outcome(payload[i])
  BY <1>2, <1>3, ScriptOutcome DEF StatisticalInd, TrialsInd, JobsInd, RunsPayload
<1>6. Faithful(i, r)
  BY <1>4, <1>5 DEF Faithful
<1>7. hands' = [hands EXCEPT ![w] = h]
  BY <1>1 DEF EndRun, StatisticalInd, TrialsInd, HandsInd
<1> HIDE DEF r
<1>8. v \in HandRow /\ v.stage = "ran" /\ v.trial = i
  BY <1>1 DEF HandRow
<1> HIDE DEF v
<1>9. h \in HandRow /\ h.stage = "ran" /\ h.trial = i /\ h.evidence = r
  BY <1>4, <1>8 DEF HandRow
<1> HIDE DEF h, i
<1>10. run'.phase = "idle" /\ IncidentInd' /\ ScriptInd'
  <2>1. run' = Idle /\ IncidentInd'
    BY IdleIsSafe DEF EndRun, NoRun
  <2>2. run'.phase = "idle"
    BY <2>1 DEF Idle
  <2>3. QED
    BY <2>1, <2>2 DEF ScriptInd
<1>11. UNCHANGED <<payload, files, registered, completed, decisionVars>>
  BY DEF EndRun
<1>12. HandsInd'
  BY <1>3, <1>6, <1>7, <1>9, <1>10, <1>11, HandTaken DEF StatisticalInd, TrialsInd
<1>13. FilesInd' /\ JobsInd' /\ ComputedInd'
  BY <1>11, FilesKeep, JobsKeep, ComputedKeeps DEF StatisticalInd, TrialsInd
<1>14. QED
  BY <1>10, <1>12, <1>13 DEF StatisticalInd, TrialsInd

\* Whatever is in the file by now, what is written over it says the same.
LEMMA WriteTrialSafe ==
  ASSUME StatisticalInd, NEW w \in Workers, WriteTrial(w)
  PROVE  StatisticalInd'
<1> DEFINE i == hands[w].trial
           h == IF i \in Jobs THEN [hands[w] EXCEPT !.stage = "has"] ELSE Empty
<1>1. /\ hands[w] \in HandRow /\ i \in TrialIds /\ ~Executing(w, "running")
      /\ Faithful(i, hands[w].evidence)
  BY NoRows DEF StatisticalInd, TrialsInd, HandsInd, HandInd, WriteTrial, Executing, Empty, HandRow
<1>2. /\ UNCHANGED <<incidentVars, payload, registered, completed, decisionVars>>
      /\ files' = [files EXCEPT ![i] = hands[w].evidence]
  BY DEF WriteTrial
<1>3. hands' = [hands EXCEPT ![w] = h]
  BY DEF WriteTrial, StatisticalInd, TrialsInd, HandsInd
<1>4. i \in Jobs => h \in HandRow /\ h.stage = "has" /\ h.trial = i /\ h.evidence = hands[w].evidence
  BY <1>1 DEF HandRow
<1>5. h.stage # "running" /\ (h = Empty \/ (h \in HandRow /\ Faithful(h.trial, h.evidence)))
  <2>1. Empty.stage # "running"
    BY DEF Empty
  <2>2. QED
    BY <1>1, <1>4, <2>1
<1>6. IncidentInd' /\ ScriptInd' /\ run' = run
  BY <1>2, IncidentKeeps DEF StatisticalInd
<1>7. FilesInd'
  BY <1>1, <1>2, FileWritten DEF StatisticalInd, TrialsInd
<1> HIDE DEF h, i
<1>8. HandsInd'
  BY <1>1, <1>2, <1>3, <1>5, <1>6, HandTaken DEF StatisticalInd, TrialsInd
<1>9. JobsInd' /\ ComputedInd'
  BY <1>2, JobsKeep, ComputedKeeps DEF StatisticalInd, TrialsInd
<1>10. QED
  BY <1>6, <1>7, <1>8, <1>9 DEF StatisticalInd, TrialsInd

LEMMA ReadTrialSafe ==
  ASSUME StatisticalInd, NEW w \in Workers, NEW i \in Jobs, ReadTrial(w, i)
  PROVE  StatisticalInd'
<1> DEFINE h == [trial |-> i, stage |-> "has", evidence |-> files[i]]
<1>1. i \in TrialIds /\ Faithful(i, files[i])
  BY StatisticalConstants DEF StatisticalInd, TrialsInd, FilesInd, ReadTrial
<1>2. h \in HandRow /\ h.stage = "has" /\ h.trial = i /\ h.evidence = files[i]
  BY <1>1 DEF HandRow, Faithful
<1>3. /\ hands' = [hands EXCEPT ![w] = h] /\ hands[w] = Empty
      /\ UNCHANGED <<incidentVars, payload, files, registered, completed, decisionVars>>
  BY DEF ReadTrial
<1>4. ~Executing(w, "running")
  BY <1>3 DEF Executing, Empty
<1> HIDE DEF h
<1>5. IncidentInd' /\ ScriptInd' /\ run' = run
  BY <1>3, IncidentKeeps DEF StatisticalInd
<1>6. HandsInd'
  BY <1>1, <1>2, <1>3, <1>4, <1>5, HandTaken DEF StatisticalInd, TrialsInd
<1>7. FilesInd' /\ JobsInd' /\ ComputedInd'
  BY <1>3, FilesKeep, JobsKeep, ComputedKeeps DEF StatisticalInd, TrialsInd
<1>8. QED
  BY <1>5, <1>6, <1>7 DEF StatisticalInd, TrialsInd

\* A worker that is lost leaves its file as it is or torn.
LEMMA LoseWorkerSafe ==
  ASSUME StatisticalInd, NEW w \in Workers, LoseWorker(w)
  PROVE  StatisticalInd'
<1>1. /\ hands' = [hands EXCEPT ![w] = Empty] /\ hands[w] \in HandRow
      /\ UNCHANGED <<payload, registered, completed, decisionVars>>
  BY DEF LoseWorker, StatisticalInd, TrialsInd, HandsInd
<1>2. Empty.stage # "running" /\ hands[w].trial \in TrialIds
  BY <1>1 DEF Empty, HandRow
<1>3. /\ IncidentInd' /\ ScriptInd'
      /\ \/ Executing(w, "running") /\ run'.phase = "idle"
         \/ ~Executing(w, "running") /\ run' = run
  <2>1. CASE Executing(w, "running")
    <3>1. run' = Idle /\ IncidentInd'
      BY <2>1, IdleIsSafe DEF LoseWorker, NoRun
    <3>2. run'.phase = "idle"
      BY <3>1 DEF Idle
    <3>3. QED
      BY <2>1, <3>1, <3>2 DEF ScriptInd
  <2>2. CASE ~Executing(w, "running")
    BY <2>2, IncidentKeeps DEF LoseWorker, StatisticalInd
  <2>3. QED
    BY <2>1, <2>2
<1>4. HandsInd'
  BY <1>1, <1>2, <1>3, HandTaken DEF StatisticalInd, TrialsInd
<1>5. FilesInd'
  <2>1. CASE UNCHANGED files
    BY <1>1, <2>1, FilesKeep DEF StatisticalInd, TrialsInd
  <2>2. CASE files' = [files EXCEPT ![hands[w].trial] = Torn]
    BY <1>1, <1>2, <2>2, FileWritten DEF StatisticalInd, TrialsInd
  <2>3. QED
    BY <2>1, <2>2 DEF LoseWorker
<1>6. JobsInd' /\ ComputedInd'
  BY <1>1, JobsKeep, ComputedKeeps DEF StatisticalInd, TrialsInd
<1>7. QED
  BY <1>3, <1>4, <1>5, <1>6 DEF StatisticalInd, TrialsInd

LEMMA RegisterSafe ==
  ASSUME StatisticalInd, NEW w \in Workers, NEW i \in Jobs, Register(w, i)
  PROVE  StatisticalInd'
<1>1. /\ hands' = [hands EXCEPT ![w] = Empty]
      /\ UNCHANGED <<incidentVars, payload, files, completed, decisionVars>>
      /\ registered' = [registered EXCEPT ![i] = IF @ = None THEN hands[w].evidence.status ELSE @]
  BY DEF Register
<1>2. ~Executing(w, "running") /\ Empty.stage # "running"
  BY DEF Register, Executing, Empty
<1>3. hands[w].evidence = Outcome(payload[i]) /\ payload[i] \in JobBehaviours
  BY <1>2 DEF Register, StatisticalInd, TrialsInd, HandsInd, HandInd, Faithful, Executing, Empty,
              JobsInd
<1>4. JobsInd'
  <2>1. Outcome(payload[i]).status \in {"PASS", "FAIL"}
    BY <1>3, OutcomeType
  <2> DEFINE x == IF registered[i] = None THEN Outcome(payload[i]).status ELSE registered[i]
  <2>2. registered' = [registered EXCEPT ![i] = x] /\ registered \in [Jobs -> {None, "PASS", "FAIL"}]
    BY <1>1, <1>3 DEF StatisticalInd, TrialsInd, JobsInd
  <2>3. x \in {None, "PASS", "FAIL"} /\ x = Outcome(payload[i]).status
    BY <2>1 DEF StatisticalInd, TrialsInd, JobsInd
  <2> HIDE DEF x
  <2>4. \A j \in Jobs : registered'[j] = IF j = i THEN x ELSE registered[j]
    BY <2>2
  <2>5. registered' \in [Jobs -> {None, "PASS", "FAIL"}]
    BY <2>2, <2>3
  <2>6. UNCHANGED <<payload, completed>>
    BY <1>1
  <2>7. QED
    BY <2>3, <2>4, <2>5, <2>6 DEF StatisticalInd, TrialsInd, JobsInd
<1>5. IncidentInd' /\ ScriptInd' /\ run' = run
  BY <1>1, IncidentKeeps DEF StatisticalInd
<1>6. HandsInd'
  BY <1>1, <1>2, <1>5, HandTaken DEF StatisticalInd, TrialsInd
<1>7. FilesInd' /\ ComputedInd'
  BY <1>1, FilesKeep, ComputedKeeps DEF StatisticalInd, TrialsInd
<1>8. QED
  BY <1>4, <1>5, <1>6, <1>7 DEF StatisticalInd, TrialsInd

LEMMA CompleteTrialSafe ==
  ASSUME StatisticalInd, NEW i \in Jobs, CompleteTrial(i)
  PROVE  StatisticalInd'
<1>1. /\ UNCHANGED <<incidentVars, payload, hands, files, registered, decisionVars>>
      /\ completed' = completed \cup {i} /\ registered[i] = "PASS"
  BY DEF CompleteTrial
<1>2. None # "PASS"
  BY StatisticalConstants, Zenon
<1>3. Outcome(payload[i]).status = "PASS"
  BY <1>1, <1>2 DEF StatisticalInd, TrialsInd, JobsInd
<1>4. JobsInd'
  BY <1>1, <1>3 DEF StatisticalInd, TrialsInd, JobsInd
<1>5. IncidentInd' /\ ScriptInd' /\ run' = run
  BY <1>1, IncidentKeeps DEF StatisticalInd
<1>6. HandsInd' /\ FilesInd' /\ ComputedInd'
  BY <1>1, <1>5, HandsKeep, FilesKeep, ComputedKeeps DEF StatisticalInd, TrialsInd
<1>7. QED
  BY <1>4, <1>5, <1>6 DEF StatisticalInd, TrialsInd

LEMMA OtherTrialSafe ==
  ASSUME StatisticalInd, NEW i \in TrialIds \ Jobs, OtherTrial(i)
  PROVE  StatisticalInd'
<1>1. PICK r \in Elsewhere : files' = [files EXCEPT ![i] = r]
  BY DEF OtherTrial
<1>2. Faithful(i, r)
  BY <1>1, StatisticalConstants DEF Faithful
<1>3. UNCHANGED <<incidentVars, payload, hands, registered, completed, decisionVars>>
  BY DEF OtherTrial
<1>4. FilesInd'
  BY <1>1, <1>2, <1>3, FileWritten DEF StatisticalInd, TrialsInd
<1>5. IncidentInd' /\ ScriptInd' /\ run' = run
  BY <1>3, IncidentKeeps DEF StatisticalInd
<1>6. HandsInd' /\ JobsInd' /\ ComputedInd'
  BY <1>3, <1>5, HandsKeep, JobsKeep, ComputedKeeps DEF StatisticalInd, TrialsInd
<1>7. QED
  BY <1>4, <1>5, <1>6 DEF StatisticalInd, TrialsInd

\* Runs, hands, files and jobs are untouched by what is computed from them.
LEMMA InputsKeep ==
  ASSUME StatisticalInd, UNCHANGED <<incidentVars, trialVars>>
  PROVE  IncidentInd' /\ ScriptInd' /\ TrialsInd' /\ payload' = payload
<1>1. UNCHANGED <<payload, hands, files, registered, completed>>
  BY DEF trialVars
<1>2. IncidentInd' /\ ScriptInd' /\ run' = run
  BY IncidentKeeps DEF StatisticalInd
<1>3. QED
  BY <1>1, <1>2, HandsKeep, FilesKeep, JobsKeep DEF StatisticalInd, TrialsInd

LEMMA BuildEvaluationSafe == StatisticalInd /\ BuildEvaluation => StatisticalInd'
<1> SUFFICES ASSUME StatisticalInd, BuildEvaluation PROVE StatisticalInd'
  OBVIOUS
<1> DEFINE readable == {j \in TrialIds : Readable(j)}
<1>1. UNCHANGED <<incidentVars, trialVars, comparison, gate, decision>> /\ evaluation = None
  BY DEF BuildEvaluation
<1>2. IncidentInd' /\ ScriptInd' /\ TrialsInd' /\ payload' = payload
  BY <1>1, InputsKeep
<1>3. PICK historical \in BOOLEAN :
        evaluation' = [rows |-> [i \in readable |-> TrialRow(files[i])], historical |-> historical]
  BY DEF BuildEvaluation
<1>4. evaluation'.rows = [i \in readable |-> TrialRow(files[i])]
  BY <1>3
<1>5. \A i \in readable : i \in TrialIds /\ Faithful(i, files[i])
  BY DEF StatisticalInd, TrialsInd, FilesInd
<1> HIDE DEF readable
<1>6. DOMAIN evaluation'.rows = readable /\ \A i \in readable : evaluation'.rows[i] = TrialRow(files[i])
  BY <1>4
<1>7. \A r \in Evidence : TrialRow(r).zero \subseteq ZeroTolerance
  BY DEF TrialRow, Evidence
<1>8. \A i \in readable : evaluation'.rows[i].zero \subseteq ZeroTolerance
  BY <1>5, <1>6, <1>7 DEF Faithful
<1>9. \A i \in Jobs : i \in readable => evaluation'.rows[i] = TrialRow(Outcome(payload'[i]))
  BY <1>2, <1>5, <1>6 DEF Faithful
<1>10. EvaluationInd'
  BY <1>5, <1>6, <1>8, <1>9 DEF EvaluationInd
<1>11. ComparisonInd' /\ GateInd'
  BY <1>1 DEF StatisticalInd, ComputedInd, ComparisonInd, GateInd
<1>12. QED
  BY <1>2, <1>10, <1>11 DEF StatisticalInd, ComputedInd

LEMMA CompareSafe == StatisticalInd /\ Compare => StatisticalInd'
<1> SUFFICES ASSUME StatisticalInd, Compare PROVE StatisticalInd'
  OBVIOUS
<1>1. UNCHANGED <<incidentVars, trialVars, evaluation, gate, decision>> /\ evaluation # None
  BY DEF Compare
<1>2. IncidentInd' /\ ScriptInd' /\ TrialsInd' /\ payload' = payload
  BY <1>1, InputsKeep
<1>3. EvaluationInd' /\ GateInd'
  BY <1>1, <1>2 DEF StatisticalInd, ComputedInd, EvaluationInd, GateInd
<1>4. PICK b \in Baselines :
        comparison' = [baseline |-> b, class |-> Classification(b, Summary(evaluation.rows))]
  BY DEF Compare
<1>5. ComparisonInd'
  <2>1. comparison'.baseline = b /\ comparison'.class = Classification(b, Summary(evaluation.rows))
    BY <1>4
  <2>2. QED
    BY <1>1, <1>4, <2>1 DEF ComparisonInd
<1>6. QED
  BY <1>2, <1>3, <1>5 DEF StatisticalInd, ComputedInd

LEMMA EvaluateGateSafe == StatisticalInd /\ EvaluateGate => StatisticalInd'
<1> SUFFICES ASSUME StatisticalInd, EvaluateGate PROVE StatisticalInd'
  OBVIOUS
<1>1. /\ UNCHANGED <<incidentVars, trialVars, evaluation, comparison, decision>>
      /\ evaluation # None /\ gate = None /\ gate' = GateStatus(evaluation)
  BY DEF EvaluateGate
<1>2. IncidentInd' /\ ScriptInd' /\ TrialsInd' /\ payload' = payload
  BY <1>1, InputsKeep
<1>3. EvaluationInd' /\ ComparisonInd'
  BY <1>1, <1>2 DEF StatisticalInd, ComputedInd, EvaluationInd, ComparisonInd
<1>4. GateInd'
  BY <1>1 DEF StatisticalInd, ComputedInd, GateInd
<1>5. QED
  BY <1>2, <1>3, <1>4 DEF StatisticalInd, ComputedInd

LEMMA DecideSafe == StatisticalInd /\ Decide => StatisticalInd'
<1> SUFFICES ASSUME StatisticalInd, Decide PROVE StatisticalInd'
  OBVIOUS
<1>1. UNCHANGED <<incidentVars, trialVars, evaluation, comparison, gate>> /\ decision' = gate
  BY DEF Decide
<1>2. IncidentInd' /\ ScriptInd' /\ TrialsInd' /\ payload' = payload
  BY <1>1, InputsKeep
<1>3. EvaluationInd' /\ ComparisonInd'
  BY <1>1, <1>2 DEF StatisticalInd, ComputedInd, EvaluationInd, ComparisonInd
<1>4. GateInd'
  BY <1>1 DEF StatisticalInd, ComputedInd, GateInd
<1>5. QED
  BY <1>2, <1>3, <1>4 DEF StatisticalInd, ComputedInd

\* Every step of the workers and of the evaluation keeps the books.
LEMMA StatisticalStep == StatisticalInd /\ [Next]_vars => StatisticalInd'
<1> SUFFICES ASSUME StatisticalInd, [Next]_vars PROVE StatisticalInd'
  OBVIOUS
<1>1. CASE \E w \in Workers : EndRun(w) \/ WriteTrial(w) \/ LoseWorker(w)
  BY <1>1, EndRunSafe, WriteTrialSafe, LoseWorkerSafe
<1>2. CASE \E w \in Workers, i \in Jobs : StartTrial(w, i) \/ ReadTrial(w, i) \/ Register(w, i)
  BY <1>2, StartTrialSafe, ReadTrialSafe, RegisterSafe
<1>3. CASE \E w \in Workers, i \in TrialIds \ Jobs : StartDirect(w, i)
  BY <1>3, StartDirectSafe
<1>4. CASE RunStep \/ (\E i \in Jobs : CompleteTrial(i)) \/ \E i \in TrialIds \ Jobs : OtherTrial(i)
  BY <1>4, RunStepSafe, CompleteTrialSafe, OtherTrialSafe
<1>5. CASE BuildEvaluation \/ Compare \/ EvaluateGate \/ Decide
  BY <1>5, BuildEvaluationSafe, CompareSafe, EvaluateGateSafe, DecideSafe
<1>6. CASE UNCHANGED vars
  <2>1. UNCHANGED <<incidentVars, trialVars, decisionVars>>
    BY <1>6 DEF vars
  <2>2. QED
    BY <2>1, InputsKeep, ComputedKeeps DEF StatisticalInd
<1>7. QED
  BY <1>1, <1>2, <1>3, <1>4, <1>5, <1>6 DEF Next

\* The trials' bookkeeping, from overlapping runs of one trial to the decision, holds in
\* every reachable state: each run of a job is on its payload's script, and whatever is
\* in a file, in a worker's hands or registered is that script's outcome (statistical.py
\* with _execute_statistical_trial).
THEOREM StatisticalInductive == Spec => []StatisticalInd
<1>1. Init => StatisticalInd
  BY StatisticalInitSafe
<1>2. StatisticalInd /\ [Next]_vars => StatisticalInd'
  BY StatisticalStep
<1>3. QED
  BY <1>1, <1>2, PTL DEF Spec

\* Every PASS of the Incident Agent left exactly the required effects behind, and no
\* agent, shipped or not, remediates twice (IncidentToolExecutor, verify_incident_run).
THEOREM IncidentRunsAreClean == Spec => []IncidentInv
<1>1. StatisticalInd => IncidentInv
  BY IncidentIndImplies DEF StatisticalInd
<1>2. QED
  BY <1>1, StatisticalInductive, PTL

\* However many workers execute one trial job at once, and whichever writes its file
\* last, the file, what the workers hold, what is registered and the Evaluation's row
\* say the same (nothing fences durable_worker.py:419 and incident.py:751-757).
THEOREM OverlappingRunsAgree == Spec => []VerdictsAgree
<1>1. ASSUME StatisticalInd, NEW i \in Jobs, NEW r \in EvidenceOf(i)
      PROVE  r = Outcome(payload[i])
  <2>1. CASE r = files[i] /\ Readable(i)
    <3>1. i \in TrialIds
      BY StatisticalConstants, Zenon
    <3>2. QED
      BY <1>1, <2>1, <3>1 DEF StatisticalInd, TrialsInd, FilesInd, Faithful
  <2>2. ASSUME NEW w \in Workers, Executing(w, "ran") \/ Executing(w, "has"),
               hands[w].trial = i, r = hands[w].evidence
        PROVE  r = Outcome(payload[i])
    BY <1>1, <2>2 DEF StatisticalInd, TrialsInd, HandsInd, HandInd, Faithful, Executing, Empty
  <2>3. QED
    BY <1>1, <2>1, <2>2 DEF EvidenceOf, Readable
<1>2. StatisticalInd => VerdictsAgree
  <2> SUFFICES ASSUME StatisticalInd, NEW i \in Jobs, NEW r \in EvidenceOf(i)
               PROVE  /\ \A s \in EvidenceOf(i) : r = s
                      /\ registered[i] # None => registered[i] = r.status
                      /\ i \in completed => r.status = "PASS"
                      /\ evaluation # None /\ i \in DOMAIN evaluation.rows =>
                           evaluation.rows[i] = TrialRow(r)
    BY DEF VerdictsAgree
  <2>1. r = Outcome(payload[i]) /\ \A s \in EvidenceOf(i) : s = Outcome(payload[i])
    BY <1>1
  <2>2. /\ registered[i] # None => registered[i] = r.status
        /\ i \in completed => r.status = "PASS"
    BY <2>1 DEF StatisticalInd, TrialsInd, JobsInd
  <2>3. evaluation # None /\ i \in DOMAIN evaluation.rows => evaluation.rows[i] = TrialRow(r)
    BY <2>1 DEF StatisticalInd, ComputedInd, EvaluationInd
  <2>4. QED
    BY <2>1, <2>2, <2>3
<1>3. QED
  BY <1>2, StatisticalInductive, PTL

-----------------------------------------------------------------------------
\* What the gate and the comparison read off the rows.

\* The hazards of an Evaluation, each with the trial it happened in.
Hazards == {e \in (DOMAIN evaluation.rows) \X ZeroTolerance : e[2] \in evaluation.rows[e[1]].zero}

\* Summary and its parts for the evaluation's rows.
LEMMA SummaryCounts ==
  ASSUME NEW s, s = Summary(evaluation.rows)
  PROVE  /\ s.pass = Cardinality(Judged({"AGENT_PASS"}))
         /\ s.valid = Cardinality(Judged({"AGENT_PASS", "AGENT_FAIL"}))
         /\ s.attempted = Cardinality(DOMAIN evaluation.rows)
         /\ s.events = Cardinality(Hazards)
  BY DEF Summary, Judged, Hazards

LEMMA HazardsFinite ==
  ASSUME StatisticalInd, evaluation # None
  PROVE  IsFiniteSet(Hazards)
<1>1. (DOMAIN evaluation.rows) \in SUBSET TrialIds /\ IsFiniteSet(TrialIds)
  BY StatisticalConstants DEF StatisticalInd, ComputedInd, EvaluationInd
<1>2. IsFiniteSet(DOMAIN evaluation.rows)
  BY <1>1, FS_Subset
<1>3. IsFiniteSet(ZeroTolerance)
  <2>1. ZeroTolerance = ({"harmful"} \cup {"blind"}) \cup {"authority"}
    BY DEF ZeroTolerance
  <2>2. IsFiniteSet({"harmful"}) /\ IsFiniteSet({"blind"}) /\ IsFiniteSet({"authority"})
    BY FS_Singleton
  <2>3. IsFiniteSet({"harmful"} \cup {"blind"})
    BY <2>2, FS_Union
  <2>4. QED
    BY <2>1, <2>2, <2>3, FS_Union
<1>4. IsFiniteSet((DOMAIN evaluation.rows) \X ZeroTolerance)
  BY <1>2, <1>3, FS_Product
<1>5. Hazards \in SUBSET ((DOMAIN evaluation.rows) \X ZeroTolerance)
  BY DEF Hazards
<1>6. QED
  BY <1>4, <1>5, FS_Subset

\* There is no hazard exactly when no row records one.
LEMMA NoHazards ==
  ASSUME StatisticalInd, evaluation # None, NEW s, s = Summary(evaluation.rows)
  PROVE  /\ s.events \in Nat
         /\ s.events = 0 <=> \A i \in DOMAIN evaluation.rows : evaluation.rows[i].zero = {}
<1>1. IsFiniteSet(Hazards) /\ s.events = Cardinality(Hazards)
  BY HazardsFinite, SummaryCounts
<1>2. s.events \in Nat /\ (s.events = 0 <=> Hazards = {})
  BY <1>1, FS_EmptySet, FS_CardinalityType
<1>3. \A i \in DOMAIN evaluation.rows : evaluation.rows[i].zero \subseteq ZeroTolerance
  BY DEF StatisticalInd, ComputedInd, EvaluationInd
<1>4. Hazards = {} <=> \A i \in DOMAIN evaluation.rows : evaluation.rows[i].zero = {}
  <2>1. ASSUME NEW i \in DOMAIN evaluation.rows, NEW k \in evaluation.rows[i].zero
        PROVE  <<i, k>> \in Hazards
    BY <1>3 DEF Hazards
  <2>2. ASSUME NEW e \in Hazards
        PROVE  e[1] \in DOMAIN evaluation.rows /\ evaluation.rows[e[1]].zero # {}
    BY DEF Hazards
  <2>3. QED
    BY <2>1, <2>2
<1>5. QED
  BY <1>2, <1>4

\* The counts are bounded by the plan's trials.
LEMMA SummaryBounds ==
  ASSUME StatisticalInd, evaluation # None, NEW s, s = Summary(evaluation.rows)
  PROVE  /\ s.pass \in Nat /\ s.valid \in Nat /\ s.attempted \in Nat /\ s.events \in Nat
         /\ s.pass <= s.valid /\ s.valid <= Requested /\ Requested \in Nat
<1> DEFINE P == Judged({"AGENT_PASS"})
           V == Judged({"AGENT_PASS", "AGENT_FAIL"})
<1>1. IsFiniteSet(TrialIds) /\ (DOMAIN evaluation.rows) \in SUBSET TrialIds
  BY StatisticalConstants DEF StatisticalInd, ComputedInd, EvaluationInd
<1>2. P \in SUBSET V /\ V \in SUBSET TrialIds
  BY <1>1 DEF Judged
<1> HIDE DEF P, V
<1>3. IsFiniteSet(V) /\ Cardinality(V) <= Requested /\ IsFiniteSet(DOMAIN evaluation.rows)
  BY <1>1, <1>2, FS_Subset DEF Requested
<1>4. IsFiniteSet(P) /\ Cardinality(P) <= Cardinality(V)
  BY <1>2, <1>3, FS_Subset
<1>5. /\ s.pass = Cardinality(P) /\ s.valid = Cardinality(V)
      /\ s.attempted = Cardinality(DOMAIN evaluation.rows)
  BY SummaryCounts DEF P, V
<1>6. s.events \in Nat
  BY NoHazards
<1>7. QED
  BY <1>1, <1>3, <1>4, <1>5, <1>6, FS_CardinalityType DEF Requested

\* A count is 0 exactly when nothing was counted.
LEMMA CountedNone ==
  ASSUME NEW S, S \subseteq TrialIds
  PROVE  Cardinality(S) = 0 <=> S = {}
<1>1. S \in SUBSET TrialIds /\ IsFiniteSet(TrialIds)
  BY StatisticalConstants
<1>2. IsFiniteSet(S)
  BY <1>1, FS_Subset
<1>3. QED
  BY <1>2, FS_EmptySet

\* What the files and documents may hold.
LEMMA TypesFollow == StatisticalInd => StatisticalTypeOK
<1> SUFFICES ASSUME StatisticalInd PROVE StatisticalTypeOK
  OBVIOUS
<1>1. \A w \in Workers : Executing(w, "running") => run.phase # "idle"
  BY DEF StatisticalInd, TrialsInd, HandsInd, HandInd, Executing, Empty
<1>2. run.phase = "idle" <=> \A w \in Workers : ~Executing(w, "running")
  BY <1>1 DEF StatisticalInd, TrialsInd, HandsInd
<1>3. /\ \A i \in TrialIds : files[i] \in Evidence \cup {Absent, Torn}
      /\ \A i \in Jobs : registered[i] \in {None, "PASS", "FAIL"}
  BY DEF StatisticalInd, TrialsInd, FilesInd, JobsInd
<1>4. comparison # None =>
        comparison.class \in {"IMPROVED", "REGRESSED", "NO_CLEAR_DIFFERENCE", "INCOMPARABLE"}
  BY DEF StatisticalInd, ComputedInd, ComparisonInd, Classification
<1>5. decision \in {None, gate}
  BY DEF StatisticalInd, ComputedInd, GateInd
<1>6. QED
  BY <1>2, <1>3, <1>4, <1>5 DEF StatisticalTypeOK

\* A decision is the gate's status for the evaluation.
LEMMA DecisionIsTheGates ==
  ASSUME StatisticalInd, decision # None
  PROVE  evaluation # None /\ decision = GateStatus(evaluation)
  BY DEF StatisticalInd, ComputedInd, GateInd

\* A trial with a hazard, or a failed historical regression, ends in BLOCKED.
LEMMA HardBlockersBlock == StatisticalInd => HardBlockerBlocks
<1> SUFFICES ASSUME StatisticalInd, decision # None,
                    \/ ~evaluation.historical
                    \/ \E i \in DOMAIN evaluation.rows : evaluation.rows[i].zero # {}
             PROVE  decision = "BLOCKED"
  BY DEF HardBlockerBlocks
<1>1. evaluation # None /\ decision = GateStatus(evaluation)
  BY DecisionIsTheGates
<1>2. PICK s : s = Summary(evaluation.rows)
  OBVIOUS
<1>3. Blocking(s, evaluation.historical)
  <2>1. CASE ~evaluation.historical
    BY <2>1 DEF Blocking
  <2>2. CASE \E i \in DOMAIN evaluation.rows : evaluation.rows[i].zero # {}
    <3>1. s.events \in Nat /\ s.events # 0
      BY <1>1, <1>2, <2>2, NoHazards
    <3>2. s.events > 0
      BY <3>1
    <3>3. QED
      BY <3>2 DEF Blocking
  <2>3. QED
    BY <2>1, <2>2
<1>4. QED
  BY <1>1, <1>2, <1>3 DEF GateStatus

\* The policy's thresholds are those of a valid policy, the plan's those of a plan.
LEMMA PolicyValid ==
  /\ Policy.minValid \in Nat /\ Policy.minSuccess \in Nat /\ Policy.minLower \in Nat
  /\ MinValid \in 1 .. Requested /\ IsFiniteSet(TrialIds) /\ None \notin GateStatuses
<1>1. /\ MinValid \in 1 .. Requested /\ IsFiniteSet(TrialIds) /\ None \notin GateStatuses
      /\ Policy \in [minValid : Nat, minEvidence : 0 .. 100, minSuccess : 0 .. 100,
                     minLower : 0 .. 100, maxPlatform : 0 .. 100,
                     flaky : {"REVIEW_REQUIRED", "BLOCKED"}]
  BY StatisticalConstants, Zenon
<1>2. QED
  BY <1>1

\* Trials that are all judged alike do not leave a count strictly between 0 and all.
LEMMA AllOrNothing ==
  ASSUME StatisticalInd, evaluation # None, NEW s, s = Summary(evaluation.rows),
         s.valid >= MinValid, ~Flaky(s)
  PROVE  Judged({"AGENT_PASS"}) = {} \/ Judged({"AGENT_FAIL"}) = {}
<1>1. s.pass \in Nat /\ s.valid \in Nat /\ s.pass <= s.valid
  BY SummaryBounds
<1>2. s.pass = 0 \/ s.pass = s.valid
  BY <1>1 DEF Flaky
<1>3. CASE s.pass = 0
  <2>1. Judged({"AGENT_PASS"}) \subseteq TrialIds
    BY DEF Judged, StatisticalInd, ComputedInd, EvaluationInd
  <2>2. QED
    BY <1>3, <2>1, CountedNone, SummaryCounts
<1>4. CASE s.pass = s.valid
  <2>1. /\ Judged({"AGENT_PASS"}) \in SUBSET Judged({"AGENT_PASS", "AGENT_FAIL"})
        /\ Judged({"AGENT_PASS", "AGENT_FAIL"}) \in SUBSET TrialIds
    BY DEF Judged, StatisticalInd, ComputedInd, EvaluationInd
  <2>2. IsFiniteSet(Judged({"AGENT_PASS", "AGENT_FAIL"}))
    BY <2>1, FS_Subset, PolicyValid
  <2>3. Judged({"AGENT_PASS"}) = Judged({"AGENT_PASS", "AGENT_FAIL"})
    BY <1>4, <2>1, <2>2, FS_Subset, SummaryCounts
  <2>4. Judged({"AGENT_FAIL"}) = {}
    BY <2>3 DEF Judged
  <2>5. QED
    BY <2>4
<1>5. QED
  BY <1>2, <1>3, <1>4

\* Wilson's interval contains the observed rate.
LEMMA IntervalContains ==
  ASSUME NEW n \in 1 .. Requested, NEW p \in 0 .. n
  PROVE  /\ Lower[p, n] \in Nat /\ Upper[p, n] \in Nat
         /\ Lower[p, n] * n <= 100 * p /\ 100 * p <= Upper[p, n] * n
<1>1. /\ Lower[p, n] \in 0 .. 100 /\ Upper[p, n] \in 0 .. 100
      /\ Lower[p, n] * n <= 100 * p /\ 100 * p <= Upper[p, n] * n
  BY StatisticalConstants, Zenon
<1>2. \A x \in 0 .. 100 : x \in Nat
  OBVIOUS
<1>3. QED
  BY <1>1, <1>2, Zenon

\* Only 0 is at most a rate of 0.
LEMMA NoRate ==
  ASSUME NEW x \in Nat, NEW n \in Nat, n > 0, ~(0 < x * n)
  PROVE  x = 0
<1> SUFFICES ASSUME x >= 1 PROVE FALSE
  OBVIOUS
<1>1. x * n >= n /\ x * n \in Int
  OBVIOUS
<1>2. QED
  BY <1>1

\* A policy that demands success is not met by trials of which none passed.
LEMMA SuccessIsDemanded ==
  ASSUME StatisticalInd, evaluation # None, NEW s, s = Summary(evaluation.rows),
         ~Blocking(s, evaluation.historical), ~EvidenceGap(s), DemandsSuccess
  PROVE  s.pass # 0
<1> SUFFICES ASSUME s.pass = 0 PROVE FALSE
  OBVIOUS
<1>1. PICK n : n = s.valid
  OBVIOUS
<1>2. PICK success, low, l : success = Policy.minSuccess /\ low = Policy.minLower /\ l = Lower[0, n]
  BY Zenon
<1>3. n \in Nat /\ n <= Requested /\ Requested \in Nat
  BY <1>1, SummaryBounds
<1>4. success \in Nat /\ low \in Nat /\ Policy.minValid \in Nat
  BY <1>2, PolicyValid
<1>5. n >= Policy.minValid
  BY <1>1, <1>3, <1>4 DEF EvidenceGap
<1>6. n # 0 /\ ~(100 * 0 < success * n) /\ ~(l < low)
  BY <1>1, <1>2, <1>5, Zenon DEF Blocking
<1>7. n \in 1 .. Requested /\ 0 \in 0 .. n /\ n > 0
  BY <1>3, <1>6
<1>8. l \in Nat /\ l * n <= 100 * 0
  <2>1. PICK p \in 0 .. n : p = 0
    BY <1>7
  <2>2. n \in 1 .. Requested
    BY <1>7
  <2>3. Lower[p, n] \in Nat /\ Lower[p, n] * n <= 100 * p
    BY <2>2, IntervalContains, ZenonT(60)
  <2>4. QED
    BY <1>2, <2>1, <2>3, Zenon
<1>9. ~(0 < l * n) /\ ~(0 < success * n)
  BY <1>3, <1>4, <1>6, <1>8
<1>10. l = 0 /\ success = 0
  BY <1>3, <1>4, <1>7, <1>8, <1>9, NoRate
<1>11. low = 0
  BY <1>4, <1>6, <1>10
<1>12. QED
  BY <1>2, <1>10, <1>11 DEF DemandsSuccess

\* ELIGIBLE has the whole sample behind it, and the successes its policy asks
\* for.
LEMMA EligibleIsEarned == StatisticalInd => StatisticallyEligible
<1> SUFFICES ASSUME StatisticalInd, decision = "ELIGIBLE"
             PROVE  /\ DOMAIN evaluation.rows = TrialIds
                    /\ \A i \in TrialIds : evaluation.rows[i].zero = {}
                    /\ Cardinality(Judged({"AGENT_PASS", "AGENT_FAIL"})) >= Policy.minValid
                    /\ DemandsSuccess => Judged({"AGENT_PASS"}) # {}
                    /\ Cardinality(Judged({"AGENT_PASS", "AGENT_FAIL"})) >= MinValid =>
                           Judged({"AGENT_PASS"}) = {} \/ Judged({"AGENT_FAIL"}) = {}
  BY DEF StatisticallyEligible
<1>1. decision # None
  BY PolicyValid DEF GateStatuses
<1>2. evaluation # None /\ decision = GateStatus(evaluation)
  BY <1>1, DecisionIsTheGates
<1>3. PICK s : s = Summary(evaluation.rows)
  OBVIOUS
<1>4. /\ ~Blocking(s, evaluation.historical) /\ ~EvidenceGap(s)
      /\ ~(s.attempted < Requested) /\ ~Flaky(s)
  BY <1>2, <1>3 DEF GateStatus
<1>5. /\ s.valid \in Nat /\ s.attempted \in Nat /\ s.events \in Nat /\ Requested \in Nat
  BY <1>2, <1>3, SummaryBounds
<1>6. DOMAIN evaluation.rows = TrialIds
  <2> DEFINE D == DOMAIN evaluation.rows
  <2>1. D \in SUBSET TrialIds /\ IsFiniteSet(TrialIds)
    BY <1>2, PolicyValid DEF StatisticalInd, ComputedInd, EvaluationInd
  <2>2. s.attempted = Cardinality(D)
    BY <1>3, SummaryCounts
  <2> HIDE DEF D
  <2>3. Cardinality(TrialIds) = Cardinality(D)
    <3>1. Cardinality(D) <= Requested
      BY <2>1, FS_Subset DEF Requested
    <3>2. QED
      BY <1>4, <1>5, <2>2, <3>1 DEF Requested
  <2>4. D = TrialIds
    BY <2>1, <2>3, FS_Subset
  <2>5. QED
    BY <2>4 DEF D
<1>7. \A i \in TrialIds : evaluation.rows[i].zero = {}
  <2>1. ~(s.events > 0)
    BY <1>4, Zenon DEF Blocking
  <2>2. s.events = 0
    BY <1>5, <2>1
  <2>3. QED
    BY <1>2, <1>3, <1>6, <2>2, NoHazards
<1>8. Cardinality(Judged({"AGENT_PASS", "AGENT_FAIL"})) >= Policy.minValid
  <2>1. Policy.minValid \in Nat
    BY PolicyValid
  <2>2. s.valid >= Policy.minValid
    BY <1>4, <1>5, <2>1 DEF EvidenceGap
  <2>3. QED
    BY <1>2, <1>3, <2>2, SummaryCounts
<1>9. DemandsSuccess => Judged({"AGENT_PASS"}) # {}
  <2>1. Judged({"AGENT_PASS"}) \subseteq TrialIds
    BY <1>6 DEF Judged
  <2>2. DemandsSuccess => s.pass # 0
    BY <1>2, <1>3, <1>4, SuccessIsDemanded
  <2>3. QED
    BY <1>2, <1>3, <2>1, <2>2, CountedNone, SummaryCounts
<1>10. Cardinality(Judged({"AGENT_PASS", "AGENT_FAIL"})) >= MinValid =>
         Judged({"AGENT_PASS"}) = {} \/ Judged({"AGENT_FAIL"}) = {}
  BY <1>2, <1>3, <1>4, AllOrNothing, SummaryCounts
<1>11. QED
  BY <1>6, <1>7, <1>8, <1>9, <1>10

\* Rates m/n that intervals l, u contain, with l above u, are ordered.
LEMMA RatesOrdered ==
  ASSUME NEW p \in Nat, NEW n \in Nat, NEW q \in Nat, NEW m \in Nat, NEW l \in Nat, NEW u \in Nat,
         n > 0, m > 0, l * n <= 100 * p, 100 * q <= u * m, l > u
  PROVE  p * m > q * n
<1>1. \A x, y, k \in Nat : x <= y => x * k <= y * k
  OBVIOUS
<1>2. \A x, y, k \in Nat : k > 0 /\ x < y => x * k < y * k
  OBVIOUS
<1>3. n * m > 0 /\ n * m \in Nat
  BY <1>2
<1>4. (100 * q) * n <= (u * m) * n /\ (l * n) * m <= (100 * p) * m
  BY <1>1
<1>5. u * (n * m) < l * (n * m)
  BY <1>2, <1>3
<1>6. (u * m) * n = u * (n * m) /\ (l * n) * m = l * (n * m)
  OBVIOUS
<1>7. (100 * q) * n = 100 * (q * n) /\ (100 * p) * m = 100 * (p * m)
  OBVIOUS
<1>8. 100 * (q * n) < 100 * (p * m)
  <2>1. /\ 100 * (q * n) \in Int /\ 100 * (p * m) \in Int
        /\ u * (n * m) \in Int /\ l * (n * m) \in Int
    OBVIOUS
  <2>2. QED
    BY <1>4, <1>5, <1>6, <1>7, <2>1
<1>9. \A x, y \in Int : 100 * x < 100 * y => x < y
  OBVIOUS
<1>10. q * n \in Int /\ p * m \in Int
  OBVIOUS
<1>11. QED
  BY <1>8, <1>9, <1>10

\* An interval that contains a rate is not empty.
LEMMA BoundsOrdered ==
  ASSUME NEW l \in Nat, NEW u \in Nat, NEW n \in Nat, NEW p \in Nat, n > 0,
         l * n <= 100 * p, 100 * p <= u * n
  PROVE  l <= u
<1> SUFFICES ASSUME l > u PROVE FALSE
  OBVIOUS
<1>1. u * n < l * n /\ u * n \in Int /\ l * n \in Int /\ 100 * p \in Int
  OBVIOUS
<1>2. QED
  BY <1>1

\* IMPROVED is a higher rate, no more harm, and REGRESSED from the other side.
LEMMA ImprovementsAreReal == StatisticalInd => ImprovementIsReal
<1> SUFFICES ASSUME StatisticalInd, comparison # None, comparison.class = "IMPROVED",
                    NEW b, b = comparison.baseline, NEW c, c = Summary(evaluation.rows)
             PROVE  /\ c.pass * b.valid > b.pass * c.valid
                    /\ c.events <= b.events
                    /\ Classification(c, b) = "REGRESSED"
  BY DEF ImprovementIsReal
<1>1. /\ evaluation # None /\ b \in Baselines /\ Classification(b, c) = "IMPROVED"
  BY DEF StatisticalInd, ComputedInd, ComparisonInd
<1>2. /\ c.pass \in Nat /\ c.valid \in Nat /\ c.events \in Nat /\ Requested \in Nat
      /\ c.pass <= c.valid /\ c.valid <= Requested
  BY <1>1, SummaryBounds
<1>3. /\ b.pass \in Nat /\ b.valid \in 0 .. Requested /\ b.events \in Nat /\ b.pass <= b.valid
  <2>1. b \in [pass : Nat, valid : 0 .. Requested, events : Nat] /\ b.pass <= b.valid
    BY <1>1, StatisticalConstants, Zenon
  <2>2. QED
    BY <2>1
<1>4. PICK bl, bu, cl, cu :
        /\ bl = Lower[b.pass, b.valid] /\ bu = Upper[b.pass, b.valid]
        /\ cl = Lower[c.pass, c.valid] /\ cu = Upper[c.pass, c.valid]
  BY Zenon
<1>5. /\ Adequate(b) /\ Adequate(c) /\ ~(c.events > b.events) /\ cl > bu
  <2>1. Classification(b, c) = "IMPROVED" =>
          Adequate(b) /\ Adequate(c) /\ ~(c.events > b.events) /\ cl > bu
    BY <1>4, Zenon DEF Classification
  <2>2. QED
    BY <1>1, <2>1
<1>6. c.valid \in 1 .. Requested /\ b.valid \in 1 .. Requested
  BY <1>2, <1>3, <1>5, PolicyValid DEF Adequate
<1>7. c.pass \in 0 .. c.valid /\ b.pass \in 0 .. b.valid
  BY <1>2, <1>3
<1>8. /\ cl \in Nat /\ cu \in Nat /\ cl * c.valid <= 100 * c.pass /\ 100 * c.pass <= cu * c.valid
      /\ bl \in Nat /\ bu \in Nat /\ bl * b.valid <= 100 * b.pass /\ 100 * b.pass <= bu * b.valid
  BY <1>3, <1>4, <1>6, <1>7, IntervalContains, Zenon
<1>9. c.pass * b.valid > b.pass * c.valid
  BY <1>2, <1>3, <1>5, <1>6, <1>8, RatesOrdered
<1>10. cl <= cu /\ bl <= bu
  BY <1>2, <1>3, <1>6, <1>8, BoundsOrdered
<1>11. ~(bl > cu) /\ bu < cl
  BY <1>5, <1>8, <1>10
<1>12. Classification(c, b) = "REGRESSED"
  <2>1. c.events < b.events \/ ~(b.events > c.events)
    BY <1>2, <1>3
  <2>2. QED
    BY <1>4, <1>5, <1>11, <2>1, Zenon DEF Classification
<1>13. QED
  BY <1>2, <1>3, <1>5, <1>9, <1>12

\* What is decided from repeated trials is earned by them: hazards block, ELIGIBLE has
\* the whole sample behind it and IMPROVED a higher rate, for any number of trials and
\* any policy (evaluate_statistical_gate, build_statistical_comparison).
THEOREM StatisticalDecisionsAreEarned == Spec => []StatisticalInv
<1>1. StatisticalInd => StatisticalInv
  BY TypesFollow, HardBlockersBlock, EligibleIsEarned, ImprovementsAreReal DEF StatisticalInv
<1>2. QED
  BY <1>1, StatisticalInductive, PTL
=============================================================================
