# A TLA+ development of RunProof

RunProof executes evaluations of software agents, keeps their evidence and
decides releases from it. Its jobs are long, its workers crash, and its side
effects must not be repeated on a guess. This directory models the parts of the
program that cope with that: the durable execution boundary of the Control
Plane, the worker that drives it, the ingest that makes evidence canonical, the
artifact store under it, the runs of the agents in their environments, the
evaluations and decisions made from those runs, the telemetry exporter, and the
local laboratory with its paid explorations, each with the ways it interleaves
and fails.

Paths below are relative to `src/`. *Controller* is
`control-plane/src/main/java/com/runproof/controlplane/DurableExecutionController.java`,
*worker* is `runtime/runproof_runtime/durable_worker.py`.

## Inventory

### Components, their state and operations

| Component | State | Operations | Modelled |
|---|---|---|---|
| Durable execution boundary (*Controller*, `PersistenceSchema`) | five tables: job, attempt, operation, simulated effect, evidence | submit, list, claim, start, heartbeat, operation prepare / dispatch / not-submitted / apply / confirm / unknown / reconcile, evidence, complete, fail-platform, cancel, cancel/ack, timeout | all that change the state of a stored job; submit is `Init` |
| Durable worker (*worker*) | its position, the owner record `{attempt, worker, token, version}` shared with the renewer thread, files in the output directory | `run_once` (poll, reconcile, claim), `_execute_claimed_inner`, `_cancel_if_requested`, `_fail_platform_if_possible`, `LeaseRenewer` | the Evaluation path in `DurableWorker`; its output files in `ReleaseDecision`; the statistical-trial variant's run, file, evidence and completion in `StatisticalTrials` |
| Control Plane client (`control_plane_client.py`) | none (the owner record is its caller's) | one method per handler, `ingest_with_reconcile`, manifests | as part of the worker, and `ingest_file` with `ingest_with_reconcile` in `EvidenceIngest` |
| Canonical metadata (`CanonicalMetadataService`) | immutable rows by entity and by idempotency key, supersede links | ingest (replay / conflict / race), read models | the ingest transaction, statement by statement |
| Artifact stores (`S3ArtifactStore`, `LocalFileArtifactStore`) | immutable bytes by key | conditional put, unknown-outcome reconcile, verified read | the S3 store and the contract; the local store is planned |
| Bounded agents and environments (`runner.py`, `agent.py`, `docker_environment.py`, `multi_service_runner.py`, `multi_service_environment.py`, `incident.py`) | scenario state, receipt, fault, lifecycle, quarantine, the containers and networks themselves | provision, readiness, tool calls, response-lost fault, reconcile, verify, cleanup | three runners: `AgentRun`, `NetworkRun`, `IncidentRun` |
| Evaluation, quality gate, comparison, release decision (`evaluation.py`, `regression.py`, `quality.py`, `cli.py`) | files under fixed or caller-chosen names | classify, evaluate, compare, gate, decide | yes, down to the files; not schema validation |
| Statistical evaluation (`statistical.py`) | one file per trial | classify trials, summarise, compare, gate, decide | yes; the Wilson interval is a constant |
| Observability (`observability.py`, `ObservabilityService`) | bounded span queue, unlocked counters | end span, export, flush, shutdown | the runtime's exporter |
| Effect-witness laboratory (`effectwitness/lab_*.py`, `cross_trial.py`, `engine.py`, `orders.py`, `provider.py`) | a ledger per mode, a seal, sandboxes, the provider's budget | create, cancel, read, execute a capture, explore two rounds, run a cross-domain session, restart | two of the gateway's three modes, not the paid cross-domain session (`CrossDomainStore`); not HTTP and document verification |
| Failure intelligence (`failure_intelligence.py`, `failure_case.py`) | none | version bisect, clustering, minimisation | no |
| Effect-witness research lines, auth, audit, read models, provider adapter, CI, demo, web, spikes | — | — | no: stateless checks, I/O, rendering, one-off document builders |


### How the parts interact

```
 submitter / operator            worker process 1..n
        |  submit, cancel, timeout      |  main thread: claim start prepare dispatch
        v                               |      confirm evidence complete ...
 +--------------------------------+     |  renewer thread: heartbeat
 |  DurableExecutionController    |<----+
 |  one transaction per request,  |     |
 |  row lock on the job           |     v
 +--------------------------------+   output directory: <evaluation_id>.json
        ^ canonical_metadata            |
        |                               | ingest_file: bytes, then manifest
 CanonicalMetadataService <-------------+
        | verify                        |
        v                               v
 ArtifactStore (S3 or local) <--- POST /artifact-bytes
```

Everything goes through the job row. A handler takes its lock, checks the
request and commits, so handlers are atomic; the difficulty is between them:

- a worker's credentials are **stale copies** of the row: the version advances on
  every start, heartbeat, cancellation, unknown, reconcile, park and finish;
- the heartbeat thread and the main thread **share the owner record**;
- `unknown`, `reconcile`, `cancel` of any job and evidence of a queued job are
  **not fenced**: anyone with the scope may send them at any time;
- leases expire by `CURRENT_TIMESTAMP`, which PostgreSQL fixes when the
  transaction **starts**, not when it gets the lock;
- a worker may **crash**, lose a **reply** after the handler committed, or stall
  past its lease, between any two calls;
- an uncertain side effect has to be **reconciled**, never assumed;
- an ingest is **not** one step: it runs at READ COMMITTED with no lock on what
  it looks up, so another ingest may commit between any two of its statements;
- a request to the artifact backend may be executed **after** its sender gave it
  up, and an ingest request may go on after its client started the next one.

The worker calls the evaluation, which runs each member of a suite through a
runner; a statistical trial is one incident run per job:

```
 worker ── execute_evaluation ── run_slice / run_multi_service_slice ── docker
   │            │                        (AgentRun, NetworkRun)
   │            └─> <evaluation_id>.json ─> compare ─> quality gate ─> decision
   └── _execute_statistical_trial ── run_incident_slice (IncidentRun)
                └─> <trial_id>.json ─> statistical evaluation ─> gate ─> decision
```

- a runner is sequential, but the container, the target service and the `docker`
  command line are not its own: a container may stop, a **command may fail
  before or after it took effect**, and a request may be **delivered late**;
- what a decision is made from lies in **files written in place** that others
  read by name, that a crash can tear, and that **nothing fences**: a worker looks
  whether the file is there, runs for minutes, and writes whatever happened to its
  lease meanwhile;
- telemetry threads share **counters without a lock**;
- the laboratory's gateway keeps captures and explorations under one lock, but its
  **executor threads** go on when a session was cancelled, any **save may fail**,
  and a restart must neither repeat nor forget what was paid for.

### What makes each component correct

- *Boundary*: one owner at a time and always the newest attempt; old
  credentials never work again; COMPLETED only with PASS evidence of the
  completing attempt, a registered artifact and nothing unresolved; an effect on
  record is never denied; a parked job can be unparked; verdicts are final.
- *Worker*: presents only credentials it was given; runs the Agent only while
  its operation is in flight; completes only after the artifact exists; never
  waits for ever; reuses the artifact of a crashed predecessor.
- *Metadata and stores*: an identity never changes content; a row is backed by
  the bytes it names; an idempotency key names one entity; supersede history is
  acyclic; what a caller was told stays true, also after a lost reply.
- *Runs*: the external effect happens at most once and is counted truly; an
  unknown outcome is settled before a PASS; a verdict has evidence; nothing is
  reported clean that is not.
- *Decisions*: ELIGIBLE is earned by every member, a regression blocks, the agent
  is blamed only for its own failure, and what was settled when it was compared
  stays what the decision was made from.
- *Trials*: runs of one trial that overlap agree, so that no later file is luckier
  than an earlier one; a hard blocker is never diluted, an improvement is one from
  either side.
- *Telemetry*: spans are exported, counted as failed, or visibly dropped.
- *Laboratory*: one trial at a time; work and paid requests are on record before
  they happen; uncertainty blocks; sessions settle.

The hazards behind these properties are listed with their lines in
`PROJECT.json`; the few that no property covers say why.

## Modules

| Module | What it is |
|---|---|
| `FencedJob` | the abstract promise: READY, OWNED, STOPPING, DOUBT and three verdicts, an epoch per owner and a growing fence |
| `DurableExecution` | the boundary: one job with its rows; `Promise` is the refinement mapping to `FencedJob` |
| `DurableWorker` | several workers, their renewers, an operator and the clock, composed with the handlers of `DurableExecution` |
| `DurableWorkerProofs` | theorems about `DurableExecution` and `DurableWorker` |
| `WriteOnceStore` | the contract of an artifact store: keys are written once, answers are the truth |
| `ArtifactStore` | `S3ArtifactStore.put`: every request to the backend a step; `Contract` maps it to `WriteOnceStore` |
| `EvidenceIngest` | clients, ingest transactions and `canonical_metadata`, composed with `WriteOnceStore` |
| `EvidenceIngestProofs` | theorems about `EvidenceIngest` |
| `RunContract` | what every runner promises of one run: at most one effect, no PASS in doubt, one end |
| `AgentRun` | `run_slice` with its executor, container and verifier; `Contract` maps it to `RunContract` |
| `AgentRunProofs` | theorems about `AgentRun` |
| `NetworkRun` | `run_multi_service_slice` with its services, network faults and cleanup; `Contract` maps it to `RunContract` |
| `NetworkRunProofs` | theorems about `NetworkRun` |
| `Evaluation` | operators: classification of members, the regression oracle, comparison |
| `ReleaseDecision` | extends `Evaluation` by the files, the gate and the decision |
| `ReleaseDecisionProofs` | theorems about `ReleaseDecision` |
| `IncidentRun` | `run_incident_slice`: executor, guards, response-lost fault, verifier |
| `StatisticalTrials` | extends `IncidentRun` by the worker's trial files, the statistical evaluation, gate and decision |
| `StatisticalTrialsProofs` | theorems about `IncidentRun` and `StatisticalTrials` |
| `TelemetryQueue` | the exporter of `observability.py`: producers, exporter thread, flush, shutdown |
| `ServiceProofs` | theorems about `ArtifactStore` and about `TelemetryQueue` |
| `LabTrial` | `run_trial`: one controlled trial in its sandbox |
| `LabGateway` | extends `LabTrial` by the gateway's captures, exploration, ledgers, crashes and restarts |
| `LabGatewayProofs` | theorems about `LabGateway` |
| `MC...` | one instance for TLC for each of the checked modules: symmetry, suites, endings, policies, manifests |

### `DurableExecution` and the code

One action per handler, named after it. `RequireOwner` is `requireOwner`;
`FinishTerminal`, `UpdateStateClear` and `HasUnsafeOperation...` are the helpers of
the same names. A request that the code refuses, or answers as an idempotent
replay, changes nothing and is a stuttering step. A handler with two outcomes is
two actions where the callers differ (`CancelQueued` / `RequestCancel`,
`TimeoutQueued` / `TimeoutOwned`, `IngestOwned` / `IngestQueued`).

| Variable | Table |
|---|---|
| `job` | `rpf_execution_job`: state, version, attempt_number, active attempt and worker, lease, cancel_requested, outcome, terminal evidence |
| `attempt` | `rpf_execution_attempt`, by attempt number |
| `operation`, `effect` | `rpf_execution_operation`, `rpf_simulated_effect` |
| `evidence` | `rpf_execution_evidence` |
| `canonical` | entities registered in `canonical_metadata` |

Abstractions. An attempt id is a fresh UUID, so it is its attempt number; the
lease token is minted with the attempt and adds nothing to it. Evidence content
is determined by its id. A lease is LIVE, LAPSING (some transactions in progress
started before the expiry and still see it valid, others do not), EXPIRED or
NONE: this is how the early timestamp of a waiting transaction is kept without
clocks. A renewal during LAPSING makes it LIVE again, as the code does. The event
log is written and never read by a handler; telemetry context and reasons are
left out. All rows a handler touches belong to its job, hence one job.

### `DurableWorker` and the code

A worker's HTTP call is one step, the handler's action conjoined with the use of
the reply; reads are steps of their own because others act between a read and
what follows it. `pc` names the next call. `attempt` and `version` are the owner
record; a heartbeat is three steps (handler, reply, or lost reply), and its
reply overwrites `version` whenever it arrives, as the renewer thread does. A
refused call raises and returns to polling (`Refused`, `Rejected`); an exception
that is not the client's goes to `_fail_platform_if_possible` (`failing`).
`Crash` is a dead process or a reply lost after the handler committed, which the
client turns into `TransportUncertainError` and the worker into giving up. The
supervisor restarts a worker with the same id. All evidence of a job is about
its target, so execution, cancellation and platform evidence share one natural
key: in the release gate (`ci/run_release_gate.py`) the target id is the
evaluation id, and that is the instance modelled.

Two facts the model made visible: the `release` call of the cancel path always
carries the version from before the cancellation, so it is always refused; and
two workers can keep evicting each other, since the unfenced `unknown` and
`reconcile` of a stale reader requeue a job that a new owner is running. The
second is why `EveryAttemptEnds` allows the attempts to be used up, and why
`LoneWorkerFinishes` is stated for a single worker.

### `ArtifactStore`, `WriteOnceStore` and the code

`call[p]` is one invocation of `put`: at `put` it has a conditional PutObject to
send, at `conflict` it is in `reconcileAfterConditionalFailure`, at `unknown` in
`reconcileUnknownOutcome` with `retry` its loop variable. The backend is
external: it works on one key atomically; a request whose sender hears nothing
was never executed, was executed, or joins `late` and is executed or dropped at
any later time. A 409 is possible while another request for the key is running,
so the read after it may find nothing. `WriteOnceStore` keeps of all this a
request, its answer, and that the bytes appear at most once, possibly after the
answer; the five error answers of the code are one answer, UNCERTAIN.

### `EvidenceIngest` and the code

`txn` has one transaction per ingest request; its stages are the statements of
`CanonicalMetadataService.ingest`: verify the artifact, find the entity, find the
owner of the idempotency key, insert, commit. A statement sees what is committed
when it runs. The insert waits for an uncommitted row with the same entity or
key, which is what PostgreSQL does for a unique index, and then inserts nothing
or inserts. `Unavailable` is a failing statement, a rollback and a 503; at the
commit the row may be there all the same. `client` walks through `ingest_file`:
upload, ingest, and after a lost reply or a retriable error the look-up and one
repetition. The first request lives on when its client gives it up. With the
local backend the client sends no bytes and the Control Plane finds what it finds
(`IngestUnsent`); other principals upload what they like (`Uploads`), and what they
are answered is left out because nobody here hears it.

### `AgentRun`, `RunContract` and the code

`phase` is the place in `run_slice`: provision, readiness, initial, agent, verify,
rescue, cleanup, conclude. `env` is `DockerEnvironment.contract` with the real
container, `world` the state file inside it, `exec` the `ToolExecutor`, `art` what
the artifact says; `effects` counts the real writes and no code reads it. Every
docker command is a step that may succeed, fail, or fail after it worked
(`ApplyFails`), and `ContainerStops` interferes anywhere. The "llm" profile calls
any tool at any step of its budget, since a model may; the two fixed profiles
follow their plan. `RunContract` maps a write whose command failed to an effect
in doubt. It has one end, a verdict or an abandoned run, and promises that there
is one (`ContractSafety` is the contract without that promise); it does not say that the agent was at fault, which `AgentCountIsTrue`
adds.

### `NetworkRun` and the code

`env` is the adapter's record, `docker` what really exists, `target` the service
with the one request sent to it. `target.flight` is the request on its way: it may
be delivered after the client stopped waiting, even during the cleanup. The fault
profiles are those of the code, each with what activating it does to the
containers and the proxy. The cleanup removes one resource per step, as the code
loops, and each removal may fail or raise. `KnownResourcesAreGone` says *known*
with reason: a network whose `docker network create` timed out after it worked is
never recorded, and the environment is CLEANED all the same. The known-bad branch of the
driver asks for a suffix that no profile has, so it is unreachable and left out.

### `Evaluation`, `ReleaseDecision` and the code

A run enters an evaluation as its outcome, attribution, source of failure, the
stage its planned fault reached, and whether its verification was the expected
one; `Endings` says, for each category, in which ways a run of it may end, and
`SuiteRuns` are the runs of a whole suite. The operators follow
`_classify_member`, `evaluate_regression_run`, `_compare_item` and the rules of
the gate in the order of the code; where several rules of the attribution apply,
the first one counts, as in `evaluation.py:569-586`.

`files` are the evaluation files and `executing` counts the workers that are in
`execute_evaluation` for each. `Execute` is the look at the file (*worker*:311),
`WriteEvaluation` the write in place (`evaluation.py:1344`); between the two lies the
whole evaluation, in which others may start the same one, write it, and see it
compared, gated and decided. The write asks nothing: it replaces what is there, and
`CrashInExecution` in its middle tears what is there. Comparison, gate and decision
keep what they read (the artifact holds every member's result and the id of its run),
so the properties speak of `decision.read` and not of the file. The comparison has one file,
which every comparison overwrites; gate and decision files refuse to be overwritten.

`RegressionBlocks` relates two classifications that never see each other: the gate
does not read the comparison's classes. It needs `SawTheSame`, that gate and
comparison read the same file of the candidate, which nothing in the code ensures:
the gate goes by ids. `DecisionIsReproducible` says what the check at *worker*:311 does
give: where nobody was executing the two evaluations when they were compared
(`settled`), nobody starts them again, so the files stay. Where somebody was, they may
be replaced (*Known divergences*).

### `IncidentRun`, `StatisticalTrials` and the code

`IncidentRun` has one action per tool, with the guards of `execute`, and the "any"
agent calls them in any order. `StatisticalTrials` embeds it. `hands` has, for each
worker, the trial it executes and the Run Evidence it holds: `StartTrial` finds no file
and begins a run of the agent and case the payload fixes, `EndRun` leaves the evidence
in the worker's hands, `WriteTrial` writes it in place over whatever is there,
`ReadTrial` takes the file of another, `Register` offers what the worker holds as the
job's evidence and `CompleteTrial` is the Control Plane's acceptance. `LoseWorker` is a
crash or an eviction at any of these places, in the middle of the write with a torn
file. Any number of workers may be between the look and the write of one trial.

A run is one process's own objects: it shares no state with another run
(`incident.py:556-687` creates world and executor afresh), so how the *steps* of two runs
interleave cannot matter. The one machine of `IncidentRun` therefore serves the runs in
turn, while the runs overlap where they can see each other: from the look at the file to
the write. Whose evidence request is accepted, `DurableExecution` decides; here any
worker's may be. Trials that are no durable jobs are run once, by whoever calls the
executor, and `OtherTrial` puts in the evidence of other producers as the readers see
it (a failure of the platform, an invalid run, a FAIL with several zero-tolerance
events at once). No run starts once there is an Evaluation, for no later artifact reads what it would
write; workers that are in the middle of one still write.

`VerdictsAgree` is what makes the overwriting harmless: the payload fixes agent and
case, the agents of a trial job follow a script and the scenario is deterministic, so
all runs of one job find the same. A retry with another agent, or a scenario that is not
the same every time, would break it, for nothing else keeps the first result.

`ZeroTolerance` has the three kinds of events; a trial may have any set of them.
`Lower` and `Upper` are the Wilson bounds, of which only that they lie in 0..100 and
enclose the rate is assumed. There are two minimum samples, as in the code: `MinValid`
is the sampling plan's, which adequacy and flakiness use (*statistical.py*:724-735,
1194), and `Policy.minValid` the policy's, which the gate uses. Summaries keep what a
rule reads; clusters, latency, tokens and cost are read by none.

### `TelemetryQueue` and the code

`fate` places each span. `x += n` is two steps (`Read`, `Write`) for the producers,
which share `dropped_spans`; so drops can be undercounted, and `DropIsVisible` says
only what is true, that the counter is not zero. The exporter takes a batch before
it raises `active_batches`, and `force_flush` reads the queue and then the counter:
it may answer TRUE while a batch is in between, so `FlushEmptiesQueue` speaks of
the queue. A span that ends after the exporter did stays in the queue uncounted;
`EarlySpansAreSettled` is about the ones before.

### `LabTrial`, `LabGateway` and the code

Two of the gateway's three modes are modelled: the free captures and the paid order
exploration. The third, the paid cross-domain session (`lab_gateway.py:122-147` and
206-219, `lab_cross_domain_projection.py`), has a ledger, a thread, a cancellation and a
restart of its own; a process that enables it refuses the paid order mode ("One paid
namespace per process") and opens the captures' store read-only, so it shares no
session with the two. None of the laboratory's properties says anything about it.

A request holds the gateway's lock and is one step. `mem` and `disk` are the
captures' ledger in memory and as last saved, `x` and `xdisk` the exploration's;
any save may fail, which leaves the new value in memory (`NotSaved`, `XNotSaved`).
A session may be saved and its thread fail to start (`lab_store.py:181-183`): then it is
ACCEPTED without an executor.
`place` is where the executor of a run is, `box` its sandbox with or without an
effect. `sent` counts requests that reached the provider. `Crash` and `Restart`
lose the memory, and what was at work becomes RECONCILE_REQUIRED. An id is
reserved once, so runs are numbered: captures first, then the two rounds.

## Runs

| Run | Instance | What it shows |
|---|---|---|
| `durable_execution` | 2 workers and 2 operations (both symmetric), 1 evidence id and entity, 2 attempts | all safety invariants, `FencingToken`, `TerminalIsFinal` and the refinement of `FencedJob`, for callers that send any request at any time, also when the unresolved operation is not the active attempt's |
| `durable_worker` | 2 workers, 3 attempts, 1 fault, 1 heartbeat, a cancellation | credentials, Agent runs, completion, permanence of wedges, and that every attempt ends |
| `lone_worker` | 1 worker, 6 attempts, 2 faults, 2 heartbeats, a cancellation | the job finishes or is wedged in one of the three named ways |
| `artifact_store` | 3 puts of one key, 2 contents, one retry as in the code | answers are true, one creator, every put ends, and the contract is implemented |
| `evidence_ingest` | 2 clients (symmetric), 1 foreign upload, 2 entities, 5 manifests, 1 fault | rows are backed and acyclic; a reported success is true |
| `agent_run` | the 3 profiles, the code's budget of 6 steps | clean runs, true counts, evidence behind verdicts, and `RunContract` with its end |
| `network_run` | all 6 fault profiles | clean runs, nothing known left behind, a PASS seen from both sides, and `RunContract` with its end |
| `release_decision` | 2 evaluation ids (symmetric), both agents, one member of each category, 2 workers that may execute at once | sound decisions, regressions that block, blame only for the agent, settled files that stay |
| `statistical_trials` | 1 durable trial and 2 workers (symmetric), 3 further trials (symmetric), any agent of 4 calls, a policy whose thresholds separate so few | sound incident runs and decisions, overlapping runs that agree |
| `telemetry` | 4 spans, 2 producers, a queue and a batch of 2 | the accounts are true, and early spans are settled |
| `lab_gateway` | 2 captures, 2 rounds as in the code | one trial at a time, uncertainty blocks, sessions settle, and the ledgers' invariant |
| `trial_job` | one trial, one worker | ends in a counterexample, see *Findings* |

An invariant named `...Inv` or `...Safety` is a conjunction of named parts, each with
its own comment in the module: the type invariant and the properties that belong
together (`LabInv` is `LabTypeOK`, `WorkIsReserved`, `PaidIsOnRecord`,
`CompletedIsEarned` and `CancelledIsQuiet`). `TypeOK`, `StoreTypeOK`, `OneCreator`,
`IngestTypeOK`, `KeyNamesOneEntity` and `RowIsImmutable` are in no run because they
are proved.

Bounds. `MaxAttempts` and `MaxVersion` bound the two counters of the job row; in
`durable_worker` and `lone_worker` the version bound is above what the faults,
heartbeats and attempts can use, so no behaviour ends because of it, and the
attempt bound of `lone_worker` is above what one worker can need. Two attempts
are the fewest with an old and a new owner, two operations the fewest where one
is resolved and the other not; callers in `durable_execution` present every
credential of the instance, not only those they were given. In
`durable_execution` the version bound cuts off long histories; the proofs below
have no such cut.

`artifact_store` has one key because a put touches only its own; three puts are
the fewest with a writer, a late writer and a reader of both. The manifests of
`evidence_ingest` are two contents of one entity, a second entity claiming the
first one's key, and two decisions that supersede one another; `MaxFaults` counts
failed statements and lost ingest replies, while upload and look-up failures are
unbounded. Two clients with two requests each are four transactions.

`agent_run` and `network_run` are unbounded but for the code's own limits. In
`release_decision` one member of each category is the fewest with every rule, and
two evaluations the fewest with a baseline; a third would only be a second
candidate. `Workers` bounds how many execute at the same time, on one evaluation or on
two: two are the fewest where one replaces what the other wrote. `MCEndings` gives each
category a pass and the failures that its rules tell apart: an error of the provider to
the functional member, a fault triggered but not reconciled to the recovery member, a
FAIL of the Agent to the regression; the theorems hold for every choice of endings.

Four trials are enough for a sample that is sufficient, one that is
not, and one of each with a failure; the plan's minimum is all four and the policy's
two, so the gap between them is there. The thresholds separate rates of so few. One of
the four is a job, with a payload that is to PASS after a lost response or one that is to
FAIL with harm (`MCPayloads`), and two workers are the fewest whose runs overlap; the
other three come from the "any" agent or from `MCElsewhere`, and the baselines
(`MCBaselines`) are one worse, one better and one mixed. Four spans over a queue of two fill it, drop
one and leave one for after the shutdown. The laboratory's quota is three captures
in the code and two here: with one at work and one reserved all guards are met.
`SessionsSettle` is one formula for both modes: a session is created only when none is at
work, so the one at work has settled when the gateway is free of work.

`CHECK_DEADLOCK FALSE`: a terminal job whose operations are resolved, a finished
run, a decision, a gateway that refuses to start, and an instance whose bounds are
used up really have no further step.

Fairness. `WorkerFairness` is weak fairness of each worker's main step (the
process polls every 0.2 s and is restarted by its supervisor) and of the lease of
an abandoned job running out (`TimePasses`). Nothing is assumed of renewers,
faults, stalls or cancellations. The clock is a real one, so the second holds of
any deployment; the first fails only if no worker is run at all. In
`ArtifactStore` a put keeps taking steps because every SDK request has a timeout;
the backend owes nothing. `EvidenceIngest` states safety only and no fairness.
`AgentRun` and `NetworkRun` are weakly fair in the runner's own step: it is a
sequential program whose every docker command and request has a timeout; nothing
is owed by containers or by delivery. `TelemetryQueue` is fair to the exporter
thread and `LabGateway` to its executor threads, which the operating system runs;
crashes, requests and restarts owe nothing, hence the `process = "down"` in
`SessionsSettle`. `FairSpec` of `StatisticalTrials` has a job's file read, its
evidence offered and its completion sent as often as they can be (the first two
strongly fair, since a busy or lost worker interrupts them), as workers poll without end.

## Findings

`trial_job` violates `TrialJobEnds`: the worker accepts a trial that is to fail
(`durable_worker.py:86`), executes it and then sends `complete` whatever came out
(`:459`); the boundary demands PASS evidence and refuses. The job of a trial that
found a failure never ends by the path that executed it.

### Known divergences without a run

Modelled and met while reading, each a statement of the repository that the code
does not keep. The first three are the disjuncts of `Wedged`: `LoneWorkerFinishes`
says that there are no others, `WedgeIsPermanent` that they are for good.

1. A cancellation whose owner gave up is never answered: `claimLocked`
   (*Controller*:917) answers CANCEL_REQUESTED before it looks at the lease, while
   `control-plane/probe.py:1427` says "running cancellation waits for owner
   acknowledgement".
2. An operation that is unknown already cannot be reported unknown again, so a
   worker that recovers after `durable_worker.py:571` never reaches `reconcile`.
3. Identical evidence is refused to the next attempt (*Controller*:733), or to the
   owner when a queued job had accepted it from an evicted worker.
4. An owner's timeout parks a cancelled job and its reconciliation requeues it
   (*Controller*:899, against the comment at 653–655).
5. A job requeued by reconciling one operation can be cancelled while another is
   unresolved (*Controller*:835, against the message at 864).
6. The Agent is executed again after a crash before its file, with the first
   run's outcome unproven (`durable_worker.py:316`, against
   `docs/RELIABILITY_MODEL.md:71`).
7. A client's repeated ingest can be refused as a conflict with its own first
   request (`CanonicalMetadataService:86`, against `control_plane_client.py:611`).
8. A run whose docker command failed after the write took effect records
   `state_change_performed` as false (`runner.py:545`), where
   `docs/RELIABILITY_MODEL.md:17` knows an UNKNOWN_OUTCOME.
9. A network whose creation timed out after it worked stays behind a CLEANED
   environment (`multi_service_environment.py:803`, against
   `docs/RELIABILITY_MODEL.md:77`).
10. In the laboratory, INCONCLUSIVE set by a reader is overwritten by COMPLETED or
    CANCELLED when the exploration's thread goes on (`lab_exploration.py:333`, 360);
    a session whose first save failed, or whose thread could not start
    (`lab_store.py:181-183`), stays ACCEPTED without an executor and keeps
    the gateway busy until it is restarted; and a seal without a session keeps it
    from ever starting.
11. `cli.py:138` writes every comparison under one name; the gate's identity check
    is what keeps a foreign one out, and `EligibleWasCompared` that it does.
12. The statistical gate never compares the valid sample with the plan's minimum, only
    with its policy's, whose reason speaks of the "Sampling Plan minimum"
    (*statistical.py*:1404); nor does the check that policy and plan fit (`:671`)
    relate the two.
13. A worker that lost its lease while it executed replaces the evaluation file of its
    successor, also after that file was ingested, compared, gated and decided
    (`durable_worker.py:311` and `evaluation.py:1344`, against the comment at
    `durable_worker.py:312-313`: "A restarted worker resumes from the durable artifact
    boundary; it must not execute the Agent again"). What was ingested is immutable and
    decisions keep what they read, but comparison and gate find evaluations by id
    and not by digest, so a gate may judge other bytes than its comparison saw;
    `SawTheSame` and `settled` mark where this matters.
14. The same for trials (`durable_worker.py:419`, `incident.py:751-757`). The runs agree in
    all that is decided from them (`VerdictsAgree`) but differ in their ids, so an
    attempt after the replacement offers evidence of another content and is refused
    (*Controller*:734, IMMUTABLE_EVIDENCE_CONFLICT), and the job cannot complete; `Register`,
    which lets the first evidence stand, is more generous here.

## Proofs

All theorems hold for every number of workers, operations, evidence ids,
entities, attempts and versions; for every set of profiles and budget of steps of
a run; for every suite, set of evaluation ids and endings; for every quota of
captures and number of rounds; for every number of trials, plan and policy; for every
number of spans and threads and every queue. They cover every modelled component and
every safety property a run checks.

The assumptions are those of the modules: bounds are naturals, reported outcomes
are of `EVIDENCE_OUTCOMES`, NULL is none of the ids, and in `DurableWorker` the
named operation, target and evidence ids belong to their sets; in the store
`Nothing` is no content, and in the ingest the NULLs are no values, each
manifest's artifact key is a key of the store and the puts are the clients' and
the foreign ones. `Evaluation` assumes of the endings of a run that a FAIL is the
Agent's, which is how runs end (`models.py:34-41`, `runner.py:420-434`, and
`VerdictsHaveEvidence` of `AgentRun` beside it); `LabGateway` that None is not a
session. `StatisticalTrials` assumes of the plan and the policy what their validators
check (*statistical.py*:1354), of the intervals that they contain the observed rate,
and nothing of the agents; `TelemetryQueue` that the batch is no larger than the
queue, that no product thread is the exporter or the caller of shutdown, and that
None is no number and no answer.

**The boundary.** None of the safety invariants is inductive alone. That a
completed job has no unresolved operation survives `unknown` and `reconcile` only
because those need an unresolved operation; that the owner is the newest attempt
needs the attempts above the counter to be absent; that a parked job has work
needs the operation a park saw to be of an attempt that exists. `IndInv` is their
conjunction with `TypeOK` and `OperationsHaveAttempts`. `Inductive` proves
`Spec => []IndInv` with one lemma per group of handlers, and from it follow
`TypeCorrect`, `OwnerNewest`, `VerdictProved`, `ParkedHasWork` and
`EffectNeverDenied`. `Fencing` and `TerminalFinal` are action properties, proved
by cases over `Next` from the same invariant; `Refinement` maps every handler to
a `FencedJob` step or a stutter.

**The worker.** `WorkersUseHandlers` shows that each step of the composed system
is a step of the boundary or leaves it alone, so `WorkersProveVerdicts` and
`WorkersKeepVerdicts` carry over without another induction, and by `WorkersRefine`
the whole system, crashes and lost replies included, implements `FencedJob`.
`CredentialsOwn` needs the boundary's invariant, the workers' types and
`RecordsAreOwn`: a held attempt is one this worker was granted, at a version
handed out before.

**The store.** `StoreInv` is the type invariant, `ReplyIsTrue`, `OneCreator` and
that a put which has answered takes no further step. The heart of each case is
`CreateKeeps`: a request the backend executes, on time, late or unheard, writes an
empty key or changes nothing, so no answer already given can become false.
`StoreRefinement` maps each step to a `WriteOnceStore` step or a stutter.

**The ingest.** `IngestInv` records what a transaction has found out and must
still hold when it inserts: its artifact is stored (keys are written once), what
it supersedes is registered (rows stay), and its uncommitted row has its entity
and key to itself (`InsertsApart`, from the insert's wait). A new row is therefore
backed, unique and newer than all it supersedes, which gives `RowsBacked`,
`KeysUnique` and `HistoryAcyclic`; `RowsImmutable` is an action property from the
same invariant and `SuccessTrue` follows each client to its answer. The store
enters by its contract only: objects once written stay.

**The places of the workers.** `PlaceInv` adds to the worker's invariant where each
worker is in its code: what it has written, which operation it has named, what it
knows of the job row and at which version. The hard case is a worker that was
evicted between two requests: `OwnerStep` says that an owner that is no longer one
never comes back, so all it knows stays true or is refused. It gives
`WorkersAreSafe` (a completed job has its artifact, a run and a confirmed
operation), `RunIsInFlight` (while the owner runs the Agent, nobody has resolved
its operation) and `WedgesArePermanent`.

**The agent's run.** `AgentInd` keeps the books of one run: the state file was
written as often as the executor counted unless the command failed, what was read
is what was there, and no verdict survives an environment that was not cleaned.
The first part is not inductive without the second, since a rescue reads the file
again. `AgentRunIsClean`, `AgentCountsAreTrue` and `VerdictsHaveEvidence` follow,
and `AgentRunRefinement` maps each step to one of `RunContract`: a write whose
command failed is the contract's effect in doubt.

**The network run.** `NetworkInd` says which way each fault takes through the
driver (`Ways`), what the client's answer says of the target (`Requests`), that
a toxic still on is known to whoever may call the run passed (`Toxics`), and that
what the clean-up still has to remove covers what exists (`Removals`). `PassIsClean`
is not inductive: that nothing exists at a PASS needs that a run that passed had
created everything, so that everything is known. One lemma takes all exceptions
(`RaiseKeeps`): whatever the command did before it failed, the run cannot PASS any
more. `CleanupOrderHasAll` proves that the reversed order of removal loses nothing.
`NetworkRunRefinement` covers the late delivery: a request served after the client
gave up is still the contract's one effect, and not after a PASS.

**The decision.** `ReleaseInv` says that comparison, gate and decision were computed
from what they read, and keeps of the files only what survives an unfenced write:
nothing at all while somebody executes, and of an evaluation at rest (`Rests`: nobody
executes it and its file is what was read) everything. Being at rest is stable, for a
worker that finds the file does not execute, and who does not execute does not write
(`Undisturbed`, from which `KeptStays` and `GrantStays`). The lemmas about the operators relate
rules that never call each other: a member classed REGRESSED is a valid FAIL of the
candidate (`RegressedItem`), and a valid FAIL blocks (`ValidFailBlocks`), which is
`RegressionsBlock`. `DecisionsAreEarned`, `BlocksAreTheAgents` and
`DecisionsReproduce` read the rest off the invariant.

**The laboratory.** `LabInd` relates the two copies of the two ledgers, the place
of every executor and its sandbox: where memory and disk may differ (a save failed,
or the next one is on its way), which statuses a thread at each place leaves, and
that a thread at work keeps the gateway busy in its own mode and closed in the
other (`Modes`). `TrialsRunAlone` needs all of it, since captures and exploration never look
at each other's threads but at each other's ledgers only. `LedgersAreInOrder` and
`EffectsKeepItClosed` follow as well.

**The trials.** `IncidentInd` keeps the books of one run: the executor's count of
remediations is the world's, harm needs the one remediation of an external fault, and
what the verifier checked of a PASS still holds. `IncidentRunsAreClean` follows; that
at most one remediation happens needs the count and the unknown outcome together,
since a retry is guarded by the one and a reconciliation by the other. For a durable
trial `ScriptInd` knows where in its script the one running Agent is and what it has
done so far, which makes the verdict at the end a function of agent and case
(`ScriptOutcome`). `StatisticalInd` carries that outcome to every place the evidence of a job
can be: in the hands of any worker, in the file, in the registered evidence, in the
evaluation's row, so it does not matter who wrote last. It adds that evidence of a
hazard says FAIL, and that evaluation, comparison, gate and decision were computed from
what was read. `OverlappingRunsAgree` follows, for any number of workers and of jobs.
The decisions need arithmetic over
counts and rates: `SummaryCounts` ties the counts of a summary to sets of trials,
`IntervalContains` the bounds to the observed rate, and `RatesOrdered` makes disjoint
intervals ordered rates, which is why IMPROVED is a higher success rate and REGRESSED
seen from the other side (`StatisticalDecisionsAreEarned`).

Two clauses of `StatisticallyEligible` came out of the proof. Without `DemandsSuccess`
it is false: a policy whose minimum success rate and minimum lower bound are both 0 is
valid, and under it a candidate that fails every trial is ELIGIBLE. And all trials need
to agree only from the plan's minimum on: below it flakiness is not looked at, so
with a policy that asks for fewer trials than the plan a candidate that both passed and
failed is ELIGIBLE (see *Known divergences*).

**The telemetry.** `TelemetryInv` is not inductive because the accounts do not agree
while a thread is between the read and the write of a counter. `TelemetryInd` says what
each such thread is about to write. The exporter is the only writer of
`exported_spans`, so what it read is still the value (`ExportedExact`). A producer that
has read `dropped_spans` has dropped a span of its own that no other thread counts, so
what it writes is never more than the drops and never zero (`DroppedBehind`): updates
are lost but a drop is not hidden. `export_failures` has two writers, the exporter and
the caller of shutdown, and is ahead by the failed close at most (`FailuresBehind`).
`FlushSettles` follows a flush from the queue it saw empty to its answer.
`TelemetryIsHonest` holds for any number of spans, threads, and any queue and batch.

**Only model-checked.** Liveness under fairness and ENABLED are beyond the proof
system's backends: `EveryAttemptEnds`, `LoneWorkerFinishes`, `PutsEnd`,
`SessionsSettle`, `EarlySpansAreSettled`, and `RunEnds`, the part of `RunContract` that
`ContractSafety` leaves out. The counterexample is TLC's. No module uses a recursive
operator.

## Not modelled, and why

- The local artifact store, the submission's idempotency race, and eligible
  discovery with its cursor over several jobs: planned, see below. Their hazards
  are listed without a property.
- Failure intelligence (`failure_intelligence.py`, `failure_case.py`): pure functions
  from documents to documents. What they compute is fingerprints, clusters and
  minimised schedules of documents; their tests enumerate the boundary cases, and a
  model would repeat the code.
- The effect-witness research lines (about 32,000 lines of `effectwitness/pge_*`,
  `config_*`, `target_*`, `violation_*` and the like) and the spikes (`spikes/`,
  `probe.py`): each builds and validates the evidence documents of one experiment,
  once and from the command line; they hold no state that the platform's parts
  share. They are most of the repository's Python lines, so the modelled share of
  all lines stays small.
- Request parsing and authorisation (stateless), audit inserts and read models
  (nothing reads them back), the provider's HTTP exchange and the web UI (I/O),
  floating point in the Wilson interval.
- Within the modelled parts: several jobs at once (their rows are disjoint; only
  polling order couples them), the event log, the schemas and digests of evidence
  documents, availability probes, a repeated evaluation id given on the command
  line, and time (a timeout is a step that may happen).

## Plan

Order is by how much depends on the behaviour.

1. `DurableExecution`, `FencedJob`, `DurableWorker` and their proofs. *Done.*
2. `WriteOnceStore`, `ArtifactStore`, `EvidenceIngest` and their proofs. *Done.*
3. `RunContract`, `AgentRun`, `NetworkRun` and their proofs. *Done.*
4. `Evaluation`, `ReleaseDecision`, `IncidentRun`, `StatisticalTrials` and their
   proofs. *Done.*
5. `LabTrial`, `LabGateway`, `TelemetryQueue` and their proofs. *Done.*
6. `LocalArtifactStore` (a file visible before its bytes) against `WriteOnceStore`;
   `JobSubmission` (one job per key, replays only for the same request) with
   eligible discovery over several jobs.
