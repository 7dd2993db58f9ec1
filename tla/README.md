# Formal model of V3il's durable runtimes

V3il is a deception-defense platform: a FastAPI backend over PostgreSQL whose agents
investigate, adapt decoy environments and publish knowledge. Requests, agent
executions, sandbox commands, deployments, events and publications are all rows of the
database that background runtimes pick up, so that work survives a restart of the
process that was doing it. This directory holds TLA+ models of those runtimes, TLC
configurations that check them on small instances, and TLAPS proofs for instances of
any size.

Contents: [the system](#1-the-system), [how the project is laid out](#2-how-the-project-is-laid-out),
[the modules](#3-the-modules), [what the runs show](#4-what-the-runs-show),
[what is proved](#5-what-is-proved),
[facts about the code](#6-facts-about-the-code-met-while-modelling),
[not modelled](#7-not-modelled).

## 1. The system

### 1.1 Inventory

| Component | State it keeps | Operations | Model |
| --- | --- | --- | --- |
| Runtime leases, `service/runtime/leases.py` | one row of `runtime_leases` per resource (owner, fencing token, expiry); in memory a `RuntimeLeaseHandle` with its heartbeat | acquire (wait, take over, give up), renew, `assert_owned`, `run_while_owned`, close | `FencedResource`, `RuntimeLease` |
| Agent Run supervisor, `service/agent/supervisor.py` | `agent_runs`, `agent_run_attempts`, the outbox, its own lease row; in memory its tasks, token and recovered token | renew, recover, claim, execute an Attempt, finish, wait, fail, suspend, requeue, carry out cancellations, stop | `AgentRuns` |
| Delegation, `service/agent/delegation.py` | parent, disposition and wait of child Runs | create a child, queue the parent, discard or cancel what is undelivered | `AgentRuns`; the check of the investigation task in `Investigation` |
| Requests and admission, `service/agent/repository.py`, `admission.py` | queued Runs, cancellation flags, outbox commands | enqueue, interrupt, cancel a Run or a Session | `AgentRuns`; the selected container in `SandboxContainers` |
| Tool journal, `service/agent/tool_invocations.py` | `agent_tool_invocations` | start, complete, mark ambiguous, reconcile, operator decision | `AgentRuns` (the unsettled call of a Run) |
| Agent event stream, `supervisor.py`, `event_store.py`, `handler/agent/sessions.py`, `agentStore.ts` | durable events, live segments, subscriber queues, the client's store | append, broadcast, checkpoint, subscribe, replay, rebase, drop a slow subscriber | `AgentEventStream` |
| Sandbox command jobs, `service/sandbox/async_jobs.py`, `core/sandbox/command_jobs.py`, `service/sandbox/commands.py` | `sandbox_async_jobs`; in memory a task per claimed job and a worker thread in Docker's API | create, cancel, claim, execute, terminate, settle, recover, resume the Run, operator decision | `SandboxJobs` |
| Sandbox containers, `service/sandbox/lifecycle.py`, `status.py`, `locking.py` | `sandbox_containers` (status, generation), advisory locks, the selection of a Session | create, start, stop, pause, resume, remove, monitor, save what a command observed, select | `SandboxContainers` |
| Deception environments and executions, `service/deception` | environments, revisions, steps, the container of an environment | create, adopt, plan, decide; claim, provision, apply, verify, complete, roll back, recover | `DeceptionExecution` with `DeceptionLifecycle`, composed with `SandboxContainers` |
| Detection rules and their deployment, `service/detection/deployment.py`, `rules.py`, `sensor_bundles.py` | rules, versions, change requests, deployments; the bundle of each sensor | submit, decide, deploy, verify, activate, roll back, refresh | `DetectionDeployment` |
| Sensors and correlation, `sandbox/zeek/adapter.py`, `service/detection/sensors.py`, `engine.py`, `service/threat/telemetry.py`, `behaviors.py`, `orchestration.py` | a sensor's journal, stored events, decisions, signals, incidents | observe, pull, ingest, decide, correlate, notify, recover | `SensorEvents` |
| Report publication and knowledge documents, `service/threat/knowledge.py`, `service/knowledge` | outbox events, source files; LightRAG's statuses (external) | claim, publish, retry; upload, enqueue, process, sweep, delete | `ReportOutbox`, `KnowledgePublication` |
| Investigations, `service/threat/investigations.py`, `analysis_records.py`, `intelligence.py`, `state.py` | tasks, evidence, analyses, reports, the status of an incident | create, activate, delegate, submit, review, analyse, report, close, reopen | `Investigation` |
| Conversation memory, `core/conversation` | items of an AgentContext | append, rewind an Attempt, compact | not modelled |
| Agent definitions, model access, agent tools | configuration; calls of an external model | | environment of `AgentRuns` |
| Sandbox access, egress proxies, hosts, evidence documents, users, configuration, HTTP layer, persistence schema, workbench | records, I/O | single transactions | not modelled |

`PROJECT.json` lists the components with their files, what part of each is modelled, and
every hazard with the line at which it bites.

### 1.2 How the parts interact

* A request becomes a **Run** in `agent_runs`. The supervisor that holds the
  `runtime-supervisor` lease claims queued Runs and executes each as an **Attempt**: one
  asyncio task that builds the Context, reconciles the tool journal, and calls the model
  and its tools until the turn ends.
* A tool call may **delegate**: it adds a child Run for a specialist. The parent's
  Attempt then ends and the parent waits for exactly that child. The transaction that ends the
  child queues the parent again.
* A tool call may start **sandbox commands**. The turn ends, the Run waits for the
  batch of the commands that this Attempt created, and the *command runtime* (another
  loop, under its own lease) claims them, executes them in the container, settles the
  rows, and queues the Run when the whole batch is settled.
* A **cancellation** sets a flag on the Run in the request's transaction and leaves a
  command in the outbox, which the supervisor carries out and then marks published.
* A tool call or command whose outcome is **uncertain** goes to an operator, and the
  Session does no work until it is decided.
* What an Attempt says goes to the client twice: as text deltas while it is generated
  and as **durable events** that a later connection can replay.
* A **container** is mutated under an advisory lock; the status monitor and the commands
  of Runs look at it without one. A Session selects a container together with its
  *generation*, which changes whenever the container was started.
* A **revision** of a deception environment is executed step by step in its container,
  and undone step by step when one fails. The first revision creates the container.
* An approved **rule change** is deployed to all sensors in its scope, by a job under the
  one lease that all changes of bundles share; the same lease serves the refreshes that
  bring a sensor to the rules in force.
* Sensors write **journals**; two loops without any lease pull them, store the events,
  decide each, add it to a signal, correlate ready signals with incidents, and notify an
  Agent.
* An **incident** is investigated by tasks and analyses. Closing it requires a published
  final report; publication is an outbox event that a loop under a lease carries
  to LightRAG through source files on disk.
* Each runtime but the event loops holds a **lease** with a fencing token and repeats its
  lease check in the transactions that matter. The supervisor has a lease implementation
  of its own (in its polling loop); the other runtimes use `service/runtime/leases.py`.

### 1.3 What is hard here

* *Two processes at once.* A lease may expire while its holder still works; every await
  between two transactions is a place where the other process can act. The event loops do
  not even try to be alone.
* *Crashes between transactions.* A process may die inside a tool call, between a
  command in a container and the row that records it, between the commit of an event and
  its broadcast, or while a command runs that goes on without it.
* *Waits.* A child may end before its parent waits, a batch may be settled in parts
  by different parties, and a cancellation may take either side away.
* *Several targets.* A change reaches its sensors one by one, a revision its steps; each
  may fail, and so may the undoing.
* *Stale reads.* Lease expiry is judged by clocks read before a row lock is granted, a
  command saves a container status it saw earlier, a refresh compiles rules that a
  deployment is about to change, a delegation checks a task that is then submitted.
* *Order.* Broadcasts overtake one another, replays meet live frames, journals are pulled
  by overlapping passes.
* *Docker and LightRAG.* Terminating a command can fail, a status check can be wrong, and a
  call in a worker thread goes on after the task that made it has been cancelled; a
  publication goes on after its publisher has timed out.

### 1.4 What makes each component correct

* Lease: a handle that believes in its lease before its own expiry is right; deposed
  holders write nothing that is fenced.
* Runs: a wait that will be answered; a Run is owed at most one child result, and none
  when it has ended; nothing runs on an undecided tool call; a RUNNING Run has a task that
  drives it; accepted Runs, cancellations and waits make progress.
* Event stream: a client's cursor never passes an event it lacks, and when nothing is on
  its way its transcript is complete or shows the gap that it will reload.
* Commands: one outcome per command; a batch is delivered whole; no row is RUNNING for a
  Run that moved on; a delivered command has stopped; a waiting Run is resumed.
* Containers: no Session and no Run reaches a container other than the boot they were
  bound to.
* Environments: a revision applies in full or leaves nothing, its container included, and
  it settles.
* Detection: a change ends active on all its sensors or undone on all (or says which is
  not); no deployment takes back another rule; sensors converge on the rules in force.
* Events: each entry of a journal is stored once and in order, decided, and complete in
  its incident.
* Publication: what is marked published is indexed; every report is published, unless a
  broken write left its file torn.
* Investigation: a closed case stands as its published report says, and that report is in
  the knowledge base.

## 2. How the project is laid out

| Module | Kind | Uses | Run by | Proofs |
| --- | --- | --- | --- | --- |
| `FencedResource` | abstract: what a lease promises | | `RuntimeLease` | `RuntimeLease_proofs` |
| `RuntimeLease` | the lease protocol | refines `FencedResource` | `MCRuntimeLease` | `RuntimeLease_proofs` |
| `AgentRuns` | Runs, Attempts, delegation, cancellation, tool recovery | | `MCAgentRuns` | `AgentRuns_proofs` |
| `SandboxJobs` | commands, their batch and their Run | the promise of a lease | `MCSandboxJobs` | `SandboxJobs_proofs` |
| `AgentEventStream` | events and text from an Attempt to its client | | itself | `AgentEventStream_proofs` |
| `SandboxContainers` | rows and Docker's containers | | with the next | `DeceptionExecution_proofs` |
| `DeceptionLifecycle` | the rules for rows of environments and revisions, operators only | | with the next | |
| `DeceptionExecution` | executors of revisions | composes `SandboxContainers`, `DeceptionLifecycle`, the promise of a lease | `MCDeceptionExecution` | `DeceptionExecution_proofs` |
| `DetectionDeployment` | changes, deployments, refreshes, sensors | the promise of a lease | `MCDetectionDeployment` | `DetectionDeployment_proofs` |
| `SensorEvents` | journals to incidents | | `MCSensorEvents` | `SensorEvents_proofs` |
| `ReportOutbox` | abstract: what publication promises an incident | | `KnowledgePublication` | |
| `KnowledgePublication` | publisher, processing loop, files | refines `ReportOutbox` | `MCKnowledgePublication` | `IncidentPublication_proofs` |
| `Investigation` | an incident from first event to closure | the promise of `ReportOutbox` | `MCIncidentPublication` | `IncidentPublication_proofs` |
| `IncidentPublication` | an incident beside the loops that publish its reports | composes `Investigation`, `KnowledgePublication` | `MCIncidentPublication` | `IncidentPublication_proofs` |

Two abstract specifications cut the system: `RuntimeLease` is shown to implement
`FencedResource`, and the modules whose runtimes work under a lease use only what that
promises; `KnowledgePublication` is shown to implement `ReportOutbox`, and
`Investigation` uses only that. `IncidentPublication` puts the two back together and shows
that the cut loses nothing: the composition implements `Investigation` as it stands alone,
a refinement that is proved and not run.
`AgentRuns` models its own lease, since the supervisor
implements one of its own.

What could be added next: tool outputs and compaction (conversation memory), the
control-plane chain of the platform's own observations, a Run that is owed a child result
and a batch at once (`AgentRuns` with `SandboxJobs`), and executors that stall past their
lease (`DeceptionExecution` on `RuntimeLease`).

## 3. The modules

Conventions. A database transaction is one step: the code takes row locks
(`SELECT ... FOR UPDATE`) on what it reads and changes. An in-memory variable of a process
is a variable of the model, so every `await` between two transactions is a point where
other processes step. Definitions whose comment begins with "Mutant:" are
altered forms of the definition that follows them, kept to show that the runs notice such
a change; no specification uses them. Faults are either members of a constant `Faults`, so
that a run states which it assumes, or counted by one variable (`faults`, `upsets`) that a
bound limits. A request that is refused changes nothing and is not a step. Variables
called history record what a property needs to name and no action reads.
`PROJECT.json` maps each definition to the lines it models.

### FencedResource

`epoch`, `holder`, `lastWrite`; a grant changes the holder and opens the next epoch, only
the holder writes.

### RuntimeLease

| Model | Code |
| --- | --- |
| `row` | the row of `runtime_leases`; token 0 stands for no row |
| `now[o]` | `now = utc_now()`, read *before* the transaction of `_try_acquire` and `_renew` |
| `handle[o]` | `RuntimeLeaseHandle`: token, `_expires_at`, `_lost` |
| `heartbeat[o]` | where `_heartbeat` is: asleep, in `_renew`, committed without having heard of it |
| `operation[o]` | an operation under `run_while_owned` |
| `lastWrite` | history: the last transaction under `assert_owned(lock=True)` |

An *owner* is the uuid that one acquisition draws. Commit and acknowledgement of a
renewal are two steps, so that a commit whose acknowledgement is lost (`RenewFails` in
`committed`) leaves the handle with an older expiry than the row. `AcquireFails` covers a
failed call whose transaction may have committed. There is one clock for
all processes: `OverlapOnlyPastExpiry` and `LiveHandleOwnsRow` say nothing under skewed
clocks; the refinement below does not rely on the clock at all.

### AgentRuns

| Model | Code |
| --- | --- |
| `run[r]` | the `agent_runs` row: status, `wait_reference_id`, parent, continuation disposition, cancel flag, trigger, with its open attempt |
| `journal[r]`, `calls[r]` | the unsettled tool invocation of a Run, and how many it started |
| `commands`, `requested` | unpublished outbox commands; session cancellations ("sweeps") |
| `lease` | the supervisor's row of `runtime_leases`; `live` instead of an expiry time |
| `sup[s]` | one `AgentRuntimeSupervisor`: `_fencing_token`, `_recovered_token`, and where `_loop` stands |
| `task[s][r]` | the asyncio task of `_execute_claimed`, from claim to its last transaction |

One Session. Foreground Runs (`Root`) share the main Context; specialists (`Child`) have
their own. `DriverStep` is one iteration of `_loop` in pieces: renewal, recovery
of interrupted Attempts, outbox commands, claims. `TaskStep` is an Attempt:
`BuildContext`, `Reconcile`, then turns of `StartCall`, the tool, `CompleteCall`, then
`Finish` or `FinishWaiting`; exceptions go through `AskChildren` to `FailRun` or
`WaitForToolRecovery`; a cancelled task journals its open call (`AbortCall`) and requeues
its Run (`YieldTask`). Time is abstracted to `Expire`, which may happen at any moment. A
crash is `Exit`; a shutdown is `Shutdown`, the tasks' own endings, then `Exit`. `Restart`
starts the process again (`restart: always` in `docker-compose.prod.yml`): the new
supervisor draws a new `owner_id`, so the lease of the old one, whose owner no process has
any more (`Nobody`), has to expire first.

Abstractions: the model's answer is a nondeterministic choice between another tool call,
the end of the turn and an exception; a Run has at most one unsettled call; admission
knows only tool recovery (archived Sessions and closed incidents only ever
refuse more); the number of concurrent Runs is not bounded; the waits for sandbox commands
are in `SandboxJobs`, the events an Attempt sends in `AgentEventStream`.

Faults: `db_error` (a transaction of a task or driver fails), `stale_renewal` (a renewal
that read the clock before the lease expired gets the row lock afterwards and extends an
expired lease under its old token).

### SandboxJobs

| Model | Code |
| --- | --- |
| `run` | the owning Run: status, number of its Attempt, the Attempt whose batch it waits for; `ending` between cancelling its commands and ending |
| `job[j]` | the row of `sandbox_async_jobs`: status, `agent_run_attempt_id`, owner, `cancel_requested`, disposition |
| `container` | Docker's truth (`up`), our row (`status`) and its generation, 1 for the one the jobs are bound to |
| `command[j]` | the process in the container |
| `task[j]` | `_execute_owned_job` down to the worker thread |
| `late` | worker threads inside `exec_start` that no task waits for any more |
| `holder`, `driver[o]` | the lease as `FencedResource` gives it, and where `_runtime_loop` of an acquisition is |

A driver acquires, recovers the jobs of other owners one by one (check the binding, kill,
mark), then serves: settle orphaned and unavailable jobs, carry out cancellations,
resume Runs, claim. A claimed job has a task that asserts the lease, checks the
container, starts the command, and settles the row; timeout, cancellation and
shutdown terminate the command first.

Abstractions: one Run with one container; generation 2 stands for every later one; the
five transactions of a serving iteration happen in any order (they are independent, so the
code's order is one of those allowed); paused containers behave as
stopped ones; `ResolveJob` lets the operator confirm only what is true.

Faults: `overlap`, `db_error`, `inspect_error`, `kill_fails`, `late_launch`, `recancel`
(explained at `FaultsAssumption`).

### AgentEventStream

| Model | Code |
| --- | --- |
| `journal` | `agent_events` of a Session in order: for each the segment it completes |
| `row[g]` | `agent_segments`: status and checkpointed length |
| `attempt` | the task of the running Attempt, with its `_LiveSegments` |
| `unpublished` | events committed and not yet broadcast, by the task or by a request handler |
| `published` | `_durable_heads` |
| `sub` | one `AgentStreamSubscription`: queue, pending frames, offsets, stage of the replay |
| `link`, `ack` | the client's socket and the acknowledgement on its way |
| `client` | the `AgentStore`: events held, cursor, history page, shown segments |

The commit of an event and its broadcast are two steps (`RecordToolEvent` or
`HandlerCommits`, then `Publish`), so broadcasts may come out of order and a canceled task
may never make its own. `CreateSegment`, `SendDelta`, `CompleteSegment` and
`RecordCompletion` are the life of a segment, `CheckpointLive` the periodic checkpoint,
`CancelTask` and `Interrupt` its end by a cancellation or a takeover. `Connect`, `ReadHead`,
`SendHello`, `AcceptAck` are the subscription with its replay; `Receive`, `Heartbeat` and
`LoadHistory` the client. Text is its length, a delta a range of offsets; queue and socket
are one queue.

`onMessage` hands React an update of its store and, in the next statement, reads what the
update found out (`AgentSessionProvider.tsx:438-444`). React may run the update at once or
later, so what the caller reads is a choice, `seen`: an update that is not seen is applied
all the same, but a hello is then acknowledged with 0 and a gap asks for no recovery. The
socket stays open, and the client recovers at the next frame that finds `rebaseRequired`
set, be it an event or a `Heartbeat`. The first delta of a new segment, at offset 0, can clear
the flag before that; the gap itself then stays visible in the cursor, and the next event
sets the flag again. A demand to rebase that names a head beyond the cursor is followed even
if the update is yet to run (`requestStreamRecovery` compares the two, `FollowDemand`).

### SandboxContainers

| Model | Code |
| --- | --- |
| `box[c]` | the row: status, generation, `provisioned_for_revision_id` |
| `docker[c]` | what Docker has, and how often it was started |
| `mutex[c]` | the advisory lock of `locking.py` |
| `op[a]` | the mutation of an actor: checked, acted, or out |
| `seen[c]` | the row status in the monitor's snapshot |
| `noted[c]` | what a Run's command observed and has yet to save |
| `selected`, `agentRun` | selected container and generation of a Session, and of its nonterminal Runs |
| `bootOf` | history: the boots during which a generation was current |

A mutation reads under the lock, calls Docker, and saves: `BeginMutation`, `CallDocker`,
`FinishMutation` (or `FinishRemoval`). `LoadSnapshots` and `SyncStatus` are the monitor,
`ObserveDown` and `SaveNoted` a command that finds its container down. `AdmitRun` is the
admission of a Run to the selected container.

### DeceptionExecution, DeceptionLifecycle

| Model | Code |
| --- | --- |
| `env`, `rev`, `step` | environments, revisions and the status of each step |
| `effect[c]` | the steps whose apply command is in effect in the container |
| `exec[n]` | the executor of a process: how far it is, in which revision, container, step |
| `todo[n]` | interrupted revisions the startup of a process has still to recover |

`DeceptionLifecycle` has the decisions as operators on rows (`CanPlan`, `Planned`,
`Applied`, `Stuck`, `CanRecover`, `Resumed`, ...), as the code keeps them apart in
`lifecycle.py`. An executor goes `Claim` (or `ClaimRecovery`), `Provision`, `BindBox`,
`StartBox`, `BindSession`; then per step `BeginStep`, `Apply`, `RecordApply`,
`BeginVerify`, `Verify`; then `Complete`, or `BeginRollback`, and per step `MarkStep`,
`Undo`, `RecordUndo`, then `SettleRollback`. `DeleteBox` and `SettleFailure` give back a
container. Its calls of Docker are the mutations of `SandboxContainers`, with its locks;
operators and the monitor act beside it. `Crash` ends it anywhere; `Boot` and `Recover` are
the startup of a process. The lease `deception-revision:<id>` is held from claim to end, as
`FencedResource` promises.

Faults: `docker_error`, `exits`, `command_fails`, `commands`, `cancel_provision`,
`bind_race` (explained at `FaultsAssumption`).

### DetectionDeployment

| Model | Code |
| --- | --- |
| `versions`, `active` | versions of a rule, `active_version_id` |
| `capture[s]` | the ports and artifacts a sensor's bundle covers |
| `change` | change requests in their order: status, planned bundles, deployments |
| `sensor[s]` | the row: recorded bundles and health |
| `box[s]` | the adapter's desired bundle and the one Zeek runs |
| `polled[s]` | what a slow collection cycle has read and not yet saved |
| `job` | the job that holds `detection.bundle-mutation` |
| `late` | a request on its way whose sender is gone |

A bundle is the version of each rule and the capture: what the code names by a hash of the
content. A deployment stages the bundles of all its sensors, then activates and verifies
sensor by sensor, then activates the change, or rolls its sensors back one by one. A refresh
brings one sensor to `CurrentBundle`. `JobStep` is the next step of either; an interruption
drops the job anywhere, and the reconcilers start one again from what the rows say
(`StartDeployment`, `StartRefresh`). `SwitchBundle` is Zeek, `Collect` the collector.

### SensorEvents

| Model | Code |
| --- | --- |
| `journal` | a sensor's journal |
| `policy`, `row` | the bundle Zeek runs; `managed_host_sensors` |
| `stored`, `signalOf` | `behavior_events` up to the cursor; the live decision of each |
| `signals` | `behavior_signals`: rule, status, count, incident |
| `linked`, `incident` | the incident of each event; statuses |
| `worker[w]` | the pass of a loop: what it pulled, what it has in hand |
| `lapse`, `dropped` | history: the position was set past uncollected events; signals in hand when a pass broke off |

A pass is `ReadCursor`, `Pull`, `Ingest`, `Decide` per event, `Correlate` and `Save`;
`StartRecovery` is the pass that takes up undecided events, `TakeReadySignals` the one that
takes up signals. Passes of any number of workers interleave, and `BreakOff` ends one
anywhere. Which incident a signal matches and when windows and cooldowns pass are choices.

An event is an entry of a journal. Which lines of Zeek's logs become entries is left open
(`Observe`), because the adapter journals a line again when its log was truncated
(`adapter.py:306`) or when a scan raises before the offset of the file is saved
(`adapter.py:316-328`), and never when it met the line half written. What a restart of the
adapter finds is the journal with its last record complete (`_recover_journal_state`), so
the restart changes nothing here.

### ReportOutbox, KnowledgePublication

`ReportOutbox`: per report an outbox `event` and a `knowledge` state; a claim, a retry, a
publication. `KnowledgePublication` extends it:

| Model | Code |
| --- | --- |
| `doc`, `source` | LightRAG's status of a document (external); its source file: none, torn by a broken write, whole |
| `leader`, `publisher[n]` | the publication loop's lease, and where the loop of a process is |
| `keeper`, `processor[n]` | the processing loop's lease, and where the loop of a process is |
| `pending[n]`, `recover[n]` | `_pending_track_ids`, `_recover_on_next_run` |
| `uploading`, `deleting` | uploads whose file is written and not yet queued; deletions whose file is still to be removed |
| `deleted` | history: processed documents that a user deleted, or a loop that had lost its lease |

`Claim`, `CheckDocument`, `WriteSource`, `Enqueue`, `Wait`, `CommitPublication` is a
publication, with `Reset` and `RemoveSource` first when the document failed before. An error
(`PublicationFails`) may leave a torn file or a document that was queued all the same, and
`RecordFailure` schedules the retry. `LoseLease` takes the lease only: the loop goes on
beside its successor until `CancelPublication`, and if it was queueing then, its handler
still removes the file (`undo`), whoever has queued the document meanwhile.
`StartProcessing`, `SweepSources`, `ProcessDocument`, `EndProcessing` is the processing
loop; `KeepForNextRun` is how it ends early, and has the next run sweep again.
`DeleteDocument` and `RemoveDeleted` are the two steps of a deletion.

Abstractions: writing or removing a file is one step, which has ended when its caller is
cancelled; the listing of files and their removal, within a sweep, are one step, the list of
documents before it another; one upload request at a time for a name, served by a
process (`Server`); timeouts pass at any time; of LightRAG no more is assumed than that it
keeps one status per name, leaves a document alone that it has when it is queued again, takes
up what is queued or has failed, and refuses deletions while it works. Files are lost
in all the ways above; no property says that a queued document has one.

### Investigation

| Model | Code |
| --- | --- |
| `status`, `linked` | of the incident; its events |
| `task[t]` | status, scope, dependencies, events covered by evidence |
| `delegating`, `working` | delegations that have read the task and not committed; tasks with an active specialist |
| `analyses`, `reports` | versions in order, with review, coverage and snapshot |
| `late`, `overtaken` | history: events linked to the closed incident; tasks submitted while a delegation of theirs was under way |

One action per operation of the tools and requests, each under the incident's row lock,
but for the delegation (`BeginDelegation` reads, `CommitDelegation` commits) and the
publication. `Close` checks what `_closure_error` checks; a reopening is `MoveTo` from
closed.

### IncidentPublication

No state of its own: the variables of `Investigation` and `KnowledgePublication`, which
have the outbox (`event`, `knowledge`) in common. `create_intelligence_report` queues a
final report in the transaction that stores it (`CreateFinalReport`, a step of both);
every other step belongs to the case or to the loops. The reports are those of one
incident, whose versions are the places of `reports`.

## 4. What the runs show

All runs say `CHECK_DEADLOCK FALSE`: the bounds end every behaviour (clocks, tokens,
Attempts, events and faults run out), and the code itself may come to rest with nothing
requested. State counts are distinct states.

| Run | Instance | States | Shows |
| --- | --- | --- | --- |
| `lease` | 2 acquisitions, TTL 2, clock to 5 | 116,862 | `LiveHandleOwnsRow`, `OverlapOnlyPastExpiry`, refinement of `FencedResource` |
| `agent_handover` | a Run with one tool call, a specialist, 2 supervisors that may stop, 2 tokens, both faults | 1.7 M | `WaitWillBeAnswered`, `RunsOnSettledJournal` |
| `agent_waits` | a Run, a specialist, one call each, a process that stops once and is started again, lease lost and taken again, one sweep, fair | 128,784 | `RunningRunIsDriven`, `DiscardedChildIsCanceled`; `WaitingParentContinues`, `CancellationIsHonoured`, `AcceptedRunProceeds` |
| `event_stream` | a segment of 2 characters, 2 events, queue of 2, replays of 1, pages of 2, one fault, updates seen or not, fair | 191,674 | `CursorSkipsNothing`, `QuietStreamIsComplete`, `LiveSegmentsAreOpen`; `EventsReachTheClient` |
| `sandbox_faults` | one command, 2 acquisitions, every fault at once | 511,560 | `RunningJobIsAwaited` |
| `sandbox_stops` | 2 commands, crash or shutdown with takeover, no other fault, fair | 577,339 | `DeliveredCommandHasStopped`, `BatchDeliveredTogether`; `WaitingRunIsResumed` |
| `containers` | operator, monitor, executor, commands; a container started twice that may exit | 1.3 M | `GenerationNamesOneBoot`; `RunsKeepTheirBoot` |
| `deception` | 2 processes, one dies twice; 2 revisions of 2 steps; Docker and commands fail, fair | 118,858 | `EnvironmentShape`, `BaselineRestored`, `NothingLeftBehind`; `RevisionsSettle` |
| `detection` | 2 rules (one active), 2 sensors, 2 changes, one upset, fair | 91,291 | `ChangesEndAsRecorded`, `RulesRunTheirChange`, `DeploymentsKeepOtherRules`; `ChangesEnd`, `SensorsConverge` |
| `events` | 2 events of Zeek, one loop of each kind, a closed incident of the past, one upset, fair | 81,970 | `ChainUnbroken`, `NotifiedSignalIsComplete`, `ClosedGainsOnlyItsSignals`; `EventsAreDecided`, `SignalsAreNotified` |
| `knowledge` | 2 processes, a report, an upload, one fault, fair | 899,679 | `PublishedIsIndexed`; `ReportsArePublished`, refinement of `ReportOutbox` |
| `incident_publication` | an event, a task, 2 analyses, 2 reports, one reopening; one process, no fault of the loops | 915,828 | `ClosedCaseStands`, `ClosedCaseIsIndexed` |

**Bounds and why they are enough.** `MaxClock` 5 with TTL 2 gives an expiry, a takeover, a
renewal of the successor and its expiry, with clock readings of any age in between. Two
tokens give one change of ownership, hence a deposed process beside its successor; further
changes repeat it. In `agent_waits` the one change is either a lapse under a living process
or the stop of it anywhere, between and inside the steps of a cancellation too, with its
restart as the successor; in `agent_handover` each of two processes may stop, for good. One
tool call per Run is enough for a delegation, an ambiguous call and a call left open by a
crash. Two Attempts of the sandbox's Run let a batch of the first be found by the second.
Two jobs make a batch that can be settled in parts. A queue of two frames with a replay of
one event overflows before and during the replay, and a page of two leaves events below it.
Two starts of a container are what it takes to confuse two boots. Two steps and two
revisions give a step that fails after another succeeded, and a revision on top of one that
was applied; two crashes reach the recovery of a recovery. Two sensors let one fail after
the other runs the new bundle; two rules let a change meet a bundle that another change has
altered. Two events of one chain make an order, a gap and a signal that is joined late. Two
reports give a superseded one, two analyses one that is replaced after the report was
written; one reopening gives everything a closed case can undergo, and with it a second
report that is queued after the first was published. `incident_publication` has one process
and no fault, since `knowledge` has the two that sweep each other's files and the faults,
and the theorem about the two together has no bound on either; and it has one task: that
tasks which wait for others disturb no closed case is left to the proof. In `detection`,
`events`, `knowledge` and `event_stream` one fault may strike at any step; the proofs below
have no such bound. (`knowledge` without the upload was also run with two faults.) Where a
property is also proved, no bound matters.

**Where a property needs the absence of a fault.** These are facts about the code, found
by adding the fault to the run:

* `RunningRunIsDriven` fails with `db_error` (a transaction that fails inside `_fail_run`
  leaves a RUNNING Run without a task until the token changes) and with `stale_renewal`
  (tasks have given up, the token has not changed, nothing recovers).
* `DiscardedChildIsCanceled` fails with two supervisors: a deposed Attempt may add a child
  between the two transactions in which its successor cancels and discards.
* `WaitingRunIsResumed` fails with `db_error`: a command whose settling transaction fails
  stays RUNNING under the current lease.
* `DeliveredCommandHasStopped` fails with each of `kill_fails`, `inspect_error`,
  `overlap`, `late_launch` and `recancel`.
* `NothingLeftBehind` and `EnvironmentShape` are checked without `cancel_provision` (a
  cancellation or crash between the creation of a container and its binding leaves the
  container, or a draft that no operation accepts) and without `bind_race` (an operator
  removes a container that an environment is about to bind, or creates an environment with
  a container that a revision has created and not bound yet).
* `RunningJobIsAwaited` is about rows: under `kill_fails`, `late_launch` and `overlap` a
  command may live in its container although its row is settled and delivered.
* `EventsAreDecided` and `SignalsAreNotified` name the states `lapse` and `Stranded` in
  which the code stops, `NotifiedSignalIsComplete` the signals `dropped`,
  `PublishedIsIndexed` and `ClosedCaseIsIndexed` the documents `deleted`,
  `ReportsArePublished` a file that stays `torn`, `ClosedCaseStands` what came `late` or was
  `overtaken`; section 6 says how each comes about.
* `QuietStreamIsComplete` allows, beside a complete transcript, one that has a gap and holds
  an event behind it: a client whose update React deferred stays connected with it
  until the next event or beat.

**Fairness.** `AgentRuns!Fairness`: a live process keeps polling (`_loop` wakes every half
second), its tasks run, its shutdown ends; the renewal is strongly fair since every
iteration of `_loop` begins with one even if the rest of the iteration keeps failing; the
lease of a process that is gone expires, and a process that is to be started again
(`Restarted`) is. `SandboxJobs!Fairness`: some process keeps acquiring the lease and
polling, tasks progress (a command is bounded by its timeout), an owner that lost its lease
stops, and the status monitor looks. `AgentEventStream!Fairness`: a committed event is
broadcast unless its task was canceled, the Attempt goes on, the checkpoint and server loops
run, the client reconnects, receives and loads. A delta that created its segment is added to
it, and the model's call ends in the end (`AddFirstDelta`, `EndAttempt`). A quiet stream
beats, and its client looks at its store again (`Heartbeat`): by then React has run the
update. `FollowDemand` is strongly fair: the code follows such a demand whenever it comes,
but the choice of `seen` might always go the other way. `DeceptionExecution!Fairness`: a
stopped process boots, Docker calls return; the steps of an executor are strongly fair,
because each may have to wait for an advisory lock that others take in between.
`DetectionDeployment!Fairness`: the job goes on; starting one is strongly fair, because the
reconcilers ask for the lease again and again while others hold it; Zeek takes up the
desired bundle, collection cycles begin and end, a request on its way arrives.
`SensorEvents!Fairness`: each loop goes on, the sensor's health is recorded, debounces pass.
`KnowledgePublication!FairSpec`: both loops of every process go on, and `run_while_owned`
cancels one that has lost its lease. Nobody is obliged to request, interrupt, decide, type
or fail anything; commands need not end, containers need not stop or start.

## 5. What is proved

All proofs are checked by TLAPS for every value of the constants that meets the named
`ASSUME`s of the modules. They say that sentinel values are not members of the sets they
complete, that bounds are numbers, that supervisors that are restarted are supervisors, that
built-in rules are rules, that a change is asked for at least one sensor, and the like.
Unless a hypothesis below says otherwise, faults are unrestricted: what is proved holds
under all of them and any number. Each inductive invariant was first checked by TLC.

**`RuntimeLease_proofs`.** `TypeCorrect`; `LiveHandleOwnsRowAlways`;
`OverlapOnlyPastExpiryAlways`; `LeaseImplementsFencedResource`. `LiveHandleOwnsRow` is not
inductive: it does not say how old a clock reading may be. `LeaseInv` adds, for each
owner, that an acquisition that has not been granted does not own the row (`FreshOwner`),
that a heartbeat or operation belongs to a granted handle (`InUse`), that equal
tokens mean equal owners (`TokenNamesOwner`), that readings are from the past (`Timing`)
and that a handle that is not lost and not expired is backed by the row, now and with
the renewal under way (`Backed`). The refinement follows from `FreshOwner`: a takeover
always brings a new owner.

`WritesAreOrdered` is about `FencedResource`: fenced writes come in epoch order and an
epoch has one writer; with the refinement, so do the writes of the lease.

**`AgentRuns_proofs`.** `TypeCorrect`, and on it `LedgerInvariant`, which is inductive
for four facts together: a Run is owed at most one result, an ended Run is owed nothing,
a delivered child has ended, one foreground Run is active. They need each other and the
shape of the ledger (parents exist, children are created only for running parents
that are owed nothing). The lemmas go through the row operators
(`Discard`, `Deliver`, `SetStatus`, `Mark`): every action changes `run` only by them.
From it: `OneResultOwedAlways`, `EndedRunIsOwedNothingAlways`, `DeliveredRunIsDoneAlways`,
`OneForegroundRunAlways`. They hold whatever the lease does: in this part of the code the
transactions themselves, not the lease, keep the ledger right. No run repeats them.

`RunsOnSettledJournalAlways` rests on `SettledContexts`: an Attempt under the newest
token that is at work has no unsettled call in its Context but its own. It does not ask
whether the lease is still unexpired (`Own`), because what a deposed process writes into
the journal comes under an older token. `WaitsAreAnswerable` rests on `WaitInv`: a wait
is on a child whose result is owed, what a task is about to wait for is owed to it, and
`Orderly` says of nearly every transaction that it makes no wait stale. A sweep may: it ends
a child and reaches its parent later. So `WaitWillBeAnsweredAlways` has a hypothesis: there
are no sweeps, or one process. With both, the end of a sweep (`_mark_outbox_published`,
`supervisor.py:531`) checks no lease, so a deposed process could mark as published
a sweep that its successor is still carrying out. `_loop` dispatches the outbox before it
claims work, an order the model does not impose, so whether the code can get there is open;
TLC found no such state among 5.9 M with two supervisors.

`DiscardedChildIsCanceledAlways` rests on `ChildInv`: whoever drops a result has asked
before for the child to be stopped, and no child is made in between. It is for one
supervisor process, which may stop and be started again (`Restart`) any number of times,
under every fault; with two it is false (section 4). `RunningRunIsDrivenAlways` rests on
`DrivenInv`: a process that leads and has recovered has a task of its token for every
RUNNING Run, or has just stopped it and will cancel the Run. It is for any number of
processes and without the two faults, each of which makes it false (section 4).

**`SandboxJobs_proofs`.** `TypeCorrect`. `StatusFollowsTableAlways` needs types only: every
settler looks at the row it settles, in the transaction that settles it.
`BatchDeliveredTogetherAlways` rests on `DeliveryInv`: the commands of one Attempt are
delivered or discarded together, and a running Attempt, which may still create some, has
none of either. `RunningJobIsAwaitedAlways` rests on `AwaitInv`: a Run cancels its commands
and ends in two transactions, and between them its running commands have been been marked
and none is left to claim. `DeliveredCommandHasStoppedAlways` rests on `CommandInv`: a
command lives only under a running row and with a task, or as the orphan of a process that
is gone, and whoever settles a running row has seen its end. It allows transactions to fail
(`db_error`), crashes, shutdowns and restarts of the container; each of the other faults
makes it false (section 4). `StepKinds` sorts the actions by what they do to the rows, so
that the invariants are proved per kind and not per action.

**`DetectionDeployment_proofs`.** `Invariance` proves one invariant in three parts. `Book`
is about rows alone: at most one change is in work (`UniqueInWork`), versions exist, each
rule runs in the version of its active change, and a change under way was planned on what
the other rules run in. `Shown` ties deployments to the plan: a change that is over shows
it in each of its deployments. `Work` ties the rows to the job that holds the lease: which
change it drives and which sensors it still has to do (`JobDrives`), that what a rollback
is done with is undone or recorded as failed (`UndoLeavesNone`), and that a job that
remembers a failure has it recorded (`FailureIsNoted`). None of the three is
inductive without the others, because a job is dropped at any step and the next one
starts from the rows alone. From it: `OneChangeUnderWayAlways`, `ChangesEndAsRecordedAlways`,
`RulesRunTheirChangeAlways`, `DeploymentsKeepOtherRulesAlways`.

**`SensorEvents_proofs`.** `Chained`: journals only grow, so what a pass has pulled is
still a piece of the journal when it is stored, and the test of the previous hash at
ingestion keeps what is stored a beginning of the journal, whatever passes overlap.
`InHands`: what a pass has in hand is stored, and it has signals in hand only while it
decides and correlates. `Notified`: each event of a notified signal is linked or in hand,
since such a signal stays actionable, so that an event that joins it puts it into the hands
of the pass in the same step. From these: `ChainUnbrokenAlways`,
`NotifiedSignalIsCompleteAlways`, `ClosedGainsOnlyItsSignalsAlways`, for any number of
loops although neither kind holds a lease.

**`IncidentPublication_proofs`** proves the case, the publication, and the two together.

*The case* (`CaseInv`). `CaseSettled` ties the published knowledge to the outbox and the
reports to the outbox's names; `SpecialistsAccounted` says that a task somebody works on,
or is about to, is active or blocked, or was submitted while a delegation was under way
(`overtaken`). With them `ClosedCaseStands` is inductive: every operation that could
disturb a part of it is refused on a closed case, and the two steps that take no
incident lock are the publication, which only completes it, and the end of such a
delegation. From it `ClosedCaseStandsAlways`.

*The publication* (`KnowledgeInv`). A loop that has lost its lease may be anywhere in a
publication, so nothing is said of it but that its report was queued; the loop with the
lease works on a report that is not published (`Owned`), outbox and published state agree
(`Settled`), and when it is about to commit, the document is indexed or was deleted since
(`CommitIsIndexed`). A deposed loop cannot undo that without being recorded: it queues only
what LightRAG does not have, and what it deletes of a processed document is in `deleted`.
From it `PublishedIsIndexedAlways` and the refinement `ImplementsOutbox`.

*Together* (`SystemInv`). `SystemSteps` shows that a step of the composition is a step, or a
stutter, of each: what the loops do is to the case a claim, a retry or a publication of the
outbox, and what the case does leaves the loops alone but for queueing a report. So both
invariants carry over, and `IncidentImplementsCase` is the refinement, by which
`ClosedCaseStands` holds beside the real loops too (`ClosedCaseStandsTogether`). What is new
needs two facts that neither side can state: what is queued is a final report of the case
(`QueuedIsFinal`), and what the knowledge base holds was queued (`DocumentIsQueued`). From
them `ClosedCaseIsIndexedAlways` and `IndexedReportIsFinalAlways`, for any number of
processes, reports, uploads, deletions and faults.

**`AgentEventStream_proofs`.** `Invariance` proves one invariant; it follows an event from
its commit to the client, and a segment from its first delta to the event that ends it.

* `TaskInv`, `FiniteInv`, `CommitInv`: no event ends a segment while its task may stream
  it, an interruption has finitely many to end, and each committed event has one
  publisher, which holds the events of one transaction.
* `LinkInv`, `FramesFit`: what a subscription holds at each stage of its replay, and that
  its frames name committed events and a replay joins what the client has.
* `HeadInv`: the client has all that was announced, or it holds, or the flow towards it
  brings, an event as recent as any of it, unless the subscription was closed or has not
  read its head. With it the client that receives a late event knows that it lacks one.
* `OnceInv`: an event past the replay is still to be broadcast, on its way once, or held.
  Without it a duplicate could be taken for an event the client waits for.
* `DeltaInv`, `ShownInv`: after each delta on its way, and for each segment shown, the
  segment is still open, or the event that ends it follows in the flow.

`HeadInv` gives `QuietStreamIsCompleteAlways`, `ShownInv` `LiveSegmentsAreOpenAlways`;
`CursorSkipsNothingAlways` is proved with them. All hold whenever the client's updates run,
for any segments, lengths of text, queue sizes, replay limits and pages, and any number of
cancellations, restarts and lost connections. The actions are sorted by what they touch:
records only (`RecordsStep`), a broadcast (`BroadcastStep`), and each step of the
subscription and the client. Two facts about data would need an induction: that a bounded
set of numbers has a highest element, and what the recursive function in `Offered` returns.
Both are proved by looking at the least number for which they would fail (`LeastExists`).

**`DeceptionExecution_proofs`.** `TypeCorrect` needs more than types (`WellFormed`): a
stage of an executor says that it has a revision and, past the creation, a container that
exist, and that its Docker mutation is the one its stage asks for. The containers' part
is proved once for `BoxStep`, the operations of `SandboxContainers` and the five things
that environments and executors do to containers; `StepIsBoxStep` shows that every step of
the composition is one of them. `SelectionIsLiveAlways` (a Session points at nothing but
a running container in its present generation; no run repeats it) needs types only: the
transaction that takes a row from RUNNING, or to another generation, clears what points at
it. `GenerationNamesOneBootAlways` rests on
`BootInv`: a generation the row has not reached names no boot, and while the row could
come to RUNNING without a new generation (it is RUNNING or PAUSED, Docker has the
container paused, or a pause is under way: `Pinned`), the current one names at most the
boot Docker has. That in turn needs `LockInv` (the advisory lock is held exactly during a
mutation), `ReadInv` (rows that somebody has read exist and a start waits on a row that
is down) and `RunInv`, from which `RunsKeepTheirBootAlways` follows: a
container that a Run is bound to is not paused and no mutation but a resumption is under
way. These hold for any number of containers, environments, processes and operators, and
under every fault.

The environments and the executors of their revisions are proved with `RevisionInv`, which
is inductive only as a whole:

* `Leases`: a revision has one executor, since the claim takes a lease.
* `RowInv` ties the three kinds of rows together. `EnvFits`: an environment has its shape,
  its active revision is under way and its own, its container is not removed. `RevFits`: a
  revision under way is its environment's active one and of the kind that the planning
  chose. `BoxFits` with `Awaited`: a container that was created for a revision exists only
  while the revision is under way and its environment has it, or while the executor that
  made it is about to bind it. This is where a leak would show.
* `RemovalInv` and `GoneInv`: an operator removes only what no environment has or awaits,
  only an executor deletes, and what is gone from Docker holds no effect.
* `StepInv`: what the status of a revision and of its steps says of the effects in its
  container. An executing revision has every verified step in effect, a rolled back one
  none; a step that is PENDING or ROLLED_BACK has no effect anywhere.
* `ExecInv`, that each executor is `Sound`: what it knows at each of its stages of rows it
  read in an earlier transaction. `ProvisionalFits` is for the creation of the container,
  `ApplyingFits` for the steps, `UndoingFits` for the rollback, where a recovery may
  start with any prefix of the steps done.

`StepRevisions` sorts the steps: what others do to rows and containers (`OutsideKeeps`,
`DockerKeeps`), the requests (`RequestKeeps`), and what one executor does from its claim to
its end or crash (`ExecutorKeeps`, with `TransactionKeeps` for a transaction of one
environment and one revision). These lemmas leave each action to show only that its own
executor stays `Sound` and its own rows fit.
`EnvironmentShapeAlways`, `BaselineRestoredAlways` and `NothingLeftBehindAlways` follow,
for any number of environments, revisions, steps, containers, executors and operators and
under every fault but `cancel_provision` and `bind_race`, with which they are not checked
either: each of the two breaks the binding of container to revision (section 4).

**Only model-checked.** All liveness, since fairness and ENABLED are beyond the prover.
Every invariant and action property that a run checks, and every refinement, is also
proved.

## 6. Facts about the code met while modelling

No property states these; they are in the models, because the code behaves so.

*Runs and commands.* An ambiguous call of a Run that the runtime itself queued cannot be
decided: `resolve_invocation` refuses (`tool_invocations.py:225-234`) and admission refuses
to claim the Run until it is. The cancellation of children and `create_child_run`
check no lease and no Attempt, so what is left of a deposed Attempt changes the Runs its
successor works with (`supervisor.py:1190`, `delegation.py:46`).
`execute_sandbox_container_command` turns a failed termination into `RuntimeError`
(`commands.py:450-452`), so the handler that would ask an operator is never reached. One
failed inspection followed by a good one counts as a restart (`status.py:236`), and the
commands bound to the old generation are failed without being stopped
(`command_jobs.py:232`). A command is started outside `run_while_owned`
(`command_jobs.py:161`), so an owner that loses its lease there starts it after its
successor has failed the job.

*Event stream.* Subscribers are local to a process: a client connected to one without
the supervisor gets hello, replay and heartbeats only. A canceled task can commit an event
and never broadcast it; the client notices at the next event, which the interruption always
commits. The checkpoint of live segments can mark a completed one as streaming again, and a
second, interrupted completion follows. A crash between the checkpoint COMPLETED and its
event loses the segment from the transcript. A late broadcast of an event older than the
loaded page adds just that event below the page. `onMessage` reads `requiresRebase` and
`nextCursor` before React need have run the update that sets them
(`AgentSessionProvider.tsx:438-464`): a gap can go unnoticed until the next event or
beat, and a hello can be acknowledged with 0, which costs a replay or a reload.

*Containers and environments.* The snapshot of the monitor includes REMOVED rows, which come
back as ERROR. An observation that a command saves late puts an old status over a row that
was restarted meanwhile; the monitor heals it. `_update_step` checks no lease. Startup
recovery returns at once if another process holds the recovery lease.
`delete_revision_sandbox_container` looks at its own environment only (`lifecycle.py:731`):
it deletes a container that another environment was created with before the revision could
bind it (`bind_race`). The egress of a container is committed before it is applied.

*Detection.* A refresh between the verification and the activation of an interrupted
deployment puts the current bundle back, and `_activate_change` trusts the recorded health;
the next refresh heals it. A change in RECOVERY_REQUIRED has no way out and blocks all
later ones. A rollback to no bundle, after Zeek failed to start, is never healthy. A change of
a global rule that was approved for some sensors reaches all by refresh.

*Events.* `_complete_activation`, `_rollback_deployment` and `_refresh_owned` set
`last_sequence` to the head of the journal: events that were not collected leave a gap, and
every later batch of the chain conflicts. Lines that the old bundle logged and the adapter
journals after a switch are refused for their bundle hash. Both are `lapse`. A Zeek log
that was truncated, and one whose scan raised, is journaled again from where its offset was
saved (`adapter.py:306`, `316-328`), so that one line becomes two events; a half-written line
becomes none. A signal nobody was told of in
an incident that was then closed makes correlation raise, and its batch fails for ever
(`Stranded`). A pass that breaks off between decision and correlation of a notified signal's
event leaves the event unlinked for ever (`dropped`). A notified signal in its cooldown
keeps adding events to its closed incident and tells nobody.

*Knowledge and investigations.* A queued document can lose its file in three ways: the sweep of
a starting process removes files that were written and not queued when it listed the
documents; a publisher cancelled while it queues removes the file by name, though its
successor may have queued it (`resources.py:294`); a deletion removes the file in a second
step, though the name may be in use again (`resources.py:359`). A report heals by its
retry, a user's upload fails for ever. A write that breaks leaves a part of the file, and
every retry then raises a conflict (`resources.py:283`) until a run that recovers sweeps it,
which may take a restart. A deposed publisher that was about to reset a failed document
deletes it by its identifier (`resources.py:277`), even if its successor has had it indexed and
published meanwhile. The delegation reads incident and task without a lock
(`overtaken`). A task created with all its dependencies completed stays queued until it is
activated by hand. A superseded final report is still published; a draft can replace a
final report as the current one; no operation cancels a task.

The tables of status transitions in the schema files are enforced by the code only for
incidents; the other modules take their transitions from the operations.

## 7. Not modelled

* *Conversation memory and compaction*: token budgets and item formats decide what
  happens; what does not depend on them is single transactions of one Attempt. (The input
  of a retried Run may be compacted before the model sees it.)
* *Agent definitions, model access, most agent tools*: an external model, whose answers are
  nondeterministic in `AgentRuns`; the tools are thin wrappers over services that are
  modelled.
* *Sandbox access, proxies, hosts, container images other than the Zeek adapter*: I/O, and
  records without interleavings.
* *Users, configuration, HTTP layer, persistence schema, evidence documents, workbench*:
  single transactions, routing, layout. Of the workbench, the store that follows the event
  stream is modelled.
* Within modelled components: paging back through history; evaluations, artifacts and
  reference bundles of revisions; rule contents, validation and replays; the offsets at
  which the adapter reads Zeek's logs; imported events, and with them the ingestion into a
  named incident (`explicit_ingest`), which reads the incident without a lock; the chain of
  the control plane's own observations, whose next sequence is read without a lock
  (`control_plane.py:69`); egress changes and the caches of tool bindings; relations between
  evidence; queries of the knowledge graph; titles, archiving and access checks.
* Row-level lock order: transactions are atomic here, so lock cycles (such as
  `async_jobs.py:174` with the resumption of Runs) appear only as `db_error`,
  which is what PostgreSQL makes of a deadlock.
* Effects of tools outside the database: an operator's answer about an ambiguous call is
  accepted as given.
* A Run that is owed both a child result and a batch (`supervisor.py:908`): the two waits
  are in two modules.
* An executor of a revision that stalls past its lease and goes on
  (`executions.py:1260`): a process is lost, or it is not.
