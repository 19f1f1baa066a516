# A verification development for shipctl's runtime core

shipctl is a desktop workspace whose features are *modules*: TypeScript
activations in a webview, served by a native Rust host. This directory holds
TLA+ models of the parts in which threads, tasks, the webview and several
processes meet; TLC runs that check them on small instances; and TLAPS proofs
of the results that hold for every value of the constants.

`PROJECT.json` is the index: for every definition the source lines it stands
for, for every property the run that checks it and a plausible bug (a *mutant*)
that breaks it, for every hazard of the code the properties that cover it.

- [The system](#the-system)
- [The modules and the code](#the-modules-and-the-code)
- [How the models fit together](#how-the-models-fit-together)
- [What the runs show](#what-the-runs-show)
- [Bounds](#bounds)
- [Fairness](#fairness)
- [What is proved](#what-is-proved)
- [What is only model-checked](#what-is-only-model-checked)
- [Disagreements and known behaviours](#disagreements-and-known-behaviours)
- [What is not modelled](#what-is-not-modelled)
- [Plan](#plan)

## The system

```
 command lines                                        archives of a build
   |       |                                                  |
   |   instance control              artifact repository (stages, payloads)
   |   (descriptors, endpoint)                |
   |       |                          registry (SQLite)     schedule directory (YAML)
   |       |                                  |                       |
   |       |         module control  --revision-->  supervisor, reconciler (webview)
   |       |                |                              |  family of activations
   |  terminal host         |                              v
   |   |        |           |                       frontend bridge <--frames-- native bridge
   |   |   semantic         +--------------------------------------------------+   |
   |   |   terminal                            schedule leases <---------------+   |
   |   |        |                                    |                             |
   |  projection, screens (webview)              scheduler ---deliveries--->  message bus

 canvas, service, accepted catalogs ---> workspace authority (webview) ---> plugin data (host)
```

In the table, paths are relative to `src/core/backend/src/` unless they start with
`core/`, `src-tauri/`, `cli/` or `modules/`, which are under `src/`.

| Component | State | Operations | Interacts with | What is hard |
|---|---|---|---|---|
| **Message bus** (`message_bus/runtime.rs`, `routes.rs`) | immutable route tables with a generation; registrations with a bounded queue and a worker per channel and port; retired registrations | register, replace, reconcile, publish, withdraw, reap; send, request; publish to topics | native bridge and host modules register; scheduler sends and prepares candidates under its update lock | callers keep old tables, await places in queues that close under them, or are dropped; workers stop between messages; withdrawal and reaping race both |
| **Scheduler: acceptance** (`scheduler/runtime.rs`) | accepted snapshot with generation and route binding; declared overlay; startup candidate; snapshot watch | refresh, withdraw, replace declared definitions, reconcile with routes, apply the startup candidate | reads the schedule directory; takes the bus lock inside its refresh lock | two locks; routes change between check and commit; the startup candidate may be applied late |
| **Scheduler: jobs** (`scheduler/runtime.rs`) | one task per accepted definition; last attempt; target availability | reconcile jobs, deliver, revalidate, trigger, shut down | watches snapshots and routes, sends through the bus | tasks observe watches at moments of their own and are told to stop while they send |
| **Schedule leases** (`scheduler/leases.rs`, `core/tauri/src/scheduler.rs`, `message_bridge.rs`) | lease table, owners of schedules, observers; lease files in the schedule directory | register, cancel, declare, release, observe; purge at start | called by activations through the bridge; calls the scheduler | authority is checked before the mutation lock is awaited; files fail; the process ends between file and table |
| **Delivery reports** (`scheduler/leases.rs`, `core/frontend/platform/scheduler.ts`) | per observer a sequence number; per subscription the last one seen | record, number, send, receive, listen, dispose | the bridge's channel | numbering and sending are not one step; ownership moves under a delivery |
| **Message bridge** (`core/tauri/src/message_bridge.rs`, `core/frontend/host/messageBusBridge.ts`) | pending replies; the known family and a minimum generation; a chain of dispatches | deliver, request, reply, reconcile, close | bus workers on one side, module handlers on the other | frames of two families in flight, late and repeated answers, handlers that call their own webview |
| **Live reconciliation** (`module_control/live.rs`, `registry/mod.rs`, `core/frontend/runtime/liveModuleSupervisor.ts`, `liveReconciler.ts`) | desired revisions; revision channel; accepted family; reports | commit, notify, observe, prepare, switch, install, retire, report, recover | registry file shared with the command line | coalesced and lowered notifications, torn reads, failed reports, restarts with another build |
| **Module registry, selection** (`module_control/registry/`, `src-tauri/src/modules/bundled.rs`, `cli/src/headless_kernel.rs`) | SQLite rows: desired state, catalog, intents, receipts, static inventory | transitions, removals, idempotent installations, selection of bundled archives | host and command lines write one database | every writer computes its row from a snapshot read before; a start must not undo what a user chose |
| **Artifact repository** (`module_control/repository.rs`) | stages, published payloads, the lease of installations | install, resume, recover, register | module registry; started by the host and by command lines | a process can end, and a write fail, between intent, stage, rename and registration |
| **Terminal host** (`terminal_host/`, `core/frontend/terminal-host/`) | record, actor and process of each terminal; the webview's projection and tombstones | spawn, exit, close, shut down; publish, list, observe | webviews and command lines close the same terminals | callers race the exit, the shutdown and each other; events, answers and lists overtake each other |
| **Semantic terminal** (`terminal_host/runtime.rs`, `semantic_terminal/`, `core/frontend/platform/semanticTerminals.ts`, `modules/semantic-terminal/`) | subscribers with credit, resize authority, leases; attachment and view in the webview | attach, publish, credit, detach; reveal, conceal, recover | terminal actor, service, adapter, controller | credit counted on both sides; views that go while an attachment is being opened; exit with screens owed |
| **Instance control** (`instance/control.rs`, `leases.rs`) | locks and descriptors in the runtime root; an accepting thread, a worker per connection, streams | start, publish, probe, reclaim, select; attach, stop, drop | command lines; terminal host | processes start, stop and crash under a scan; a stream is written and closed by three threads while the server stops |
| **Workspace** (`core/frontend/workspace/`, `plugin_data/`) | a revision of the document and its catalog in the webview; a record with a revision on the host; a queue of canvas actions and one of catalogs | open, migrate, evaluate, commit, adopt, reconcile a catalog; thirteen commands on trees of stacks | an accepted family submits its catalog; canvas, service and catalogs edit side by side | a command is computed before an await and its answer used after it; conflicts, failing storage and reloads; long sequences of commands |
| **Assistant sessions** (`assistant_launch/`, `modules/assistants/frontend/src/runtime.ts`) | records of sessions in memory and in a manifest, frozen by a confirmed shutdown; per activation what it launched, what it captures and what it restores | launch, resume, exit, close; capture and give up; preserve, claim, arm again; reactivate | terminal host, the shell's shutdown, the user | loops and the shutdown capture one session side by side; the process ends, or a write fails, between disarming a record and starting its process |
| Application state, settings, skills, git, processes, logs, credentials, usage, command line, shell, module API | files and external programs | one call each | the tauri adapters, the command line | mostly input and output |

`PROJECT.json` lists all components with their sources and status.

What makes each component correct, in one line each:

- *bus*: a message is handled by the owner that its generation names, or by
  nobody; a withdrawn owner becomes quiet before it is reported disposed; every
  call ends.
- *acceptance*: a snapshot is accepted as a whole, against one published table;
  declared definitions never disappear behind a refresh; the locks are released.
- *jobs*: one controlled job per accepted definition, none that escapes; records
  only for what is accepted; stopped tasks end.
- *leases*: table, directory, overlay and accepted schedules tell one story
  whatever fails; a release leaves nothing.
- *reports*: rising numbers, only to owners, silence after disposal.
- *bridge*: an answer belongs to its question, a frame to its family; requests
  and the close end.
- *reconciliation*: what is served is alive, nothing else is; the last revision
  is settled and reported.
- *registry and artifacts*: what is registered is on disk as a whole, what is on
  disk is registered or resumed; no choice of a user is lost; a start ends.
- *terminals*: a terminal leaves once, after its process; a projection misses
  none, no list takes a later observation back or brings a removed terminal back
  (a second list does: `terminal_return`); a view shows the last screen of a terminal
  that runs, and leaves nothing on the host.
- *instances*: what a command sees was true while it looked; streams are whole;
  a server that is told to stop ends.
- *assistant sessions*: what a confirmed shutdown preserved comes back, each session
  once and as itself; what is offered to be restored is there.
- *workspace*: who edits is told the truth about what was saved; a layout stays
  whole and a command moves only what it names.

## The modules and the code

Each model has one module; `MC*.tla` gives values that a `.cfg` cannot write and
puts models that share no state side by side; `*Proofs.tla` extends the model with
its theorems. A definition has the name of the function it models where there is
one. Definitions commented `Mutant:` are variations that no specification uses:
they are the faults that the properties must detect.

### MessageBus

State: `tables` is every route table published so far (`tables[g]` has
generation `g`; the code keeps the last in a watch and callers keep clones),
`announced` the public snapshot watch, `cancelling` what the holder of the update
lock has still to cancel. `withdrawn`, `retired`, `disposing`, `disposed` are the
stages of a replaced registration, `stopped` its ended workers, `queue` the
bounded channels. Of a call, `stamp` is the generation of the table it read and
`owner` the registration found there; `caller` and `work` say where the calling
task and the enqueued message stand.

Actions: `RegisterMany`, `Replace`, `ReconcileMany`, `PublishComplete`,
`WithdrawMany` compute a complete table and `Publish` it; `Announce` and
`WithdrawAndCancel` are the rest of the critical section, visible to others
because callers do not take the lock. `Lookup`, `CheckWithdrawn`, `Enqueue`,
`Receipt` are the awaits of a call, `Abandon` the drop of its future. `Receive`,
`AcquireLease`, `Finish`, `StopWorker` are a worker's loop; `ReapRetired` and
`Dispose` the two halves of reaping.

### ScheduleAcceptance and AcceptedSchedules

`op` is the operation that holds the refresh lock, with its candidate;
`busHolder` the holder of the bus lock across steps. `generation`, `accepted`,
`binding`, `overlay`, `degraded` are `SchedulerState`, `watch` the snapshot watch;
`retained`, `startup`, `waiter` the startup candidate and the task that waits for
routes. An operation is `Begin…`, `Preflight` (or `ReconcileRoutes`,
`ReconcileAnnounces`, with the bus lock kept), `CommitCandidate`,
`PublishSnapshot`. The content of the directory is chosen anew at every load.

`AcceptedSchedules` is what the rest of an instance may rely on: one step
accepts a complete set of definitions against one published table, not older
than the last, or takes one definition away. `ScheduleAcceptance` implements it
under the identity mapping of four variables; the locks, the candidate and the
waiter are hidden.

### ScheduleJobs

A commit in four steps (`Prepare`, `Commit`, `PublishWatch`, `ReconcileJobs`; or
`Withdraw` in place of the first two) races the tasks in `worker`. A worker's
`pc` names its await: a task runs from one await to the next, but the state lock
and the watches are read separately, so those reads are steps. `<<id, v>>` is the
job spawned by snapshot `v`, `<<id, 0>>` a manual trigger. `jobs` is the job table.
Here `ScheduleAcceptance`'s commit is refined into its parts, and its routes are
abstracted to the set of schedules whose target is routed.

### ScheduleLeases

`lease` and `owner` are `SchedulerLeaseState`; `source` is the lease files,
`userFiles` and `broken` the rest of the directory; `overlay` and `accepted` what
the scheduler holds. `op` is the operation under the mutation lock, step by
step, because explicit refreshes, edits of the directory, route changes and a
restart may come in between. `request` is a call whose authority has been looked
up and which waits. Operations of the scheduler are single steps here: that is
what `AcceptedSchedules` and its refinement justify.

### DeliveryFrames

`Record`, `Publish`, `Send` are the three sections of a delivering thread: under
the scheduler's lock, under the leases' lock, under none. `Receive` and `Listen`
are the frontend's acceptance of a frame and the promise chain of listeners.

### MessageBridge

The native half: bus workers (`Take`, `FreeWorker`, `StopWorker`), pending
replies, `Shutdown` and `Withdraw` of a close. The frontend half: one frame at a
time (`Dispatch`, `Handle`, `HandlerEnds`, `SendReply`), reconciliation (`Reconcile`
to `Install`) and close. The bus is reduced to one queue and worker per module
and family; what `MessageBus` shows about withdrawal is assumed in `StopWorker`.

### LiveReconciliation

The registry (`history`, `acceptance`, `failureLog`) outlives a process; the
revision channel (`watch`, `notifying`, `written`), the host's memory (`runtime`,
`failures`, `routes`) and the webview's state (`phase`, `queue`, `family`, `live`, …)
do not. A revision desires a *graph*; a build can load some graphs, the bridge
can route some. Each await of the supervisor and the reconciler is a phase. The
switch of routes is one step: `MessageBridge` and `MessageBus` model its inside.

### ModuleRegistry

State: the tables of SQLite (`catalog`, `intents`, `receipts`, `static`, `desired`),
and of each writer of desired rows (`live`, `headless`, `seed`) the row it read and
the row it will commit (`edit`). A transaction is one step. `choice` is history:
what the user committed last. `ReadLive`, `ReadHeadless`, `ReadSeed` plan a row from
a snapshot; `Commit` and `Reject` are `validate_mutation`, which compares
configuration revisions. `EnablesInitial` and `ReplacesBundled` are the policy of
`bundled.rs`. An archive stands for its digest.

### ArtifactRepository

Extends the registry with the files (`published`, `stage`), the installation that
holds the lease (`add`), and the start of the host (`host`, `left`, `chosen`). An
installation recovers pending intents, looks up its request, writes intent and
stage, publishes by rename, registers and completes; each is a step, a write may
fail at each, and either process may end between two. `Seeding` is
`seed_bundled_artifacts`: it installs every archive of the build, selects and
commits; `cause` records why a start failed.

### TerminalLives, TerminalHost

`TerminalLives` is what the host promises to whoever projects its terminals:
registered once, removed once, lifecycle and revision only rise. `TerminalHost`
implements it. Its state is the registry (`records`), the record of each terminal
with lifecycle, revision and exit, its `spawn`, `actor` and `child`, and of every
caller and terminal the call of close (`closing`), which marks, sends, waits and
removes in steps of its own. The host itself is one more closer, at shutdown.

### TerminalProjection

The webview side (`TerminalClientRuntime`), on top of `TerminalLives`. The host's
publications check that a terminal is registered in one step and deliver in
another (`Check`, `Deliver`); answers to commands and lists travel apart
(`replies`, `list`). `TakenFrom`, `Observed` and `Tombstones` are the three cases of
`#commitSnapshot`.

### TerminalScreen

One terminal and the attachments of a view: the actor's subscribers and credit
(`sub`), who may resize (`authority`), the service's `leases`, the events and
commands on their way (`wire`, `calls`, served in the order of the calls, as sync
commands are on the main thread), the adapter (`att`), controller and session
(`view`). A screen is the number of the output it shows.

### ControlServer

The endpoint of one process. `loop` is the accepting thread, `worker` a thread per
connection, `sink` the terminal's thread inside an attachment, `writer` the lock of
a stream. `wait_for_stream` is two steps, `Watch` and `Wait`: the flags are set and
notified without its mutex. `wire` holds the frames of each connection as a client
would read them; a client may be silent, leave, or (if `Rude`) stop
reading or send more than its request, which ends its stream as its end does. A long reply
to a client that stopped reading keeps its worker (`Reply`); stops, refusals and their
answers are short.

### InstanceDirectory

The processes that share a runtime root, and commands. A process locks name and
state root, binds, publishes, and ends by stop, quit or crash; a command lists,
reads, probes and reclaims one descriptor at a time, selects and asks. `steady` and
`hidden` are history: who served, and who had stopped, when a command listed.
Commands of a build with another control protocol are in `foreign`.

### Workspace

`state` is the revision and document that the authority holds, `published` the records
that the host has stored, `inbox` the calls of the webview on their way there. Of a call,
`step` says which await it is at (`sent` and `answered` for the comparison and the save,
`asking` and `told` for the read after a conflict), `answer` what it got, `outcome` what
its caller was told. `canvas` and `submitted` are the two promise chains that serialize
canvas actions and catalogs; commands of the service (`Inspect`, `Apply`) are not
serialized. `Evaluate` decides from the revision that is held, `Saved`, `Conflicts`,
`Adopt`, `Fails` are the continuations of `#commit`. A document is the set of edits that
made it, with the catalog that it was reconciled under.

### AssistantSessions

`saved` is the manifest and `held` the records in memory; every operation of the registry
goes through `Mutate`, which is refused while the records are `frozen` and keeps in memory
what it could not `Write`. `ClaimForRestore` alone takes a failed write back. `process` is
the process of a session on the host; `awaited`, `attached`, `resumed`, `exits` are what an
activation of the module knows of it, each updated by an answer or event of its own.
`loops` are the timers and awaits of capture: a loop reads the record when it is adopted,
looks for a transcript (`Attempt`, `NotFound`, `Found`) and marks the capture as failed when
it gives up (`GiveUp`, `FailCapture`). `quit` is the confirmed shutdown, with the last
attempts (`LastAttempt`, `LastCapture`) before `PreserveSessions`. `Reactivate` ends an
activation, `Relaunch` a run, at any step. `told`, `confirmed`, `unsure`, `unsaved`, `spent`
and `doubled` are history: what the last write said, whom a shutdown armed, and who was
started twice.

### WorkspaceDocument

What the edits do: `instances` with their lifecycle, the tree `root` of splits and
stacks, `floating`, `maximized`, and the `views` of the catalog. One action is one
command of `#reduce`, with its recursive helpers on trees (`Without`, `Replaced`) and its
allocation of identities (`Allocated`). Guards are the refusals of the commands; what
`parseUiWorkspaceDocument` demands of a result is a property (`Whole`), not a guard.

## How the models fit together

Models that share state extend each other: `ArtifactRepository` runs on the tables
of `ModuleRegistry`, `TerminalProjection` on the promise `TerminalLives`, and each
`MC*` module instantiates its model. Between the others the interface is a promise,
stated by one and used by the other:

- `AcceptedSchedules`: one step accepts a complete set of definitions against one
  published table. `ScheduleAcceptance` implements it (`AcceptedSpec`, checked and
  proved); `ScheduleJobs` and `ScheduleLeases` use accepted snapshots that way.
- `TerminalLives`: `TerminalHost` implements it (`HostKeepsPromise`, checked and
  proved); the host of `TerminalProjection` takes the steps that it
  allows, up to a bound on revisions, and publishes what each changed.
- `MessageBridge` uses queues that close with withdrawal, as `BusSettles` and
  `DisposedIsQuiet` show of `MessageBus`.
- `LiveReconciliation` uses a route switch that happens or is refused as a whole,
  as `ReconciledTogether` shows of the scheduler's transaction, and revisions that
  `ModuleRegistry` commits one at a time.
- `AssistantSessions` starts and closes processes in single steps and hears of each exit
  once, after it: that is what `TerminalHost` keeps (`RemovalsAreFinal`).
- `LiveReconciliation` accepts a family; its catalog is what `Workspace` takes in
  `Submit`. A set of edits there stands for a document of `WorkspaceDocument`: that any
  sequence of commands leaves a layout which the parser admits (`LayoutsStayWhole`) is
  why `Evaluate` may commit whatever is admitted.
- `InstanceDirectory` abstracts an endpoint to how far its process is;
  `ControlServer` is its inside: that a stop withdraws the descriptor before it is
  answered (`StreamsEnd`) is what `RequestStop` uses.

`MCDeliveries`, `MCModules`, `MCTerminals`, `MCActivations` and `MCScheduleAcceptance` are sums: `part` says
which of the models a behaviour is about, the others stay as they start. They add no
interaction; they let one run ask the questions of models that belong to one subject.
`AcceptedFamilies` is the part of the last one that is proved about: schedules and workspace.

## What the runs show

| Run | Configuration | Shows | States |
|---|---|---|---|
| `deliveries` | `MCDeliveries.cfg` | sends and requests race publication, cancellation, stop and reaping: routes of the current table have workers; a message is handled only by the owner in the table of its stamp; a disposed registration is quiet; every call that found a route ends and every queued message is handled or dropped. Of the scheduler: no job escapes, jobs are those of the snapshot, the last attempt is of the accepted definition and file; stopped jobs and triggers end whatever is full or gone; availability converges to the route | 380 542 |
| `acceptance` | `MCScheduleAcceptance.cfg` | every commit is one step of `AcceptedSchedules`; declared definitions stay; routes and schedules of a reconciliation come together; the refresh lock is released and the startup candidate resolved. Of the workspace: an applied edit is saved for good and any other is nowhere, an accepted catalog is installed or its failure reported, what is held is what was saved; every edit and catalog ends. Of its document: any sequence of commands leaves a whole layout | 351 261 |
| `jobs_rename` | `MCScheduleJobsRename.cfg` | **violation**: an accepted schedule without a running job | |
| `activations` | `MCActivations.cfg` | table, directory, overlay and accepted schedules agree between operations; a successful release leaves nothing but what was authorized before. Of the sessions of assistants: what a confirmed shutdown preserved stays, is armed and comes back once, no capture is replaced, what is offered to be restored is there | 742 496 |
| `leases_late` | `ScheduleLeasesLate.cfg` | **violation**: a call served after the release of its activation | |
| `modules` | `MCModules.cfg` | registry and files tell one story whatever ends or fails; no choice of a user is lost to an older edit or to a start; a start ends; answers belong to their frames and frames to their families; reports rise, go to owners, and stop at disposal; requests and the close of the bridge end | 168 405 |
| `artifacts_start` | `MCArtifactRepositoryStart.cfg` | **violation**: a host that does not start because of an interrupted stage | |
| `reconcile` | `MCLiveReconciliation.cfg` | served families are alive, nothing else is; no old graph under a new revision; success means public; desired, settled and reported revision meet | 680 346 |
| `terminals` | `MCTerminals.cfg` | a terminal leaves once, after its process, and whoever closes it is told its exit; the host keeps `TerminalLives`; the projection misses no terminal and no list regresses; adapter and actor count the same credit; a view leaves nothing; streams are whole and leave nothing; commands see what is true; closes end, screens catch up, a stopped server ends | 343 294 |
| `terminal_return` | `TerminalProjectionReturn.cfg` | **violation**: a removed terminal that a list brings back | |
| `terminal_screen` | `MCTerminalScreen.cfg` | **violation**: a view that keeps an older screen of an exited terminal | |
| `stop_blocked` | `ControlServerStop.cfg` | **violation**: a stop that joins a sleeping worker for ever | |

The type invariants (`TypeOK`, `TypesOK`) also hold the bounds of queues and counters
(`Len(queue[w]) <= Capacity`, `sequence` at most the number of deliveries, `runtime`
at most the recorded acceptance). Several properties are conjunctions: of two
directions (`TableAndSchedulerAgree`, `FilesAndCatalogAgree`), of two observers of one
promise (`FramesFindTheirOwn`, `ListsAreTrue`, `ShownAndReported`), of one promise to
several callers (`ToldTheTruth`, `SessionsComeBackOnce`), or of one question asked of several parts
(`ModulesSettle`, `DeliveriesSettle`, `AcceptancesSettle`, `TerminalsSettle`), or of a stream and of what is
left of it (`StreamsEnd`). The modules define and comment each conjunct.

Exceptions are part of the properties and name a behaviour of the code:

- `ReleasedOwnsNothing` excepts activations served late (`leases_late` shows that
  they exist); `LeasesAccepted` and `NothingWithoutLease`, the halves of
  `TableAndSchedulerAgree`, are for executions in which no file operation failed,
  `OverlayFollowsTable` and `ReleasedOwnsNothing` are not.
- `OwnersOnly` excepts schedules that changed hands between record and numbering;
  `RequestsEnd` requests that became pending after the close and handlers that wait
  for their own webview.
- `RevisionsMeet` is for executions in which no call failed: a failed catalog read is
  reported and not repeated. It also excepts channels that a late notification lowered.
- `ResumedOnce` and `OfferedIsKept`, parts of `SessionsComeBackOnce`, except runs in which
  a shutdown could not save what it armed (`unsaved`); `OfferedIsKept` also the sessions that
  their user, a failing write or their start used up (`spent`).
- `UserChoiceKept` protects the switch of a module always, its selection unless the
  user chose what the host had bundled, which a newer build may replace.
- `StartRecovers` allows a start to fail for a failing write, for a conflict of one of
  its own archives, and for an edit that came between.
- `ServerSettles` excepts clients that do not send, or do not read, and workers that missed
  their notification (`stop_blocked` shows that they exist).
- `ScreenCatchesUp` is about terminals that run (`terminal_screen` shows the others).

The runs set `CHECK_DEADLOCK FALSE`: when the bounds on publications, changes and
faults are used up and every call has ended, the modelled system has nothing
left to do. That it does not stop earlier is what the liveness properties say.

## Bounds

Every bound is a constant, `Max…` or the size of a set, and appears as a guard of
the environment, never of a handler — except the bound on tables and snapshots, which stops
new publications and operations but not their progress. Bounds that are no constants are
definitions of the `MC*` modules that say which behaviours are left out; they restrain who
edits, commits, connects or fails, and never what the code does in answer.

- *Bus*: two preparations of one activation and a second activation, so that
  `replace`, partial withdrawal, a change of owner and a subscription to a
  publisher in the same table all occur. A queue of one place; of two sends and two
  requests at most two are made in one behaviour, of either kind, which is enough
  for one to wait while the other is queued, taken or running (`MCDeliveries` says
  which sets call). Two generations: publish, then replace or withdraw; what more of
  them could do is settled by the proofs.
- *Acceptance*: two files and one declared definition, of which one file has the
  identity of the declared one, so that candidates conflict; two targets; two
  tables and two commits, so that a candidate can be checked against one table
  and committed under another, and a late startup candidate meets a reconciled
  snapshot. The bridge publishes no route, that of the channel or both
  (`SchedulingBound`), a reconciliation any.
- *Jobs*: the tasks of different schedules share only the watches, so one
  schedule is checked; two snapshots after the first give change and withdrawal. Two
  digests separate what compares definitions; `jobs_rename` (`MCScheduleJobs`) has two files
  instead.
- *Leases*: two activations, one schedule identity, two lease identities: enough
  for a conflict between a user file, a durable and a declared lease. Two faults
  cover a failing undo and a failing release; one outside change suffices to hit
  any window. A behaviour has faults or an outside change (`FewTroubles`); how they meet is
  settled by the proofs.
- *Reports*: two deliveries, one observer that may be disposed, one schedule, two
  changes of owner: overtaking needs two deliveries, misdirection a change of owner.
- *Bridge*: three requests under one identity (one pending, one refused, one
  newer), one of them nested, a send, and two families with a close. The send or the second
  request is made, not both (`Bounded`): they share only the queue, which one of them fills.
- *Reconciliation*: three revisions (applied, replaced, overtaken), of which the last
  desires the graph of the first again (`ReturnsToFirst`), and one trouble: a failing call, or a restart with a build that may not load every graph.
- *Artifacts*: one module, two bundled archives of its first version with different
  content, one archive of a user with a newer version; builds with the module static,
  with either bundled archive; three starts, two edits (`Bounded`: four of both), one crash,
  one fault. One
  crash between any two steps leaves every kind of remains that recovery meets.
- *Terminals*: one terminal (terminals share only the registry), two callers and the
  shutdown; for the projection one revision besides the stages and two overlapping
  lists, whose answers cross each other and the one event and reply that are on their way
  (`WiresBound`); for the screen two attachments (one replaced by its recovery) and two
  outputs, so that one is owed while another is on its way.
- *Instances*: for the server two connections, one of a rude client, one that attaches and
  one that asks it to stop (`KindsDiffer`), two events
  (`stop_blocked` needs no rude client and one event); for the directory two
  processes of one name with state roots of their own, and two commands, one of
  which may be of another build.
- *Workspace*: two actions of the canvas, one command of the service, two catalogs. In
  one part they run side by side in one activation whose storage works, with two
  submissions, so that answers of three clients cross; in the other an activation
  submits once, the webview reloads once and one call of the storage fails, from an
  empty storage or a record of an old schema. Answers are awaited by three clients,
  so more edits of one client add no crossing.
- *Sessions*: one session, since sessions share nothing but the manifest and the proofs are
  for any number; two loops, so that one confirms while the other gives up; of runs after the
  first, reactivations and failing writes two in one behaviour, of any kind (`FewTroubles`):
  a session is preserved, comes back, and meets one trouble on its way.
- *Layouts*: views of both cardinalities that have a state (one singleton that is
  disposed of, one per resource that is hidden), identities of callers that the
  authority would allocate or that match another instance. Three instances in any
  tree that grew from the stack of the first (`GrewFromFirst`; which instance it is makes
  no difference), or floating beside one stack; two in any combination of tree and floats, with
  a maximized stack and a catalog that loses a view: a rotation of a tree, an empty
  side and a name that is taken need no fourth.

`SYMMETRY` is used only in `activations`, whose properties are safety properties, for the
model values of the leases, which are interchangeable.

## Fairness

- *Bus*: weak fairness of the lock holder's remaining steps, of a call's own
  progress and of each worker: tokio polls every task that was woken. Nobody has
  to call, to publish or to be dropped. Handlers are assumed to return.
- *Acceptance*: weak fairness of steps that hold a lock; strong fairness of
  taking the bus lock (`Preflight`) and the refresh lock (`BeginInitial`), because
  tokio's mutex queues its waiters first in, first out, so a waiter cannot be
  overtaken for ever.
- *Jobs*: weak fairness of the commit and of each task; timers fire. `Task(w)`
  contains the delivery's progress but not `QueueFull`: a queue need not be full,
  and one that is drains.
- *Bridge*: weak fairness of workers, shutdown, withdrawal, dispatch and of a
  begun reconciliation or close. Nobody has to call, reconcile or close. In `MCModules` one
  weaker assumption is enough for all but the reconciliation, which a new family may begin
  anew whenever it ran: they do not all rest while one of them can run.
- *Reconciliation*: weak fairness of a begun call, the file observer, the stream,
  reports and each pending notification. Nobody has to commit, fail, dispose or
  restart.
- *Artifacts*: weak fairness of a begun installation and of a begun start. Nobody has
  to start, to edit, to crash or to fail.
- *Workspace*: weak fairness of the host's queue, of the opening, of each promise chain
  and of the continuation of each call. The host takes the calls of a webview in the
  order in which they were made (sync Tauri commands run on its main thread, one after
  the other) and answers them in any order. Nobody has to edit, submit, reload or fail.
- *Terminals, screens, server*: the fair specification of each module makes every thread fair: the
  threads of the host run, a child that was told to end ends, the main thread
  and the event loop serve what waits, frames are drawn, a client that is not rude
  sends or goes. In `MCTerminals` one weaker assumption per part is enough: the threads
  do not all rest while one of them can run (no thread of these models can run for ever, so
  that all of them get to the end). `stop_blocked` is a counterexample under the full
  `FairServerSpec` of `ControlServer`.

## What is proved

Proofs are checked by TLAPS with Z3, Zenon and LS4, from the named assumption of
each model (`BusAssumption`, `AcceptanceAssumption`, `JobsAssumption`,
`LeaseAssumption`, `TerminalHostAssumption`, `SessionBounds`, `ReconciliationAssumption`,
`WorkspaceBounds`, `RegistryAssumption`, `RepositoryAssumption`, `MessagesAssumption` and
`ReportsAssumption` of `MCModules`, `ServerAssumption`, `TerminalsAssumption`; the directory of
instances needs none). They say that the constants have their types and that a name for nothing is
no value. The theorems hold for every number of registrations, messages, generations,
definitions, leases, terminals, callers, attachments, lists, processes, connections, events, sessions, loops,
revisions, graphs, edits, catalogs, archives, faults and runs. Each follows one argument:
an inductive invariant, one step per action and one per conjunct that the action can
disturb, then its consequences.

**MessageBusProofs** — `BusInvariant`: `Spec => []BusInv`. The checked properties are
not inductive: that a message is handled by its stamped owner needs to know that
a call which passed its checks still holds a route of a published table
(`CallsRouted`) and that a queue holds only its own queued messages, once each
(`QueuesHoldQueued`); that a disposed registration is quiet needs that a stopped
worker belongs to a withdrawn registration and has nothing left
(`StoppedIsQuiet`), that every worker of a disposed one has stopped
(`DisposedHasStopped`); that routes are served needs that active, cancelling and
withdrawn registrations are disjoint (`LifeCycle`) and each in one stage
(`WithdrawnAccounted`). `BusInv` also holds `LostOnlyByWithdrawal`: an accepted message is
lost only with its registration. From it: `TypeCorrect`, `StampedOwner`,
`DisposalIsFinal`, `RoutesServed`.

**AcceptanceProofs**, of schedules — `AcceptanceInvariant`: the strengthening says what a
prepared candidate is worth while the bus lock is free (`Prepared`: its binding is
a published table that routes its targets, its overlay is part of it) and which
operation holds which lock (`LockState`). From it: `TypeCorrect`, `SnapshotWasRouted`,
`DeclaredKept`, `StartupSuperseded` (after an explicit refresh the startup
candidate is gone for good), `RoutesAndSchedulesTogether`, `WatchCurrent`, the action
property `SerialGenerations` (generations rise by one and the binding never moves
back), and the refinement `AcceptanceImplements`: `Spec => AcceptedSpec`.

**AcceptanceProofs**, of the workspace — `WorkspaceInvariant`: that an applied edit is in
the record and an edit given up is in none is not inductive, since the answer that decides
it was given earlier, to a request made earlier still. The strengthening follows the three.
What is in the queue of the host is what a call of the running webview waits for, once, or
comes from an earlier webview, whose edits are lost to their callers (`InTransit`); each
stage of the opening admits some steps of the calls (`StepsMatch`); a positive answer names
a revision that has the edit (`AnswersTrue`); a record of the old schema is the only one
until it is migrated, before any write (`MigratedFirst`); a write on its way carries what
the revision that it expects had, and its own edit (`EditsCarried`). For catalogs: they are
submitted and installed in rising order (`CatalogsRise`), and what this webview wrote names
no later one than the installed, unless the answer is on its way (`CatalogsHeeded`). From
it: `WorkspaceTold`: `WorkspaceSpec => []ToldTheTruth`. `AcceptedFamilies` puts schedules and
workspace side by side; of both, `FamiliesTypeCorrect`: `FamiliesSpec => []TypesOK`. Every
behaviour of `MCScheduleAcceptance` is one of `FamiliesSpec`, in which two or one of the
models rest.

**ScheduleJobsProofs** — `JobsInvariant`: the strengthening says that a prepared
candidate carries attempts of its own definitions (`CandidateAttempts`; the runtime
state is copied at the preparation and written back at the commit, and deliveries
are recorded in between), that live workers have definitions, and that a late message
is the last thing a worker sends (`LateIsLast`). From it: `JobsTypeCorrect`,
`NoJobEscapes`, `JobsMatchDefinitions`, `AttemptsAreCurrent`, and `AtMostOneLateMessage`: a
job that was told to stop enqueues at most one message more.

**ActivationsProofs**, of leases — `LeasesInvariant`: the strengthening says what each
operation that holds the mutation lock has done so far (`OpState`), that overlay and
table differ by no more than that (`OverlayState`), that owners are owners of leases
(`OwnersMatch`), and for executions without a failing file operation that files,
accepted schedules and table match (`SourcesMatch`, `AcceptedProvided`, `LeasesHeld`).
From it: `LeasesTypeCorrect`, `LeasesAgree`, `OverlayMatchesTable`, `ReleaseIsComplete`:
every safety property of the run, for any activations, schedules, leases and any
number of faults, edits and restarts.

**TerminalsProofs** has four parts. Of the host, `HostInvariant`: nothing of a terminal exists before its spawn
(`SpawnLeads`), an exit is recorded before anybody learns of it (`ExitIsLast`), what a
caller was answered is the exit of the record (`CallersKnowExit`), and a removal is
on its way with one caller or published once (`OneRemoval`). From it:
`HostTypeCorrect`, `RemovalsFinal`, and the refinement `HostImplements`:
`Spec => HostKeepsPromise`, step by step: a spawn maps to `Register`, every other step
to `Change` or a stutter.

Of the directory of instances, `DirectoryInvariant`: what a command has listed or read
was published (`SeenWerePublished`), locks exclude each other (`LocksExclude`), of two
processes of one name that answered one scan the earlier has ended before the
later could publish (`OneAnswers`), a stop that is answered has withdrawn its
descriptor (`StopsWithdraw`), and what a scan has not met yet is still ahead of it
(`ServingAhead`). From it: `DirectoryTypeCorrect`, `DirectoryTrue`.

Of the control endpoint, `ServerInvariant`: per connection, what its stream looks like
for each state of its worker and its sink (`Sound`): empty until the response,
open with as many events as were counted while the worker waits, completed when it
has ended; together with the order in which a stop ends things (`EndsInOrder`). From
it: `StreamsEndWhole` (no client that listens ever reads a stream with a gap, a wrong
number or a missing completion, whatever notifications are missed, and what ended left
nothing) and `ServerTypeCorrect`.

Of the projection, `ProjectionInvariant`: that no terminal is missed is not inductive, since
it holds because of what is still on its way. The strengthening says that whatever is on its
way or shown is about a terminal that was born (`Known`); that a terminal which a list will
have was never removed, with no removal on its way (`Registered`); that a list is asked for
after the subscription, and that one which was answered knows, by its rows or by what was
observed since, of every registered terminal that was seen (`ListsKnow`); and that a
registered terminal which was announced, is not seen and whose first descriptor is no longer
on its way is in every list to come (`ListsToCome`). From it:
`ListsTrue`: `Projection!Spec => ListsAreTrue`, an invariant and an action property.

`PartsRun` says that a behaviour of `MCTerminals` is one of each of its five models, so that
what is proved of a model holds of the sum; with it `TerminalsTypeCorrect`: `PartSpec =>
[]TypesOK`.

**TerminalScreenProofs** — `ScreenInvariant`: a credit is counted in three places by two
processes. The strengthening says per attachment where it is: with the adapter, in a request
on its way, with the actor, or in the screen that was published for it and is on its way
back, and never in two of them (`Credited`); what the host still has of an attachment for
each phase that the webview can be in (`Hosted`); and which attachment the view has, waits
for or has left behind. From it: `CreditsAgree` (the adapter never meets a screen that it did
not ask for, so it never ends an attachment for a failure of the protocol) and
`NothingOfViewsIsLeft` (whenever a view goes, while its attachment is opened, recovered or
credited, the host has let go of all of it when nothing is on its way).

**LiveReconciliationProofs** — `ReconciliationInvariant`: a family is replaced in steps,
and the registry goes on meanwhile. So what is reconciled was desired when it was read
(`TargetDesired`), what is recovered was public once (`AcceptanceDesired`), nothing settled
or reported is ahead of the public family (`FamilyStands`), and every activation is
accounted for in every phase: the one that is prepared, the one that has the routes, the
one to be retired (`ActivationsAccounted`). From it: `ReconciliationTypeCorrect`,
`ServesAndNothingElse`, `ShowsAndReports`: every safety property of the run.

**ModulesProofs**, of the registry and the repository — `RepositoryInvariant`, in two parts. Of the tables, which
only their transactions change: the row of an edit follows the one that it was computed
from, which is still there or has been overtaken by a later revision (`EditsFollow`);
selections, in rows and in edits, are registered for their module (`SelectionsStand`);
requests and receipts name what they installed (`RequestsStand`); a row holds the choice of
its user, and never looks as an installation leaves one (`ChoicesStand`); what a start will
commit keeps that choice as long as it can be committed (`SeedsStand`). Of the files and
the process that holds the lease: the intents are those that it has not looked at and the
one it resumes, and one that is finalized has its payload and no stage (`AddStands`), what
the host selects is registered (`ChosenStands`), what is registered is published and
nothing is orphaned (`FilesStand`). An end of the process between any two steps keeps both.
From it: `RepositoryTypeCorrect`, `FilesAndCatalogStand`, and `ChoicesSurvive`:
`Spec => EditsSurvive`, an invariant with an action property.

**ModulesProofs**, of messages — `BridgeInvariant`: that an answer reaches its own request is
not inductive, since identities repeat. A message is in one place, in the queue of its route
or in one frame or with the handlers (`PlacedOnce`, `DispatchPlaced`), so that a frame ends
once; and while the bridge is in the map an identity has one request in flight, and the
sender that is stored for it is that request's, or of somebody who does not wait any more
(`OnePending`): a refused request leaves its own. After the close senders may be
stored that no frame has, and nobody is answered. Of reports — `FramesInvariant`: numbers
rise from what a listener was given through what is accepted (`AcceptedRise`); a
delivery has one frame for an observer, in the outbox, on the way or taken (`NumberedOnce`);
the owner of the record is that of the observer unless the schedule changed hands
(`OwnersMatch`). From both, and for the run of both beside the artifacts:
`ModulesTypeCorrect`, and `OwnFramesFound`: `PartSpec => FramesFindTheirOwn`, two
invariants and an action property.

**ActivationsProofs**, of sessions — `SessionInvariant`: the strengthening says of the records in
memory what the properties say of the manifest, since the next write saves them
(`RecordsGrounded`); that what has a process, or an exit that is not handled, is not armed
(`LiveAreUnarmed`): arming after an exit would otherwise meet a process that was begun
since; where each resumption stands between its claim and its answer (`RestorePlaced`), for
what is offered; and that a loop which may mark a capture as failed began from a pending
record (`LoopsGrounded`). From it: `SessionTypeCorrect`, `SessionsAreSafe`, the action property
`CapturesAreFinal`, and `SessionsComeBack`: `SessionSpec => SessionsComeBackOnce`.

Each strengthening was model-checked as an invariant before it was proved; the
runs above check the consequences.

## What is only model-checked

- All liveness properties: proofs with fairness need `ENABLED`, which the
  installed provers do not handle.
- `WorkspaceDocument`: its helpers are recursive on trees, and what they compute for
  every tree is an induction over data, which the installed provers cannot do. No
  other model is recursive, and nothing that is proved rests on this one, nor on
  `MCScheduleAcceptance`, which instantiates it. So `LayoutsStayWhole`, which holds the
  types of a document too, is checked by TLC alone.
- That a number of edits, catalogs and reloads bounds the number of records: it only keeps
  the runs finite.

## Disagreements and known behaviours

Six runs show that the code does something a test, a comment or a document excludes.

1. `jobs_rename`. `reconcile_jobs` and `current_definition_matches` compare the
   digest of a definition, `record_delivery` (`scheduler/runtime.rs:1706`) the file
   as well. When a refresh moves an unchanged definition to a renamed file while
   its job is delivering, the refresh keeps the job, the job then finds its result
   unrecordable and returns, and the schedule stays accepted with no job until
   the next refresh. The test at `runtime.rs:3087` expects one job after a rename.
2. `leases_late`. `register` checks its caller's authority before it waits for the
   mutation lock (`scheduler/leases.rs:215`), and `observe` runs on a copy of the
   authority that the bridge handed out. A call that was authorized while its
   bridge was open can be served after the release of its activation, and leaves
   a lease or an observer that nothing releases, though
   `docs/4-layer-architecture/spec/capabilities/scheduler.yaml:41` says that
   retirement releases them.
3. `artifacts_start`. `stage_candidate` writes into the directory that the intent
   names. A process that ends while it writes leaves a stage that exists and is
   incomplete; recovery takes it for a payload and fails
   (`module_control/repository.rs:759`), before every installation and hence at every start
   of the host, though the comment at `repository.rs:737` says that an interrupted stage
   is cleared.
4. `terminal_screen`. The exit of a terminal drains its subscribers
   (`terminal_host/runtime.rs:1395`) without a screen for those that have no credit at that
   moment; later credit is refused and the view does not attach again. The comment at
   `core/frontend/terminal-host/terminalClientRuntime.ts:422` promises the final screen.
5. `stop_blocked`. `wait_for_stream` checks its flags under a mutex and waits, but they
   are set and notified without it (`instance/control.rs:330-355`). Both notifications of
   a stop can fall between: the worker sleeps, and `run_server` joins it for ever. The test
   at `control.rs:3431` and the comment at 959 say that an attachment blocks no shutdown.
6. `terminal_return`. A list that is committed keeps only the tombstones observed since its
   own request (`terminalClientRuntime.ts:389-398`). Lists overlap, since every launch of a
   managed session asks for one (`useTerminalActions.ts:149`): a second one, asked for after a
   removal and committed first, drops the tombstone, and the first one, which the host
   answered before the removal, brings the terminal back. The comments at
   `terminalClientRuntime.ts:112-114` and 349 say that no list in flight can; the test at
   `tests/terminalClientRuntime.test.ts:167` has one list. `ListsAreTrue` and `ListsTrue`
   are about terminals that are shown, or registered, and do not exclude this.

Others are part of the models, and the properties allow for them:

- *Bus*. `reap_retired` samples what is in flight before a worker has seen its
  cancellation (`message_bus/runtime.rs:858`): a registration leaves the inspectable
  list and can still run one handler. Hence `DisposedIsQuiet`, not quiet at reaping.
- *Jobs*. A manual trigger retries when the definition changed between its send and its
  record (`scheduler/runtime.rs:1483`), so one trigger may deliver twice.
- *Leases*. Leases of activations that a reconciliation retires are kept
  (`message_bridge.rs:583`), and a release that failed is not tried again
  (`leases.rs:559`).
- *Reports*. Frames are numbered under a lock and sent after it (`leases.rs:876`); the
  frontend drops the overtaken one (`platform/scheduler.ts:181`). Listeners of deliveries run
  after the record is unlocked (`scheduler/runtime.rs:1720`), so reports may differ
  in order from records. A listener that throws stops those after it
  (`platform/scheduler.ts:319`).
- *Bridge*. A handler that requests its own webview waits for a frame behind its own
  (`messageBusBridge.ts:206`); a request that becomes pending after the shutdown of
  its bridge is failed by nobody (`message_bridge.rs:655`); frames that arrive
  between the publication of a family and its installation are refused
  (`messageBusBridge.ts:249`); an activation disposed during the await before its
  handler still runs it (`messageBusBridge.ts:328`).
- *Reconciliation*. A failed catalog read is not tried again until the next revision
  (`liveModuleSupervisor.ts:271`); a revision whose report fails is recorded as failed
  although it is public (`:319`); a coalesced operation stays pending and a rejected
  one turns "succeeded" with a later revision (`live.rs:725`); `send_replace` can lower
  the channel (`live.rs:461`); the snapshot of the registry can be torn
  (`registry/mod.rs:411`).
- *Registry and artifacts*. An archive of a user with the module and version of
  another but a different digest is refused only when it is registered: its intent
  stays, and every later installation and start fails on it ("pending"). A headless
  edit between the read and the commit of a selection aborts the start of the host
  ("raced", `src-tauri/src/lib.rs:102`). A module that its user disabled before anything
  else was changed counts as untouched and is enabled by a start. A live transition
  compares its target with the revision it read, not with the one it commits to
  (`live.rs:405`); `validate_mutation` refuses it then.
- *Terminals*. The first close of an exited terminal stops its actor, so a second one
  may be refused rather than told the same exit (`service.rs:449`, `runtime.rs:811`). Not
  only a list (`terminal_return`) can bring a removed terminal back, but also an answer to a
  command that comes after the removal (`terminalClientRuntime.ts:329`) or an event that was
  checked before it (`service.rs:566`); hence the properties of the projection are about what lists take
  back and miss, not about what lingers. A start that fails removes a listed record
  without an event (`service.rs:163`). After the close of a running terminal its actor's
  thread stays (`runtime.rs:606`). A failed attachment is reported, not tried again.
- *Instances*. A connection that never sends its request keeps its worker; a client
  that does not read keeps the lock of its stream, or the worker of a long reply: a stop
  waits for them (`control.rs:451`, `:1001`, `:525`). A failed withdrawal resets `stopping` although another stop may
  have been accepted. Active work is read before `stopping` is set, so work can start
  between. Only `discover` reclaims what a crash left; its temporary files stay.

- *Assistant sessions*. A launch whose record cannot be written leaves the record in
  memory, and a later write saves it (`assistant_launch/mod.rs:471`). What a crashed run left
  in the manifest, or a session whose exit the module did not notice, is armed by the next
  confirmed shutdown. A shutdown that cannot save leaves its records armed in memory, so a
  reactivation of the module may resume a session beside its process (`unsaved`; the runs
  follow it that far). A shutdown that another module fails after the records were preserved
  leaves them frozen for the rest of the run. A resumed session that ends before its record is
  attached to its terminal is not armed again, though the notice says that it is. Loops begin
  by adoption only, and after a reactivation a pending capture fails for want of its
  snapshot (`runtime.ts:163`). The notice of a session that cannot be resumed says that it
  was kept also when a failing write had used it up (`runtime.ts:426`).
- *Workspace*. An edit that commits while a catalog is reconciled makes it conflict; the
  family is accepted all the same, the failure is reported, and the older catalog stays
  until another is submitted (`acceptedCatalogController.ts:62`). An answer that says
  "saved" may come after that of a later save and sets the state back
  (`authority.ts:1441`); the next command meets a conflict and reads. An edit before the
  first catalog names revision 0 in the record, below one that an earlier activation
  stored. `reconcileCatalog` compares with the revision that the document names and not
  with the installed one (`authority.ts:1365`). The command line writes the same file
  from a process of its own when it runs offline (`cli/src/headless_kernel.rs:493`): the
  lock of `plugin_data/mod.rs:304` does not reach it; the model has one process.

## What is not modelled

Times and calendars (a timer may fire at any time), contents of messages,
documents and artifacts, parsing, authorization grants beyond valid and invalid,
inspection and diagnostics that only read, topics at run time (only their place
in route tables), the inside of a family's activation, effects, history, input and
selections of a terminal, labels, placements and the quarantine of the manifest of
assistant sessions, a terminal's screen replay (a sequential encoder), stop and restart of
the projection's subscription, labels, shares of splits and places of floating stacks
in a workspace, several records in one migration of plugin data, requests of the control endpoint other than stop and
attachment, spurious wakeups, more than one runtime root, and the components whose
status is `not_modelled`: most are single calls to a file, a database or a program
with no interleaving of their own.

Where a model cuts a component, it errs towards more behaviour: the directory
has any content at each load, a webview frame may be refused, a handler may end
either way, a process may end between any two steps of `ScheduleLeases`,
`ArtifactRepository`, `InstanceDirectory` and `LiveReconciliation`. Data races do not occur:
shared state is behind locks, watches, channels and atomics.

## Plan

Done, in the order of importance: the bus; acceptance of schedules, its abstraction
and refinement; jobs; leases; reports; the bridge; live reconciliation; registry,
selection and artifacts; terminals from the actor to the view; the control endpoint
and the directory of instances; the workspace; the sessions of assistants. Proved: bus,
acceptance, jobs, leases, terminal host, projection and screen, directory, control server,
sessions, live reconciliation, workspace, registry and artifacts, bridge and reports.

Next, extending the models:

1. Broadcast topics at run time: lagging subscribers and forwarding to the webview.
2. Durable writes of application state; a second process on the file of plugin data.
3. Single-instance activation with its timeouts, and two runtime roots.

Then, proving more:

1. An abstraction of the bus (a call is accepted by one owner of one table, then
   handled or dropped), with `MessageBus` shown to implement it.
