# Cadentra: formal models

Cadentra is a Hub and any number of Agents. Operators define what should run on
which Linux node (the desired state, kept by the Hub); Agents dial in, copy the
part of it that concerns them, run tasks on demand or on schedule (also while
the Hub is away), and report what happened. This directory models the parts of
that in which the order of events decides whether the result is right, in
TLA+, checks the models with TLC, and proves the central facts with TLAPS.

## The system

| Part | State it keeps | Operations | Interacts with |
|---|---|---|---|
| Execution manager (`hub/execution.go`) | `executions` rows | create and dispatch, MarkStarted, MarkFinished, Cancel | sessions, gateway, store |
| Agent core (`agent/agent.go`) | journal (`executions`), READY flag, per-task locks | run, trigger, finish, reconcile, acknowledge | connection, scheduler, runner |
| Sync manager, definitions, revisions (`hub/sync.go`, `definitions.go`, `application.go`, `node.go`, `revmanager.go`) | objects, assignments, labels, global revision, tombstones, change log | create/update/delete under one transaction, notify, build a sync response | sessions, store |
| Agent store (`agent/store.go`) | the Agent's copy, its revision, journal, deployment journal | sync transaction, executions, deployments | agent core |
| Gateway and sessions (`hub/gateway.go`, `session.go`) | one handler per WebSocket, the session map, node status | HELLO, heartbeat, checks, results, disconnect | all managers |
| Connection manager (`agent/connection`) | one send channel of 128, the current socket | dial, redial, drop when full or offline | gateway |
| Schedulers (`agent/scheduler`, `hub/schedule.go`) | armed schedules, last fired slot | tick, catch up, skip | executions |
| File relay (`hub/file_transfer.go`, `agent/agent.go`) | transfer and target rows, partial and staged file | upload, stage, deliver, retry, cancel, resume | gateway, HTTP |
| Application deployment (`agent/application.go`, `hub/application.go`) | deployment journal, backups, managed units | deploy, operate, roll back, recover | host adapter, artifacts |
| Artifacts, host adapters, conditions, runner | files and processes | download, replace, evaluate, run | agent core |
| Node manager, enrolment (`hub/node.go`) | `nodes` rows: status, labels, credential | enrol, maintain, label, revoke | gateway, API |
| Web console (`web/src`) | per document: a query cache, forms, the signed-in user; per browser: the token | load, edit, save in one or several calls, run, watch by polling, sign in and out | REST API |
| Auth, OIDC, API decoding, metrics, packaging | configuration and presentation | | managers |

Hub and Agent are Go processes. Each WebSocket has a read loop that handles its
messages one by one, on both sides; besides that run the goroutines of tasks,
uploads and downloads, the Agent's periodic loop, the schedulers and the API's
requests. They share the two SQLite databases, the session map, the Agent's
send channel and a few flags. A statement is atomic and a few operations are
transactions, but most handlers select, compute and update in separate steps.

What is hard about it, and what each part must get right:

* **Reporting.** A result must get from the journal to the Hub over connections
  that break, with handlers of old connections still at work, both processes
  restarting and uploads repeated: never lost, never invented, never changed.
* **Synchronisation.** A copy computed from several SELECTs while operators go
  on changing objects must be complete for the revision it claims; the revision
  must not run ahead of the data; everything must converge without relying on
  notifications.
* **Relay.** Two read-modify-write records (transfer, targets) are changed by
  the source's and the targets' handlers, the upload request, operators and
  reconnects, all with copies they read earlier.
* **Deployment.** A crash may fall between any two of a dozen file and systemd
  steps; the journal must tell enough to undo them.
* **Sessions and schedules.** Check-then-act between disconnect, reconnect and
  the heartbeat checker; rows read by a handler and written back as a whole;
  slots at restarts and clock boundaries.
* **Console.** Everything an operator sees is a copy that was true at some time,
  and most of what is saved is a whole row begun from such a copy. What keeps the
  operator's own changes from undoing each other is when which copy is loaded
  again: by a full document load, an invalidation, or a timer.

## Modules

| Module | What it is |
|---|---|
| `ExecutionReporting` | one Agent's executions: Hub row, Agent journal, everything between them |
| `ExecutionReportingProofs` | theorems about it for every number of executions, connections and faults |
| `ExecutionResultProofs` | and about the results in the Hub's table: where they come from, why they stay |
| `DesiredState` | abstract: what configuration synchronisation promises |
| `ConfigSync` | the Hub's desired state on its way to one Agent; implements `DesiredState` |
| `ConfigSyncProofs` | theorems about it for any objects, tables and faults, among them the refinement |
| `FileRelay` | one file transfer: upload, staging, delivery, retry, cancel |
| `FileRelayProofs` | theorems about it for any nodes, file size, attempts, requests and faults |
| `Deployment` | one application's deployments on one Agent: replacing, rolling back, recovering |
| `DeploymentProofs` | theorems about it for every number of requests, failures and deaths of the Agent |
| `DeploymentOutcomeProofs` | and about how a deployment ends: what success and failure leave on the host |
| `NodeSession` | one Agent's enrolment and connections, its node record, and the pages about the node |
| `NodeSessionProofs` | theorems about it for every number of connections, tabs, labels and requests |
| `ConsoleQueries` | a document of the console: its query cache, page loads, calls and the rows at the Hub |
| `ConsoleEditing` | the lists and forms that change rows, on top of `ConsoleQueries` |
| `ConsoleRuns` | the pages that start and watch executions and transfers |
| `ConsoleSession` | who is signed in, over the tabs of one browser |
| `TaskTargets` | which tasks concern a node: the form, the Hub and the node's page |
| `Console` | the four areas of the console together, and their properties |
| `ConsoleProofs` | six theorems about it: all its safety properties, for any sections, nodes, accounts and bounds |
| `MCExecutionReporting`, `MCConfigSync`, `MCSync`, `MCFileRelay`, `MCDeployment`, `MCNodeSession`, `MCConsole` | values for the constants under TLC |

All modules follow the same conventions. A database statement, a transaction, a
send on a channel, or the removal of a message from a queue is one step; a
handler that does several has one action per step, and what it has read so far
is kept in a variable for that handler (`handler`, `loop`, `builder`,
`applying`, `job`), so anything else can happen in between. Purely local
decisions belong to the step before or after them. Message contents are reduced
to what the receiving handler looks at. In `ConfigSync` any statement on either
database may fail: an error that the code returns ends the operation, one that it
swallows is an absent row, as in the code. In the other modules statements
succeed, except in the actions whose comments say otherwise. `PROJECT.json` maps each definition to
the lines it stands for. Definitions with an underscore in their name
(`MarkFinished_AcksFirst`) are mutants: a plausible mistake in the operation
before the underscore, used to see that a property notices it.

### ExecutionReporting

*State.* The Agent's `executions` table with its synced flag (`journal`), the
goroutine of each execution (`worker`), the dispatch loop of the connection
(`loop`), the send channel (`out`, which outlives connections in
`connection/manager.go`), the Hub's row (`row`), and per connection the Hub's
read loop (`handler`), whether it is open (`gate`) and the two directions of the
wire. Three history variables record which results ever existed, which records
were uploaded while still RUNNING (`early`) and which results the Hub wrote.

*Actions.* `CreateExecution` and `DispatchToAgent` are the two halves of
`createAndDispatch`; `MarkStarted`, `MarkFinished` and `WriteExecution` are
SELECT and UPDATE of the Hub's result handlers; `OnHelloAck` and
`UploadExecution` are reconciliation, `OnExecutionAck` and `MarkSynced` its
answer; `OnRunExecution`, `TriggerSchedule`, `FinishExecution`, `ReportResult`
are the life of a run. `AgentDisconnect`, `HubLeave`, `HandleDisconnect`,
`HubRestart`, `AgentCrash` and `AgentStart` (which runs
`recoverInterruptedExecutions`) are what goes wrong and how it is repaired.

*What it must do.* `HubResultBacked`: the Hub invents no result.
`AckedResultStored`: the Agent drops no result the Hub lacks.
`JournalResultKept`, `HubResultKept`: which older copies can be written over a
result. In the journal it is one only, the RUNNING copy that the acknowledgement
of a RUNNING upload has read; at the Hub it takes `MarkStarted` on an abandoned
connection, `MarkFinished` of a RUNNING upload, or `MarkFinished` of a second
result of the same execution. `ResultEventuallySynced`: a journalled result is
uploaded until it is acknowledged. `ResultReachesHub` is what the documents
promise beyond that; the code breaks it.

### DesiredState and ConfigSync

`DesiredState` has two steps: an operator changes objects under the next
revision, and the Agent's copy moves, in one step, to a revision at which every
object untouched since is exactly what the Hub wants, but for `gaps`: objects
that are read apart from the lists (scripts, applications and their artifacts),
and whose reading failed, are absent or incomplete. `ConfigSync` implements it
under `want <- Desired, have <- local, version <- localRev, gaps <- missing` (the
property `ImplementsReplica`).

*State.* The Hub's objects, tombstones, labels and revision, its record of the
node, pending announcements, the response it is putting together (`builder`);
the Agent's objects and revision, armed schedules, READY flag, the response it
is applying, the report its periodic loop has read; the connection, with `late`
for what the handler of the previous connection still holds. `touched`,
`missing` (what failing SELECTs cut from the response applied last) and
`reloaded` (whether the scheduler could read its schedules after it) are history.

*Actions.* `PutObject`, `DeleteObject`, `SetLabels` stand for every operator
change (all run in `runMutationTx` and announce afterwards); `Notify` is the
announcement; `ReadNode`, `ReadTable`, `SendSyncResponse` are the SELECTs of
`ComputeDesiredState` and `BuildSyncResponse`, with full resyncs when the
revision falls out of the changelog window; `OnSyncResponse`, `CommitSync`,
`RollbackSync` are the Agent's transaction; `ReadRevision`/`SendTick` and
`HandleHeartbeat`/`HandleRevisionCheck`/`HandleSyncAck` the periodic reports and
what the Hub records of them.

*Failing statements.* On the Hub, a revision, node, group or whole list that
cannot be read leaves the request unanswered (`AbandonSync`); a script, an
application's nodes or an artifact that cannot be read is left out of the
response, which keeps its revision (`ReadTable`, sync.go:128, 161, 190); window
and tombstones fall back to the default and to none (`SendSyncResponse`), the
latter without effect, since the Agent prunes what the response does not hold. An
ignored error of `UpdateSyncState` leaves the record (`Record`), and a current
revision that cannot be read counts as 0 (`HeartbeatRecorded`) or leaves the
check unanswered. On the Agent, a sync is refused or rolled back as a whole
(`RefuseSync`, `RollbackSync`); a local revision that cannot be read counts as 0
(`RequestAll`, `ReadRevision`); if the schedules cannot be read after the commit
the scheduler keeps what it had (`CommitSync`), and at a start it has none. A
HELLO that fails is a `Disconnect`, a COMMIT that fails an `AgentRestart`.

*What it must do.* `AppliedComplete` (the refinement's invariant, also checked
directly), `SyncedNodeIsCurrent` and, under fairness, `Converges`: the Agent has
what the Hub wants but for what a failing SELECT cut from the response it applied
last, and that is absent or without its artifact, never an older version.
`NodeNeverAhead`, `ArmedSchedulesStored` (unless the last reload failed),
`RunOnlyWhenReconciled`. Without their exceptions these do not hold:
`ConvergesFully` is what the documents say, and a run shows it violated.

### FileRelay

*State.* The transfer row and the target rows (`row`, `target`), the part and
blob files; per actor the handler that is at work (`job`: one per connection,
one left over from an old connection, the upload that holds the mutex, one
operator request) with its *copies* of both records; the Agents' goroutines in
two slots per node (`worker`), the cancel function a node keeps (`handle`), the
file at each destination, the connections. A file is a sequence of chunks, each
the version of the source file it was read from; that sequence is also its SHA256.

*Actions.* `ReadTransfer` and `ReadTargets` are the two SELECTs of
`GetFileTransfer`; `ResumeNode`, `DispatchSource`/`SendUploadRequest`,
`Dispatch`/`SendDeliveryRequest` the dispatch paths; `HandleUpload`,
`CopyChunk`, `Promote`, `Stage`, `FinishUpload` and `AbandonUpload` the upload
under its mutex and its request's context; `HandleUploadResult`,
`HandleDeliveryResult` with `UpdateAggregate`, `Retry`, `Cancel` the other
writers; `OnFileUploadRequest` to `DownloadFailed` the Agent.

*What it must do.* `SuccessMeansDelivered`, `DestinationIsWhole`,
`CancelUndoneByStaleCopy` (only a handler that read the transfer before the
cancellation can undo it), and `SettlesIfAttended`.

### Deployment

*State.* The application's three files (`host`) and the version whose process
runs (`service`); per request the backup files, the row of the deployment
journal (`journal`: phase and the files whose backup path it holds), the row in
`executions` (`exec`) and the goroutine (`task`: where in `deploy` or `rollback`
it is, which paths it has in its local variables, what it has read); whether the
unit is registered, whether the Agent is down, recovering or up, and whether its
definition names other paths by now (`moved`). The content of a file is the
number of the request that wrote it. `brings` and `before` remember what a
request replaces and what it found; `flaw` remembers what went wrong with it,
for the exemptions below.

*Actions.* `OnDeployRequest` starts the goroutine; `CreateDeployment`, `Fetch`,
`Inspect`, `OpenBackup`/`WriteBackup` (opening and writing a copy are two steps,
so that a death between them leaves a torn file), `StopOld`,
`SetDeploymentBackups`, `InstallBinary`, `InstallConfig`,
`InstallUnit`/`WriteUnit` (not atomic either), `EnableService`, `StartService`,
`CheckHealth`, `RegisterUnit` and `ReportResult` are `deploy` from top to bottom,
with `UpdatePhase` for the entries in the journal between them. `StopNew`,
`Restore`, `RestoreUnit`, `StartPrevious` are `rollback`, run by the deployment
that fails or by `RecoverDeployment`; `CloseRecovered` and `EndRecovery` end the
recovery. `AgentCrash` may come between any two steps, also of the recovery;
`AgentStart` first fails the executions that were RUNNING. Each file or systemctl
call may fail; the statements on the Agent's own database are assumed to succeed.
`Operate` is start, stop and restart, `SyncDefinition` a synchronisation that
changes or removes the definition.

*What it must do.* `JournalSuffices`: at every moment the row and the copies
suffice to undo an unfinished upgrade. `FailedIsRestored`: an upgrade that failed
or was interrupted leaves every previous file in place. `SuccessIsInstalled`: a
success stays installed until the next deployment, through deaths and
recoveries. `EveryRequestIsServed`: no request stays RUNNING with nobody at work.
The code does not keep them in these situations, which the properties therefore
exempt, each by its flaw: two deployments at the same time (`overlap`), a backup
cut short or failed (`backup`), a failing write while restoring (`restore`), a
death during the deployment's own rollback (`cut`), a recovery under a definition
with other paths (`moved`). What the code does in them is under Findings.

### NodeSession

*State.* The node records with their credential (`row`), the session map
(`sessions`), per connection the step its handler is at (`step`, with what it has
read in `ident` and `copy`) and what has become of its socket (`wire`); the
heartbeat checker; the Agent's identity and the connection it is on; the browser
pages that may be old (`page`). `usurped`, `overtaken`, `author`, `announced` and
`acked` are history, for the properties.

*Actions.* `Dial`, `OnHelloAck`, `Tick` and `LoseLink` are the Agent.
`HandleHello`, `HandleEnrol`, and `HandleEnrolAgain` with `EnrolUpsert` are
`handleHello` with `RegisterOrUpdate`, which reads a known node before it writes
it back; `Register` takes the place of the session before and closes it.
`HandleHeartbeat`, and `HandleInventory` with `InventoryUpsert`, are the other
handlers; `ReadError`, `LookUp`, `Unregister`, `MarkOffline` the end of a
connection, in the steps `handleDisconnect` takes; `FindStale`, `OnTimeout`,
`CloseStale`, `UnregisterStale` the heartbeat checker. `Agents` and `AgentDetail`
are what the pages about nodes send, computed from what they show.

*What it must do.* `NoDeadSession`: no ended connection stays in the map.
`DownIsShown`: once every connection of a node has ended its record says offline,
unless an operator has set the status since. `MaintenanceKept`:
only an operator, or being marked offline, ends maintenance. `LabelsAnnounced`
and `LabelsLostByStaleCopies`: labels go only by writing back an older copy,
and only then without a revision. `OneRowPerAgent`: further rows come only from
enrolments whose answer was lost. `Reachable` under fairness: an Agent that stays
on a connection becomes and stays the registered one, unless an `Unregister` has
hit the wrong connection. The race on `Session.lastSeen` only delays the checker;
the `disabled` status behaves as `maintenance`.

### Console

One module per area, and `Console` on top: a behaviour is about one `area`,
because the areas share nothing but the document they run in.

*Editing* (`ConsoleQueries`, `ConsoleEditing`). `row` is the Hub's table of the
section that is open, `cache` the document's query cache with its fetches under
way, `page` what is shown with its form, `calls` the requests under way. `Load`
and `Href` replace the document, so the cache and all pending handlers are gone;
`Link` and `Back` keep it. Each list (`Tasks`, `Schedules`, `Scripts`, `Groups`,
`Applications`, `Artifacts`, `Users`, `Settings`) and form (`TaskEditor`,
`ScheduleEditor`, `ScriptEditor`, `GroupEditor`, `ApplicationEditor`,
`ArtifactEditor`) is an action with the buttons it really has; `ListChanged`,
`Continue` and `Leave` are what the page does with an answer. A row is reduced to
its fields, a field's value to the number of the edit that wrote it.
`own` is what this operator was told is saved of the first row, `kept` the fields
of it that the Hub has had ever since: a value that somebody overwrote is not
missed, even if it comes back. `OwnChangeSurvives`: the operator's own later calls
overwrite a kept value only through a copy from before. `OwnChangesShown`: a list
that has settled shows the kept values and the rows the operator has created.
`SavedMeansAssigned`: an application that was saved has the nodes that were
ticked, though that takes three calls.

*Runs* (`ConsoleRuns`). The queries of the dashboard, the executions, one
execution with its log, a task's history and the transfers; their timers, errors
and retries; the buttons, and the Agents that move runs on. `RunningPageSettles`:
a page does not show RUNNING for ever once the Hub knows better.

*Session* (`ConsoleSession`). The stored token that all tabs share, each
document's own copies of it, the Hub's sessions, requests under way.
`UserIsTokens`: a tab never shows one user and sends another's token.

*Targets* (`TaskTargets`). `ResolveTarget` is the Hub's reading of a task's
target, `taskTargetsNode` the console's, written in another language over JSON
that leaves out empty values. `TargetsAgree` compares them after any editing,
for targets that want a label with a value and name no deleted group;
openspec/specs/web-ui/spec.md:13 is what it comes from. For labels that are
wanted whatever their value, the two disagree (see Findings). A target of
a type that the form does not offer would be a list of nodes to one and of groups
to the other; the operators have these branches, and no state reaches them.

## Runs

| Run | What it explores | What it shows |
|---|---|---|
| `Reporting` | one dispatched and one schedule-owned execution, at most one of them at a time; 2 connections, 2 faults, a full send channel for the second; fair | 208,000 states: which copies can be written over a result and no others, the inductive invariant, that the Hub's insert from an upload neither loses nor duplicates a result, and that results get acknowledged |
| `ReportingLost` | as `Reporting`, dispatched only | **violation**: a result can be marked synced and never reach the Hub |
| `Sync` | three scenarios, each with 1 fault (any failing statement among them): a schedule and an application, 2 operator changes, SELECTs of two tables interleaved; periodic reports, 1 change of the application or the label; dispatch of an execution, 1 such change; fair | 627,000 states: completeness and refinement but for what a failing SELECT cut, with rollbacks, restarts, late handlers and the READY gate; convergence of Agent and node record, but for the same |
| `SyncReuse` | an ID is deleted and created again | **violation** of `AppliedComplete` |
| `SyncSwallowed` | one application, 1 change, 1 fault; fair | **violation**: after one failed SELECT the Agent stays at the current revision without the application |
| `Relay` | target offline at first; one retry or cancel at any moment, or a source file that changes and one lost connection, lost request or restart; fair | nothing partial is delivered; SUCCESS means delivered; what can undo a cancellation; the transfer settles |
| `RelayStaged` | one fault; fair | **violation**: a staged transfer whose target never gets a request |
| `RelayCancel` | one cancellation | **violation**: a cancellation is undone |
| `Deploys` | 2 deployments in turn, 1 failing call, 2 deaths of the Agent, 1 change of the definition, 1 operation | 1.3 million states: what the journal must know at every moment, and what is on the host afterwards |
| `DeployPrevious` | the same | **violation**: a service that was not touched yet is stopped by the recovery and stays stopped |
| `Nodes` | 2 connections, 2 operator requests, at most 3 of these events, 2 labels, one tab; fair | the session map, status and labels whatever overlaps; the Agent gets reachable |
| `Console` | 4 areas: 4 acts, 2 calls and 1 failure or foreign change in each of 8 sections; 2 runs, 1 move, 1 button and 1 trouble; 2 tabs, 2 accounts, 3 tokens; all targets over one label value; fair | 1.1 million states: own changes survive and are shown, saves are complete, polling ends, users and tokens fit, the two readings of a target agree where a label is wanted with a value and no group was deleted |

### Bounds

* *Reporting*: rows of different executions share only the queues and the
  read loops, so one execution per owner shows every read-modify-write conflict
  between the goroutines of one row; two connection slots give the overlap of an
  old handler with its successor, two faults a break and a second one during the
  repair. What the bounds leave out is covered by the proofs, which hold for any
  number of each.
* *Sync*: two objects read by two different SELECTs are what it takes for a
  response to straddle a change (the application, which has an artifact, also by
  SELECTs of its own); two changes let one fall into a response and
  another between two responses, and delete what was created; a window of 1
  makes both incremental and full responses occur. `MaxQueue` only keeps the
  periodic timers from flooding the queues. `MCSync` runs changes, reports and
  dispatch as three scenarios that start alike, since together they multiply the
  states: reports only repeat a revision, and an execution only reads READY. Its
  fairness is that of `ConfigSync`, so `Converges` speaks of the scenario in
  which the reports are allowed.
* *Relay*: two chunks allow a part that is neither empty nor complete, two
  attempts a retry of a POST, one change of the source file a part of mixed
  versions and a staged file that differs from the blob. With one target the
  aggregate is that target's status; the races of two targets' aggregates are
  described below and not run.
* *Deployment*: the second request finds what the first has left, in any of its
  outcomes; two deaths are one in the deployment and one in its recovery, or one
  in each deployment; one failing call besides shows every error path. The
  requests of one application on different nodes share nothing. Deployments at
  the same time are allowed by the module (and covered by the proofs); the runs
  keep them apart (`MaxRunning = 1`), since the properties exempt them.

* *Nodes*: two connections are the overlap of a handler with its successor; a
  third event is an operator's request before, between or after them. Labels
  matter as sets of keys, and two keys are what a stale map needs to lose one.
* *Console*: in every section, four acts are opening a form, typing, saving and
  one more, and two calls are two that can cross. In a form two fields are typed,
  once each; another operator changes only the switch of a row, or removes it
  (for an application, which has no switch, its nodes). One move and one button
  leave every polled page with what it must still do; two tabs and three tokens
  are signing out and in as another user while a second tab still has the first.

### Fairness

Weak fairness of the handlers, goroutines, queues and read loops: each is a
goroutine that the Go runtime runs on, and a send or receive that stays enabled
is made. Weak fairness of redialling: `Manager.Run` loops for ever. In
`ConfigSync`, strong fairness of the periodic reports, which come from tickers
and are disabled again and again by the bounds and by short disconnections, not
by the code. Operators, file changes and faults promise nothing; faults are
bounded, so liveness speaks of what happens after the last one.

In `NodeSession`, weak fairness of the handlers, the checker, dialling and the
Agent's heartbeats, as above; `Reachable` has the Agent stay on a connection as
its premise and assumes no end of the faults otherwise. In the console, weak
fairness only of the three queries that have a timer (the GET is served, its
answer lands, the timer runs while the window is looked at), and of coming back
to a hidden window, whose timers rest. Nothing is assumed of operators or Agents.

The premises of `SettlesIfAttended` are real restrictions: if an upload loses
its client after the transfer was staged, nothing dispatches to the targets
until they reconnect (`RelayStaged`).

## Proofs

`ExecutionReportingProofs` proves, for any sets of executions, connections and
outcomes and any bound on faults, from `ConstantsAssumption` alone:

* `TypeCorrect`: `Spec => []TypeOK`.
* `ReportInvHolds`: `Spec => []ReportInv`.
* `AckedResultIsStored`: `Spec => []AckedResultStored`.
* `JournalResultIsKept`: `Spec => JournalResultKept`.

`AckedResultStored` is not inductive: whether a synced flag may be set depends on
the acknowledgement in the loop, that on the message that was in the queue, that
on what the Hub's handler had read, and that on the upload. `ReportInv` says for
each of these places that what is in it is backed by the table it came from
(`UpBacked` by the journal, `DownBacked` by the Hub's row, `HandlerBacked`,
`WorkerBacked`, `LoopBacked`). The argument is that backing *grows*: no step
takes away a journal status, a stored result or an early mark (lemma
`StepGrows`), so what was backed stays backed, and a step has to establish it
only for what it puts somewhere. `JournalResultIsKept` is a part of `StepGrows`:
the copy in the loop is the record itself or a RUNNING one, and the latter takes
an upload marked early. `ReportInv` is also an invariant of the
`Reporting` run, where TLC checks it before the proof is attempted.

`ExecutionResultProofs` goes on from there:

* `HubResultIsBacked`: `Spec => []HubResultBacked`.
* `HubResultIsKept`: `Spec => HubResultKept`.

The first needs `ResultInv`: a result in the send channel, in a queue, in a
handler's hands or in a RECONCILE has been in the journal once. The second is
about order. A stored result would be overwritten if the report that the
execution *started* were handled after the one that it ended; `OrderInv` says
that in the send channel and in the queue of the connection the Agent is on,
STARTED stays in front of FINISHED, and that nothing that says how it ended is
ahead of it in a handler. It holds for every execution: a RUNNING upload also
comes after the start. That leaves `MarkFinished`, which `ReportInv` allows a
RUNNING upload only for an execution in `early`, and `ResultInv` a second result
only for such a one; both are in the statement, because the code does them.

`ConfigSyncProofs` proves, for any objects, tables, bounds and faults:

* `TypesCorrect`: `Spec => []TypeOK`.
* `HubRecordIsDurable`: `Spec => []NodeNeverAhead`.
* `SchedulerHoldsStored`: `Spec => []ArmedSchedulesStored`, and `RunsWait`:
  `Spec => []RunOnlyWhenReconciled`.
* `ObjectsComplete`: `Spec => []Copied`, object by object: one that was not
  created under a deleted one's ID, and not touched since the revision the Agent
  is at, is on the Agent as the Hub wants it, or was cut from the response last
  applied by a failing SELECT of its own.
* `CopyComplete`, `SyncedIsCurrent`, `ImplementsDesiredState`: under
  `~ReuseIds`, `Spec => []AppliedComplete`, `Spec => []SyncedNodeIsCurrent` and
  `Spec => ImplementsReplica`.

The invariant is `SyncInv`. `Reporting`: whatever the Agent has said of its
revision, in a queue, late, in the tick or recorded at the Hub, is at most its
revision, which never falls. `Answering`: an answer on its way, and the one under
construction, is complete for the revision it claims but for its `cut`. An answer is read table by
table while other requests write, so for the builder this is said of the tables
it has read; that the revision was read first is what makes it true. With
`InOrder` the Agent applies answers of one connection in order. The hypothesis of
the last three is not for the proof's convenience: with reused IDs the code does
something else, and `SyncReuse` is the run that shows it (see the findings). The
statements that may fail are those of the model, so the theorems hold through any
number of them; what they exempt is no more than the objects in `missing`.

`FileRelayProofs` proves, for any nodes, file size, number of attempts, requests
and faults:

* `TypesKept`: `Spec => []TypeOK`.
* `SuccessIsDelivered`: `Spec => []SuccessMeansDelivered`.
* `DestinationsWhole`: `Spec => []DestinationIsWhole`.
* `UndoneByStaleCopies`: `Spec => CancelUndoneByStaleCopy`.

Handlers write back copies of the row that may be stale, so nothing follows from
the row alone. `RelayInv` says of every place (rows, the copy of each handler,
the messages, the goroutines of the Agents) that it carries only what has been
true: hashes that were staged, and successes of targets that got such a file.
Both sets only grow, since a destination is replaced by a staged file or not at
all, so a stale copy is outdated but never false. The last theorem is about the
steps: one that brings a cancelled row back is taken with a copy from before the
cancellation.

`DeploymentProofs` proves, for any number of requests, any number of them at the
same time, of failing calls and of deaths of the Agent, from its own
`ConstantsAssumption`:

* `TypeCorrect`: `Spec => []TypeOK`, which includes that a goroutine is at work
  only while its execution is RUNNING or the Agent recovers.
* `JournalAlwaysSuffices`: `Spec => []JournalSuffices`.

`JournalSuffices` speaks of files, rows and copies, but a step keeps it only
because of where the goroutine is. `DeployInv` adds that: `JournalInv` says for
each stretch of `deploy` (before the backups, while they are made, while files
are replaced, after a death, during recovery) what is saved by then, `Control`
which steps go with which phases, and `Solo` that a deployment which has not
overlapped another finds all others finished, so that nobody else changes the
files under it. `Solo` is why the exemption for overlapping deployments is
needed; `JournalInv` is why the one for a torn backup is.

`DeploymentOutcomeProofs` goes on from there:

* `RequestsAreServed`: `Spec => []EveryRequestIsServed`.
* `SuccessStaysInstalled`: `Spec => []SuccessIsInstalled`.
* `FailureLeavesThePrevious`: `Spec => []FailedIsRestored`.

`EndInv` stands beside `DeployInv`. `Outcome` says of the last deployment that
was begun what is on the host by each step: the files `deploy` has installed so
far (`Installed`), or those a rollback still has to put back, each with the copy
it is put back from (`Rolling`). `Older` says that all deployments before it are
finished, `Served` that they begin in the order of their numbers and that none is
RUNNING without a goroutine, `Rows` which step goes with which row. `DeployInv
/\ EndInv` was an invariant of the `Deploys` instance under TLC before it was
proved.

`ConsoleProofs` proves, for any sections, nodes, runs, tabs, accounts, tokens,
label values and bounds, from `QueriesAssumption` (there is a node),
`RunsAssumption`, `SessionAssumption` (there may be a run and a session) and
`LabelAssumption`:

* `TypesHold`: `Spec => []TypeOK`. `EditInv` are the types of the editing area.
  `Listing` says that rows have the ids that were used, `Sound` what a call of
  each kind carries (a switch or a save the whole row of the page it came from),
  `Room` that every call that may still create a row has an id left for it.
* `OwnChangesShownHolds`: `Spec => []OwnChangesShown`. A list may show something
  old while it is asked for again, so `ShownInv` says when it may not: a cached
  list that is not stale, and an answer under way that was served after the last
  invalidation, have the saved values; and a list on the page never rests stale.
* `OwnChangeSurvivesHolds`: `Spec => OwnChangeSurvives`. A call overwrites all it
  carries, so `SurviveInv` follows the copies of row 1 to where they are sent
  from: the cached list (`ListCurrent`, but for the switch, which is sent anew),
  the loaded row and the form (`FormCurrent`, but for what was typed), the calls
  under way that were begun after the last answer (`CallsCurrent`). A page of a
  row is loaded in full, which drops the handlers of the list (`ListLeft`): that
  is why the copy of the row cannot be older. The settings have no page of their
  own; their form keeps what was typed (`SettingsTyped`).
* `SavedMeansAssignedHolds`: `Spec => SavedMeansAssigned`. `AssignInv`: the calls
  of a save that nothing crosses are alone, and each finds done what the calls
  before it were for.
* `UserIsTokensHolds`: `Spec => []UserIsTokens`. By itself the property says
  nothing of the answer of `/me` that is on its way. `SessionInv` adds
  `MountedAsks` (an effect that is still mounted has asked with the token its
  document has, or the document has none), `LoginsWait` (while a sign-in waits
  for its answer its document is on the sign-in page, so no such effect is
  mounted) and the types. The cleanup of the layout's effect is what makes it
  inductive: without it (`MeAnswers_AnyTime`) TLC finds the other user shown.
* `TargetsAgreeHolds`: `Spec => []TargetsAgree`, from the types of the targets
  alone (`TypedTargetsAgree`), with `LabelAssumption`: a label's value is neither
  the empty one nor the missing one.

The two properties of saved values were proved only after they had been corrected.
Stated over the values at hand they hold within the bounds of the run and fail
beyond them, where another operator's change and a later call of one's own bring a
value back by coincidence; `kept` and `told` are what they meant.

`NodeSessionProofs` proves, for any number of connections, tabs, labels and
requests, from `ConstantsAssumption` (at least one connection):

* `TypeCorrect`: `Spec => []TypeOK`.
* `NoDeadSessionHolds`: `Spec => []NoDeadSession`.
* `LabelsAnnouncedHolds`: `Spec => []LabelsAnnounced`.
* `OneRowPerAgentHolds`: `Spec => []OneRowPerAgent`.
* `DownIsShownHolds`: `Spec => []DownIsShown`.
* `MaintenanceIsKept`: `Spec => MaintenanceKept`.
* `LabelsLostOnlyByStaleCopies`: `Spec => LabelsLostByStaleCopies`.

`NoDeadSession` follows from `Registered`: the map holds a connection only under
the node it is identified as, and only while its handler has not passed
`Unregister`. That a connection is never registered again after that is due to
the order of its messages (`Queue`): HELLO comes first and once, so `Register` is
over before the handler looks for its end. `Identified` says which steps of a
handler know their node, which also the types need, since an inventory is written
to that node. For the labels, `PagesExist` and `Unlabelled` say that an operator
can only reach a node with a record, and that there is nothing to lose where
there is none.

`OneRowPerAgent` and `DownIsShown` need `IdentityInv`: what a connection sends
names the node it has been identified as (`Speaking`), and whatever names a node
names one with a record (`Recorded`). Both follow from HELLO or ENROL being the
first message of a connection. With that, a heartbeat can set a record online
only while a connection of that node is still being read, and the handler that
ends the connection marks the record offline after it. The two action properties
go over the writes of a record: those that write back what was read earlier are
the only ones that can lose a label.

Only model-checked: all liveness (`Converges`, `ResultEventuallySynced`,
`SettlesIfAttended`, `Reachable`, `RunningPageSettles`), which with ENABLED is
outside the prover's reach. Every invariant and action property of the passing
runs is proved. No module uses a recursive operator.

## Findings

* `ReportingLost`. Reconciliation also uploads RUNNING records; the
  acknowledgement of such an upload is applied to the record as it is by then.
  If it has finished meanwhile and its result was lost with the connection, the
  record is synced and the result is never sent again.
* `SyncReuse`. An object created under the ID of a deleted one is removed again
  by the old tombstone, which is applied after the objects of the same response.
* `SyncSwallowed`. `ComputeDesiredState` skips a script or application whose own
  SELECT fails, and leaves out what it cannot read of an artifact, but the
  response claims the current revision. The Agent prunes the object and reports
  that revision; the Hub shows the node as synced, and nobody asks again.
* `RelayStaged`. The deliveries of a staged upload are dispatched under the
  upload request's context; a client that goes away at that moment leaves
  connected targets PENDING with nothing to wake them.
* `RelayCancel`. Every handler writes back the whole row it read; one that began
  before a cancellation undoes it.
* `DeployPrevious`. A deployment that was interrupted before its first backup
  (while the artifact was downloading) has changed nothing, but is rolled back
  with no backup path: the service is stopped and not started again.

The passing properties except these cases, because the code does break its
documents in them; without its exception, TLC finds each of the properties violated
in a behaviour like the one described:

* `JournalResultKept`: `OnExecutionAck` reads the record (agent.go:531) and writes
  all of it back (536). If the acknowledged upload was a RUNNING one and the
  execution finishes between the two, RUNNING replaces the result, marked synced,
  and the next start makes it FAILED. openspec/specs/agent/core/spec.md:18 has the
  Agent "retain unsynced results across restart".
* `HubResultKept`: `MarkFinished` looks for a terminal status in the row it has
  read and updates all of it later (execution.go:287, 331-334): the RUNNING upload
  of a reconciliation can put a result that another connection has stored meanwhile
  back to RUNNING, also on the connection the Agent is on. `MarkStarted` does the
  same on an abandoned one. docs/ARCHITECTURE.md:801-812 draws no way from a
  result back to RUNNING.
* `ArmedSchedulesStored`: if the schedules cannot be read after a sync has
  committed (agent.go:432), the scheduler keeps all it had: a schedule that the
  sync removed goes on firing, unless the response also had its tombstone.
  openspec/specs/agent/core/spec.md:12-14 has it stopped.
* `FailedIsRestored`, flaw `backup`: the journal names the
  binary's backup before the copy is made (application.go:309-312), and
  `os.WriteFile` is not atomic: recovery after a death in between puts a torn copy
  in the place of the intact binary.
* `FailedIsRestored`, flaw `moved`: recovery uses the paths and the unit of the
  definition as it is then, not as deployed (application.go:590).
* `FailedIsRestored`, flaw `cut`: ROLLING_BACK is written before the rollback
  begins and is no phase that recovery looks at (application.go:584): a death
  during the rollback leaves it half done. For all three,
  docs/ARCHITECTURE.md:1531-1533 has a crash in an upgrade made good from journal
  and backup.
* `TargetsAgree`: an empty label value means any value to the Hub (node.go:269) and
  is left out of the JSON; the node's page compares the label with a value that is
  not there (catalog/index.tsx:908), and lists neither such a task, which runs on
  the node, nor one for a label group like that. openspec/specs/web-ui/spec.md:13
  has the page list the tasks whose target matches the node.

Met while modelling and not covered by a violating run, because no document of the
repository promises otherwise, the bounds exclude it or nothing in the models
depends on it:

* `TaskEditor`, `ScriptEditor`, `GroupEditor` and `ApplicationEditor` save without
  a catch (tasks/index.tsx:603, editors/index.tsx:318, 636, 820): a failing call
  leaves the page as it is and shows nothing, though
  openspec/specs/web-ui/spec.md:22-23 has the reason displayed.
* With two targets that report at the same time, both handlers may compute
  DELIVERING from copies in which the other is still open; the transfer then
  shows DELIVERING although every target is SUCCESS.
* The same stale write can clear `sha256` of a staged transfer; downloads then
  answer 404 until the file is uploaded again.
* A Hub that stops between the last byte and the rename leaves a complete part:
  every later request has offset = size, which is no valid Content-Range.
* Content changing during an upload is staged as it arrived: the Hub's SHA256
  is of what it received.
* A sync that fails at the current revision is not asked for again until the
  next change or connection.
* `Register` precedes HELLO_ACK, so a RUN may overtake the reset of READY.
* `handleInventory` writes back labels it read earlier.
* An artifact that cannot be read after the service was stopped ends the
  deployment without a rollback; the previous service stays stopped.
* Nothing keeps two deployments of one application from running at the same
  time; their files mix, and recovery may roll back the one that succeeded.
* A death between DONE and `RegisterUnit` leaves the unit unregistered, and
  start, stop and restart refuse it from then on.
* A node in maintenance that disconnects is marked offline and is online after
  its next heartbeat; the maintenance is forgotten.
* `handleDisconnect` (gateway.go:167) and the checker (session.go:114)
  unregister by node, after a check that may be out of date by then: a newer
  connection may be left out of the map while its Agent is connected.
* `UpsertNode` does not write the status of a node that is there already, so an
  enrolment under a known ID changes neither maintenance nor offline; the next
  heartbeat does.
* After its credential was revoked, an Agent that enrols again under its ID is
  answered with an empty credential (node.go:84), though the comment at
  agent.go:310 has it get a new one; it stays connected without one.
* The console's 401 handler for queries (main.tsx) tests for an AxiosError, and
  the API client throws its own ApiError: it never runs. The event
  `cadentra-unauthorized` has no listener. A 401 for a request with an older
  token removes a newer one.
* A form that is typed into before its row was loaded starts from the defaults,
  and saving it writes them over the row.
* Save buttons of the editors stay enabled while a call is under way: a double
  press creates two rows. The settings form keeps what was typed after saving.
* The page of an execution that is shown PENDING, and a task's list of
  executions, are never asked for again.
* A task whose target names a deleted group fails to run (node.go:237), while
  the node's page may list it.
* A transfer retried from a row shown FAILED that has finished since stays
  DELIVERING, as no target has anything left to report.
* Where no binary was installed, configuration and unit are replaced without a
  backup; the properties about undoing speak of upgrades only.

## Not modelled, and the plan

Not modelled, with reasons in `PROJECT.json`: how passwords, tokens and OIDC work
inside, the REST decoding and permission checks, metrics and packaging. The host
adapters are modelled by what `Deployment` needs of their calls. Of the console:
the enrolment dialog, the audit page, the filters and paging of tables
(`useTableUrlState` is used by no page), the Hub's health in the header,
translations and layout.

The protocols are checked each by itself: `ConfigSync` composes its two sides
with an abstract specification, `Console` the areas of one document. The console
does not run on top of the other modules: to it the Hub is a table of rows and
Agents are what changes runs.

Planned, in this order:

1. `Deployment` completed: the Hub's `Deploy` and its record of the result,
   artifacts' shared temporary file.
2. `Schedules`: slots, misfire policy, overlap, the Hub-owned schedules and
   their slot keys across restarts.
3. `Conditions`: the condition engine as operators against a reference
   definition; Cancel, retries and the per-task locks in `ExecutionReporting`;
   the write loop of a connection, whose `send` may block.
