# mosoo: specifications of the control plane

TLA+ modules, TLC configurations and TLAPS proofs for the control plane of mosoo
(`src/apps/api`), the Cloudflare Worker that runs agents on behalf of users. Paths
below are relative to the repository; `R/` stands for
`apps/api/src/modules/runtime/`, `S/` for `apps/api/src/modules/sessions/`, `C/`
for `apps/api/src/modules/api-command/application/` and `D/` for
`apps/api/src/modules/apps/application/`.

## 1. The system

A user's message in a *session* becomes a *run*. The API Worker admits the run in D1
(SQLite), dispatches it inline or through a queue, provisions a sandbox (a *runtime
subject*) and starts an *agent driver* in it. A Durable Object holds the driver's
WebSocket: commands go to the driver through it, and the events the driver reports
come back through it, move the run and are appended to the session's event log. An
*App* has a site, deployed by runs of another kind. Nothing holds a lock across two
statements: each statement (or each `runAppDatabaseBatch`) is atomic, and an execution
may be evicted at any `await`. A maintenance command, scheduled every minute, sweeps
up what was left.

| Part | State it keeps | Operations | Talks to |
|---|---|---|---|
| Run lifecycle (`R/domain`, `R/infrastructure/session-runs`, `R/application/session-runs`) | `session_run` (status, status_seq, last_runtime_operation), the session's status, status_seq, owner, last run | admit, dispatch, move, cancel, fail, reconcile | event store, leases, command ledger |
| Driver connection (`R/infrastructure/driver-instance`) | `driver_instance`, one socket, an in-memory queue and receipts | connect, heartbeat, finish, fail, reuse | commands, events, driver process |
| Driver commands (`R/infrastructure/session-runs/runtime-command-*`, `driver-instance/rpc-command-controller.ts`) | `driver_command` | insert, push, watch, poll, accept, complete, expire | driver connection |
| Driver events (`driver-instance/rpc-event-ingestion-controller.ts`, `event-persistence.ts`, `S/infrastructure/session-runtime-event-store*`) | `session_event`, the session's sequence cursor, receipts | push, filter, allocate, insert, move the run | run lifecycle, viewers |
| Runtime subject and run lease (`R/infrastructure/runtime-subject-lifecycle`) | subject status, claim, operation, backup, idle deadline; lease of a run; conversations | activate, prewarm, lease, release, recycle, resume, recreate, reset, sweep | sandbox, driver |
| Runtime state operations (`R/application/runtime-state-operation*`) | session owner while RESCHEDULING | restart, recreate, reset | runtime subject, run lifecycle, event store |
| Sessions (`S/`) | `session`, messages, viewers' sockets | create, archive, unarchive, delete, repair | run lifecycle, driver stop |
| API commands (`C/`) | `api_command`, queue messages | admit, send, redrive, claim, renew, end, dead-letter | queues, all long work |
| Deployments (`D/app-deployment*`) | `app_deployment`, its runs, what is hosted | deploy, execute, delete, read the status | API commands, Cloudflare's API |
| Channels, public API, environments, files, MCP, skills, vault, cost, organizations, users, auth | their own tables | mostly create / read / update / delete; channel delivery, idempotency records | API commands, run admission |
| Web console, shared packages, e2e, scripts | none of the above | | |

What is hard, per part, and what makes it correct:

* **Run lifecycle.** Read and write are two statements, and dispatchers, driver
  events, viewers, operations and the sweep write the same two rows. Correct means:
  one active run per session (no unique index says so), one dispatcher per run, an
  ended run never changes, the session follows its last run, a persisted final event
  is the true one, a stranded run ends and its final event is persisted even when
  executions are lost.
* **Runtime operations.** A long procedure owns a session by id and sequence number
  while everyone else goes on. Correct means: it gives the session back,
  revives nothing, reports the runs it cancelled. An exception outside of its error path
  (in the broadcast after it took the session, say) keeps the session; the model counts
  it as a lost execution.
* **Archive, unarchive, delete.** Sequences of statements, each of which may fail;
  a deletion must be resumable. Correct means: a terminated session stays terminated,
  and a deletion completes.
* **API commands.** Outbox, at-least-once delivery, leases that lapse under slow
  consumers. Correct means: no queued command is forgotten, a fenced-off consumer
  changes nothing, every command ends.
* **Runtime subject.** Activations, maintenance and API operations take the same row,
  by claim or by operation id, around remote calls that fail or whose effect stays
  unknown. Correct means: no recycle meets a driver at work or loses files, `active`
  and `cold` are true of the container, an operation left behind is finished, and an
  unused sandbox is recycled. Not all of it holds: section 3 tells which writes
  advertise `cold` of a container that runs, and which unused sandboxes stay.
* **Driver commands.** A queue in memory and a table race to hand the same command
  over; the object may be evicted, the driver may go, an answer may be lost. Correct
  means: a command is handed over once, what the driver was told is recorded stays,
  and every command ends once the driver is gone.
* **Driver events.** Receipts are lost with the object's memory, pushes of a replaced
  connection are still at work, and the API writes to the same log. Correct means: the
  log keeps the driver's order without gaps (but for what the replay filter takes out,
  section 3), an acknowledged event is stored, a run completes only after its output
  is stored.
* **Deployments.** Requests, executors, status reads and the dead-letter queue write
  the same run; the address and the success of a run are two writes. Correct means:
  one live deployment, an ended run stays as it ended, a successful one has an
  address, attempts are bounded, an active run ends.
* **Channel delivery, idempotency records, the fold of events into a viewer's
  session.** Not modelled; see the plan.

## 2. The modules

`EXTENDS` order, from the bottom:

| Module | Models | State |
|---|---|---|
| `RunStatus` | statuses, lifecycle machine, `decideSessionRunTransition`, projection on the session | none |
| `RunLifecycle` | the abstract promise: runs are admitted one at a time and walk the machine | `status` |
| `SessionRun` | one session, its runs, everyone who writes them, the final events, lost executions | `session`, `run`, `driver`, `events`, `dispatches`, `worker`, `crashes` |
| `DriverStop` | `stopDriverSession`, shared by the next two | adds `stop` |
| `RuntimeOperation` | runtime state operations composed with `SessionRun` | adds `operation` |
| `SessionLifecycle` | archive, unarchive, delete and the deletion repair composed with `SessionRun` | adds `request`, `deleted` |
| `ApiCommand` | one command of the ledger, its queue messages, producers and consumers | `command`, `message`, `consumer`, `producer`, `faults`, `resets` |
| `RuntimeSubject` | one sandbox: activation, lease, recycle, API operations, sweeps | `subject`, `container`, `backup`, `open`, `run`, `worker`, `written`, `faults` |
| `DriverCommand` | one driver: its object, socket, commands and their delivery | `instance`, `object`, `socket`, `process`, `row`, `order`, `sender`, `watch`, `poll`, `report`, `finalizer`, `handed`, `told`, `evictions` |
| `DriverLog` | the abstract promise of the event log to a driver | `position`, `acked`, `completed`, `overruled`, `replaced` |
| `EventIngestion` | the events of one run, from the driver into the log | `ending`, `emitted`, `sent`, `acked`, `connection`, `push`, `gate`, `memory`, `write`, `log`, `cursor`, `writable`, `run`, `api`, `faults` |
| `AppDeployment` | deployments of one App, their runs, the commands that dispatch them, what is hosted | `deployment`, `run`, `command`, `queue`, `site`, `executor`, `deployer`, `deleter`, `reader`, `faults` |
| `*Proofs` | theorems, see section 4 | |
| `MC*` | instances for TLC | |

**SessionRun.** `session` and `run[r]` are the rows: status, status sequence number,
owner (`status_operation_id`, `last_runtime_operation_id`), `archived`, `lastRun`.
`worker[w]` is one call of `transitionSessionRunStatus`: `Call` is its input,
`ReadRun` the select and the decision, `WriteRun` and `LoseRace` the batch of the
compare-and-set and the session update, `RepairProjection` the repair of a
duplicate, `Reread` and `AppendEvent` what the caller does next. Each caller is an
action that starts a call under the guard of its code (`Dispatch`, `FailHydration`,
`FailProvision`, `DriverEvent`, `DriverFailure`, `DriverCompletion`, `Reclaim`,
`ViewerCancel`, `FailStale`, `Reconcile`). Note in `LoseRace` that the batched
session update does not depend on the run update having hit: the model keeps this.
`WriteSession` groups the two writes that reach the session row alone. `RepairProjection`
is not needed while only runs are at work (`SessionRunProofs` shows that the session
follows its run); an operation that changes the session in between makes it necessary,
and `RuntimeOperation` reaches it.
`driver[r]` is the driver instance linked to the run: none, live or gone.
`dispatches` and `crashes` are history: they count winners of the acquisition and
lost executions, and stops that miss their driver.

**DriverStop.** `BeginStop` notes the active run of the live driver, `CloseDriver`
closes it, `CancelStoppedRun` calls the run writer and `ReleaseStoppedRun` releases
the lease; the stop fails if the run did not end. With `MissDriver` the driver stays: it
was still starting and connects afterwards, or it did not close in time, or a call threw,
and the stop then fails after it dealt with the run.

**RuntimeOperation.** `ResolveTargets` is the snapshot; `StartPhase` takes the
session by compare-and-set; `Stopping`, `Complete`, `Expire` (the 120 s window),
`Fail` and `Restore` follow the phases of the service; `InterruptRun` is
`cancelActiveSessionRunsForRuntimeOperation`, the second writer of run statuses.

**SessionLifecycle.** `Begin` is the capability check, which is not repeated;
`ArchiveRow`, `AdmitDelete`, `NormalizeSession`, `Unarchive` and `DeleteRow` are
statements; `RepairDelete` is the scheduled repair. `deleted` stands for the missing
row (runs and events go with it by cascade).

**ApiCommand.** `undelivered` is the outbox mark. A lease `lapses` at any moment, as
time may pass. `LoseConsumer` is an eviction: the queue delivers the message again or
dead-letters it. The owner of a claim is the message's id, so the model assumes that
the queue does not deliver a message again while its earlier delivery is still being
processed.

**RuntimeSubject.** `subject` is the row; `container` (with its files) and `backup`
(the checkpoint the row names) are remote. An activation (`ReadSubject` to
`OpenConversation`) holds a claim; a recycle (`ClaimInactive`, `BeginRecycle`), an API
operation (`BeginOperation`) and a failed activation (`RecordFailure`) own the row
under an operation id, which `Resume` takes up again when it was left behind.
`StopDrivers`, `Checkpoint`, `RecordBackup`, `Destroy` and `MarkCold` are the steps
they share; remote calls that fail (`ActivationFails`, `StopFails`, `CheckpointFails`,
`DestroyFails`, `TeardownFails`) may or may not have had their effect, and `OpenFails`
is the write that opens a conversation failing. `CheckLease`, `AcquireLease` and
`ClearDeadline` are the snapshot and the two writes of a lease's acquisition. `EndRun` and
`ReleaseLease` end a run and arm the idle deadline, `RepairDeadline` and
`ClaimIdleConversation` make up for a cattle's release that was lost. `container` also has
two history fields, which no action reads: `torn` (torn down since it was last advertised
as active) and `overtaken` (what was last restored into it came from a prewarm whose
claim was taken over). Files are the set of
writes they hold. Time: the remote calls of an activation are cut off after 15 s, the
idle grace is five minutes, a lease and the age of an operation left behind are ten;
so a subject falls due while no activation is in progress, and a claim lapses after
its owner was lost. Assumed: an operation that is not lost changes its row again
within those ten minutes. The limit of subjects per account, mounts and network policy
are left out.

**DriverCommand.** `instance` and `row` are rows, `object` is the Durable Object with
its queue, single-threaded between two awaits. A turn is only inserted in D1
(`InsertTurn`), a control command is routed, inserted by the object and pushed
(`Route`, `Insert`, `Push`). The driver takes commands by `Watch` (fed by the queue;
`MarkDelivered` is its statement) or by `Poll` (`Claim` is its statement), and says
what became of them by `Report`; a poll takes the command it claimed out of the
queue by id, wherever it stands (`RemoveFirst`); `WatchAnswer`, `PollAnswer` and
`ReportAnswer` reach it only while its socket is open. `ClaimToken`, `LinkConnection` and
`AcceptSocket` are the writes of a connection that is let in: the token, the row, the
object. `BeginFinalize`, `PersistClose`, `FinalizeRow`, `RepairCommands` and `FinalizeEnd`
end the object; `Fail` is `failDriverInstance`, which whoever gave the driver up calls,
though it may have become ready since; `Evict` loses its memory; `ExpireLeases`,
`FailAbandoned` and `EndDead` are the sweep. The driver is external: it connects once,
settles the acceptance of a command before it reports its end, and exits when it
loses its socket. Hello and the driver's events are elsewhere; cancellation of a
command ends it as expiry does.

**EventIngestion.** Events are `1 .. Final`. `Send` is the driver's batch; `gate` is
the object's event gate, in which pushes queue; `ReadReceipts`, `SkipTransition`,
`WriteBeforeCompletion`, `Transition`, `RestWritten` and `Answer` are the steps of
`pushEvents`; `FilterNew`, `Allocate` and `InsertRows` the three statements of
`persistSessionRuntimeEvents`, which the API (`SettleRun`) runs too. `Reconnect`
leaves a push of the old connection at work, `Superseded` ends it. The driver is
external: it sends what it has no receipt for, oldest first, one batch at a time on a
connection, and does not cut shorter a batch that it sends again.

`Fresh` is the replay filter. What it knows an event by (the keys of its message, thought,
tool call and run) is the constant `Replays`: `Replays[d]` are the events that are dropped
from a batch because `d`, of the same batch, is in the log. A dropped event gets no
receipt, so the driver sends it again, and the filter then takes it, unless another one
stands in its way. Event 1 (`run.started`) and the end of the run are never dropped so.

`DriverLog` keeps of the log only the sequence numbers of the driver's own events
(`position`): what is added comes after what is there, and no event comes before a
*promised* one that precedes it. `EventIngestion` maps it to its log with what the API
wrote left out, and promises what no earlier event makes a replay (`Timely`). Once the API
has settled the run there may be gaps (`overruled`), and once the driver's failure is in
the log too, by whomever, the order ends (`replaced`). Section 3 says why.

**AppDeployment.** `LookUp`, `InsertDeployment`, `InsertRun`, `LinkRun`,
`AbandonRun`, `AdmitDispatch` and `SendDispatch` are the statements of a deploy
request; `FailActiveRuns`, `RemoveSite` and `MarkDeleted` those of a deletion.
`Sent` is a send and the clearing of the outbox mark after it; a clearing that fails, or
comes after a consumer's claim and so clears nothing, leaves the mark and counts as a
fault. `Claim` is the ledger's claim with its count of attempts, `MarkPreparing` to
`Succeed` the stages of an executor, each a conditional write; `Throw` is one of their
statements failing, before or after its effect; `CheckDeleted`, `CheckReplacement` and
`Unhost` are the executor's compensation, `Release`, `FailRun` and `FailCommand` what it
does when a stage throws. `DeadLetterRun` and `DeadLetter` are the two writes of the
dead-letter consumer, the first of which may fail. `Read` is the status read that gives a
run up: its two selects are one step, since only the run's can be out of date by then,
and its conditional write sees to that. The read spares a run for its first five minutes;
here it may come at any moment, which adds behaviour. Abstracted: the repository, the plan, secrets and agent bindings, which only
decide how a stage ends; the build sandboxes; retries of a message before it is
dead-lettered, and more than two messages of one command (`ApiCommand` has both).

## 3. The runs

Deadlock is not checked: every part may legitimately come to rest (all runs ended,
the session deleted, the command ended, every request served).

| Run | Instance | Shows |
|---|---|---|
| `SessionRun` | 2 runs, 2 handlers, sweep, 1 lost execution | `TypeOK`, `OneActiveRun`, `SessionFollowsRun`, `OneDispatcher`, `FinalEventsTrue`, `HydrationFailsOnlyUnclaimed`, `TerminalIsFinal`, `ImplementsLifecycle` |
| `RuntimeOperation` | 1 run, 1 handler, sweep, 1 operation, 1 lost execution or missed driver, fair | `OperationTypeOK`, `FinalEventsTrue`, `OperationGivesBack`, `StrandedRunEnds`, `FinalEventPersisted`, `ProjectionRepaired` |
| `SessionLifecycle` | 1 run, 1 handler, sweep, 2 requests of any kind that race | `LifecycleTypeOK`, `TerminatedIsFinal` |
| `SessionLifecycleLive` | 2 runs, sweep, 2 requests of any kind that race, 1 lost execution or missed driver, fair | `DeletionCompletes` |
| `ApiCommand` | 2 messages, 2 consumers, 2 producers, 2 faults, 1 reset, fair | `CommandTypeOK`, `FencedWrites`, `QueuedIsDeliverable`, `FaultlessCommandEnds` |
| `RuntimeSubject` | a pet; 1 dispatcher, 1 prewarmer, 1 maintainer, 1 operator, 1 fault, 1 write | `SubjectTypeOK`, `RecycleSparesRuns`, `RecycleSavesFiles`, `ActiveIsRestored`, `ColdIsTornDown` |
| `RuntimeSubjectLive` | a pet or a cattle; 1 dispatcher, 1 maintainer, 1 operator, 2 faults, 1 write, fair | `OperationEnds`, `IdleIsRecycled` |
| `DriverCommand` | 2 commands, 1 eviction | `DriverTypeOK`, `HandedOnce`, `ToldIsKept` |
| `DriverCommandLive` | 1 command, 1 eviction, fair | `QueuedIsHanded`, `GoneIsSettled` |
| `EventIngestion` | 4 events, two of them updates of one tool call, 2 connections, 1 fault, fair | `ImplementsDriverLog` (the refinement of `DriverLog`), `EmittedIsStored` |
| `AppDeployment` | 2 deploy requests, 1 deletion, 1 reader, 1 executor, 2 deployments, 2 runs, 2 attempts | `DeploymentTypeOK`, `SuccessHasUrl` |
| `AppDeploymentLive` | 1 run, 2 executors, 1 of each request, 2 attempts, 1 fault, fair | `AttemptsBounded`, `EndedRunIsFinal`, `ActiveRunEnds` |

`RuntimeOperation` contains all of `SessionRun`, so its run is also the one for
the liveness of runs: an operation that never begins is one of its behaviours.

Bounds and why they are enough. A race needs a reader and a writer that overtakes
it: two handlers and the sweep are three writers of one run, one more than any
property relates. A late writer of an earlier run needs two runs and one more
worker. `MaxFlipSeq` limits how often the driver flips a run between `running` and
`waiting_input`; the properties only depend on whether the row moved between a read
and a write, which two sequence numbers already show. With operations and requests it
is 0: there the dispatcher's move from `queued` to `booting` is the one that overtakes,
and the driver only ends runs. One lost execution reaches every pair of
steps; a second would only repeat it on the other row. `MaxRetries` 1 lets a message
be retried and dead-lettered. `MaxWrites` 1: a file that is lost is lost alone.
One eviction empties the object's queue under any call; two commands are needed for a
stale head to stand before another, one is enough for the liveness of each. Four events
are the first, the last and two updates of a tool call between, so that a gap, an output
before the completion and a dropped update can be told apart; one fault, for a push that
failed leaves the driver and the object as they were, but for the rows it stored, and
`LogRefinement` holds for any number. With two faults the run passes too, in five minutes.
A second
deployment is needed for a deletion to meet a newer one, a second executor for a claim
to lapse under the first; together they are too large, and so they are two runs, and
the faults are in the smaller one. The proofs need none of these bounds.

Fairness. Weak fairness of a worker's, an operation's, a request's or a push's own
next step: an execution that is not lost goes on. Strong fairness of `FailStale` (for
a run without a live driver), `Reconcile`, `RepairDelete`, `ClaimInactive`, `Resume`
and `ClaimIdleConversation`: the maintenance command is scheduled every minute
(`apps/api/src/platform/cloudflare/create-api-worker.ts:46`), takes its candidates
oldest first, and so gets to each again and again; an action of the sweep is disabled
while the sweep is busy with another candidate, which is why weak fairness would not
do. Weak fairness of the redrive, of the driver rows' sweep and of `RepairDeadline`,
for the same schedule; strong fairness of a delivery or a claim from a queue: the queue
delivers its messages. Leases, claims and deadlines lapse in time; those of a driver's
commands and heartbeat only once the driver is gone. A connected driver polls and sends
its events. Somebody reads the status of an active deployment, as the App's overview
does every few seconds. Nothing else is fair: no dispatch, driver event, viewer's
request, deployment or admission need come, no close event of a socket need arrive and
no object need finish ending.

### What the models show besides

Behaviour that is in the models and that no property excludes; each was met as a
counterexample of a stronger property, or by reading the code for the model.

*Runs and operations.*
* A timed-out operation terminates the session before it cancels its run, so
  `AppendInterrupted` finds the session not writable and the run's final event is
  silently refused (`R/application/runtime-state-operation-target-events.ts:267`).
* A run an operation interrupts ends without its `session.run.terminal` line
  (`docs/operations/reliability.md:13`).
* An operation lost while it owns the session leaves it RESCHEDULING; the sweep looks
  only at sessions without owner. `OperationGivesBack` excepts it.
* A failed operation restores RUNNING from a read of the run and then cancels that
  run without the session; the sweep repairs this (`ProjectionRepaired`).
* An operation whose session a driver's final event handed back early may stop the
  driver of a newer run.

*Archive and delete.*
* An unarchive checked before a deletion clears the mark the repair needs; a deletion
  lost afterwards is never resumed. `DeletionCompletes` excepts it.
* A cancellation that lost its race looks like a run that ended, and the archive
  finishes with the run active.
* A driver leased between the moment a deletion loads its targets and the stop
  outlives the session. A RESCHEDULING session without an owner seems unreachable, so
  `expireStaleReschedulingSessions` has nothing to do and is not modelled.

*API commands.*
* A redelivered message finds the lease of its lost consumer still live and is
  acknowledged; the command stays running. `FaultlessCommandEnds` assumes no fault.
* A duplicate message that runs out of retries marks a command dead-lettered that
  succeeded meanwhile: `DeadLetter` writes by id alone.
* A producer that is late to note its send clears the outbox mark of a command that
  ended and was reset in between (`Clear` after `Reset`). `QueuedIsDeliverable`
  therefore only speaks of commands that were never reset.

*Runtime subject.*
* Recreating a cold subject starts an empty container, checkpoints it, and the row
  names the empty checkpoint instead of the last one.
* The sweep deletes a remote session between its two statements while a follow-up turn
  opens the conversation again, and then records it closed.
* An activation lost while `restoring` is never repaired: no sweep looks for that
  status, and no later activation admits it.
* An activation that fails tears the container down under another session's run; what
  that run still writes lands in a container of a cold subject, and the next restore
  overwrites it. `ColdIsTornDown` therefore speaks of the teardown since the subject was
  last advertised as active (`torn`), and not of an empty container.
* When the statement that opens a conversation fails, the subject is given back as
  `cold` by its status alone (`runtime-conversation-session-store.ts:254`), with its
  container alive, although `runtime-subject-lifecycle.service.ts:307` says that `cold`
  is published only after a confirmed teardown. The row keeps the error of the
  conversation until the next activation, by which `ColdIsTornDown` excepts it.
* That write does not look at the claim either: a prewarm may be restoring. A run then
  finds the subject cold, takes the claim over, activates, works, and a checkpoint may be
  recorded, before the prewarm's restore puts the older files into the container of an
  active subject. `ActiveIsRestored` excepts such a container (`overtaken`); without the
  exception a search with two operations finds the counterexample, fifty steps deep.
* A pet whose release was lost never gets a deadline again, because
  `repairStrandedCattleRuntimeSubjectDeadlines` leaves pets out: its sandbox stays until
  somebody uses it. It takes no fault: a run that ends between the two writes of its
  lease's acquisition is released first, and `ClearDeadline` then clears the deadline
  that the release armed. `IdleIsRecycled` therefore speaks of a cattle, and of a pet
  whose row has a deadline.
* A failed checkpoint of an API operation gives the row back as `cold` while the
  container is alive; the documentation says that a failed checkpoint prevents the
  removal of the old sandbox. So does one whose drivers could not be stopped.
  `ColdIsTornDown` excepts API operations, whose id the row keeps.
* A checkpoint that takes longer than ten minutes looks left behind, and two
  executions then carry the same operation.

*Driver commands.*
* Stopping a driver that is still starting ends the object and not the row; the driver
  that connects next makes the object start afresh and becomes ready. A driver failed
  between its token claim and its socket becomes ready on an object that ended, and
  never gets a command.
* An ending interrupted by a reuse or an eviction leaves the row live until the sweep
  finds no heartbeat.
* A push may hand commands over out of sequence. A head of the queue that the poll
  claimed blocks the watch for good; polls go on.
* A claimed command whose answer was lost is not delivered again, and expires. Recovery
  from an older connection cannot happen, because a driver connects once.

*Driver events.*
* A batch whose transition disagrees with how the run ended is dropped and still
  acknowledged (`rpc-event-ingestion-controller.ts:153` says that what is accepted is
  durable). `DriverLog` allows it once the API has settled the run.
* Any update of a tool call that is in the log makes replays of all its other updates,
  the later ones too (`runtime-event-replay-filter.ts:66`). A push that failed after it
  stored an update, and is sent again with a later one, stores what follows that later
  one first, and a run may complete before it is stored. It gets no receipt, and so is
  stored when the driver sends it again. `Timely` leaves such updates out; without that,
  TLC finds the sequence in the run `EventIngestion`.
* When the API recorded a failure first, the stream (messages, thoughts, items, tool
  calls) sent along with the driver's `run.failed` is taken for replays, while usage and
  the like are stored; the stream is stored behind them when it is sent again.
  `ImplementsDriverLog` excepts it (`replaced`); without the exception TLC finds the
  sequence if event 3 is none of the stream.
* A failed ending writes the run before it inserts; a driver that then sent a shorter
  batch would lose the rest. This is why the driver is assumed not to.
* A push that failed after its insert is answered as a replay: live viewers, titles and
  permission requests never hear of those events.
* The public stream polls for sequence numbers above the last one it saw; an event
  allocated earlier and inserted later is not streamed. The retry on a conflict of
  sequence numbers cannot be taken, since the allocation is one statement.

*Deployments.*
* A deletion removes what is hosted before it marks the deployment deleted; an
  executor that submits in between leaves the site hosted
  (`docs/prd/app-deployment.md` says that a deletion removes it).
* A status read during the last attempt takes the run for exhausted and fails it under
  its executor, which goes on and may still publish the address.
* An older executor of a failed run may overwrite the site of a newer one, and
  overlapping deletions remove a newer deployment's site.
* A late link makes a newer run not current: its executor returns silently, and the
  run stays active until a read gives it up five minutes later. A run of a deployment
  deleted meanwhile is no longer polled by the overview.

## 4. The proofs

Each theorem holds for every value of the constants: any sets of runs, handlers,
operations, commands, executors and so on, and any number of faults. It rests on the
named assumption of the module (`ConstantsAssumption`, `CommandAssumption`,
`SubjectAssumption`, `DriverAssumption`, `IngestionAssumption`, `DeploymentAssumption`: the null values are
outside of the sets, the kinds of executions are apart, the bounds are naturals), which
TLC evaluates on every run.

| Module | Theorem | States |
|---|---|---|
| `SessionRunProofs` | `TypeCorrect` | `Spec => []TypeOK` |
| | `ActiveRunIsUnique` | `Spec => []OneActiveRun` |
| | `DispatcherIsUnique` | `Spec => []OneDispatcher` |
| | `FinalEventsAreTrue` | `Spec => []FinalEventsTrue` |
| | `EndedRunsStay` | `Spec => TerminalIsFinal` |
| | `HydrationIsCareful` | `Spec => HydrationFailsOnlyUnclaimed` |
| | `LifecycleImplemented` | `Spec => ImplementsLifecycle`: the refinement of `RunLifecycle` |
| | `SessionAgrees` | `Spec => []SessionFollowsRun` |
| `RuntimeOperationProofs` | `OperationTypeCorrect` | `OperationTypeOK`, with `OwnerKnowsSession`, of `OperationSpec` |
| | `OperationEventsTrue`, `OperationRunUnique`, `OperationDispatcherUnique`, `OperationHydrationIsCareful`, `OperationLeavesEndedRuns` | `FinalEventsTrue`, `OneActiveRun`, `OneDispatcher`, `HydrationFailsOnlyUnclaimed` and `TerminalIsFinal` of `OperationSpec` |
| | `OperationLifecycleImplemented` | `OperationSpec => ImplementsLifecycle`: the refinement of `RunLifecycle` |
| `SessionLifecycleProofs` | `LifecycleTypeCorrect` | `LifecycleTypeOK`, with `GoneIsEmpty`, of `LifecycleSpec` |
| | `TerminatedStays` | `TerminatedIsFinal` of `LifecycleSpec` |
| | `LifecycleEventsTrue`, `LifecycleRunUnique`, `LifecycleDispatcherUnique`, `LifecycleHydrationIsCareful` | `FinalEventsTrue`, `OneActiveRun`, `OneDispatcher` and `HydrationFailsOnlyUnclaimed` of `LifecycleSpec` |
| | `EndedRunsStayUntilGone` | no step but the deletion of the row changes a run that ended |
| `ApiCommandProofs` | `TypeCorrect`, `NeverForgotten`, `Fencing` | `CommandTypeOK`, `QueuedIsDeliverable`, `FencedWrites` |
| `RuntimeSubjectProofs` | `SubjectTypeCorrect`, `RecyclesSpareRuns` | `SubjectTypeOK`, `RecycleSparesRuns` |
| | `RecyclesSaveFiles`, `ActiveSubjectsAreRestored`, `ColdSubjectsAreTornDown` | `RecycleSavesFiles`, `ActiveIsRestored`, `ColdIsTornDown` |
| `DriverCommandProofs` | `TypeCorrect`, `DeliveredOnce`, `ToldStays` | `DriverTypeOK`, `HandedOnce`, `ToldIsKept` |
| `EventIngestionProofs` | `LogRefinement` | `Spec => ImplementsDriverLog`: the refinement of `DriverLog` |
| `AppDeploymentProofs` | `DeploymentTypeCorrect`, `SuccessIsShown`, `EndedRunsStay`, `AttemptsAreBounded` | `DeploymentTypeOK`, `SuccessHasUrl`, `EndedRunIsFinal`, `AttemptsBounded` |

**Runs.** None of these is inductive alone, because what a worker writes depends
on what it read before others wrote. `RunInv` adds what a call in progress still
knows (`Informed`): a call about to write holds an edge of the machine that leaves
the status it read, and a call about to append a final event works on a run that
ended that way. The compare-and-set turns the first into a fact about the row; that
terminal statuses have no edges preserves the second while others write. `Unclaimed`
(a queued run has had no dispatcher) together with the edge into `booting`, which
leaves only `queued`, gives `OneDispatcher`; the admission predicate gives
`OneActiveRun`. `SessionAgrees` needs a second invariant, `FollowInv`, over
`RunInv`: the session is IDLE or RUNNING, it follows its runs, and every call in
progress projects what its run will be (`Projects`). Refinement then follows step by
step: only `Admit` and `WriteRun` change a status, the one under the abstract guard,
the other along an edge.

**Operations and requests.** Both compose with every step of `SessionRun`, so their
invariants contain `RunInv`, and the last part of `SessionRunProofs` shows once what a
stop keeps of it (`StopInv`: a stop that cancels has noted a run) and what the writers
of runs may do to the session (`SessionSteps`: keep it, or move one that was not
terminated, and take it from its operation). `OpInv` adds that an operation interrupts
only a run it noted (`Interrupting`), and `OwnerKnowsSession`: the operation that owns
the session still has to give it back, and the sequence number, the last run and the
status it knows are those of the row, since whoever moves the session takes the
ownership away. That is the safe half of `OperationGivesBack`: an operation that finds
its session changed (`LoseSession`) is never the one the row names.
`SessionFollowsRun` does not hold here: an operation separates the two, and
`ProjectionRepaired` takes its place.

`LifeInv` says that a deletion's id stays on the terminated session (`Anchored`), which
is what its repair is found by. `SafeInv` adds `RunInv` as long as the row exists. It
cannot hold beyond: the deletion takes runs from under calls that have read them, and
leaves their winners counted. What remains then is less and enough (`GoneIsEmpty`): a
deletion past its anchor has terminated the session (`Doomed`), so that nothing is
admitted and no event accepted, and a call about to write has read a run that existed
(`SeenRuns`), so that its compare-and-set finds none.

**Commands.** `Held` says who holds which message, `Fenced` that only the last
claimant works under the row's claim, `Waits` that a queued command whose mark is, or
is about to be, cleared has a message that some consumer will claim or that will be
dead-lettered, one that nobody is about to acknowledge. That last clause is what makes
`QueuedIsDeliverable` inductive.

**Runtime subject.** `Inv` says who owns the row: whoever is between two steps of an
operation owns it, alone (`Owning`), in the phase its step belongs to (`Phases`), and a
recycle has met no leased run and none on its way to a lease (`Spared`). It holds
whatever fails. `Keeping` says what the row promises of the container. Its core is
`Holding`: an activation that still holds the claim when it comes to restore holds a
lease that has not lapsed, and the copy of the checkpoint it read is the row's. A copy
read before an operation recorded a newer checkpoint is stale; that operation cannot come
to its end before the activation has tried to claim (`NoneClaiming`), and the attempt
finds the row in the operation. An activation may have lost the claim to a run
meanwhile, when a conversation that could not be opened gave the row back: its restore
is the one `ActiveIsRestored` excepts. It cannot hurt a recycle, because nobody restores
into a subject that is due, that maintenance has claimed or that is being recycled
(`Settled`: a subject falls due only after the remote calls of every activation were cut
off). `Saving` follows the files from the container through the checkpoint into the row.
None of this assumes anything of the faults.

**Driver commands.** A command never returns to a status it left. So whoever is about
to hand it over moved it from queued to delivered and nobody else did (`Handing`), and
a report that is recorded and not yet answered is already true of the row
(`Telling`). The object's own queue has no part in that argument, and has one of its
own in the types: a poll removes a command from the middle of it, and `RemoveFirstType`
shows, by the least index at which it stands, that the sequence that is left is one of
commands.

**Driver events.** The refinement is read off step by step from `Inv`: `InsertRows`
extends the log, `Answer` acknowledges, `Transition` finishes, `SettleRun` overrules.
At most one push is at work, the first in the gate (`GateInv`); the others wait with a
batch they have not looked at. A batch reaches back to the first event without a receipt
and leaves none out (`Batched`), and what is timely and the push at work does not take for
new is stored (`Carried`): a timely event is dropped only for a later one, which
`OrderInv` says comes after it. So it writes the next events of the driver's order
(`Writing`). It may insert late: the API draws numbers from the same counter, but the
numbers a writer holds are its own (`Numbered`), and above those of every event of the
driver (`Latest`). `OrderInv` and `NumberInv` say that the log keeps the driver's order
without gaps; `AckInv` and `RunInv` that what is acknowledged is stored and that a run
that ended was ended by the driver, after everything it had to say. These two end with the
API settling the run (`SettleRun`), the first two once the driver's failure is in the log
besides, and so does the promise of `DriverLog`.

**Deployments.** What a request or an executor works on exists (`Working`,
`Requesting`, `Deleting`, `Reading`), so a fresh row is never one that somebody holds,
and a run under its request has no command yet (`Made`, `Requesting`). An executor
about to end its run successfully has published the address, and only a deletion takes
it back (`Shown`). That an ended run stays is a property of each conditional write.
The bound on dispatches needs a second invariant, `Counting`: a command that may be
claimed, now or as soon as its lease lapses with no executor at work, has an attempt
left, and the executor that owns it knows the number of its attempt.

Only model-checked: liveness (`StrandedRunEnds`, `FinalEventPersisted`,
`ProjectionRepaired`, `OperationGivesBack`, `DeletionCompletes`,
`FaultlessCommandEnds`, `OperationEnds`, `IdleIsRecycled`, `QueuedIsHanded`,
`GoneIsSettled`, `ActiveRunEnds`, `EmittedIsStored`), which is out of the proof
system's reach, as is ENABLED. Every safety property and both refinements are proved.

## 5. Not modelled

* The session's Durable Object, viewers' streams and the fold of events into messages:
  the persisted events they read are modelled, the folding is a computation over data.
* Channels: provider protocols, and the delivery of a final answer.
* Public API, its idempotency records and rate limits.
* The race of a run's cancellation with the dispatch of its turn, which needs
  dispatcher, canceller and driver in one model; the repair of a lease acquired twice.
* The `destroy` of a driver's object, with which the deletion of a session ends it.
* The driver itself: a git submodule that is not in the tree. It appears as
  `DriverEvent`, `Exit`, `Send` and friends, which it may take at any time, under the
  assumptions named above.
* Sandboxes, R2, vendor APIs: external work, whose outcome is a choice. Environment
  builds run as API commands; the build is external.
* Configuration records, files, skills, vault, cost, access checks, LLM and MCP proxies,
  GraphQL and HTTP adapters, the web console: most of the repository's lines, with
  little interaction, or pure input and output.
* Time: a timeout, a window or a lease may have passed at any moment, unless section 2
  says otherwise.

## 6. Plan

1. Done: `RunStatus`, `RunLifecycle`, `SessionRun`, `DriverStop`, `RuntimeOperation`,
   `SessionLifecycle`, `ApiCommand`, `RuntimeSubject`, `DriverCommand`,
   `EventIngestion` with `DriverLog`, `AppDeployment`; every safety property of a run
   and both refinements proved.
2. Proofs: an abstract specification of a command's delivery, and of a deployment's
   run, that `ApiCommand`, `DriverCommand` and `AppDeployment` can share.
3. `TurnDispatch`: dispatcher, canceller and driver; the lease acquired twice.
4. `CommandedRun`: `ApiCommand` composed with `SessionRun` (the queued dispatch as the
   work of a command), with the dead-letter consumer's own failures.
5. Smaller machines: the fold of events into the session's view, channel final
   delivery, public-API idempotency.
