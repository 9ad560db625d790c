# TLA+ models of pg2tidb

`pg2tidb` migrates a PostgreSQL database to TiDB: a staged batch migration
(precheck, schema, data, validation), an optional incremental replication
process (`pg2tidb cdc`), and a web server that starts, observes and stops both.
This directory holds models of the parts whose behaviour depends on
interleavings, crashes and restarts, with the TLC runs that check them and the
TLAPS proofs about them. Every definition follows the Go code under
`src/internal` and `src/cmd`, or the pages under `src/web/frontend/src`;
`PROJECT.json` maps each one to its lines.

## Inventory

| Component | State it keeps | Operations | Hard behaviour | What makes it correct |
|---|---|---|---|---|
| CDC source (`cdc/source.go`) | `lsnCurrent`, `fatalErr`, `stopCh`, events channel; the slot's `confirmed_flush_lsn` in PostgreSQL | `Start`, `streamLoop`, `Stop`, `CurrentLSN` | blocked receive and send against cancel and stop; acknowledgement against parse failure; restart resumes at slot or checkpoint | nothing unparsed is confirmed; nothing is jumped over |
| CDC applier (`cdc/applier.go`) | table buffers, worker channels, `fatalErr` | `Start` (dispatch, flush), `worker`, `applyEvent` | three bounded queues in a row; cancellation in the middle of a flush; one worker halting all | no event lost, duplicated or reordered; drain is complete; a halt is loud |
| CDC runner and command (`cdc/runner.go`, `cmd/cdc.go`) | checkpoint file, run state, two signal handlers | select loop: applier done, signal, DDL error, tick, cancel | one signal handled twice; save order; drain timeout | the saved LSN never goes back and never passes what must be read again |
| CDC DDL replication (`cdc/ddl_tracker.go`, `runDDLPoller`) | `pg2tidb_ddl_log`, `lastID` | trigger, fetch by id, apply, checkpoint | ids committed out of order, replay after a crash | every statement is applied, in order |
| CDC transformer (`cdc/transformer.go`) | none | event to SQL | replay of a suffix of the log | the target converges to the source |
| CDC status file (`cdc/statusfile.go`, `cdc/webapi.go`) | JSON file written by rename | write on tick and at exit, read by the web server | a dead writer leaves a fresh file | "running" is never shown for a process long dead |
| CDC supervisor (`webapi/cdc_supervisor.go`) | state, child process, restart count, channels per session | `Start`, `Stop`, `Adopt`, `supervise` | start against stop against exit of the child, backoff, adoption | one child at a time, bounded restarts, stop terminates |
| Web task server (`webapi/server.go`, `store/store.go`) | tasks in SQLite, running goroutines, cancel functions | create, start, pause, resume, cancel, delete | two goroutines for one task, late status of an old run | one run per task, the status shown is the run's |
| Migration checkpoint (`common/checkpoint`) | phase, table and chunk status in a JSON file | load, save, mark, reset | crash between any two writes; two managers of one file | a table marked completed is on the target |
| Orchestrator (`orchestrator`) | phase | precheck, schema, data, validate with a checkpoint policy | resume in the middle | a phase is skipped only if it is complete |
| Data migrator (`data/migrator.go`) | export files, worker pool | export, chunked export, Lightning import, SQL import | parallel workers, one failing; fallback after a partial import | chunks cover the table exactly once |
| Validator (`validator`) | report, semaphore, two connection pools | row counts, checksums, sampling by key, three comparisons of hashes | a goroutine per table that holds one connection and waits for another; failing statements; types and texts that differ between the databases | a PASS was earned, a faithful copy raises no alarm, the run returns |
| Log buffer (`webapi/logbuffer.go`, the log handlers of `server.go`) | entries kept of each task, subscribers | append, subscribe, replace | slow subscriber, entries between a readout and a subscription, a buffer replaced under its subscribers | no entry falls between the two |
| Frame of the web pages (`App.vue`, `router`, `api/index.ts`) | the mounted page, calls in flight | menu, links, pushes, calls with or without an answer | an answer for a page that is gone | a page shows what it asked for |
| Wizard (`WizardView.vue`) | form, tests, tables, selection, submission; saved connections | edit, test, list tables, select, submit | calls that overlap, steps walked back, a submission of two calls one of which fails | one task per visit, with tables of its source |
| Task list and history (`TaskListView.vue`, `HistoryView.vue`) | the rows shown | poll, delete | answers out of order | what was deleted stays away |
| Page of a task (`TaskDetailView.vue`) | status shown, log entries, a socket | poll, operate, open the log | a page left while calls are in flight; a component reused for another task | one socket, a complete log, the server's status in the end |
| Replication panel (`CDCView.vue`) | supervisor's state as shown, busy flag | poll, start, stop | a command that takes as long as the child, readouts that overlap | a command ends, the state in the end |
| Assessment page (`AssessView.vue`) | form, report | assess, download, save | a form changed under a call | the report is that of the last request |
| Schema migrator, assessment, precheck, reporter, configuration, Lightning wrapper, command line | | | sequential, pure formatting or I/O | |

Interactions: the web server starts `pg2tidb cdc` as a child process and learns
about it from the status file and the exit code; it runs the orchestrator in
goroutines of its own. The orchestrator and the data migrator keep
a checkpoint manager each, on one file. Inside the CDC process the source, the applier's dispatch
loop, its workers and the runner communicate by channels and by one context. The
pages in a browser tab reach the web server by calls, each of which may be
answered late, out of order or not at all, and by two web sockets of the page of
a task; the rows of the server are shared by all tabs and by the migrations. The
pages communicate with each other only by the route, and by `localStorage`.

## Plan

1. `CDCPipeline`, `CDCDelivery`, `CDCPipelineMC`, `CDCPipelineProofs`: the
   replication process, its promise, its runs and its theorems. **Done.**
2. `CDCSupervisor`, `CDCControl`, `CDCSupervisorMC`, `CDCSupervisorProofs`: the
   web server's process supervisor with an abstract child process, and what it
   promises. **Done.**
3. `MigrationCheckpoint`, `DataMigration`, `DataMigrationMC`,
   `DataMigrationProofs`: phases, tables and chunks with crashes and restarts.
   **Done.** Left: the abstract specification below.
4. `ChunkPlan`: the ranges that `calculateChunkBoundaries` cuts an integer key
   into put every row in exactly one chunk, whatever the number of chunks, as long
   as `maxVal - minVal + 1` fits 64 bits (theorem), and a resumed export needs the
   same count and `chunk_size`. For other keys `exportChunk` reads
   `LIMIT BatchSize*2` at offsets that are `chunkSize` apart
   (large-table-chunking-design.md:148 says `LIMIT :chunkSize`): state exactly when
   rows are left out. `ArrayText`, another pure algorithm, against a reference
   definition over bounded inputs.
5. `WebTasks`, `WebTasksMC`, `WebTasksProofs`: task states against the
   goroutines of their runs, with pause, resume, cancel, delete and re-execute.
   **Done.**
6. `DDLReplication`, `DDLReplicationMC`, `DDLReplicationProofs`: event triggers,
   the poller and its checkpoint, against the stream of rows. **Done.** Left:
   `TargetReplay`, what replaying a suffix of the WAL does to rows.
7. `RowCompare`, `RowCompareProofs`, `Validation`, `ValidationMC`,
   `ValidationProofs`: how the validator compares tables, and the goroutines that
   do it. **Done.**
8. `TaskApi`, `Router`, `WizardView`, `TaskLists`, `TaskDetailView`, `TaskLogs`,
   `CDCView`, `AssessView`, composed in `WebApp`, with `WebAppMC` and
   `WebAppProofs`: the pages and the log of a task. **Done.** Left:
   two tabs.
9. The CDC status file and what the panel makes of it.

Abstract specifications: `CDCDelivery` (ordered delivery), `CDCControl` (a
replication process that is wanted or not) and `TaskApi` (what a call may do to
the row of a task, refined by `WebTasks` and used by the pages) exist; a migration that copies each
table once, refined by `DataMigration` for one undisturbed start, is worth
stating next.

## CDCPipeline

| Model | Code |
|---|---|
| `walEnd`, `slot`, `CommitTransaction`, `ResumePoints` | PostgreSQL: the WAL, the slot, where the walsender resumes (external) |
| `ckpt`, `torn`, `SaveCheckpoint` | `CheckpointManager.Update` and `Save`, which overwrites the file in place |
| `run`, `exit`, `RunnerApplierDone`, `RunnerSignal`, `RunnerShutdown`, `RunnerDDLHalt`, `RunnerTick`, `RunnerCancelled` | the cases of the select in `Runner.Run`; `run` is "sigwait" in the inner select of the signal case |
| `sig`, `cmdSig`, `Signal`, `CommandCancels` | the runner's and the command's `sigCh` |
| `src`, `next`, `lsn`, `hand`, `Keepalive`, `ReceiveRecord`, `PassOver`, `SendEvent`, `ParseFailure`, `StreamStops`, `ConnectionLost` | `Source.streamLoop` |
| `chan` | the events channel (4096 in the code) |
| `disp`, `cause`, `buf`, `flushing`, `out`, the `Dispatch...` and `Flush...` actions | `Applier.Start`, `bufferEvent`, `flushFullTo`, `flushAllTo` |
| `wch`, `whand`, `gone`, `appFatal`, the actions with a worker parameter | `Applier.worker`, `applyEvent` |
| `applied`, `failed`, `parsed`, `unread`, `origin`, `base`, `from` | history, read by properties only |

A record of the WAL is its position in the constant `Log`; its content is the
table it changes, or `Commit`. `workerFor` is the constant `Route`. The retry
loop of `applyEvent` is reduced to its outcomes (applied, given up, structural
halt), each after any delay. A record can fail to be read in two ways.
`ParseFailure` is an error of the decoder, which stops the source. `PassOver` is
a frame that `ParseXLogData` rejects: `streamLoop` logs it and goes on, and the
next record moves `lsnCurrent` past it; `unread` has the positions lost that way.
`StartFails` may leave a slot that it has created. A structural error cancels the applier's own
context (`AppDone`), a signal the whole run's (`ctxDone`). A crash may come
between any two steps; what survives is PostgreSQL and the checkpoint file.

`CDCDelivery` says what one run promises: events are read in WAL order and the
events of a table are settled in the order they were read, and nothing is
abandoned unless the run was cancelled or told to stop. The pipeline implements
it with the pending events of the abstract run mapped to what is in the source's
hand, the channels, the buffers, the flush and the workers.

### Runs

| Run | Question | Result |
|---|---|---|
| `cdc_run` | Whatever signals, DDL halts, timeouts, structural halts and lost connections do: while the applier is not cancelled, is every event in exactly one place, applied in order, and drained when the stream ends? Does the pipeline implement `CDCDelivery`? | holds, and is proved below |
| `cdc_restart` | Across crashes, torn files, parse failures and a table that is skipped: is nothing confirmed that was not parsed, passed over as unreadable or jumped over by a start, and does the checkpoint never go back? With channels of one: do they ever stop the pipeline, and is the end of the stream always noticed (`RunSettles`)? | holds, the last two under the fairness below |
| `cdc_jump` | "PG retains the WAL → on restart the record is re-sent" (source.go) | violated: without a checkpoint `Start` takes the server's current position although the slot exists, after a crash or after a start that failed once it had created the slot |

Five more disagreements with docs and comments were met while modelling and have
no run. "lsnCurrent advances only on a successfully parsed XLogData record"
(`source.go:278`), so that no record is lost silently; but a frame that
`ParseXLogData` rejects (`source.go:282-286`) is logged and passed over while the
stream goes on, and the next record confirms and saves a position past it: the
record is neither applied nor sent again. `ConfirmedIsParsed` exempts these positions, in `unread`,
and those that `cdc_jump` is about; without the exemption TLC finds it violated. The ticker saves the position received, not the position applied, so
that a crash loses what is still in the channel, the buffers or the workers,
although the tool's README.md:820 promises at-least-once delivery
(`docs/cdc-web-monitoring-contract.md:97` admits this window).
On SIGTERM the command cancels the applier, which abandons what it holds, and
the runner then saves the received position as a clean end, although the
checkpoint is "the last successfully processed LSN" (`models.go:45`). A
structural error met while draining a closed channel ends the run cleanly,
although "a structural halt surfaces as a real error" (`applier.go:204`). The
final save after a halt is past the event that halted the applier, although it
is "never past the failure" (`runner.go`).

### Bounds

Logs have six or seven records in two or three transactions; two tables on two workers or
on one; capacities of one or two, so that every channel is full in some state
and a flush has to wait with events left; one or two starts. The two
starts of `cdc_restart` are enough for a position saved by one run to be used by
the next, which is the only way two runs influence each other. `Occurs` switches
off the faults that a run's question does not need. At most `MaxUnread` frames
(one) are unread at a time. At most one signal per run
is sent. `Finished` is the stuttering of a process that the bound `MaxStarts`
does not start again; every other deadlock is reported.

### Fairness

Weak fairness of every goroutine: Go runs every runnable goroutine, a ready
select case is eventually chosen because select chooses among ready cases at
random, PostgreSQL keeps sending keepalives and what it has committed, the flush
ticker keeps firing, and a statement sent to TiDB ends by success or by failure.
Nothing is assumed of commits, signals, crashes, parse failures or lost
connections.

### What is proved

`CDCPipelineProofs`, for every log, number of tables and workers, capacity and
set of faults, from the assumptions `LogAssumption` and `ConfigAssumption`:

- `TypeCorrect`: `Spec => []TypeOK` (proved instead of checked), which includes that no channel exceeds its
  capacity. `TypeOK` is inductive; one step per action, with a frame lemma for
  each group of variables that an action leaves alone.
- `ConfirmedParsed`: `Spec => []ConfirmedIsParsed`. Not inductive by itself: a
  restart resumes at the larger of checkpoint and slot and `lsnCurrent` then
  advances record by record, past those it passes over, so `ResumeInv` adds that everything before the next
  record is covered while the stream is open, and that a slot can only be missing
  when there is no checkpoint either (otherwise creating it would confirm unread
  records).
  The theorem says what the code does, not what its comments say: `Covered`
  exempts the positions passed over as unreadable.
- `CheckpointMonotone`: `Spec => CheckpointNeverRegresses`, from `SavedInv`
  (while the process runs, `lsnCurrent` is not behind the checkpoint).

- `Conserved`, `InTableOrder`, `DrainsAll`: `Spec => []EventsConserved`,
  `Spec => []AppliedInOrder` and `Spec => []DrainComplete`, all three from one
  invariant, `FlowInv`. `Held` lists what the seven stages between the source's
  hand and the target hold. An event is executed by one worker among many, so no
  property of the workers alone says that its predecessors are settled;
  `FlowInv` says where they can be: of the events of one table, those in an
  earlier stage come first (`Chain`) and each queue is in order (`Queued`), a
  worker has only events of the tables routed to it (`Routed`), and what is held
  was received in this run (`Received`). Nothing gets lost before a cancellation
  (`Kept`), which together with `Chain` gives the order in the moment a statement
  begins; `InOrder` remembers it, since a cancellation may then abandon others.
  `Idle` and `Ending` say what is empty while the process is down and while the
  dispatch loop ends. That an event has one place is a consequence: two places
  would make it come before itself. Every action passes a set of events from
  one stage to an earlier one; the lemma `ChainMove` says when that keeps the
  order, and there is a lemma for each action that passes events on (`Buffered`,
  `Flushed`, `SentToWorker`, `Dequeued`, `HandEmptied`).
- `DeliveryImplemented`: `Spec => ImplementsDelivery`, from the same invariant
  and lemmas. Only a step that settles needs it: the event is the oldest pending
  one of its table (`SettlesOldest`).

Only model-checked: the liveness property `RunSettles`, which the prover cannot
do. `UnparsedIsResent` is violated.

## CDCSupervisor

| Model | Code |
|---|---|
| `state`, `proc`, `restarts`, `done`, `stopCh` and the other fields | the fields of `CDCSupervisor` under its mutex |
| `Start`, `StartFails` | the critical section of `Start` |
| `ReadProc`, `ChildExited`, `BackoffStopped`, `Respawn`, `RespawnFails`, `Finish` | the critical sections of the `supervise` goroutine of session `k`, and `finish` |
| `StopIdle`, `StopBegin`, `StopSignals`, `StopKills`, `StopReturns`, `StopTerminatesPID`, `StopForgets` | the steps of `Stop` in the request of client `c`: what it reads under the lock and what it does with it afterwards |
| `ChildDies`, `ChildWritesStatus` | the child process (external) and its status file |
| `WebRestart` | the web server is restarted: `Adopt` finds the process by the status file, or does not |
| `spawned`, `carried`, `overlapped`, `quiet`, `panicked` | history, read by properties only |

Sessions are numbered by the Starts that spawned a process; a channel is named
by its session. The child runs until it exits by itself, is asked to or is
killed.

`CDCControl` is what one boot of the supervisor promises: a process exists only
while it is wanted, a Stop makes it unwanted, and one at a time. With a restart
of the web server the promise is void (`kept`), and so it is once it is started
before a stop is over (`Overrun`). The refinement mapping is in
`CDCSupervisor` (`Control`).

### Runs

| Run | Question | Result |
|---|---|---|
| `sup_run` | Two concurrent requests that start and stop in any order, also a Start during a Stop, crashes of the child, failing spawns and respawns, a restart of the web server with or without adoption: is the number of restarts bounded (`RestartBudget`)? Up to the first Start that overlaps a Stop or the end of a session: one child at a time, nothing left after a Stop, no channel closed twice, `CDCControl` implemented; does every Stop return, and is every restart resolved (`SupervisionSettles`)? | holds; the last two under the fairness below, and unless a failed respawn has abandoned the session |
| `sup_overlap` | Start is "a no-op if already running/starting" (`cdc_supervisor.go:189`) and "Start/Stop 幂等", idempotent (`docs/cdc-web-control-design.md:166`): is there ever a second process? | violated: a Start while the state is stopping passes the test of line 197 and spawns a process beside the one that is shutting down |

`Start` refuses the states running, starting and adopted only. One that comes
during a Stop, or between the end of a session and its `finish`, replaces
`done`, `stopCh` and `stopOnce` under the Stops and the `supervise` that still
use them. The model lets it happen everywhere, and `overlapped` remembers that
it did. What fails from then on, each found by TLC when `~overlapped` is taken
out of the property: a second process (`sup_overlap`); two Stops close one stop
channel twice, which panics; a Start that fails during a Stop sets the state
failed, and the next Stop returns at once while the process still runs; the old
session's `finish` closes the new session's `done`, so that a Stop of the old
session waits for ever. `StartingEnds` and `RestartBudget` hold throughout; of
the latter, the count is shared by the sessions, and a session that was in its
backoff when Start reset it (`carried`) may add one process.

Two more disagreements with the code's comments and documents have no run.
A respawn that fails before the cap is
reached ends `supervise` with the state starting and `done` open, for ever, so
that "an unexpected exit → restart with backoff up to maxRestarts, else failed"
does not hold, and a Stop then waits for ever. Stop of an adopted process returns
without waiting for it, and an adopted process that dies is shown as adopted
until someone stops it.

### Bounds and fairness

`MaxStarts` counts Start requests that spawn, `MaxSpawns` processes, `MaxBoots`
restarts of the web server. Two clients are a Stop beside a Start or beside
another Stop; two starts let one overlap the end of the other or follow it; one
restart each lets the count be used up and used again, and the five processes of
`MaxSpawns` are more than two starts can have, so that this bound never hides a
process too many. A child that fails
to respawn leaves Stops waiting for ever (see above), so `sup_run` does not
check deadlock: the supervisor really stops there. `Abandoned` names these
states, and `SupervisionSettles` makes the exemption explicit. It is checked for
one client, since clients are alike.

Weak fairness of every `Supervise(k)` and of every `StopStep(c)`: they are
goroutines of a running server, and the grace timer fires. Nothing is assumed of
clients, of the child and of restarts; a kill ends a child.

### What is proved

`CDCSupervisorProofs`, for any number of clients, starts, restarts and spawns
and any interleaving of Starts and Stops: `TypeCorrect`, `BoundedRestarts`,
`OneChild`, `NothingLeft`, `ClosedOnce` and `Implements`, without a hypothesis.
`BoundedRestarts` is unconditional in what it says, too: its invariant `Counted`
is that the processes spawned and the sessions in their backoff are covered by
the restarts counted. The others speak of the time before the first overlap, as
their properties do, by the invariant `SupervisorInv`: one session loops at a
time, the state agrees with where it is, every Stop that waits holds the
channels of that session, and the child belongs to it. It is inductive as long
as `overlapped` stays false, which is remembered (`Invariant`). That it fails
afterwards is `sup_overlap`. Liveness is model-checked only.

## DataMigration

| Model | Code |
|---|---|
| `MigrationCheckpoint` | the operations of `checkpoint.Manager` on the checkpoint in memory; `NoFile` is a missing file |
| `orch`, `cp`, `file`, `Save` | the managers of the orchestrator and of the data migrator, `checkpoint.json`, `save` |
| `run`, `opts`, `StartRun`, `RunPrecheck`, `RunSchema` (`Dropped`), `ClearCheckpoint`, `RunData`, `RunValidate`, `Complete` | `Orchestrator.Run` and its phases |
| `at`, `firstErr`, `worker`, `OpenData`, the `Export...` actions, `CreateFile` | `Migrator.Run`, `exportTable`, `exportTableFallback`: the loop over the tables, the semaphore and the goroutine of each table |
| `chunk`, `chunkErr`, the `Chunk...` actions, `BeginChunks` | `exportTableChunked`, `exportChunk` |
| `plain`, `ready`, `RenameFiles`, `TruncateTarget`, `LightningLoads`, `LightningFails`, `MarkImported`, `ImportEnds` | `importViaLightning`, `applyTargetPolicy`, and the marking that follows |
| `pos`, the `Sql...` actions, `InsertBatch`, `InsertFails`, `CommitUnknown`, `StreamFails`, `StreamEnds` | `importViaSQL`, `streamTable`, `execBatch` |
| `target`, `Loaded`, `Duplicate` | TiDB and Lightning (external): copies of each part's rows |
| `starts`, `result`, `read`, `fellBack` | bounds and history |

A table is a set of parts: its chunks, or its INSERT batches. A file of the temp
directory holds a part completely, incompletely or not at all; the file of a
table that is not chunked holds all its parts. The two managers load the file
when they are created and write all they have with each save, so that one can
overwrite the other. The three attempts of `execBatch` are reduced to their
outcomes: applied, failed, applied with the answer lost and tried again. The
validator only reads; it passes or fails as it likes, so that no property leans
on it. `CheckpointBacked` has two parts: `TablesBacked` for what the checkpoint
file calls a completed table, and `ChunksBacked` for a completed chunk.

### Runs

| Run | Question | Result |
|---|---|---|
| `mig_run` | Three commands (Lightning under the policy truncate, INSERT with "skip", all phases going on after errors), each started twice, with every phase, the export, both imports, the connections and the writes of the checkpoint file failing, and crashes anywhere: is what the checkpoint calls completed in the files or on the target, does success mean a complete copy, does the orchestrator keep the migrator's progress, does the export repeat nothing that is recorded, and does every run end? | holds |
| `mig_fresh` | "cleared checkpoint for drop/truncate policy to force fresh data migration" (orchestrator.go) | violated: `SetPhase` writes the tables the orchestrator has in memory back, and the second run exports nothing |

What the properties leave out, because it does not hold:

- `rows.Err` is never consulted after a loop over `rows.Next`. A connection that
  ends in the middle of a table gives a short file, or short INSERTs, of a table
  marked completed ("source lost"): `CheckpointBacked` and
  `SuccessIsComplete` fail with it, so that `mig_run` leaves it off.
- With `on_error: skip` the import follows although tables have failed, and
  `MarkImported` marks them completed: the next run skips them.
- The INSERT path does not ask whether a table is completed, although "completed
  tables are skipped automatically" (`docs/deployment.md:268`, README.md:495 of
  the tool). Repeating a command copies tables without a key again; on a table
  with a key the first batch fails, so that after a crash no repetition of the
  same command succeeds.
- The policy truncate is applied before a Lightning import only.
- A fallback to INSERT after a partial Lightning import duplicates the rows of
  tables without a key, as does a COMMIT whose answer is lost.
- With different commands in a row (INSERT first, then drop with Lightning) the
  written-back checkpoint makes a run succeed on an empty target, since every
  table is skipped and without files the import returns nil. `SameCommand`
  excludes this from `mig_run`.

### Bounds and fairness

Two tables, one exported in two chunks and with a key, one in a single file and
without, and two batches each: the least with a table half done beside another,
and with a chunk done beside one that is not. Two starts: whatever the first one
leaves, by a crash, an error or a fallback, the second has to live with. One
table at a time and two chunks at a time, so that the semaphore of the tables has
to wait. No property tells one copy of a row from several, and `MaxCopies` is
one. `Finished` is the user who does not repeat the command again.

Weak fairness of `Program`, whatever the command does: a step is enabled until
the run has ended, each is one the Go scheduler takes or an answer of a database
(with a result or an error), and no sequence of steps of one run is infinite.
Nothing is assumed of crashes and of the user.

### What is proved

For any tables, order, parts, semaphores, commands and number of starts, from
`CheckpointAssumption` and `MigrationAssumption`. The first three hold whatever
fails; a crash may come between any two steps.

- `TypeCorrect` (`TypeOK`), which includes the bounds of both semaphores: never
  more than `Parallel` tables hold a slot, nor more than `ChunkParallel` chunks of
  a table. No run checks `TypeOK`, since the theorem settles it.
- `KeepsProgress` (`ProgressKept`): the orchestrator's saves never overwrite the
  migrator's progress in the file.
- `Resumes` (`ResumesExport`): an export starts no table and no chunk that the
  file calls completed.
- `BackedAlways` (`CheckpointBacked`) and `SuccessComplete`
  (`SuccessIsComplete`), as long as the checkpoint file can be written, no source
  ends a read early, and the command that is repeated is the same. The list above
  has what happens without the last two. The first is what the argument rests on
  (the file is the migrator's memory while it runs); `mig_run` with two starts
  and such errors finds no violation, so that it may be more than is needed.

The first three follow from `WorkInv`, of six parts: the types; `Working` (a
goroutine is in the loop that started it, at a table that the migrator's memory
has and does not call completed; a chunk in work is not recorded); `Limits` (the
semaphores, by the cardinality lemmas of the library); `AllRegular` (a checkpoint
has chunks only of a table that it has and that is chunked); `Behind` (during the
export the file calls nothing completed that the memory does not) and
`OrchAgrees` (before the data phase the orchestrator's memory has each table of
the file as the file has it). The properties are not inductive alone: whether a
save loses something depends on which of the two memories it writes and on how
old that memory is.

The other two need `CopyInv` on top, since a table is called completed when its
files are written and long before its rows are on the target. So the files must
survive until the import has read them, and the orchestrator's memory, which goes
back into the file, must be backed too (`AllBacked`, `OrchOlder`, `Saved`).
`ChunkProgress`, `StreamProgress` and `LoopProgress` say how far the goroutines
of a table and the two loops have come and what is in the files or on the target
by then; `Importing`, `Started` and `Ended` carry that from the end of the loops
through the import to the result of the run. The proof takes the actions one by
one and, for each, the parts it can disturb.

Only model-checked: `RunEnds`, liveness under fairness.

## WebTasks

| Model | Code |
|---|---|
| `row`, `progress`, `Update` | the row of `tasks` in SQLite: its status and progress columns; one statement is one step (`Store.mu`) |
| `checkpoint` | the progress in the directory `.checkpoint/<task>` |
| `cancelFn` | `Server.runningTasks` |
| `at`, `on`, the `Start...`, `Resume...`, `Pause...`, `Cancel...`, `Delete...` actions, `Launch` | `handleStartTask`, `handleResumeTask`, `handlePauseTask`, `handleCancelTask`, `handleDeleteTask` in the goroutine of request `c`, one step between two accesses to shared state |
| `step`, `of`, `count`, the `Run...` actions | `runMigration` in the goroutine of run `k`; `count` is what its orchestrator has in memory |
| `cancelled` | the contexts of the runs |
| `poll`, `sample`, the `Poll...` actions | `pollProgress` of run `k` |
| `tee` | `logger.extraCore`, installed by `RegisterExtraCore`, removed by `UnregisterExtraCore` |
| `Restart` | the end of the server process and `NewServer` |
| `calm` | history, read by properties only |

What a migration does is reduced to units of work, each saved in the checkpoint
before the next; `DataMigration` has the detail. The maps `runningTasks` and
`logCores` are written by handlers and goroutines without a mutex; Go detects
concurrent writes of a map at best, and then the process dies, which is
`Restart`.

### Run

| Run | Question | Result |
|---|---|---|
| `web_run` | All requests in any overlap, with failing migrations, ticks and a restart of the server: is a row that says running being worked on, does a calm task have one run, does Cancel reach it, is completed complete, and is the progress kept? Does the server do to a row no more than `TaskApi` lets the calls of the pages do (`ImplementsApi`)? | holds |

A task is calm while its requests come one at a time and no Start or Resume
comes before the run of an earlier one has ended (unless the row says running,
when the handler itself has to refuse it). The properties about one run per
task are about calm tasks, because for the others they do not hold:

- Pause changes the row and nothing else. The run goes on, against the tool's
  README.md:458 (pause task); Resume launches a second run over the same
  checkpoint directory and replaces the cancel function of the first, which no
  request can cancel any more.
- Cancel removes the cancel function and writes the row while the run is still
  on its way out; a Start right after it has two runs of the task.
- Two Starts at once both read the status before either has written running.
- Delete of a task that is paused or cancelled leaves its run copying.

And of calm tasks too, so that no property says otherwise:

- The last write of `pollProgress` is not awaited. It can come after the final
  progress sync (server.go:725) and leave an old progress in a completed row.
- `UnregisterExtraCore` drops the cores of all runs: the first run that ends
  takes the log of every other task with it. While several are installed, each
  task's log has the messages of all.
- The cancel function stays stored when a run ends, so that Cancel of a
  completed task overwrites its status.
- An error of the final `UpdateTaskStatus` is ignored; the row goes on saying
  running. So it does after a restart of the server, and a Start is refused
  until somebody pauses or cancels the task (`RunningIsServed` is about the
  first boot for this reason).

### Bounds

One task, two requests at a time, two runs, one unit of work, one restart. In the
model tasks share `tee` and the store, which is updated by key; two requests or
two runs of one task are what interleaves. In the code the runs of all tasks
also share one temp directory, `/tmp/pg2tidb` (`server.go:476`), so that two
tasks with a table of one name write the same export files; that is outside the
model, which stops at what a run does to its checkpoint and its row, and
`DataMigration` has one command at a time. `Room` keeps a run free for each
launch that has begun, so that the bound never stops a request half way; without
it a deadlock would be reported where the code has none. Deadlock is not met,
since Cancel is accepted in every state. No liveness is stated: that a run ends
is `DataMigration`'s.

### What is proved

`WebTasksProofs`, for any number of tasks, requests, runs, units and restarts:

- in any overlap: `TypeCorrect`, `RunningServed` (`Spec => []RunningIsServed`),
  `CoresRemoved` (`Spec => []NoStaleCore`: no log core of a run that is over) and
  `ApiImplemented` (`Spec => ImplementsApi`);
- for calm tasks: `OneRunPerTask`, `CancelsReach`, `CompletedWhole` and
  `ProgressSurvives` (`Spec => CheckpointKept`).

The inductive invariant `IInv` adds to the properties what ties them together.
`SoleRequest`: a calm task has one request at a time. `NoRunYet`: the one about to
launch finds no live run, which gives `OneRun`. `Reachable`, `Fired` and
`MarkedIsOpen`: the stored function is that of the live run until a Cancel has
fired it, and `Judged` says that only a run whose context is cancelled writes
cancelled; together they give `CancelReaches`. `Saved`: what a run has in memory
is what its task's checkpoint has, and all the work once it returned without an
error; through `Whole` (a completed row has at most a run that cleans up) this
gives `CompletedIsWhole`. `CheckpointKept` follows from `Saved`, since the only
run that writes the checkpoint adds to what it holds.

## The pages: WebApp and its parts

| Model | Code |
|---|---|
| `TaskApi`: `row`, `CreateRow`, `WriteRow`, `DeleteRow`, `StartRow`, `CallRow` | the status column of each task, and what the calls of `api/index.ts` do to it at the server |
| `Router`: `page`, `going`, `Push`, `UserPushes`, `Arrive`, `Reload`, `FeaturesAnswered` | `router/index.ts`, `App.vue`: the page that is mounted, `router.push`, the menu |
| `Answered`, `Unanswered`, `lost` | how a call ends: `http` (axios) rejects after 30 seconds; `fetch` in the panel rejects when the connection ends |
| `WizardView` | `WizardView.vue`: `EditSource`, `SaveConnection`, `LoadConnection`, `DeleteConnection`, `TestConnection` and its answers, `NextStep`, `PrevStep`, `LoadTables`, `Search`, `ToggleTable`, `ToggleSelectAll`, and of a submission `Submit`, `CreateServed`, `CreateAnswered`, `StartServed`, `StartAnswered`, `SubmitFails` |
| `TaskLists` | `TaskListView.vue`, `HistoryView.vue`: the timer, the list calls in flight, `DeleteTask` with its two calls |
| `TaskDetailView` | `TaskDetailView.vue`: the timer, `FetchTask`, the four operations |
| `TaskLogs`: `buffers`, `streams`, `AppendLog`, `RemoveBuffer`, the `Stream...` actions | `TaskLogBuffer` (`logbuffer.go`) and the goroutine of a log socket (`handleLogStream`) |
| `logs`, `logCalls`, `logWs`, `OpenLogs`, `LogsServed`, `LogsAnswered`, `ConnectLogWS` | the log drawer of `TaskDetailView.vue` |
| `CDCView` | `CDCView.vue`: `Refresh` and its two answers, the timer, a command; `ctl` is the supervisor's state as its answer has it |
| `AssessView` | `AssessView.vue` |
| `WebApp` | one tab: all of these over one `page` and one `row`, with what other tabs and the migrations write (`OthersWrite`, `OthersStart`) |

A page is `<<view>>`, that of a task `<<"detail", task>>`. What a page keeps in
refs is lost when it is left; its calls are not, and each model says what the
answer then does. A call is served by the server in one step between the request and its
answer; that the server's own steps stay within these is `ImplementsApi` of `WebTasks`.
`vite.config.ts` builds all views into one chunk (`inlineDynamicImports`), so that
a push mounts its page before any other event (`Next`: only `PageArrives` while
`going` is set). A log entry is its number in its buffer.

### Runs

| Run | Question | Result |
|---|---|---|
| `ui_wizard` | However the steps are walked, calls overlap and the page is left: are a task's tables those of its source, does a visit start one task, and is nothing left loading? From there to the log of the task: is an entry lost between the call and the socket, and is more than one socket open? | holds |
| `ui_pages` | With answers out of order and one that never comes, other tabs and a process that fails by itself: does each page come to show what the server has, does a deleted task stay away, is the report that of the last request, does a command end? | holds, `PagesSettle` and `CommandEnds` under the fairness below |

What does not hold, and is left out of the properties by name:

- `drift`. A connection that is edited, or loaded from the saved ones, while the
  tables of the previous one are on show (or on their way) leaves a selection
  that the new source need not have. `TablesMatch` exempts these submissions.
- `lost`. A submission is `createTask` and then `startTask`. When the second is
  refused or not answered, the page says that the creation failed, the task
  stays, and the next click makes another: `StartedOnce` allows a second start
  only where the answer to the first never came, and says nothing of rows that
  were created and not started.
- An answer that comes when the page was left still acts: a submission of the
  wizard, or a deletion of the page of a task, then pushes its own page over the
  one that the user has gone to.
- `taskId` is read once, while the router keeps the component mounted from one
  task to the next. A late submission of the wizard can lead from the page of one
  task to that of another, which then polls, shows and operates on the first.
  `DetailSettles` is about `taskId`, not about the address.
- `outdated`. The history asks once after a deletion. An earlier answer that
  comes later, or no answer, leaves a list that nothing corrects.
- `stray`. A load of the log that is in flight when the page is left opens a
  socket that nobody closes. `OneStream` exempts it.
- `missed`. A subscriber whose channel (64) is full does not get the entry.
- A Start gives the task a new buffer; a socket that is open stays with the old
  one and is silent from then on, so that a task that is resumed or restarted
  shows no new entries until the log is opened again. `LogsComplete` is about the
  socket's own buffer.
- The socket sends what the answer to the call had already: entries are shown
  twice. `DownloadHTML` asks about the form, which need not be what the report
  on the page is of.

### Bounds

`ui_wizard`: two sources that share one of two tables, so that a selection of one
may or may not fit the other; two submissions and three visits, the least for a
submission that is left behind and followed by another; one test and one load in
flight for each side and source, which overlap with those of the other; one call
without an answer; a buffer that keeps one entry of two and a channel of one, so
that both overflow; two sockets, one call of the log in flight. `ui_pages`: one
task, since the lists and the page of a task treat each by itself; two list
calls, GETs, refreshes and assessments in flight, so that answers change places;
`MaxLost` lets one of six kinds of calls go unanswered; two visits with a
reload. `Others` and `Restarted` name what other tabs do, `Drifts` what
the supervisor does by itself. A row that others write as running was paused:
the other ways are `OthersStart`. Sockets that are open across a restart of the
server are not explored, nor two log calls at once. The pages do not stop by
themselves, but the bounds stop them; deadlock is not checked for this reason.

### Fairness

`FairSpec`: the router mounts the page that a push leads to; the interval timers
of the list, the page of a task and the panel fire while they are set; the
oldest call in flight ends, with an answer or without; the calls of a command, a
deletion and an operation end, since the server answers each (a Stop after
fifteen seconds at most) and an HTTP call that is not answered ends too. The
fairness of a command is strong, since the bound on refreshes in flight may hold
its own refresh back, again and again. Nothing is assumed of the user, of other tabs and of
the log.

### What is proved

`WebAppProofs`, for any number of tasks, sources, tables, submissions, visits and
calls, over the whole `Spec` of `WebApp`:

- `WizardTypes` (`[]WizardTypeOK`), with the frame lemma `OtherSteps`: what is
  not the wizard's leaves its state alone, or is a push;
- `TablesOfSource` (`[]TablesMatch`), by `TablesInv`: unless it has drifted, what
  is on show or on its way is of the source in the form, and what is selected
  has been shown;
- `OneStart` (`[]StartedOnce`), by `JobsInv`: while a submission of the mounted
  page is awaited the button is loading, and once its start is answered the page
  is being left (`JobInv`); so of two submissions of one visit the earlier is
  `Settled` before the later is made, neither awaited nor started without being
  lost (`PairInv`);
- `NothingHangs` (`[]LoadingAwaits`), whose three parts are carried by
  `TestsAwait`, `TablesAwait` and `SubmitAwaits`;
- `LatestReport` (`[]ReportIsLatest`), by `AssessInv`: one call at a time, and
  the one in flight is the one asked for last;
- `OneSocket` (`[]OneStream`), by `StreamsInv`: every socket that is neither
  closed nor stray is the page's, although `loadLogs` connects again and again;
- `DeletedAway` (`[]DeletedStaysAway`), by `DeletedInv`. No caller brings a
  deleted row back (`RowKept`), so a call that is served after the deletion has
  no line for the task. For such a task (`Away`), either the list without it is
  on show, or the list is known to be outdated, or a call that spares it is to
  come and no later one is over; and every call that would still bring the task
  back is followed by one of those or is old itself. The second half is needed
  because the earlier call may be answered last;
- `LogIsComplete` (`[]LogsComplete`), by `LogsInv`: of the entries of its buffer
  since the first it sent, what the page's socket has not shown is in its
  channel or was dropped (`Received`), and a socket that is open is never taken
  over by a load of a page that was left. While it is only subscribed nothing is
  claimed: the replay, which comes after Subscribe, shows what the buffer has by
  then. Loads in flight need no exception: one that is answered replaces what
  is shown, and closes the socket before its own.

Only model-checked: `PagesSettle` and `CommandEnds`, which are liveness.

## DDLReplication

| Model | Code |
|---|---|
| `catalog`, `log`, `triggers`, `Seen`, `DDLExecutes`, `DDLCommits`, `DDLRollsBack`, `DDLMissed`, `Insert` | PostgreSQL (external): tables, `pg2tidb_ddl_log`, which of the two event triggers are installed |
| `Captured` | the two trigger functions that `SetupEventTrigger` installs |
| `schema`, `rows`, `Executable`, `Effect` | TiDB, and what `transformTableDDL` and `makeDDLIdempotent` make of a statement |
| `file`, `Save` | the checkpoint file, `CheckpointManager.Update` and `Save` |
| `run`, `StartRun`, `Tick`, `Shutdown`, `Cancelled`, `Exit` | `Runner.Run` with `setupDDLReplication` and the deferred `teardownDDL`. "ending": Run returns while the poller goes on; "cancelled": the context has ended both |
| `poll`, `fetched`, `lastID`, the `Poll...` actions | `runDDLPoller`, `FetchNewDDL`, `shouldApplyDDL`, `SetLastDDLID` |
| `recv`, `settled`, `Receive`, `RowApplies`, `RowFails`, `RowHalts` | the stream of rows and `applyEvent` with `isFatalError` and `isSchemaError` |
| `executed`, `before`, `missed`, `abandoned` | history, read by properties only |

A table is the set of its columns, a statement is CREATE TABLE, ALTER TABLE ADD
COLUMN or DROP TABLE. The rows of the log for the sequence and the index of a new
table are one, the one that `shouldApplyDDL` has to leave alone. The log has the
entries the table filter lets through. The functions that a setup creates while
an older trigger is installed are logged too and come out as comments; they are
left out. The rows resume at `file.lsn`; that a start without a checkpoint jumps
is `CDCPipeline`'s. `FetchNewDDL` does not look at `rows.Err`, so `NewDDL` has
every prefix of the result.

### Run

| Run | Question | Result |
|---|---|---|
| `ddl_run` | Rolled back statements, partial reads, setups that fail half way, stops and crashes at every step: is a committed statement ever passed over, does TiDB's schema follow, does the poller halt at anything but a replay, and does the first row of a late table wait for it? | holds |

What does not hold, and is left out of the properties by name:

- `overlap`. An id is taken when the statement executes, and seen when its
  transaction commits. If a transaction with a higher id commits and is polled
  first, the lower one is below `lastID` for good: the statement is never
  replicated, with no error, although "a checkpoint resume loses no DDL"
  (`docs/cdc-ddl-replication-design.md:101`). The theorems of the schema
  take "transactions with DDL do not overlap" as hypothesis; with "overlap" in
  `Occurs`, TLC finds the schedule.
- `missed`. Every stop but a crash removes the triggers, so that DDL executed
  until the next start is in no log. A setup that fails after the first trigger
  (`ddl_tracker.go:149`) leaves CREATE and ALTER captured and DROP not; a crash
  between the two statements of the teardown leaves it the other way round. The design (`:111`) expects the log to be
  what a restart resumes from.
- `RowFails`. An ALTER ADD COLUMN followed by an INSERT before the next poll
  makes the INSERT fail with 1054. `isFatalError` ends its retries, the worker
  counts it as failed and goes on: the row is gone and the checkpoint passes it,
  where a missing table is waited for ("don't silently drop the DML").
- `OnlyCreated`. DROP and CREATE of one name with rows in between: the rows may
  reach the old table before the poller's DROP removes them.
- `HaltMeansReplay` says what is left of "replay does not fail again"
  (`:101`): an ALTER that was executed and not recorded halts every start from
  then on. A crash does it, and a stop too: the final save is not after the
  poller's last statement, and a cancelled context returns without a save.
- A statement TiDB rejects halts the pipeline (`"rejected"`), although the same
  design (`:67`) says it is logged and skipped.

Read in the code and outside the model: `shouldApplyDDL` accepts DROP INDEX,
which no trigger captures; with a whitelist, `FetchNewDDL` compares
`schema.identity` (as in `public.public.t`) with the pattern for CREATE and
ALTER; `AllowEvent` is never called for rows; `transformTableDDL` replaces SERIAL
before BIGSERIAL, which becomes BIGBIGINT AUTO_INCREMENT.

### Bounds

One table that is there or not, one optional column, one row, and three
statements: enough for create, add and drop in a row, for one statement
executed, one fetched and one not yet committed, and for a DROP and CREATE that
a replay finds on a schema that is ahead. Two starts: the second is what the
first one's file, log and triggers can hurt, and a replay needs no third. The
retries for a missing table (ten times half a second) are "any delay". A table
is changed once at most unseen by a trigger, after which nothing is claimed of it.
`Finished` is the process that is not started again. No liveness is stated: that
the poller catches up depends on when somebody restarts it.

### What is proved

`DDLReplicationProofs`, for any tables, columns, log and number of starts:
`TypeCorrect`; `NoneSkipped` and `SchemaFollows` (`"overlap" \notin Occurs =>
(Spec => []...)`, of `NothingSkipped` and `SchemaConverges`); `HaltsAtReplays`
(of `HaltMeansReplay`, with `"rejected" \notin Occurs` as well: a statement that
TiDB rejects halts the poller whatever was replayed); and `RowsReach`
(`Spec => []RowsArrive`, without a hypothesis).

`NothingSkipped` is not inductive: the poller moves `lastID` to the least id it
fetched, which skips nothing only if every committed id in between was fetched,
and if none can appear there later. `DDLInv` adds both. `OpenLast`: open
entries come after all committed ones and belong to one table, since
transactions do not overlap. `Recorded`: a recorded id is a committed one, so
that nothing commits behind it. `NoGap`: what was fetched has no gaps above `lastID`, which survives partial
reads because a prefix by id has none. `Done`: in the state "record" the next
statement was executed. `Settled` is the property for the position in memory and
for the one in the file.

`SchemaConverges` and `HaltMeansReplay` share `SchemaInv`. Neither says anything
of the states between a crash and the end of the replay, when the table in TiDB
may be ahead of the statement about to be executed by several others. `SchemaInv`
therefore says that for every table there is a `History` h, the table as the
statements up to each id made it, and that the table in TiDB is `Near` the
position of the poller: it is h at that id or at a later one e, up to which
every statement is known to have been executed before; or one of those
statements is a DROP, which removes whatever the replay makes of the table.
From lastID only statements of earlier processes (`before`) can be ahead, from
the file's id any (`executed`), which is what makes `Near` survive a start. The
lemmas are the cases of a replay: `Passed` (the next id is about another
table), `Replayed` (the statement is executed again: CREATE IF NOT EXISTS does
nothing to a table that is ahead, an ALTER that succeeds finds the table where
the source was, since without a DROP in between columns are never lost),
`InSync` (a statement that nobody has executed finds the table as in the source,
hence can be executed) and `SeenFrom` (what is near an id is near an earlier one
if the statements in between were executed, used for the file). `LongerLog`,
`CommittedLog` and `SameLog` extend h when the log changes. `OpenOnce`: one open
statement, which is possible, and which TiDB gets as one entry. When the poller
has caught up, no statement is left after `lastID`, so e is the end of the log.

`RowsArrive` follows from `RowInv`: a table that is only created has one form
in the source, in the rows of the WAL and, if it is there, in TiDB (`Alike`), so
that a row is applied or waits, and never meets an unknown column (`RowFails`);
and the rows up to the position in memory, or in the file while no process runs,
have arrived or were given up (`Arrived`).

## RowCompare and Validation

| Model | Code |
|---|---|
| `Values`, `Trim`, `Kinds` | what `normalizeValue` leaves of a value, `trimTrailingWhitespace`, the tests on type names |
| `UnifiedSkip`, `SkippedBySource`, `SkippedByTarget`, `RowHash`, `RowHashTrimmed` | the column sets and the row hashes of `validator.go` and `nopk.go` |
| `HashGroupMatches`, `AggregateMatches`, `BucketCompareMatches` | `validateHashGroup`, `validateAggregateHash`, `validateBucketCompare` |
| `KeyColumns`, `KeyHits`, `KeyedMatches`, `PositionsMatch` | the matching of a sample in `validateSampling` |
| `IsTable`, `IsKey`, `StoredAs`, `StoredPlain` | PostgreSQL and TiDB (external): what a table is, and how a faithful copy may read differently |
| `launched`, `sem`, `Launch`, `RunReturns` | the loop of `Validator.Run`, its semaphore and `wg.Wait` |
| `job[t].at` and the actions with a table parameter | the goroutine of table `t`: where it is, and `tr`, `keyInfo`, `offset` and `pgData` |
| `onSource`, `onTarget`, `QuerySource`, `Connect` | the connections lent by the two pools; a goroutine keeps its TiDB connection to the end |
| `report`, `result`, `Report`, `OverallStatus` | `reporter.Report` |
| `faults` | history, read by properties only |

A row is a sequence of values; a value is null, or a text with or without
trailing white space. What the normalisation makes equal is one value. A hash
stands for the values it is computed from, so that neither an MD5 collision nor
two rows that join to one text (`a|b` and `c` against `a` and `b|c`) exist in
the model. Sorting two lists of hashes and comparing them is comparing bags.
`Found` is what a PASS should mean: every row that was read has a row of its own
in TiDB that agrees with it on the columns that can be compared. `IsCopy` is
what a correct migration leaves.

### Run

| Run | Question | Result |
|---|---|---|
| `val_run` | In every mode and strategy, for every content of a small table: is a PASS earned, and is a faithful copy never reported? With three tables on two slots, two TiDB and one PostgreSQL connection: does the run return? | holds, with the exemptions below |

Each exemption is needed; without it TLC finds a counterexample.

- A count that fails leaves the zeros of `tr`, and `validateSampling` looks at
  `DiffRows` and `SourceRows`, not at the status: a table that does not exist in
  TiDB passes as an empty one in the default mode.
- `rows.Err` is consulted nowhere, and rows of TiDB that cannot be scanned are
  left out: a PASS may be that of a part.
- Aggregate and bucket do not trim texts, and skip a JSON column only on the
  side that calls it so: an array column is hashed on the PostgreSQL side alone
  and makes every comparison of such a table fail. hash_group and sampling
  build one set for both sides.
- A table with a unique index and no primary key is sampled, but `KeyColumns`
  takes the first column without nulls in the sample, which need not be unique:
  rows of TiDB outside the window are then reported. The same happens with an
  unknown strategy, and the comparison by position depends on the order in which
  TiDB returns rows.

Other things the model shows or that were read beside it. The mode checksum
compares nothing: `GROUP_CONCAT(t ...)` names no column of an ordinary table, so
the second statement fails and the table gets a warning, also if its counts
failed. The mode `full`, which the help of `validate` offers, is unknown to
`Run` and fails every table. `docs` and comments call aggregate's answer "the
tables are identical" (`nopk.go:457`), which is so up to skipped columns
(`AggregateSound`). A key column that is null in the sample is dropped from a
composite key, so that it may match more rows than the key would. A
`sampleRatio` above one makes the argument of `rand.Int63n` non-positive, which
panics. `validateQuick` and `validateChecksumChunked` are never called.

Left out: a column that TiDB does not have, keys of approximate or array type, a
table named twice, values whose quotes break the IN list.

### Bounds and fairness

Two columns, the second of each kind, and up to two rows on either side: enough
for duplicates, for a row that is missing while the counts agree, for two rows
in one bucket and in two, and for a sample that is a proper part of a table.
Three rows would add no case, since a comparison looks at one hash at a time.
The threshold of `auto` is one row, so that both of its branches occur. Three
tables on two slots make the loop wait; the pools are smaller than the demand.
Weak fairness of the loop, of every goroutine and of the return: Go schedules
them, and a statement is answered or fails. Deadlock is not checked, since a
validation that has returned is over; `ValidationEnds` says it gets there.

### What is proved

`RowCompareProofs`, for any columns, rows, number of buckets and assignment of
hashes to them. Soundness: `HashGroupSound`, `AggregateSound`, `BucketSound`,
`KeyedSound` and `PositionsSound` say that a comparison without a difference
implies `Found`. The argument is one lemma (`PairsFromBag`): two families of
hashes in which every hash occurs equally often can be paired by an injection
that keeps hashes. Completeness: `CopyMatchesHashGroup`, `CopyMatchesAggregate`
and `CopyMatchesBuckets`, by the converse (`BagFromPairs`), and
`CopyMatchesSample`: when the window of a faithful copy is looked up by a primary
key, every key finds its own row, whatever the window.

`ValidationProofs`, for any tables, contents, modes, strategies and bounds:
`TypeCorrect`, which includes the bounds of the semaphore and of both pools,
`PassSound` and `CopiesPass`. `PassIsSound` speaks of the end of the run only; the inductive
invariant `Inv` says what a goroutine knows at each step (`JobInv`): nothing
before the counts, afterwards that they agree if it goes on, before the
comparison that its rows are a window of the table, all of it for the exact
strategies unless a read was cut short, and once it passed, that the rows were
found. The comparison step is where the theorems of `RowCompareProofs` are used.
`NotYet` (the loop comes to a table once) and `Returned` (nothing moves after
the run) carry this to the overall status.

`CopiesPass` (`[]CopyPasses`) rests on `CopiesInv` besides: as long as nothing
went wrong for a table, its goroutine has the table's primary key, compares rows
that lie side by side in PostgreSQL, and fails only where `IsPromised` is not so
(`CopyInv`). A count that differs refutes that the rows are copied one for one,
and what the comparison says is where the completeness theorems are used
(`PromisedMatches`).

Only model-checked: `ValidationEnds`, which is liveness.

## Not modelled

The text of SQL statements, column values, statistics, log lines and the status
file's contents; `Source.Setup`; the retry counters; that TiDB may execute a
statement of the applier whose answer is lost (the planned `TargetReplay`). The
source does not change during a migration: chunk boundaries of a resumed export
are taken to be those of the first. The parts of a table cover it, which is so
for a table cut by an integer key; with the default sizes the offset mode, for
other keys, reads 200,000 rows of each 500,000 (plan, item 4). A rename of a CSV file that fails, and a
lookup of the primary key that fails (the table is then exported to one file)
are not modelled. The schema migrator, assessment, precheck, reporter,
configuration and Lightning wrapper are sequential generation of text
or input and output; `PROJECT.json` lists each with its reason.

Of the front end: the options of a task (step 3 of the wizard) and the target's
connection but for its test; the phases of the page of a task, the logs of a
phase and the filter on the entries, the socket with progress figures and the
figures themselves, the download of the report and the dialog of DDL
statements; the figures, the checkpoint and the status file in the replication
panel; styles, wording and the component `HelloWorld.vue`, which nothing uses.
Of `api/index.ts` only the calls of the modelled pages are there, without their
payloads.
