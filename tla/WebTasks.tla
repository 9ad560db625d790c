------------------------------- MODULE WebTasks -------------------------------
(***************************************************************************)
(* The migration tasks of the web server (internal/webapi/server.go,       *)
(* internal/store/store.go).  A task is a row of the store; starting or    *)
(* resuming it launches a goroutine runMigration, here a run, that drives  *)
(* the orchestrator over the task's checkpoint directory and writes the    *)
(* outcome into the row, with a second goroutine pollProgress that copies  *)
(* the checkpoint's progress into the row every two seconds.  The mutex of *)
(* the store covers one statement, so every handler and every run is a     *)
(* sequence of steps with any other step in between.                       *)
(*                                                                         *)
(* The progress of a migration is the number of its units of work that the *)
(* checkpoint has, 0 .. Work; DataMigration says what a unit is.  Logs are *)
(* reduced to the set of runs whose core is in the global logger.          *)
(***************************************************************************)
EXTENDS Integers, FiniteSets

CONSTANTS
  Tasks,
  Requests,   \* HTTP requests that may be served at the same time
  Work,       \* units of work of a migration
  MaxRuns,    \* bound: runs launched
  MaxBoots,   \* bound: restarts of the web server
  Occurs      \* bound: which of Occurrences may happen

\* A migration fails; the poller's ticker fires.
Occurrences == {"run error", "tick"}

ASSUME WebTasksAssumption ==
  /\ Tasks # {} /\ Work \in Nat \ {0} /\ MaxRuns \in Nat /\ MaxBoots \in Nat
  /\ Occurs \subseteq Occurrences

Runs == 1 .. MaxRuns
None == 0
AnyTask == CHOOSE t \in Tasks : TRUE

VARIABLES
  row,        \* row[t]: the status in the store
  progress,   \* progress[t]: the progress columns of the row
  checkpoint, \* checkpoint[t]: the progress in the directory .checkpoint/<t>
  cancelFn,   \* s.runningTasks: the run whose context the stored function cancels
  at,         \* at[c]: the step that request c takes next
  on,         \* on[c]: the task it is about
  step,       \* step[k]: where run k is
  of,         \* of[k]: its task
  count,      \* count[k]: the progress its orchestrator has in memory
  cancelled,  \* runs whose context is cancelled
  poll,       \* poll[k]: where its pollProgress is
  sample,     \* sample[k]: what it has read from the checkpoint
  tee,        \* logger.extraCore: the runs whose core is installed
  boots,      \* restarts of the web server
  calm        \* history: tasks whose requests came one at a time, Start and
              \* Resume after the run before, unless the row still said running

taskVars    == <<row, progress, checkpoint>>
requestVars == <<at, on, calm>>
runVars     == <<step, of, count>>
pollVars    == <<poll, sample>>
vars == <<taskVars, cancelFn, requestVars, runVars, cancelled, pollVars, tee, boots>>

Status ==
  {"none", "created", "running", "paused", "completed", "failed", "cancelled", "deleted"}
RequestStep ==
  {"idle", "start: mark", "start: reset", "start: clear", "start: go", "pause: write",
   "resume: mark", "resume: go", "cancel: write", "delete: remove"}
\* A run whose step is one of Outcomes is about to write it into the row.
Outcomes == {"completed", "failed", "cancelled"}
RunStep ==
  {"unused", "launched", "copying", "returned", "failing", "syncing", "cleaning", "over"} \cup Outcomes

Exists(t) == row[t] \notin {"none", "deleted"}
Live(k)   == step[k] \notin {"unused", "over"}

\* UPDATE tasks SET status = s: no row, no effect.
\* (Wrong variant: as an upsert.)
UpdateOrInsert(t, s) == row' = [row EXCEPT ![t] = s]
Update(t, s) == row' = IF Exists(t) THEN [row EXCEPT ![t] = s] ELSE row

---------------------------------------------------------------------------
\* Requests.

\* A request on t goes on to its step s; it breaks the calm if another request
\* on t is in progress, or (launches) a run of t that the row does not admit.
Begin(c, t, s, launches) ==
  /\ at[c] = "idle"
  /\ at' = [at EXCEPT ![c] = s]
  /\ on' = [on EXCEPT ![c] = t]
  /\ calm' = IF \/ \E d \in Requests : at[d] # "idle" /\ on[d] = t
                \/ launches /\ row[t] # "running" /\ \E k \in Runs : Live(k) /\ of[k] = t
             THEN calm \ {t} ELSE calm

\* What a request is about is of no interest once it is answered.
Goes(c, from, to) ==
  /\ at[c] = from
  /\ at' = [at EXCEPT ![c] = to]
  /\ on' = IF to = "idle" THEN [on EXCEPT ![c] = AnyTask] ELSE on
  /\ UNCHANGED calm

\* The bound on runs leaves room for the launches in progress.
ToLaunch == {"start: mark", "start: reset", "start: clear", "start: go", "resume: mark", "resume: go"}
Room ==
  Cardinality({c \in Requests : at[c] \in ToLaunch}) < Cardinality({k \in Runs : step[k] = "unused"})

\* handleCreateTask.
Create(t) ==
  /\ row[t] = "none"
  /\ row' = [row EXCEPT ![t] = "created"]
  /\ UNCHANGED <<progress, checkpoint, cancelFn, requestVars, runVars, cancelled, pollVars, tee, boots>>

\* handleStartTask, refused when the row says running.
\* (Wrong variant: it is not.)
StartReadsAnyway(c, t) ==
  /\ Exists(t) /\ Room
  /\ Begin(c, t, "start: mark", TRUE)
  /\ UNCHANGED <<taskVars, cancelFn, runVars, cancelled, pollVars, tee, boots>>
StartReads(c, t) ==
  /\ Exists(t) /\ row[t] # "running" /\ Room
  /\ Begin(c, t, "start: mark", TRUE)
  /\ UNCHANGED <<taskVars, cancelFn, runVars, cancelled, pollVars, tee, boots>>

StartMarks(c) ==
  /\ Goes(c, "start: mark", "start: reset")
  /\ Update(on[c], "running")
  /\ UNCHANGED <<progress, checkpoint, cancelFn, runVars, cancelled, pollVars, tee, boots>>

\* ResetTaskForRerun.
StartResets(c) ==
  /\ Goes(c, "start: reset", "start: clear")
  /\ progress' = IF Exists(on[c]) THEN [progress EXCEPT ![on[c]] = 0] ELSE progress
  /\ UNCHANGED <<row, checkpoint, cancelFn, runVars, cancelled, pollVars, tee, boots>>

StartClears(c) ==
  /\ Goes(c, "start: clear", "start: go")
  /\ checkpoint' = [checkpoint EXCEPT ![on[c]] = 0]
  /\ UNCHANGED <<row, progress, cancelFn, runVars, cancelled, pollVars, tee, boots>>

\* handleResumeTask; handleStartTask ends the same way.
ResumeReads(c, t) ==
  /\ row[t] = "paused" /\ Room
  /\ Begin(c, t, "resume: mark", TRUE)
  /\ UNCHANGED <<taskVars, cancelFn, runVars, cancelled, pollVars, tee, boots>>

ResumeMarks(c) ==
  /\ Goes(c, "resume: mark", "resume: go")
  /\ Update(on[c], "running")
  /\ UNCHANGED <<progress, checkpoint, cancelFn, runVars, cancelled, pollVars, tee, boots>>

\* (Wrong variants: the cancel function is not stored; every launch removes
\* the checkpoint.)
LaunchUnknown(c, k) ==
  /\ \E from \in {"start: go", "resume: go"} : Goes(c, from, "idle")
  /\ step[k] = "unused" /\ \A j \in 1 .. k - 1 : step[j] # "unused"
  /\ step' = [step EXCEPT ![k] = "launched"]
  /\ of' = [of EXCEPT ![k] = on[c]]
  /\ UNCHANGED <<taskVars, cancelFn, count, cancelled, pollVars, tee, boots>>
LaunchClears(c, k) ==
  /\ \E from \in {"start: go", "resume: go"} : Goes(c, from, "idle")
  /\ step[k] = "unused" /\ \A j \in 1 .. k - 1 : step[j] # "unused"
  /\ step' = [step EXCEPT ![k] = "launched"]
  /\ of' = [of EXCEPT ![k] = on[c]]
  /\ cancelFn' = [cancelFn EXCEPT ![on[c]] = k]
  /\ checkpoint' = [checkpoint EXCEPT ![on[c]] = 0]
  /\ UNCHANGED <<row, progress, count, cancelled, pollVars, tee, boots>>
Launch(c, k) ==
  /\ \E from \in {"start: go", "resume: go"} : Goes(c, from, "idle")
  /\ step[k] = "unused" /\ \A j \in 1 .. k - 1 : step[j] # "unused"
  /\ step' = [step EXCEPT ![k] = "launched"]
  /\ of' = [of EXCEPT ![k] = on[c]]
  /\ cancelFn' = [cancelFn EXCEPT ![on[c]] = k]
  /\ UNCHANGED <<taskVars, count, cancelled, pollVars, tee, boots>>

\* handlePauseTask: only the row changes, the run goes on.
PauseReads(c, t) ==
  /\ row[t] = "running"
  /\ Begin(c, t, "pause: write", FALSE)
  /\ UNCHANGED <<taskVars, cancelFn, runVars, cancelled, pollVars, tee, boots>>

PauseWrites(c) ==
  /\ Goes(c, "pause: write", "idle")
  /\ Update(on[c], "paused")
  /\ UNCHANGED <<progress, checkpoint, cancelFn, runVars, cancelled, pollVars, tee, boots>>

\* handleCancelTask: whatever the status is.
CancelFires(c, t) ==
  /\ Begin(c, t, "cancel: write", FALSE)
  /\ cancelled' = cancelled \cup {k \in Runs : cancelFn[t] = k /\ Live(k)}
  /\ cancelFn' = [cancelFn EXCEPT ![t] = None]
  /\ UNCHANGED <<taskVars, runVars, pollVars, tee, boots>>

CancelWrites(c) ==
  /\ Goes(c, "cancel: write", "idle")
  /\ Update(on[c], "cancelled")
  /\ UNCHANGED <<progress, checkpoint, cancelFn, runVars, cancelled, pollVars, tee, boots>>

\* handleDeleteTask.
DeleteReads(c, t) ==
  /\ Exists(t) /\ row[t] # "running"
  /\ Begin(c, t, "delete: remove", FALSE)
  /\ UNCHANGED <<taskVars, cancelFn, runVars, cancelled, pollVars, tee, boots>>

DeleteRemoves(c) ==
  /\ Goes(c, "delete: remove", "idle")
  /\ row' = [row EXCEPT ![on[c]] = "deleted"]
  /\ UNCHANGED <<progress, checkpoint, cancelFn, runVars, cancelled, pollVars, tee, boots>>

---------------------------------------------------------------------------
\* Runs.

Moves(k, from, to) ==
  /\ step[k] = from
  /\ step' = [step EXCEPT ![k] = to]
  /\ UNCHANGED of

\* runMigration up to o.Run: the core is registered, the poller started, and
\* NewOrchestrator loads the checkpoint.
RunOpens(k) ==
  /\ Moves(k, "launched", "copying")
  /\ count' = [count EXCEPT ![k] = checkpoint[of[k]]]
  /\ tee' = tee \cup {k}
  /\ poll' = [poll EXCEPT ![k] = "select"]
  /\ UNCHANGED <<taskVars, cancelFn, requestVars, cancelled, sample, boots>>

\* One unit of work, saved with the whole checkpoint that this run has in memory.
RunWorks(k) ==
  /\ step[k] = "copying" /\ count[k] < Work
  /\ count' = [count EXCEPT ![k] = @ + 1]
  /\ checkpoint' = [checkpoint EXCEPT ![of[k]] = count'[k]]
  /\ UNCHANGED <<row, progress, cancelFn, requestVars, step, of, cancelled, pollVars, tee, boots>>

\* o.Run returns: nil when all is done, an error on a failure or when the
\* context is cancelled; then progressCancel.
RunReturns(k) ==
  /\ \/ Moves(k, "copying", "returned") /\ count[k] = Work
     \/ Moves(k, "copying", "failing") /\ (k \in cancelled \/ "run error" \in Occurs)
  /\ UNCHANGED <<taskVars, cancelFn, requestVars, count, cancelled, pollVars, tee, boots>>

\* ctx.Err() first, then the error.
\* (Wrong variant: the error of o.Run is not looked at.)
OutcomeUnseen(k) == IF k \in cancelled THEN "cancelled" ELSE "completed"
Outcome(k) ==
  IF k \in cancelled THEN "cancelled"
  ELSE IF step[k] = "failing" THEN "failed" ELSE "completed"

RunJudges(k) ==
  /\ step[k] \in {"returned", "failing"}
  /\ Moves(k, step[k], IF Outcome(k) = "completed" THEN "syncing" ELSE Outcome(k))
  /\ UNCHANGED <<taskVars, cancelFn, requestVars, count, cancelled, pollVars, tee, boots>>

\* The final progress sync from the checkpoint, UpdateTaskProgress.
RunSyncs(k) ==
  /\ Moves(k, "syncing", "completed")
  /\ progress' = IF Exists(of[k]) THEN [progress EXCEPT ![of[k]] = checkpoint[of[k]]] ELSE progress
  /\ UNCHANGED <<row, checkpoint, cancelFn, requestVars, count, cancelled, pollVars, tee, boots>>

\* UpdateTaskStatus or SetTaskError.
\* (Wrong variant: an error ends the run without a word in the row.)
RunFinishesSilently(k) ==
  /\ step[k] \in Outcomes /\ Moves(k, step[k], "cleaning")
  /\ IF step[k] = "failed" THEN UNCHANGED row ELSE Update(of[k], step[k])
  /\ UNCHANGED <<progress, checkpoint, cancelFn, requestVars, count, cancelled, pollVars, tee, boots>>
RunFinishes(k) ==
  /\ step[k] \in Outcomes /\ Moves(k, step[k], "cleaning")
  /\ Update(of[k], step[k])
  /\ UNCHANGED <<progress, checkpoint, cancelFn, requestVars, count, cancelled, pollVars, tee, boots>>

\* The deferred function: UnregisterExtraCore drops every run's core.  What the
\* goroutine had, its counts and its context, is forgotten.
RunCleans(k) ==
  /\ Moves(k, "cleaning", "over")
  /\ count' = [count EXCEPT ![k] = 0] /\ cancelled' = cancelled \ {k}
  /\ tee' = {}
  /\ UNCHANGED <<taskVars, cancelFn, requestVars, pollVars, boots>>

---------------------------------------------------------------------------
\* pollProgress.

\* Its context is a child of the run's, cancelled when o.Run has returned.
Ended(k) == k \in cancelled \/ step[k] # "copying"

\* The ticker's case, which select may choose even when the context is done.
PollReads(k) ==
  /\ poll[k] = "select" /\ "tick" \in Occurs
  /\ poll' = [poll EXCEPT ![k] = "write"]
  /\ sample' = [sample EXCEPT ![k] = checkpoint[of[k]]]
  /\ UNCHANGED <<taskVars, cancelFn, requestVars, runVars, cancelled, tee, boots>>

PollWrites(k) ==
  /\ poll[k] = "write"
  /\ poll' = [poll EXCEPT ![k] = "select"]
  /\ progress' = IF Exists(of[k]) THEN [progress EXCEPT ![of[k]] = sample[k]] ELSE progress
  /\ sample' = [sample EXCEPT ![k] = 0]
  /\ UNCHANGED <<row, checkpoint, cancelFn, requestVars, runVars, cancelled, tee, boots>>

PollStops(k) ==
  /\ poll[k] = "select" /\ Ended(k)
  /\ poll' = [poll EXCEPT ![k] = "off"]
  /\ UNCHANGED <<taskVars, cancelFn, requestVars, runVars, cancelled, sample, tee, boots>>

---------------------------------------------------------------------------

\* The web server ends, however it ends, and starts again: the store and the
\* checkpoints are all that is left.  NewServer does not look at the rows.
Restart ==
  /\ boots < MaxBoots /\ boots' = boots + 1
  /\ cancelFn' = [t \in Tasks |-> None]
  /\ at' = [c \in Requests |-> "idle"] /\ on' = [c \in Requests |-> AnyTask]
  /\ step' = [k \in Runs |-> IF Live(k) THEN "over" ELSE step[k]]
  /\ count' = [k \in Runs |-> 0] /\ cancelled' = {} /\ tee' = {}
  /\ poll' = [k \in Runs |-> "off"] /\ sample' = [k \in Runs |-> 0]
  /\ UNCHANGED <<taskVars, calm, of>>

Init ==
  /\ row = [t \in Tasks |-> "none"]
  /\ progress = [t \in Tasks |-> 0] /\ checkpoint = [t \in Tasks |-> 0]
  /\ cancelFn = [t \in Tasks |-> None]
  /\ at = [c \in Requests |-> "idle"] /\ on = [c \in Requests |-> AnyTask]
  /\ step = [k \in Runs |-> "unused"] /\ of = [k \in Runs |-> AnyTask]
  /\ count = [k \in Runs |-> 0]
  /\ cancelled = {} /\ tee = {} /\ boots = 0
  /\ poll = [k \in Runs |-> "off"] /\ sample = [k \in Runs |-> 0]
  /\ calm = Tasks

Arrives(c, t) ==
  \/ StartReads(c, t) \/ ResumeReads(c, t) \/ PauseReads(c, t)
  \/ CancelFires(c, t) \/ DeleteReads(c, t)

Serves(c) ==
  \/ StartMarks(c) \/ StartResets(c) \/ StartClears(c) \/ ResumeMarks(c)
  \/ \E k \in Runs : Launch(c, k)
  \/ PauseWrites(c) \/ CancelWrites(c) \/ DeleteRemoves(c)

RunStepOf(k) ==
  \/ RunOpens(k) \/ RunWorks(k) \/ RunReturns(k) \/ RunJudges(k)
  \/ RunSyncs(k) \/ RunFinishes(k) \/ RunCleans(k)

PollStep(k) == PollReads(k) \/ PollWrites(k) \/ PollStops(k)

Next ==
  \/ \E t \in Tasks : Create(t)
  \/ \E c \in Requests, t \in Tasks : Arrives(c, t)
  \/ \E c \in Requests : Serves(c)
  \/ \E k \in Runs : RunStepOf(k) \/ PollStep(k)
  \/ Restart

Spec == Init /\ [][Next]_vars

---------------------------------------------------------------------------

\* Type invariant: the fields keep their types, a run that is stored can be
\* cancelled, and a run writes one of the three statuses of a run that ended.
TypeOK ==
  /\ row \in [Tasks -> Status]
  /\ progress \in [Tasks -> 0 .. Work] /\ checkpoint \in [Tasks -> 0 .. Work]
  /\ cancelFn \in [Tasks -> Runs \cup {None}]
  /\ at \in [Requests -> RequestStep] /\ on \in [Requests -> Tasks]
  /\ step \in [Runs -> RunStep] /\ of \in [Runs -> Tasks]
  /\ count \in [Runs -> 0 .. Work]
  /\ cancelled \subseteq Runs /\ tee \subseteq Runs
  /\ poll \in [Runs -> {"off", "select", "write"}] /\ sample \in [Runs -> 0 .. Work]
  /\ boots \in 0 .. MaxBoots /\ calm \subseteq Tasks

\* Until the server is restarted, a row that says running has a run that is
\* yet to write its outcome, or a request that is about to launch one, however
\* requests and runs overlap: handleStartTask and handleResumeTask write
\* running before the goroutine starts, which writes its outcome on every path.
Marked == {"start: reset", "start: clear", "start: go", "resume: go"}
Unwritten(k) == Live(k) /\ step[k] # "cleaning"
RunningIsServed ==
  boots = 0 =>
    \A t \in Tasks : row[t] = "running" =>
      \/ \E c \in Requests : on[c] = t /\ at[c] \in Marked
      \/ \E k \in Runs : of[k] = t /\ Unwritten(k)

\* Two runs of a task would copy into the same tables and overwrite each
\* other's checkpoint.  While requests come one at a time, and no Start or
\* Resume before a run that was paused or cancelled has ended, the status
\* is enough to keep them apart (handleStartTask's conflict).
OneRun ==
  \A t \in calm : \A j, k \in Runs : Live(j) /\ Live(k) /\ of[j] = t /\ of[k] = t => j = k

\* A task that is shown as cancelled has no run whose context is still open:
\* the function in runningTasks is the one of the run that is alive
\* (handleCancelTask, runMigration).
CancelReaches ==
  \A t \in calm : row[t] = "cancelled" =>
    \A k \in Runs : Live(k) /\ of[k] = t => k \in cancelled

\* A task that is shown as completed has its whole work in the checkpoint
\* and no run that still copies (runMigration looks at the context and the
\* error before it writes completed, handleStartTask writes running before it
\* removes the checkpoint).
CompletedIsWhole ==
  \A t \in calm : row[t] = "completed" =>
    /\ checkpoint[t] = Work
    /\ \A k \in Runs : of[k] = t => step[k] # "copying"

\* Once every run has ended, no run's core is left in the global logger, and
\* at no time one of a run that has ended: a later task's messages would be
\* shown in its log (runMigration's deferred function, RegisterExtraCore).
NoStaleCore == \A k \in tee : Live(k) /\ step[k] # "launched"

\* Pauses, cancels, errors and restarts of the server keep the progress in the
\* checkpoint; only a Start removes it, so that a Resume goes on from there
\* (handleResumeTask, handleStartTask's RemoveAll).
OnlyStartLowers ==
  \A t \in calm' : checkpoint'[t] < checkpoint[t] =>
    \E c \in Requests : at[c] = "start: clear" /\ on[c] = t
CheckpointKept == [][OnlyStartLowers]_vars

\* However requests and runs overlap, each step does to the rows what a page may
\* expect of one call: a row appears once, changes its status while it is there,
\* and stays deleted, whatever a late request or a run that goes on writes to it
\* (handleDeleteTask does not look for a run).
Api == INSTANCE TaskApi
ImplementsApi == Api!RowSpec
==============================================================================
