---------------------------- MODULE DataMigration ----------------------------
(***************************************************************************)
(* The batch migration: the pipeline of the orchestrator                   *)
(* (internal/orchestrator) and the data migrator it calls                  *)
(* (internal/data/migrator.go), over starts, crashes and restarts of the   *)
(* command.  Each of the two has a checkpoint manager of its own on the    *)
(* same file.                                                              *)
(*                                                                         *)
(* A table is a set of parts: the chunks of a table exported in chunks,    *)
(* the batches of a table copied by INSERT.  The source does not change.   *)
(***************************************************************************)
EXTENDS MigrationCheckpoint, Sequences

CONSTANTS
  Order,          \* the tables in the order getTables returns them
  Chunked,        \* tables above the threshold that have a key to cut by
  Keyed,          \* tables with a primary or unique key
  Parallel,       \* tables at the same time
  ChunkParallel,  \* chunks of a table at the same time
  Options,        \* configurations and flags a user starts the command with
  SameCommand,    \* the command that is repeated is the same each time
  Occurs,         \* bound: which of Occurrences may happen
  MaxStarts,      \* bound: starts of the command
  MaxCopies       \* bound: copies of a row counted on the target

\* "source lost": the connection ends in the middle of a table, which rows.Next
\* reports like the end of the table.  "commit unknown": a COMMIT whose answer is
\* lost.  "save error": the checkpoint file cannot be written.
Occurrences ==
  {"phase error", "connect error", "export error", "lightning error", "insert error",
   "source lost", "commit unknown", "save error", "crash"}

DataSteps == {"open", "export", "rename", "truncate", "lightning", "marking", "sql"}
Steps == DataSteps \cup {"down", "precheck", "schema", "clear", "data", "validate", "complete"}
Work == {"idle", "waiting", "begin", "write", "chunks", "stream"}

OptionRecords ==
  [lightning : BOOLEAN, policy : {"insert", "truncate", "drop"}, onError : {"abort", "skip"},
   onErrorContinue : BOOLEAN, skip : SUBSET {"precheck", "schema", "data", "validate"}]

ASSUME MigrationAssumption ==
  /\ Order \in Seq(Tables)
  /\ \A t \in Tables : \E i \in DOMAIN Order : Order[i] = t
  /\ \A i, j \in DOMAIN Order : Order[i] = Order[j] => i = j
  /\ Chunked \subseteq Keyed /\ Keyed \subseteq Tables
  /\ Parallel \in Nat \ {0} /\ ChunkParallel \in Nat \ {0}
  /\ Options \subseteq OptionRecords /\ Options # {}
  /\ SameCommand \in BOOLEAN /\ Occurs \subseteq Occurrences
  /\ MaxStarts \in Nat /\ MaxCopies \in Nat \ {0}

VARIABLES
  run,       \* where the pipeline is, "down" when the command does not run
  opts,      \* the options of the run, kept after its end
  orch,      \* the orchestrator's checkpoint in memory
  cp,        \* the data migrator's checkpoint in memory
  file,      \* the checkpoint file
  at,        \* index into Order of the loop in progress
  firstErr,  \* firstErr of the loop in progress is set
  worker,    \* worker[t]: what the goroutine of table t does
  chunk,     \* chunk[t][p]: what the goroutine of the chunk does
  chunkErr,  \* chunkErr[t]: firstErr of exportTableChunked
  pos,       \* pos[t]: parts streamed
  plain,     \* plain[t][p]: the part in the temp dir, in a file named after t
  ready,     \* ready[t][p]: the part in the temp dir, renamed for Lightning
  target,    \* target[t][p]: copies of the part's rows on the target
  starts,    \* number of starts
  result,    \* history: how the last run ended
  read,      \* history: tables the last run has read from the source
  fellBack   \* history: INSERT has followed a failed Lightning import

procVars   == <<run, opts, orch, cp>>
loopVars   == <<at, firstErr>>
chunkVars  == <<chunk, chunkErr>>
workVars   == <<worker, chunkVars, pos>>
csvVars    == <<plain, ready>>
histVars   == <<starts, result, read, fellBack>>
vars == <<procVars, file, loopVars, workVars, csvVars, target, histVars>>

\* A chunk file or the file of a table is missing, incomplete for the part, or complete.
Content == {"none", "part", "full"}
All(x) == [p \in Parts |-> x]

\* save, which reports no error.
Save(c) == file' = c \/ ("save error" \in Occurs /\ UNCHANGED file)

Busy == {t \in Tables : worker[t] # "idle"}
Holding == {t \in Tables : worker[t] \notin {"idle", "waiting"}}
Copying(t) == {p \in Parts : chunk[t][p] = "copy"}

OneMore(n) == IF n < MaxCopies THEN n + 1 ELSE n

ForEach(x) == [t \in Tables |-> x]

\* The command ends; the process and what it has in memory are gone.
EndRun(r) ==
  /\ run' = "down" /\ result' = r /\ orch' = Fresh /\ cp' = Fresh
  /\ at' = 1 /\ firstErr' = FALSE
  /\ worker' = ForEach("idle") /\ pos' = ForEach(0)
  /\ chunk' = ForEach(All("done")) /\ chunkErr' = ForEach(FALSE)
  /\ UNCHANGED <<opts, csvVars, starts, read, fellBack>>

PhaseOrder == <<"precheck", "schema", "data", "validate", "complete">>

\* The step after phase p, or the first one if p is "none": the next phase that is
\* not skipped, with the checkpoint cleared before data for two of the policies.
After(p, o) ==
  LET left == {i \in 1 .. 5 : PhaseOrder[i] \notin o.skip /\ \A j \in i .. 5 : PhaseOrder[j] # p}
      next == PhaseOrder[CHOOSE i \in left : \A j \in left : i <= j]
  IN  IF next = "data" /\ o.policy # "insert" THEN "clear" ELSE next

Goes(step) == run' = step /\ at' = 1 /\ firstErr' = FALSE

\* A phase has ended and o is the orchestrator's checkpoint: on with the next
\* one, or the pipeline stops.
PhaseEnds(p, ok, o) ==
  IF ok \/ opts.onErrorContinue
    THEN /\ Goes(After(p, opts)) /\ orch' = o
         /\ UNCHANGED <<opts, cp, workVars, csvVars, histVars>>
    ELSE EndRun("error")

-----------------------------------------------------------------------------
(* The orchestrator. *)

StartRun ==
  /\ run = "down" /\ starts < MaxStarts
  /\ \E o \in Options :
       /\ SameCommand /\ starts > 0 => o = opts
       /\ opts' = o /\ run' = After("none", o)
  /\ orch' = Load(Fresh, file)
  /\ starts' = starts + 1 /\ result' = "none" /\ read' = {} /\ fellBack' = FALSE
  /\ UNCHANGED <<cp, file, loopVars, workVars, csvVars, target>>

RunPrecheck ==
  /\ run = "precheck"
  /\ Save(SetPhase(orch, "precheck"))
  /\ \E ok \in BOOLEAN :
       /\ ok \/ "phase error" \in Occurs
       /\ PhaseEnds("precheck", ok, SetPhase(orch, "precheck"))
  /\ UNCHANGED target

\* executeDDL, with policy drop: the tables dropped, all of them unless a statement
\* fails; on_error "skip" passes over a failure, and then ok does not exclude one.
Dropped(ok) ==
  CASE opts.policy # "drop" -> {{}}
    [] opts.policy = "drop" /\ ok /\ (opts.onError # "skip" \/ "phase error" \notin Occurs)
         -> {Tables}
    [] OTHER -> SUBSET Tables

\* The schema migrator; every error that it returns ends the phase.
RunSchema ==
  /\ run = "schema"
  /\ Save(SetPhase(orch, "schema"))
  /\ \E ok \in BOOLEAN :
       /\ ok \/ "phase error" \in Occurs
       /\ \E S \in Dropped(ok) :
            target' = [t \in Tables |-> IF t \in S THEN All(0) ELSE target[t]]
       /\ PhaseEnds("schema", ok, SetPhase(orch, "schema"))

\* Run removes the checkpoint file; its own manager still has it in memory.
ClearCheckpoint ==
  /\ run = "clear"
  /\ run' = "data" /\ file' = NoFile
  /\ UNCHANGED <<opts, orch, cp, loopVars, workVars, csvVars, target, histVars>>

RunData ==
  /\ run = "data"
  /\ orch' = SetPhase(orch, "data") /\ Save(orch')
  /\ run' = "open"
  /\ UNCHANGED <<opts, cp, loopVars, workVars, csvVars, target, histVars>>

\* The validator only reads; it may pass or fail.
RunValidate ==
  /\ run = "validate"
  /\ LET o == SetPhaseWithReload(orch, file, "validate")
     IN  Save(o) /\ \E ok \in BOOLEAN : PhaseEnds("validate", ok, o)
  /\ UNCHANGED target

Complete ==
  /\ run = "complete"
  /\ Save(SetPhaseWithReload(orch, file, "completed"))
  /\ EndRun("ok") /\ UNCHANGED target

Crash ==
  /\ run # "down" /\ "crash" \in Occurs
  /\ EndRun("crash") /\ UNCHANGED <<file, target>>

-----------------------------------------------------------------------------
(* Migrator.Run: opening, and the export of the tables. *)

OpenData ==
  /\ run = "open"
  /\ cp' = SetPhase(Load(Fresh, file), "data-export") /\ Save(cp')
  /\ Goes(IF opts.lightning THEN "export" ELSE "sql")
  /\ UNCHANGED <<opts, orch, workVars, csvVars, target, histVars>>

\* The source, or for the INSERT path the target, cannot be reached.
ConnectFails ==
  /\ run = "open" \/ (run = "sql" /\ at = 1 /\ Busy = {})
  /\ "connect error" \in Occurs
  /\ PhaseEnds("data", FALSE, orch)
  /\ UNCHANGED <<file, target>>

ExportSkip ==
  /\ run = "export" /\ at <= Len(Order) /\ IsTableCompleted(cp, Order[at])
  /\ at' = at + 1
  /\ UNCHANGED <<procVars, file, firstErr, workVars, csvVars, target, histVars>>

\* Mutant of ExportDispatch: completed tables are exported like the others.
ExportDispatchAll ==
  /\ run = "export" /\ at <= Len(Order)
  /\ LET t == Order[at]
     IN  /\ worker[t] = "idle"
         /\ cp' = GetOrCreateTable(cp, t)
         /\ IF cp' = cp THEN UNCHANGED file ELSE Save(cp')
         /\ worker' = [worker EXCEPT ![t] = "waiting"]
  /\ UNCHANGED <<run, opts, orch, loopVars, chunkVars, pos, csvVars, target, histVars>>

ExportDispatch ==
  /\ run = "export" /\ at <= Len(Order)
  /\ LET t == Order[at]
     IN  /\ ~IsTableCompleted(cp, t) /\ worker[t] = "idle"
         /\ cp' = GetOrCreateTable(cp, t)
         /\ IF cp' = cp THEN UNCHANGED file ELSE Save(cp')
         /\ worker' = [worker EXCEPT ![t] = "waiting"]
  /\ UNCHANGED <<run, opts, orch, loopVars, chunkVars, pos, csvVars, target, histVars>>

\* The semaphore has a place: the goroutine of the table begins.
ExportStart(t) ==
  /\ run = "export" /\ worker[t] = "waiting"
  /\ Cardinality(Holding) < Parallel
  /\ cp' = MarkTable(cp, t, "running") /\ Save(cp')
  /\ at' = at + 1 /\ worker' = [worker EXCEPT ![t] = "begin"]
  /\ UNCHANGED <<run, opts, orch, firstErr, chunkVars, pos, csvVars, target, histVars>>

\* exportTable creates, or empties, the file of the table.
CreateFile(t) ==
  /\ worker[t] = "begin" /\ t \notin Chunked
  /\ plain' = [plain EXCEPT ![t] = All("part")]
  /\ worker' = [worker EXCEPT ![t] = "write"]
  /\ read' = read \cup {t}
  /\ UNCHANGED <<procVars, file, loopVars, chunkVars, pos, ready, target, starts, result, fellBack>>

TableExported(t) ==
  /\ cp' = MarkTable(cp, t, "completed") /\ Save(cp')
  /\ worker' = [worker EXCEPT ![t] = "idle"]
  /\ UNCHANGED firstErr

TableFails(t, counts) ==
  /\ cp' = MarkTable(cp, t, "failed") /\ Save(cp')
  /\ worker' = [worker EXCEPT ![t] = "idle"]
  /\ firstErr' = (firstErr \/ counts)

\* The rows have ended, or the connection has and nobody asks rows.Err.
ExportEnds(t) ==
  /\ worker[t] = "write"
  /\ \E n \in 0 .. NParts :
       /\ n = NParts \/ "source lost" \in Occurs
       /\ plain' = [plain EXCEPT ![t] = [p \in Parts |-> IF p <= n THEN "full" ELSE "part"]]
  /\ TableExported(t)
  /\ UNCHANGED <<run, opts, orch, at, chunkVars, pos, ready, target, histVars>>

ExportFails(t) ==
  /\ worker[t] \in {"begin", "write"} /\ "export error" \in Occurs
  /\ TableFails(t, TRUE)
  /\ UNCHANGED <<run, opts, orch, at, chunkVars, pos, csvVars, target, histVars>>

\* exportTableChunked: chunks that an earlier run has completed are skipped.
BeginChunks(t) ==
  /\ worker[t] = "begin" /\ t \in Chunked
  /\ chunk' = [chunk EXCEPT ![t] =
                 [p \in Parts |-> IF IsChunkCompleted(cp, t, p) THEN "done" ELSE "todo"]]
  /\ chunkErr' = [chunkErr EXCEPT ![t] = FALSE]
  /\ worker' = [worker EXCEPT ![t] = "chunks"]
  /\ read' = read \cup {t}
  /\ UNCHANGED <<procVars, file, loopVars, pos, csvVars, target, starts, result, fellBack>>

ChunkStart(t, p) ==
  /\ worker[t] = "chunks" /\ chunk[t][p] = "todo"
  /\ \A q \in Parts : q < p => chunk[t][q] # "todo"
  /\ Cardinality(Copying(t)) < ChunkParallel
  /\ chunk' = [chunk EXCEPT ![t][p] = "copy"]
  /\ plain' = [plain EXCEPT ![t][p] = "part"]
  /\ UNCHANGED <<procVars, file, loopVars, worker, chunkErr, pos, ready, target, histVars>>

\* The file has been flushed, complete unless the connection ended early.
ChunkWritten(t, p) ==
  /\ chunk[t][p] = "copy"
  /\ chunk' = [chunk EXCEPT ![t][p] = "written"]
  /\ \E c \in {"full", "part"} :
       /\ c = "full" \/ "source lost" \in Occurs
       /\ plain' = [plain EXCEPT ![t][p] = c]
  /\ UNCHANGED <<procVars, file, loopVars, worker, chunkErr, pos, ready, target, histVars>>

\* MarkChunkCompleted, and the save of UpdateTableProgress.
ChunkEnds(t, p) ==
  /\ chunk[t][p] = "written"
  /\ chunk' = [chunk EXCEPT ![t][p] = "done"]
  /\ cp' = MarkChunkCompleted(cp, t, p) /\ Save(cp')
  /\ UNCHANGED <<run, opts, orch, loopVars, worker, chunkErr, pos, csvVars, target, histVars>>

\* Mutant of ChunkFails: the chunk is marked completed before the error is looked at.
ChunkFailsMarked(t, p) ==
  /\ chunk[t][p] = "copy" /\ "export error" \in Occurs
  /\ chunk' = [chunk EXCEPT ![t][p] = "done"]
  /\ chunkErr' = [chunkErr EXCEPT ![t] = TRUE]
  /\ cp' = MarkChunkCompleted(cp, t, p)
  /\ UNCHANGED <<run, opts, orch, file, loopVars, worker, pos, csvVars, target, histVars>>

\* Mutant of ChunkFails: wg.Done is not deferred and the error path misses it.
ChunkFailsNoDone(t, p) ==
  /\ chunk[t][p] = "copy" /\ "export error" \in Occurs
  /\ chunk' = [chunk EXCEPT ![t][p] = "lost"]
  /\ chunkErr' = [chunkErr EXCEPT ![t] = TRUE]
  /\ cp' = MarkChunkFailed(cp, t, p)
  /\ UNCHANGED <<run, opts, orch, file, loopVars, worker, pos, csvVars, target, histVars>>

\* MarkChunkFailed does not save.
ChunkFails(t, p) ==
  /\ chunk[t][p] = "copy" /\ "export error" \in Occurs
  /\ chunk' = [chunk EXCEPT ![t][p] = "done"]
  /\ chunkErr' = [chunkErr EXCEPT ![t] = TRUE]
  /\ cp' = MarkChunkFailed(cp, t, p)
  /\ UNCHANGED <<run, opts, orch, file, loopVars, worker, pos, csvVars, target, histVars>>

ChunksEnd(t) ==
  /\ worker[t] = "chunks" /\ \A p \in Parts : chunk[t][p] = "done"
  /\ IF chunkErr[t] THEN TableFails(t, TRUE) ELSE TableExported(t)
  /\ UNCHANGED <<run, opts, orch, at, chunkVars, pos, csvVars, target, histVars>>

\* Mutant of ExportWait: firstErr is not looked at.
ExportWaitIgnores ==
  /\ run = "export" /\ at > Len(Order) /\ Busy = {}
  /\ Goes("rename") /\ cp' = SetPhase(cp, "data-import") /\ Save(cp')
  /\ UNCHANGED <<opts, orch, workVars, csvVars, histVars, target>>

\* wg.Wait, the check of firstErr, and the next phase with its save.
ExportWait ==
  /\ run = "export" /\ at > Len(Order) /\ Busy = {}
  /\ IF firstErr /\ opts.onError # "skip"
       THEN PhaseEnds("data", FALSE, orch) /\ UNCHANGED file
       ELSE /\ Goes("rename") /\ cp' = SetPhase(cp, "data-import") /\ Save(cp')
            /\ UNCHANGED <<opts, orch, workVars, csvVars, histVars>>
  /\ UNCHANGED target

-----------------------------------------------------------------------------
(* importViaLightning. *)

\* The files are renamed; without any there is nothing to import.
RenameFiles ==
  /\ run = "rename"
  /\ IF \A t \in Tables, p \in Parts : plain[t][p] = "none" /\ ready[t][p] = "none"
       THEN Goes("marking")
       ELSE Goes(IF opts.policy = "truncate" THEN "truncate" ELSE "lightning")
  /\ ready' = [t \in Tables |-> [p \in Parts |-> IF plain[t][p] = "none" THEN ready[t][p] ELSE plain[t][p]]]
  /\ plain' = ForEach(All("none"))
  /\ UNCHANGED <<opts, orch, cp, file, workVars, target, histVars>>

FallBack ==
  /\ Goes("sql") /\ fellBack' = TRUE
  /\ UNCHANGED <<opts, orch, cp, file, workVars, csvVars, starts, result, read>>

\* applyTargetPolicy tries every table and returns the first error.
TruncateTarget ==
  /\ run = "truncate"
  /\ \E S \in SUBSET Tables :
       /\ target' = [t \in Tables |-> IF t \in S THEN All(0) ELSE target[t]]
       /\ IF S = Tables
            THEN Goes("lightning")
                 /\ UNCHANGED <<opts, orch, cp, file, workVars, csvVars, histVars>>
            ELSE "lightning error" \in Occurs /\ FallBack

\* Lightning writes the rows of the parts in L; a row with a key overwrites itself.
Loaded(L) ==
  [t \in Tables |-> [p \in Parts |->
     IF <<t, p>> \notin L THEN target[t][p] ELSE IF t \in Keyed THEN 1 ELSE OneMore(target[t][p])]]

Loadable == {x \in Tables \X Parts : ready[x[1]][x[2]] = "full"}

LightningLoads ==
  /\ run = "lightning"
  /\ target' = Loaded(Loadable) /\ Goes("marking")
  /\ UNCHANGED <<opts, orch, cp, file, workVars, csvVars, histVars>>

LightningFails ==
  /\ run = "lightning" /\ "lightning error" \in Occurs
  /\ \E L \in SUBSET Loadable : target' = Loaded(L)
  /\ FallBack

\* After the import every table is marked completed.
MarkImported ==
  /\ run = "marking" /\ at <= Len(Order)
  /\ cp' = MarkTable(GetOrCreateTable(cp, Order[at]), Order[at], "completed") /\ Save(cp')
  /\ at' = at + 1
  /\ UNCHANGED <<run, opts, orch, firstErr, workVars, csvVars, target, histVars>>

ImportEnds ==
  /\ run = "marking" /\ at > Len(Order)
  /\ Save(cp) /\ PhaseEnds("data", TRUE, orch)
  /\ UNCHANGED target

-----------------------------------------------------------------------------
(* importViaSQL. *)

\* A table that is completed already is not skipped.
SqlDispatch ==
  /\ run = "sql" /\ at <= Len(Order)
  /\ LET t == Order[at]
     IN  /\ worker[t] = "idle"
         /\ cp' = MarkTable(GetOrCreateTable(cp, t), t, "running") /\ Save(cp')
         /\ worker' = [worker EXCEPT ![t] = "waiting"]
  /\ UNCHANGED <<run, opts, orch, loopVars, chunkVars, pos, csvVars, target, histVars>>

SqlStart(t) ==
  /\ run = "sql" /\ worker[t] = "waiting"
  /\ Cardinality(Holding) < Parallel
  /\ at' = at + 1 /\ worker' = [worker EXCEPT ![t] = "stream"]
  /\ pos' = [pos EXCEPT ![t] = 0]
  /\ read' = read \cup {t}
  /\ UNCHANGED <<procVars, file, firstErr, chunkVars, csvVars, target, starts, result, fellBack>>

Duplicate(t, p) == t \in Keyed /\ target[t][p] > 0

\* The progress is saved after a full batch, not after the last one.
InsertBatch(t) ==
  LET p == pos[t] + 1
  IN  /\ worker[t] = "stream" /\ p \in Parts
      /\ ~Duplicate(t, p)
      /\ target' = [target EXCEPT ![t][p] = OneMore(@)]
      /\ pos' = [pos EXCEPT ![t] = p]
      /\ IF p = NParts THEN UNCHANGED file ELSE Save(cp)
      /\ UNCHANGED <<procVars, loopVars, worker, chunkVars, csvVars, histVars>>

\* The COMMIT has worked but the connection is bad: execBatch tries again.
CommitUnknown(t) ==
  LET p == pos[t] + 1
  IN  /\ worker[t] = "stream" /\ p \in Parts /\ "commit unknown" \in Occurs
      /\ ~Duplicate(t, p)
      /\ target' = [target EXCEPT ![t][p] = OneMore(@)]
      /\ UNCHANGED <<procVars, file, loopVars, workVars, csvVars, histVars>>

\* A batch that keeps failing, or that is there already, ends the table or is left out.
InsertFails(t) ==
  LET p == pos[t] + 1
  IN  /\ worker[t] = "stream" /\ p \in Parts
      /\ Duplicate(t, p) \/ "insert error" \in Occurs
      /\ IF opts.onError = "skip"
           THEN /\ pos' = [pos EXCEPT ![t] = p]
                /\ UNCHANGED <<cp, file, firstErr, worker>>
           ELSE TableFails(t, TRUE) /\ UNCHANGED pos
      /\ UNCHANGED <<run, opts, orch, at, chunkVars, csvVars, target, histVars>>

\* The query of the table fails; under "skip" the run does not.
StreamFails(t) ==
  /\ worker[t] = "stream" /\ pos[t] = 0 /\ "export error" \in Occurs
  /\ TableFails(t, opts.onError # "skip")
  /\ UNCHANGED <<run, opts, orch, at, chunkVars, pos, csvVars, target, histVars>>

StreamEnds(t) ==
  /\ worker[t] = "stream" /\ (pos[t] = NParts \/ "source lost" \in Occurs)
  /\ TableExported(t)
  /\ UNCHANGED <<run, opts, orch, at, chunkVars, pos, csvVars, target, histVars>>

SqlWait ==
  /\ run = "sql" /\ at > Len(Order) /\ Busy = {}
  /\ PhaseEnds("data", ~firstErr, orch)
  /\ UNCHANGED <<file, target>>

-----------------------------------------------------------------------------
Init ==
  /\ run = "down" /\ opts \in Options /\ orch = Fresh /\ cp = Fresh /\ file = NoFile
  /\ at = 1 /\ firstErr = FALSE
  /\ worker = ForEach("idle") /\ pos = ForEach(0)
  /\ chunk = ForEach(All("done")) /\ chunkErr = ForEach(FALSE)
  /\ plain = ForEach(All("none")) /\ ready = plain
  /\ target = ForEach(All(0))
  /\ starts = 0 /\ result = "none" /\ read = {} /\ fellBack = FALSE

Pipeline ==
  RunPrecheck \/ RunSchema \/ ClearCheckpoint \/ RunData \/ RunValidate \/ Complete

Migrator ==
  \/ OpenData \/ ConnectFails \/ ExportSkip \/ ExportDispatch \/ ExportWait
  \/ RenameFiles \/ TruncateTarget \/ LightningLoads \/ LightningFails
  \/ MarkImported \/ ImportEnds \/ SqlDispatch \/ SqlWait

TableStep(t) ==
  \/ ExportStart(t) \/ CreateFile(t) \/ ExportEnds(t) \/ ExportFails(t)
  \/ BeginChunks(t) \/ ChunksEnd(t)
  \/ SqlStart(t) \/ InsertBatch(t) \/ CommitUnknown(t) \/ InsertFails(t)
  \/ StreamFails(t) \/ StreamEnds(t)

ChunkStep(t, p) ==
  ChunkStart(t, p) \/ ChunkWritten(t, p) \/ ChunkEnds(t, p) \/ ChunkFails(t, p)

\* Everything the running command does.
Program ==
  \/ Pipeline \/ Migrator
  \/ \E t \in Tables : TableStep(t) \/ \E p \in Parts : ChunkStep(t, p)

\* The user does not repeat the command any more.
Finished == run = "down" /\ starts = MaxStarts /\ UNCHANGED vars

Next == StartRun \/ Program \/ Crash \/ Finished

Spec == Init /\ [][Next]_vars
LiveSpec == Spec /\ WF_vars(Program)

-----------------------------------------------------------------------------
(* Properties. *)

Types ==
  /\ run \in Steps /\ opts \in OptionRecords
  /\ orch \in Checkpoints /\ cp \in Checkpoints /\ file \in Checkpoints \cup {NoFile}
  /\ at \in 1 .. Len(Order) + 1 /\ firstErr \in BOOLEAN
  /\ worker \in [Tables -> Work] /\ pos \in [Tables -> 0 .. NParts]
  /\ chunk \in [Tables -> [Parts -> {"todo", "copy", "written", "done"}]]
  /\ chunkErr \in [Tables -> BOOLEAN]
  /\ plain \in [Tables -> [Parts -> Content]] /\ ready \in [Tables -> [Parts -> Content]]
  /\ target \in [Tables -> [Parts -> 0 .. MaxCopies]]
  /\ starts \in 0 .. MaxStarts /\ result \in {"none", "ok", "error", "crash"}
  /\ read \subseteq Tables /\ fellBack \in BOOLEAN

\* Every variable keeps its type, and not more tables or chunks are copied at a
\* time than the two semaphores allow.
TypeOK ==
  /\ Types
  /\ Cardinality(Holding) <= Parallel
  /\ \A t \in Tables : Cardinality(Copying(t)) <= ChunkParallel

Exported(t, p) == plain[t][p] = "full" \/ ready[t][p] = "full"

\* A table that the checkpoint file calls completed, which the next run's export
\* skips, has every part in a complete file or on the target, at every instant a
\* crash may come.  (Under drop and truncate the INSERT path has no files to fall
\* back on when the schema migrator has dropped the tables; it skips nothing.)
TablesBacked ==
  opts.onError = "abort" /\ (opts.policy = "insert" \/ opts.lightning) /\ file # NoFile =>
      \A t \in Tables, p \in Parts :
        file.table[t] = "completed" => Exported(t, p) \/ target[t][p] > 0

\* A chunk that the checkpoint file calls completed, which a later run of
\* exportTableChunked skips, has its complete file in the temp directory.
ChunksBacked ==
  file # NoFile => \A t \in Tables : \A p \in file.chunks[t] : Exported(t, p)

\* What the checkpoint file calls completed, of a table or of a chunk, is there.
CheckpointBacked == TablesBacked /\ ChunksBacked

\* A pipeline that aborts on errors and returns none has copied every table, also
\* after crashes, failed runs and a fallback from Lightning to INSERT.
SuccessIsComplete ==
  result = "ok" /\ opts.onError = "abort" /\ ~opts.onErrorContinue /\ "data" \notin opts.skip =>
    \A t \in Tables, p \in Parts : target[t][p] > 0

\* The orchestrator's writes of the phase never overwrite what the file has of a
\* table and its chunks (the comment in runValidate).
ProgressKept ==
  [][file # NoFile /\ run \in {"precheck", "schema", "data", "validate", "complete"} =>
       \A t \in Tables : file.table[t] # "none" =>
         file.table[t]' = file.table[t] /\ file.chunks[t]' = file.chunks[t]]_vars

\* The export reads no table and copies no chunk again that the checkpoint file
\* has as completed when the export begins it.
ResumesExport ==
  [][run = "export" /\ file # NoFile =>
       /\ \A t \in read' \ read : file.table[t] # "completed"
       /\ \A t \in Chunked : \A p \in file.chunks[t] : chunk[t][p]' = "copy" => chunk[t][p] = "copy"
    ]_vars

\* Under the policies drop and truncate "to force fresh data migration" a run that
\* succeeds has read every table from the source.
FreshCopy ==
  result = "ok" /\ opts.policy # "insert" /\ ~opts.onErrorContinue /\ "data" \notin opts.skip =>
    read = Tables

\* A run ends: no semaphore, wait group or loop holds it for ever.
RunEnds == run # "down" ~> run = "down"

=============================================================================
