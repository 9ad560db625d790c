--------------------------- MODULE DDLReplication ---------------------------
(***************************************************************************)
(* DDL replication (internal/cdc/ddl_tracker.go, runDDLPoller of runner.go *)
(* and the schema errors of applyEvent).  Event triggers of the source     *)
(* write each DDL statement to the table pg2tidb_ddl_log; a goroutine of   *)
(* the CDC process polls it and executes the statements on TiDB, beside    *)
(* the stream of rows, which knows nothing of it.  What both have reached  *)
(* is saved in one checkpoint file.                                        *)
(*                                                                         *)
(* A table is the set of its columns, {} if there is none; a row is its     *)
(* position in the WAL.  The stream of rows is reduced to what it received *)
(* and what one worker has settled (CDCPipeline has the rest).  The log    *)
(* has the entries that the table filter lets through.                     *)
(***************************************************************************)
EXTENDS Integers, Sequences, FiniteSets

CONSTANTS
  Tables,
  Key,         \* a column that every table has
  Columns,     \* those that it may have
  MaxDDL,      \* bound: DDL statements captured
  MaxRows,     \* bound: rows inserted in the source
  MaxStarts,   \* bound: starts of the CDC process
  Occurs       \* bound: which of Occurrences may happen

\* Transactions with DDL overlap; TiDB rejects a statement; installing the
\* triggers fails; the process dies.
Occurrences == {"overlap", "rejected", "setup error", "crash"}

ASSUME DDLAssumption ==
  /\ MaxDDL \in Nat /\ MaxRows \in Nat /\ MaxStarts \in Nat
  /\ Tables # {} /\ Key \notin Columns /\ Occurs \subseteq Occurrences

VARIABLES
  catalog,   \* catalog[t]: the table in PostgreSQL
  log,       \* pg2tidb_ddl_log, by id
  triggers,  \* the event triggers that are installed
  wal,       \* the rows inserted
  schema,    \* schema[t]: the table in TiDB
  rows,      \* rows[t]: its rows there
  file,      \* the checkpoint file: [lsn, ddl]
  run,       \* the process: "down", "loop", "ending" (Run returns, the poller
             \* goes on), "cancelled" (so is everything)
  poll,      \* runDDLPoller: "off", "wait", "apply", "record", "halted"
  fetched,   \* the ids it has read and not gone through yet
  lastID,    \* its lastID, and LastDDLID of the checkpoint in memory
  recv,      \* the source's position in wal
  settled,   \* the applier's
  starts,    \* bound
  executed,  \* history: ids executed on TiDB
  before,    \* history: those executed by earlier processes
  missed,    \* history: tables changed while no trigger saw it
  abandoned  \* history: rows given up with the process that had received them

sourceVars  == <<catalog, log, triggers, wal>>
targetVars  == <<schema, rows>>
pollVars    == <<poll, fetched, lastID>>
streamVars  == <<recv, settled>>
historyVars == <<executed, before, missed, abandoned>>
vars == <<sourceVars, targetVars, file, run, pollVars, streamVars, starts, historyVars>>

\* pg2tidb_ddl_trigger and pg2tidb_ddl_drop_trigger, by the event they are on.
Triggers == {"ddl_command_end", "sql_drop"}

Absent == {}
Ids    == 1 .. Len(log)
Row    == [table : Tables, cols : SUBSET ({Key} \cup Columns)]

---------------------------------------------------------------------------
\* PostgreSQL.

\* A statement of op on t; cols are the columns it has or adds.
Statement ==
  [op : {"create", "add", "drop"}, table : Tables, cols : SUBSET Columns]

LogEntry ==
  [stmt : Statement, object : {"sequence", "table"}, state : {"open", "committed", "aborted"}]

Possible(s) ==
  \/ s.op = "create" /\ catalog[s.table] = Absent
  \/ s.op = "add" /\ catalog[s.table] # Absent /\ Cardinality(s.cols) = 1
       /\ s.cols \cap catalog[s.table] = {}
  \/ s.op = "drop" /\ catalog[s.table] # Absent /\ s.cols = {}

Result(s, def) ==
  CASE s.op = "create" -> {Key} \cup s.cols
    [] s.op = "add"    -> def \cup s.cols
    [] s.op = "drop"   -> Absent

\* What the triggers log of a statement: pg_event_trigger_ddl_commands has the
\* sequence and the index of a new table too, each with the text of the whole
\* statement (one of them stands for all); the sql_drop trigger logs tables only.
Captured(s) ==
  LET Entry(object) == [stmt |-> s, object |-> object, state |-> "open"]
  IN IF s.op = "create" THEN <<Entry("sequence"), Entry("table")>> ELSE <<Entry("table")>>

\* Some trigger sees the statement: a DROP only comes with the event sql_drop.
Seen(s) == (IF s.op = "drop" THEN "sql_drop" ELSE "ddl_command_end") \in triggers

OpenIds   == {i \in Ids : log[i].state = "open"}
Locked(t) == \E i \in OpenIds : log[i].stmt.table = t
Alone     == "overlap" \in Occurs \/ OpenIds = {}

\* The statement is executed, its ids are taken; others see neither before the commit.
DDLExecutes(s) ==
  /\ Seen(s) /\ Possible(s) /\ ~Locked(s.table)
  /\ Alone
  /\ Cardinality({i \in Ids : log[i].object = "table"}) < MaxDDL
  /\ log' = log \o Captured(s)
  /\ UNCHANGED <<catalog, triggers, wal, targetVars, file, run, pollVars, streamVars, starts, historyVars>>

Closed(t, state) ==
  [i \in Ids |-> IF log[i].state = "open" /\ log[i].stmt.table = t
                 THEN [log[i] EXCEPT !.state = state] ELSE log[i]]

DDLCommits(t) ==
  /\ \E i \in OpenIds :
       /\ log[i].stmt.table = t
       /\ catalog' = [catalog EXCEPT ![t] = Result(log[i].stmt, @)]
  /\ log' = Closed(t, "committed")
  /\ UNCHANGED <<triggers, wal, targetVars, file, run, pollVars, streamVars, starts, historyVars>>

DDLRollsBack(t) ==
  /\ Locked(t)
  /\ log' = Closed(t, "aborted")
  /\ UNCHANGED <<catalog, triggers, wal, targetVars, file, run, pollVars, streamVars, starts, historyVars>>

\* Without its trigger nobody notices (bound: once for a table, it is lost anyway).
DDLMissed(s) ==
  /\ s.table \notin missed
  /\ ~Seen(s) /\ Possible(s) /\ ~Locked(s.table)
  /\ catalog' = [catalog EXCEPT ![s.table] = Result(s, @)]
  /\ missed' = missed \cup {s.table}
  /\ UNCHANGED <<log, triggers, wal, targetVars, file, run, pollVars, streamVars, starts, executed, before, abandoned>>

Insert(t) ==
  /\ catalog[t] # Absent /\ ~Locked(t) /\ Len(wal) < MaxRows
  /\ wal' = Append(wal, [table |-> t, cols |-> catalog[t]])
  /\ UNCHANGED <<catalog, log, triggers, targetVars, file, run, pollVars, streamVars, starts, historyVars>>

---------------------------------------------------------------------------
\* The runner.

\* Run up to its loop.  SetupEventTrigger installs one trigger after the other and
\* may fail before each of them.  (The functions that it creates are captured where
\* a trigger is there before them, as comments without effect.)
StartRun ==
  /\ run = "down" /\ starts < MaxStarts /\ run' = "loop" /\ starts' = starts + 1
  /\ recv' = file.lsn /\ settled' = file.lsn
  /\ lastID' = file.ddl /\ fetched' = {}
  /\ before' = executed
  /\ \/ triggers' = Triggers /\ poll' = "wait"
     \/ /\ "setup error" \in Occurs /\ poll' = "off"
        /\ triggers' \in {triggers, triggers \cup {"ddl_command_end"}}
  /\ UNCHANGED <<catalog, log, wal, targetVars, file, executed, missed, abandoned>>

\* CheckpointManager.Update and Save: both positions, as far as they were received
\* and recorded.
Save == file' = [lsn |-> recv, ddl |-> lastID]

Tick ==
  /\ run = "loop" /\ Save
  /\ UNCHANGED <<sourceVars, targetVars, run, pollVars, streamVars, starts, historyVars>>

\* A signal, the error of the poller or of the applier: save and return.  The
\* poller is not told to stop.
Shutdown ==
  /\ run = "loop" /\ run' = "ending" /\ Save
  /\ UNCHANGED <<sourceVars, targetVars, pollVars, streamVars, starts, historyVars>>

\* ctx.Done: return without saving.
Cancelled ==
  /\ run = "loop" /\ run' = "cancelled"
  /\ UNCHANGED <<sourceVars, targetVars, file, pollVars, streamVars, starts, historyVars>>

\* What a new process will have of this one.
Ends ==
  /\ run' = "down" /\ poll' = "off" /\ fetched' = {} /\ lastID' = 0
  /\ recv' = 0 /\ settled' = 0
  /\ abandoned' = abandoned \cup settled + 1 .. file.lsn

\* The deferred teardownDDL, which there is when the setup succeeded, and the end
\* of the process with its goroutines.
Exit ==
  /\ run \in {"ending", "cancelled"} /\ Ends
  /\ triggers' = IF poll = "off" THEN triggers ELSE {}
  /\ UNCHANGED <<catalog, log, wal, targetVars, file, starts, executed, before, missed>>

\* It may come between the two statements of teardownDDL.
Crash ==
  /\ "crash" \in Occurs /\ run # "down" /\ Ends
  /\ \/ UNCHANGED triggers
     \/ run # "loop" /\ poll # "off" /\ triggers' = triggers \ {"ddl_command_end"}
  /\ UNCHANGED <<catalog, log, wal, targetVars, file, starts, executed, before, missed>>

---------------------------------------------------------------------------
\* The poller.

\* FetchNewDDL: what is committed after lastID.  rows.Err is not consulted, so
\* that any part of it from the start may be all there is.
\* (Wrong variant: id >= $1.)
Committed(i) == log[i].state = "committed"
NewDDLInclusive == {{i \in Ids : lastID <= i /\ i <= n /\ Committed(i)} : n \in 0 .. Len(log)}
NewDDL == {{i \in Ids : lastID < i /\ i <= n /\ Committed(i)} : n \in 0 .. Len(log)}

Polls(where) == run \in {"loop", "ending"} /\ poll = where

\* (Wrong variant: the checkpoint is moved when the entries have been read.)
PollFetchesAhead ==
  /\ Polls("wait")
  /\ fetched' \in NewDDL \ {{}}
  /\ poll' = "apply" /\ lastID' \in fetched'
  /\ UNCHANGED <<sourceVars, targetVars, file, run, streamVars, starts, historyVars>>
PollFetches ==
  /\ Polls("wait")
  /\ fetched' \in NewDDL \ {{}}
  /\ poll' = "apply"
  /\ UNCHANGED <<sourceVars, targetVars, file, run, lastID, streamVars, starts, historyVars>>

\* ORDER BY id.
\* (Wrong variant: without it.)
IsNextInAnyOrder(i) == i \in fetched
IsNext(i) == i \in fetched /\ \A j \in fetched : i <= j

\* A sub-object is not executed (shouldApplyDDL), nor is a comment (Transform).
Applies(i) == log[i].object = "table"

\* SetLastDDLID, and the next entry.
Records(i) ==
  /\ lastID' = i /\ fetched' = fetched \ {i}
  /\ poll' = IF fetched' = {} THEN "wait" ELSE "apply"

PollSkips(i) ==
  /\ Polls("apply") /\ IsNext(i) /\ ~Applies(i)
  /\ Records(i)
  /\ UNCHANGED <<sourceVars, targetVars, file, run, streamVars, starts, historyVars>>

\* TiDB executes CREATE TABLE IF NOT EXISTS and DROP TABLE IF EXISTS whatever
\* there is (makeDDLIdempotent); ALTER needs the table without the column.
Executable(s) ==
  s.op = "add" => schema[s.table] # Absent /\ s.cols \cap schema[s.table] = {}

Effect(s) ==
  /\ schema' = [schema EXCEPT ![s.table] =
       IF s.op = "create" /\ @ # Absent THEN @ ELSE Result(s, @)]
  /\ rows' = IF s.op = "drop" THEN [rows EXCEPT ![s.table] = {}] ELSE rows

PollExecutes(i) ==
  /\ Polls("apply") /\ IsNext(i) /\ Applies(i)
  /\ Executable(log[i].stmt) /\ Effect(log[i].stmt)
  /\ executed' = executed \cup {i}
  /\ poll' = "record"
  /\ UNCHANGED <<sourceVars, file, run, fetched, lastID, streamVars, starts, before, missed, abandoned>>

PollRecords(i) ==
  /\ Polls("record") /\ IsNext(i)
  /\ Records(i)
  /\ UNCHANGED <<sourceVars, targetVars, file, run, streamVars, starts, historyVars>>

\* The statement fails: report it and return.
PollHalts(i) ==
  /\ Polls("apply") /\ IsNext(i) /\ Applies(i)
  /\ ~Executable(log[i].stmt) \/ "rejected" \in Occurs
  /\ poll' = "halted"
  /\ UNCHANGED <<sourceVars, targetVars, file, run, fetched, lastID, streamVars, starts, historyVars>>

---------------------------------------------------------------------------
\* The rows.

Receive ==
  /\ run = "loop" /\ recv < Len(wal) /\ recv' = recv + 1
  /\ UNCHANGED <<sourceVars, targetVars, file, run, pollVars, settled, starts, historyVars>>

Pending == run = "loop" /\ settled < recv
Event   == wal[settled + 1]
Target  == schema[Event.table]

\* applyEvent: REPLACE INTO.
RowApplies ==
  /\ Pending /\ Target # Absent /\ Event.cols \subseteq Target
  /\ rows' = [rows EXCEPT ![Event.table] = @ \cup {settled + 1}]
  /\ settled' = settled + 1
  /\ UNCHANGED <<sourceVars, schema, file, run, pollVars, recv, starts, historyVars>>

\* isFatalError: an unknown column; the event is counted as failed and passed over.
\* (Wrong variant: so is an event of a missing table.)
FatalAnyway == Target = Absent \/ ~(Event.cols \subseteq Target)
Fatal == Target # Absent /\ ~(Event.cols \subseteq Target)
RowFails ==
  /\ Pending /\ Fatal
  /\ settled' = settled + 1
  /\ UNCHANGED <<sourceVars, targetVars, file, run, pollVars, recv, starts, historyVars>>

\* isSchemaError: a missing table is waited for, ten times half a second; then the
\* StructuralError stops the applier, and Run saves and returns.
RowHalts ==
  /\ Pending /\ Target = Absent
  /\ run' = "ending" /\ Save
  /\ UNCHANGED <<sourceVars, targetVars, pollVars, streamVars, starts, historyVars>>

---------------------------------------------------------------------------

\* The schema and the rows were migrated before the first start.
Init ==
  /\ catalog \in [Tables -> {Absent, {Key}}] /\ schema = catalog
  /\ log = <<>> /\ triggers = {} /\ wal = <<>>
  /\ rows = [t \in Tables |-> {}]
  /\ file = [lsn |-> 0, ddl |-> 0]
  /\ run = "down" /\ poll = "off" /\ fetched = {} /\ lastID = 0
  /\ recv = 0 /\ settled = 0 /\ starts = 0
  /\ executed = {} /\ before = {} /\ missed = {} /\ abandoned = {}

Source ==
  \/ \E s \in Statement : DDLExecutes(s) \/ DDLMissed(s)
  \/ \E t \in Tables : DDLCommits(t) \/ DDLRollsBack(t) \/ Insert(t)

Runner == StartRun \/ Tick \/ Shutdown \/ Cancelled \/ Exit \/ Crash
Poller ==
  \/ PollFetches
  \/ \E i \in fetched : PollSkips(i) \/ PollExecutes(i) \/ PollRecords(i) \/ PollHalts(i)
Applier == RowApplies \/ RowFails \/ RowHalts

Next == Source \/ Runner \/ Poller \/ Receive \/ Applier

Spec == Init /\ [][Next]_vars

---------------------------------------------------------------------------

\* Type invariant: the positions stay within the logs.
TypeOK ==
  /\ catalog \in [Tables -> SUBSET ({Key} \cup Columns)]
  /\ schema \in [Tables -> SUBSET ({Key} \cup Columns)]
  /\ log \in Seq(LogEntry)
  /\ triggers \subseteq Triggers
  /\ wal \in Seq(Row) /\ Len(wal) <= MaxRows
  /\ rows \in [Tables -> SUBSET (1 .. Len(wal))]
  /\ file \in [lsn : 0 .. Len(wal), ddl : 0 .. Len(log)]
  /\ run \in {"down", "loop", "ending", "cancelled"}
  /\ poll \in {"off", "wait", "apply", "record", "halted"}
  /\ fetched \subseteq Ids /\ lastID \in 0 .. Len(log)
  /\ recv \in 0 .. Len(wal) /\ settled \in 0 .. recv
  /\ starts \in 0 .. MaxStarts
  /\ executed \subseteq Ids /\ before \subseteq executed
  /\ missed \subseteq Tables /\ abandoned \subseteq 1 .. Len(wal)

\* No committed statement on a table is passed over: what the checkpoint, in
\* memory or in the file, says was applied was executed on TiDB, whatever was
\* skipped, read in part, replayed or lost in a crash (runDDLPoller's
\* "checkpoints the last applied ddl_log.id").
NothingSkipped ==
  \A i \in Ids : Committed(i) /\ Applies(i) /\ (i <= lastID \/ i <= file.ddl) => i \in executed

\* When the poller has caught up, the tables in TiDB are those in PostgreSQL,
\* except for changes that no trigger saw, however many statements were
\* replayed after crashes and in which state of the target.
CaughtUp ==
  /\ run = "loop" /\ poll = "wait"
  /\ \A i \in Ids : log[i].state # "open" /\ (Committed(i) => i <= lastID)
SchemaConverges == CaughtUp => \A t \in Tables \ missed : schema[t] = catalog[t]

\* The poller halts only at a statement that an earlier process has executed
\* and not recorded ("a non-idempotent ALTER replayed in a crash window"),
\* never in ordinary running.
HaltMeansReplay ==
  poll = "halted" =>
    \A i \in fetched : IsNext(i) /\ log[i].stmt.table \notin missed => i \in before

\* A row of a table that is only ever created reaches TiDB, however late the
\* table does, unless the process ends with the row in its hands (applyEvent:
\* "don't silently drop the DML").
OnlyCreated(t) ==
  t \notin missed /\ \A i \in Ids : log[i].stmt.table = t => log[i].stmt.op = "create"
RowsArrive ==
  \A r \in (1 .. settled) \ abandoned : OnlyCreated(wal[r].table) => r \in rows[wal[r].table]
=============================================================================
