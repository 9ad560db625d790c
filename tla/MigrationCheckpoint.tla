------------------------- MODULE MigrationCheckpoint -------------------------
(***************************************************************************)
(* The checkpoint of the batch migration (internal/common/checkpoint): the *)
(* phase, the state of each table and the chunks of a table that have been *)
(* exported.  A manager holds one in memory and writes all of it to the    *)
(* file; these are the operations of a manager on the one in memory.  Row  *)
(* counts, byte counts, times and error texts are left out.                *)
(***************************************************************************)
EXTENDS Integers, FiniteSets

CONSTANTS
  Tables,  \* tables to migrate
  NParts   \* parts a table is copied in: its chunks, or its INSERT batches

ASSUME CheckpointAssumption == NParts \in Nat \ {0}

\* The chunks calculateChunkBoundaries cuts an integer key into: every row belongs
\* to one of them, and a restart cuts the table in the same way.
Parts == 1 .. NParts

Phases == {"none", "precheck", "schema", "data", "data-export", "data-import", "validate", "completed"}

\* A table that is not in the map is "none".
States == {"none", "pending", "running", "completed", "failed"}

Checkpoints == [phase : Phases, table : [Tables -> States], chunks : [Tables -> SUBSET Parts]]

\* There is no checkpoint file; a value no checkpoint equals.
NoFile == [phase |-> "no file"]

Fresh ==
  [phase |-> "none", table |-> [t \in Tables |-> "none"], chunks |-> [t \in Tables |-> {}]]

\* load: the file is decoded into what is in memory, so that tables that only
\* memory has remain.
Load(c, f) ==
  IF f = NoFile THEN c
  ELSE [phase  |-> f.phase,
        table  |-> [t \in Tables |-> IF f.table[t] = "none" THEN c.table[t] ELSE f.table[t]],
        chunks |-> [t \in Tables |-> IF f.table[t] = "none" THEN c.chunks[t] ELSE f.chunks[t]]]

SetPhase(c, p) == [c EXCEPT !.phase = p]

\* Mutant of SetPhaseWithReload: what is in memory overwrites the file.
SetPhaseStale(c, f, p) == SetPhase(c, p)

SetPhaseWithReload(c, f, p) == SetPhase(Load(c, f), p)

GetOrCreateTable(c, t) ==
  IF c.table[t] = "none" THEN [c EXCEPT !.table[t] = "pending"] ELSE c

\* UpdateTable with the function of MarkTableRunning, ...Completed or ...Failed:
\* a table that is not in the map is an error and nothing is changed.
MarkTable(c, t, s) == IF c.table[t] = "none" THEN c ELSE [c EXCEPT !.table[t] = s]

IsTableCompleted(c, t) == c.table[t] = "completed"

MarkChunkCompleted(c, t, p) == [c EXCEPT !.chunks[t] = @ \cup {p}]

MarkChunkFailed(c, t, p) == [c EXCEPT !.chunks[t] = @ \ {p}]

IsChunkCompleted(c, t, p) == p \in c.chunks[t]
=============================================================================
