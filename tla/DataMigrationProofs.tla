------------------------- MODULE DataMigrationProofs -------------------------
(***************************************************************************)
(* Proofs about DataMigration, for any tables, parts, commands and starts: *)
(* types, what the writers of the one checkpoint file leave of each        *)
(* other's progress, and what a checkpoint and a success are worth.        *)
(***************************************************************************)
EXTENDS DataMigration, FiniteSetTheorems, TLAPS

USE DEF procVars, loopVars, chunkVars, workVars, csvVars, histVars, vars

-----------------------------------------------------------------------------
(* Operators. *)

LEMMA NotNoFile == ASSUME NEW c \in Checkpoints PROVE c # NoFile
<1>1. c.phase \in Phases /\ NoFile.phase = "no file"
  BY DEF Checkpoints, NoFile
<1>2. "no file" \notin Phases
  BY DEF Phases
<1> QED
  BY <1>1, <1>2

LEMMA FreshFacts ==
  Fresh \in Checkpoints /\ \A t \in Tables : Fresh.table[t] = "none" /\ Fresh.chunks[t] = {}
  BY DEF Fresh, Checkpoints, Phases, States

LEMMA LoadFacts ==
  ASSUME NEW c \in Checkpoints, NEW f \in Checkpoints \cup {NoFile}
  PROVE  /\ Load(c, f) \in Checkpoints
         /\ f = NoFile => Load(c, f) = c
         /\ f # NoFile => \A t \in Tables :
              /\ f.table[t] = "none" => Load(c, f).table[t] = c.table[t] /\ Load(c, f).chunks[t] = c.chunks[t]
              /\ f.table[t] # "none" => Load(c, f).table[t] = f.table[t] /\ Load(c, f).chunks[t] = f.chunks[t]
<1>1. CASE f = NoFile
  BY <1>1 DEF Load
<1>2. CASE f # NoFile
  <2>1. f \in Checkpoints
    BY <1>2
  <2> QED
    BY <1>2, <2>1 DEF Load, Checkpoints
<1> QED
  BY <1>1, <1>2

LEMMA PhaseFacts ==
  ASSUME NEW c \in Checkpoints, NEW p \in Phases
  PROVE  SetPhase(c, p) \in Checkpoints /\ SetPhase(c, p).table = c.table /\ SetPhase(c, p).chunks = c.chunks
  BY DEF SetPhase, Checkpoints

LEMMA ReloadFacts ==
  ASSUME NEW c \in Checkpoints, NEW f \in Checkpoints \cup {NoFile}, NEW p \in Phases
  PROVE  /\ SetPhaseWithReload(c, f, p) \in Checkpoints
         /\ SetPhaseWithReload(c, f, p).table = Load(c, f).table
         /\ SetPhaseWithReload(c, f, p).chunks = Load(c, f).chunks
  BY LoadFacts, PhaseFacts DEF SetPhaseWithReload

LEMMA CreateFacts ==
  ASSUME NEW c \in Checkpoints, NEW t \in Tables
  PROVE  /\ GetOrCreateTable(c, t) \in Checkpoints
         /\ GetOrCreateTable(c, t).chunks = c.chunks
         /\ \A u \in Tables \ {t} : GetOrCreateTable(c, t).table[u] = c.table[u]
         /\ GetOrCreateTable(c, t).table[t] = IF c.table[t] = "none" THEN "pending" ELSE c.table[t]
  BY DEF GetOrCreateTable, Checkpoints, States

LEMMA MarkFacts ==
  ASSUME NEW c \in Checkpoints, NEW t \in Tables, NEW s \in States
  PROVE  /\ MarkTable(c, t, s) \in Checkpoints
         /\ MarkTable(c, t, s).chunks = c.chunks
         /\ \A u \in Tables \ {t} : MarkTable(c, t, s).table[u] = c.table[u]
         /\ c.table[t] = "none" => MarkTable(c, t, s).table[t] = "none"
         /\ c.table[t] # "none" => MarkTable(c, t, s).table[t] = s
  BY DEF MarkTable, Checkpoints

LEMMA StateNames == "running" \in States /\ "completed" \in States /\ "failed" \in States
  BY DEF States

LEMMA RunningFacts ==
  ASSUME NEW c \in Checkpoints, NEW t \in Tables, c.table[t] # "none"
  PROVE  /\ MarkTable(c, t, "running") \in Checkpoints
         /\ MarkTable(c, t, "running").chunks = c.chunks
         /\ \A u \in Tables \ {t} : MarkTable(c, t, "running").table[u] = c.table[u]
         /\ MarkTable(c, t, "running").table[t] = "running"
<1>1. "running" \in States
  BY StateNames
<1>2. MarkTable(c, t, "running").table[t] = "running"
  BY <1>1, MarkFacts
<1> QED
  BY <1>1, <1>2, MarkFacts

LEMMA ChunkFacts ==
  ASSUME NEW c \in Checkpoints, NEW t \in Tables, NEW p \in Parts
  PROVE  /\ MarkChunkCompleted(c, t, p) \in Checkpoints
         /\ MarkChunkCompleted(c, t, p).table = c.table
         /\ MarkChunkCompleted(c, t, p).chunks = [c.chunks EXCEPT ![t] = @ \cup {p}]
         /\ MarkChunkFailed(c, t, p) \in Checkpoints
         /\ p \notin c.chunks[t] => MarkChunkFailed(c, t, p) = c
<1>1. MarkChunkFailed(c, t, p) \in Checkpoints /\ MarkChunkCompleted(c, t, p) \in Checkpoints
  BY DEF MarkChunkFailed, MarkChunkCompleted, Checkpoints
<1>2. ASSUME p \notin c.chunks[t] PROVE MarkChunkFailed(c, t, p) = c
  <2>1. c.chunks[t] \ {p} = c.chunks[t]
    BY <1>2
  <2> QED
    BY <2>1 DEF MarkChunkFailed, Checkpoints
<1> QED
  BY <1>1, <1>2 DEF MarkChunkCompleted, Checkpoints

\* The phases follow each other, and only a skip passes over the data phase.
LEMMA AfterFacts ==
  ASSUME NEW p \in {"none", "precheck", "schema", "data", "validate"}, NEW o \in OptionRecords
  PROVE  /\ After(p, o) \in {"precheck", "schema", "clear", "data", "validate", "complete"}
         /\ p \in {"data", "validate"} => After(p, o) \in {"validate", "complete"}
         /\ p \notin {"data", "validate"} /\ "data" \notin o.skip => After(p, o) \notin {"validate", "complete"}
<1> DEFINE left == {i \in 1 .. 5 : PhaseOrder[i] \notin o.skip /\ \A j \in i .. 5 : PhaseOrder[j] # p}
           m == CHOOSE i \in left : \A j \in left : i <= j
<1>1. /\ PhaseOrder[1] = "precheck" /\ PhaseOrder[2] = "schema" /\ PhaseOrder[3] = "data"
      /\ PhaseOrder[4] = "validate" /\ PhaseOrder[5] = "complete"
  BY DEF PhaseOrder
<1>2. "complete" \notin o.skip
  BY DEF OptionRecords
<1>3. left \subseteq 1 .. 5
  OBVIOUS
<1>4. 5 \in left
  BY <1>1, <1>2
<1>5. \A i \in left : p = "data" => i > 3
  BY <1>1
<1>6. \A i \in left : p = "validate" => i > 4
  BY <1>1
<1>7. p \notin {"data", "validate"} /\ "data" \notin o.skip => 3 \in left
  BY <1>1
<1> HIDE DEF left
<1>8. \E i \in left : \A j \in left : i <= j
  BY <1>3, <1>4
<1>9. m \in left /\ \A j \in left : m <= j
  BY <1>8
<1> HIDE DEF m
<1>10. After(p, o) = IF PhaseOrder[m] = "data" /\ o.policy # "insert" THEN "clear" ELSE PhaseOrder[m]
  BY DEF After, m, left
<1>11. m \in 1 .. 5
  BY <1>3, <1>9
<1> QED
  BY <1>1, <1>5, <1>6, <1>7, <1>9, <1>10, <1>11

LEMMA SaveFacts ==
  ASSUME Types, NEW c \in Checkpoints, Save(c)
  PROVE  file' \in Checkpoints \cup {NoFile} /\ (file' = c \/ file' = file)
  BY DEF Save, Types

-----------------------------------------------------------------------------
(* Types. *)

\* All but the file and the target, which the end of a phase leaves to the action.
RestTypes ==
  /\ run \in Steps /\ opts \in OptionRecords
  /\ orch \in Checkpoints /\ cp \in Checkpoints
  /\ at \in 1 .. Len(Order) + 1 /\ firstErr \in BOOLEAN
  /\ worker \in [Tables -> Work] /\ pos \in [Tables -> 0 .. NParts]
  /\ chunk \in [Tables -> [Parts -> {"todo", "copy", "written", "done"}]]
  /\ chunkErr \in [Tables -> BOOLEAN]
  /\ plain \in [Tables -> [Parts -> Content]] /\ ready \in [Tables -> [Parts -> Content]]
  /\ starts \in 0 .. MaxStarts /\ result \in {"none", "ok", "error", "crash"}
  /\ read \subseteq Tables /\ fellBack \in BOOLEAN

TargetType == target \in [Tables -> [Parts -> 0 .. MaxCopies]]

LEMMA TypesSplit ==
  Types <=> RestTypes /\ file \in Checkpoints \cup {NoFile} /\ TargetType
  BY DEF Types, RestTypes, TargetType

LEMMA LastIndex == Len(Order) \in Nat /\ 1 \in 1 .. Len(Order) + 1
<1>1. Len(Order) \in Nat
  BY MigrationAssumption
<1> QED
  BY <1>1

LEMMA Uniform ==
  ASSUME NEW S, NEW x \in S
  PROVE  ForEach(x) \in [Tables -> S] /\ ForEach(All(x)) \in [Tables -> [Parts -> S]]
  BY DEF ForEach, All

LEMMA TypesInit == Init => Types
<1> SUFFICES ASSUME Init PROVE Types
  OBVIOUS
<1>1. NParts \in Nat \ {0} /\ MaxCopies \in Nat /\ MaxStarts \in Nat /\ Options \subseteq OptionRecords
  BY CheckpointAssumption, MigrationAssumption
<1>2. /\ run \in Steps /\ opts \in OptionRecords /\ orch \in Checkpoints /\ cp \in Checkpoints
      /\ file \in Checkpoints \cup {NoFile} /\ at \in 1 .. Len(Order) + 1 /\ firstErr \in BOOLEAN
      /\ starts \in 0 .. MaxStarts /\ result \in {"none", "ok", "error", "crash"}
      /\ read \subseteq Tables /\ fellBack \in BOOLEAN
  <2>1. /\ run = "down" /\ opts \in Options /\ orch = Fresh /\ cp = Fresh /\ file = NoFile
        /\ at = 1 /\ firstErr = FALSE /\ starts = 0 /\ result = "none" /\ read = {} /\ fellBack = FALSE
    BY DEF Init
  <2>2. starts \in 0 .. MaxStarts
    BY <1>1, <2>1
  <2>3. orch \in Checkpoints /\ cp \in Checkpoints
    BY <2>1, FreshFacts
  <2> QED
    BY <1>1, <2>1, <2>2, <2>3, LastIndex DEF Steps
<1>3. worker \in [Tables -> Work] /\ pos \in [Tables -> 0 .. NParts] /\ chunkErr \in [Tables -> BOOLEAN]
  <2>1. "idle" \in Work /\ 0 \in 0 .. NParts /\ FALSE \in BOOLEAN
    BY <1>1 DEF Work
  <2> QED
    BY <2>1, Uniform DEF Init
<1>4. chunk \in [Tables -> [Parts -> {"todo", "copy", "written", "done"}]]
  BY Uniform DEF Init
<1>5. plain \in [Tables -> [Parts -> Content]] /\ ready \in [Tables -> [Parts -> Content]]
  BY Uniform DEF Init, Content
<1>6. 0 \in 0 .. MaxCopies
  BY <1>1
<1>7. target \in [Tables -> [Parts -> 0 .. MaxCopies]]
  BY <1>6, Uniform DEF Init
<1> QED
  BY <1>2, <1>3, <1>4, <1>5, <1>7 DEF Types

LEMMA EndRunTypes ==
  ASSUME Types, NEW r \in {"ok", "error", "crash"}, EndRun(r)
  PROVE  RestTypes'
<1>1. NParts \in Nat \ {0}
  BY CheckpointAssumption
<1>2. /\ run' \in Steps /\ opts' \in OptionRecords /\ orch' \in Checkpoints /\ cp' \in Checkpoints
      /\ at' \in 1 .. Len(Order) + 1 /\ firstErr' \in BOOLEAN
      /\ starts' \in 0 .. MaxStarts /\ result' \in {"none", "ok", "error", "crash"}
      /\ read' \subseteq Tables /\ fellBack' \in BOOLEAN
      /\ plain' \in [Tables -> [Parts -> Content]] /\ ready' \in [Tables -> [Parts -> Content]]
  BY FreshFacts, LastIndex DEF EndRun, Steps, Types
<1>3. /\ worker' \in [Tables -> Work] /\ pos' \in [Tables -> 0 .. NParts]
      /\ chunkErr' \in [Tables -> BOOLEAN]
      /\ chunk' \in [Tables -> [Parts -> {"todo", "copy", "written", "done"}]]
  <2>1. "idle" \in Work /\ 0 \in 0 .. NParts /\ FALSE \in BOOLEAN
    BY <1>1 DEF Work
  <2> QED
    BY <2>1, Uniform DEF EndRun
<1> QED
  BY <1>2, <1>3 DEF RestTypes

LEMMA PhaseEndsTypes ==
  ASSUME Types, NEW p \in {"precheck", "schema", "data", "validate"}, NEW ok \in BOOLEAN,
         NEW o \in Checkpoints, PhaseEnds(p, ok, o)
  PROVE  RestTypes'
<1>1. CASE ok \/ opts.onErrorContinue
  <2>1. After(p, opts) \in Steps
    BY AfterFacts DEF Types, Steps
  <2>2. /\ run' = After(p, opts) /\ at' = 1 /\ firstErr' = FALSE /\ orch' = o
        /\ UNCHANGED <<opts, cp, workVars, csvVars, histVars>>
    BY <1>1 DEF PhaseEnds, Goes
  <2> QED
    BY <2>1, <2>2, LastIndex DEF Types, RestTypes
<1>2. CASE ~(ok \/ opts.onErrorContinue)
  BY <1>2, EndRunTypes DEF PhaseEnds
<1> QED
  BY <1>1, <1>2

LEMMA PipelineTypes == Types /\ (StartRun \/ Pipeline \/ Crash) => Types'
<1> SUFFICES ASSUME Types, StartRun \/ Pipeline \/ Crash PROVE Types'
  OBVIOUS
<1>c. opts \in OptionRecords /\ orch \in Checkpoints /\ cp \in Checkpoints /\ file \in Checkpoints \cup {NoFile}
  BY DEF Types
<1>z. \A S \in SUBSET Tables : [t \in Tables |-> IF t \in S THEN All(0) ELSE target[t]] \in [Tables -> [Parts -> 0 .. MaxCopies]]
  BY MigrationAssumption DEF Types, All
<1>1. CASE StartRun
  <2>1. Load(Fresh, file) \in Checkpoints
    BY <1>c, FreshFacts, LoadFacts
  <2>2. opts' \in OptionRecords /\ run' = After("none", opts')
    BY <1>1, MigrationAssumption DEF StartRun
  <2>3. run' \in Steps
    BY <2>2, AfterFacts DEF Steps
  <2>4. starts + 1 \in 0 .. MaxStarts
    BY <1>1, MigrationAssumption DEF StartRun, Types
  <2> QED
    BY <1>1, <2>1, <2>2, <2>3, <2>4 DEF StartRun, Types
<1>2. CASE RunPrecheck
  <2>1. SetPhase(orch, "precheck") \in Checkpoints
    BY <1>c, PhaseFacts DEF Phases
  <2>2. RestTypes'
    BY <1>2, <2>1, PhaseEndsTypes DEF RunPrecheck
  <2>3. file' \in Checkpoints \cup {NoFile}
    BY <1>2, <2>1, SaveFacts DEF RunPrecheck
  <2> QED
    BY <1>2, <2>2, <2>3 DEF RunPrecheck, RestTypes, Types
<1>3. CASE RunSchema
  <2>1. SetPhase(orch, "schema") \in Checkpoints
    BY <1>c, PhaseFacts DEF Phases
  <2>2. PICK ok \in BOOLEAN : /\ PhaseEnds("schema", ok, SetPhase(orch, "schema"))
                              /\ \E S \in Dropped(ok) :
                                   target' = [t \in Tables |-> IF t \in S THEN All(0) ELSE target[t]]
    BY <1>3 DEF RunSchema
  <2>3. RestTypes'
    BY <2>1, <2>2, PhaseEndsTypes
  <2>4. Dropped(ok) \subseteq SUBSET Tables
    BY DEF Dropped
  <2>5. TargetType'
    <3>1. PICK S \in SUBSET Tables : target' = [t \in Tables |-> IF t \in S THEN All(0) ELSE target[t]]
      BY <2>2, <2>4
    <3> QED
      BY <1>z, <3>1 DEF TargetType
  <2>6. file' \in Checkpoints \cup {NoFile}
    BY <1>3, <2>1, SaveFacts DEF RunSchema
  <2> QED
    BY <2>3, <2>5, <2>6 DEF RestTypes, Types, TargetType
<1>4. CASE ClearCheckpoint
  BY <1>4 DEF ClearCheckpoint, Types, Steps, DataSteps
<1>5. CASE RunData
  <2>1. orch' \in Checkpoints
    BY <1>c, <1>5, PhaseFacts DEF Phases, RunData
  <2>2. file' \in Checkpoints \cup {NoFile}
    BY <1>5, <2>1, SaveFacts DEF RunData
  <2> QED
    BY <1>5, <2>1, <2>2 DEF RunData, Types, Steps, DataSteps
<1>6. CASE RunValidate
  <2>1. SetPhaseWithReload(orch, file, "validate") \in Checkpoints
    BY <1>c, ReloadFacts DEF Phases
  <2>2. RestTypes'
    BY <1>6, <2>1, PhaseEndsTypes DEF RunValidate
  <2>3. file' \in Checkpoints \cup {NoFile}
    BY <1>6, <2>1, SaveFacts DEF RunValidate
  <2> QED
    BY <1>6, <2>2, <2>3 DEF RunValidate, RestTypes, Types
<1>7. CASE Complete
  <2>1. SetPhaseWithReload(orch, file, "completed") \in Checkpoints
    BY <1>c, ReloadFacts DEF Phases
  <2>2. RestTypes'
    BY <1>7, EndRunTypes DEF Complete
  <2>3. file' \in Checkpoints \cup {NoFile}
    BY <1>7, <2>1, SaveFacts DEF Complete
  <2> QED
    BY <1>7, <2>2, <2>3 DEF Complete, RestTypes, Types
<1>8. CASE Crash
  <2>1. RestTypes'
    BY <1>8, EndRunTypes DEF Crash
  <2> QED
    BY <1>8, <2>1 DEF Crash, RestTypes, Types
<1> QED
  BY <1>1, <1>2, <1>3, <1>4, <1>5, <1>6, <1>7, <1>8 DEF Pipeline

LEMMA GoesTypes ==
  ASSUME NEW s \in Steps, Goes(s) PROVE run' \in Steps /\ at' \in 1 .. Len(Order) + 1 /\ firstErr' \in BOOLEAN
  BY LastIndex DEF Goes

LEMMA LoadedTypes == ASSUME Types, NEW L PROVE Loaded(L) \in [Tables -> [Parts -> 0 .. MaxCopies]]
<1>1. MaxCopies \in Nat \ {0} /\ target \in [Tables -> [Parts -> 0 .. MaxCopies]]
  BY MigrationAssumption DEF Types
<1>2. \A n \in 0 .. MaxCopies : OneMore(n) \in 0 .. MaxCopies
  BY <1>1 DEF OneMore
<1>3. 1 \in 0 .. MaxCopies
  BY <1>1
<1> QED
  BY <1>1, <1>2, <1>3 DEF Loaded

LEMMA MigratorTypes == Types /\ Migrator => Types'
<1> SUFFICES ASSUME Types, Migrator PROVE Types'
  OBVIOUS
<1>c. opts \in OptionRecords /\ orch \in Checkpoints /\ cp \in Checkpoints /\ file \in Checkpoints \cup {NoFile}
  BY DEF Types
<1>l. Len(Order) \in Nat /\ at \in 1 .. Len(Order) + 1
  BY LastIndex DEF Types
<1>o. \A i \in 1 .. Len(Order) : Order[i] \in Tables
  BY MigrationAssumption
<1>s. {"export", "sql", "rename", "truncate", "lightning", "marking"} \subseteq Steps
  BY DEF Steps, DataSteps
<1>1. CASE OpenData
  <2>1. Load(Fresh, file) \in Checkpoints
    BY <1>c, FreshFacts, LoadFacts
  <2>2. cp' \in Checkpoints
    BY <1>1, <2>1, PhaseFacts DEF OpenData, Phases
  <2>3. file' \in Checkpoints \cup {NoFile}
    BY <1>1, <2>2, SaveFacts DEF OpenData
  <2>4. run' \in Steps /\ at' \in 1 .. Len(Order) + 1 /\ firstErr' \in BOOLEAN
    BY <1>1, <1>s, GoesTypes DEF OpenData
  <2> QED
    BY <1>1, <2>2, <2>3, <2>4 DEF OpenData, Types
<1>2. CASE ConnectFails
  <2>1. RestTypes'
    BY <1>2, <1>c, PhaseEndsTypes DEF ConnectFails
  <2> QED
    BY <1>2, <2>1 DEF ConnectFails, RestTypes, Types
<1>3. CASE ExportSkip
  BY <1>3, <1>l DEF ExportSkip, Types
<1>4. CASE ExportDispatch
  <2>1. Order[at] \in Tables
    BY <1>4, <1>l, <1>o DEF ExportDispatch
  <2>2. cp' \in Checkpoints
    BY <1>4, <1>c, <2>1, CreateFacts DEF ExportDispatch
  <2>3. file' \in Checkpoints \cup {NoFile}
    BY <1>4, <1>c, <2>2, SaveFacts DEF ExportDispatch
  <2> QED
    BY <1>4, <2>2, <2>3 DEF ExportDispatch, Types, Work
<1>5. CASE ExportWait
  <2>1. CASE firstErr /\ opts.onError # "skip"
    <3>1. RestTypes'
      BY <1>5, <1>c, <2>1, PhaseEndsTypes DEF ExportWait
    <3> QED
      BY <1>5, <2>1, <3>1 DEF ExportWait, RestTypes, Types
  <2>2. CASE ~(firstErr /\ opts.onError # "skip")
    <3>1. cp' \in Checkpoints
      BY <1>5, <1>c, <2>2, PhaseFacts DEF ExportWait, Phases
    <3>2. file' \in Checkpoints \cup {NoFile}
      BY <1>5, <2>2, <3>1, SaveFacts DEF ExportWait
    <3>3. run' \in Steps /\ at' \in 1 .. Len(Order) + 1 /\ firstErr' \in BOOLEAN
      BY <1>5, <1>s, <2>2, GoesTypes DEF ExportWait
    <3> QED
      BY <1>5, <2>2, <3>1, <3>2, <3>3 DEF ExportWait, Types
  <2> QED
    BY <2>1, <2>2
<1>6. CASE RenameFiles
  <2>1. run' \in Steps /\ at' \in 1 .. Len(Order) + 1 /\ firstErr' \in BOOLEAN
    BY <1>6, <1>s, GoesTypes DEF RenameFiles
  <2>2. plain' \in [Tables -> [Parts -> Content]]
    BY <1>6, Uniform DEF RenameFiles, Content
  <2>3. ready' \in [Tables -> [Parts -> Content]]
    BY <1>6 DEF RenameFiles, Types
  <2> QED
    BY <1>6, <2>1, <2>2, <2>3 DEF RenameFiles, Types
<1>7. CASE TruncateTarget
  <2>1. TargetType'
    <3>1. PICK S : target' = [t \in Tables |-> IF t \in S THEN All(0) ELSE target[t]]
      BY <1>7 DEF TruncateTarget
    <3>2. All(0) \in [Parts -> 0 .. MaxCopies]
      BY MigrationAssumption DEF All
    <3> QED
      BY <3>1, <3>2 DEF TargetType, Types
  <2>2. run' \in Steps /\ at' \in 1 .. Len(Order) + 1 /\ firstErr' \in BOOLEAN
    BY <1>7, <1>s, GoesTypes DEF TruncateTarget, FallBack
  <2>3. fellBack' \in BOOLEAN /\ UNCHANGED <<opts, orch, cp, file, workVars, csvVars, starts, result, read>>
    BY <1>7 DEF TruncateTarget, FallBack, Types
  <2> QED
    BY <2>1, <2>2, <2>3 DEF TargetType, Types
<1>8. CASE LightningLoads \/ LightningFails
  <2>1. TargetType'
    BY <1>8, LoadedTypes DEF LightningLoads, LightningFails, TargetType
  <2>2. run' \in Steps /\ at' \in 1 .. Len(Order) + 1 /\ firstErr' \in BOOLEAN
    BY <1>8, <1>s, GoesTypes DEF LightningLoads, LightningFails, FallBack
  <2>3. fellBack' \in BOOLEAN /\ UNCHANGED <<opts, orch, cp, file, workVars, csvVars, starts, result, read>>
    BY <1>8 DEF LightningLoads, LightningFails, FallBack, Types
  <2> QED
    BY <2>1, <2>2, <2>3 DEF TargetType, Types
<1>9. CASE MarkImported
  <2>1. Order[at] \in Tables /\ at + 1 \in 1 .. Len(Order) + 1
    BY <1>9, <1>l, <1>o DEF MarkImported
  <2>2. GetOrCreateTable(cp, Order[at]) \in Checkpoints
    BY <1>c, <2>1, CreateFacts
  <2>3. cp' \in Checkpoints
    BY <1>9, <2>1, <2>2, MarkFacts DEF MarkImported, States
  <2>4. file' \in Checkpoints \cup {NoFile}
    BY <1>9, <2>3, SaveFacts DEF MarkImported
  <2> QED
    BY <1>9, <2>1, <2>3, <2>4 DEF MarkImported, Types
<1>10. CASE ImportEnds
  <2>1. RestTypes'
    BY <1>10, <1>c, PhaseEndsTypes DEF ImportEnds
  <2>2. file' \in Checkpoints \cup {NoFile}
    BY <1>10, <1>c, SaveFacts DEF ImportEnds
  <2> QED
    BY <1>10, <2>1, <2>2 DEF ImportEnds, RestTypes, Types
<1>11. CASE SqlDispatch
  <2>1. Order[at] \in Tables
    BY <1>11, <1>l, <1>o DEF SqlDispatch
  <2>2. GetOrCreateTable(cp, Order[at]) \in Checkpoints
    BY <1>c, <2>1, CreateFacts
  <2>3. cp' \in Checkpoints
    BY <1>11, <2>1, <2>2, MarkFacts DEF SqlDispatch, States
  <2>4. file' \in Checkpoints \cup {NoFile}
    BY <1>11, <2>3, SaveFacts DEF SqlDispatch
  <2> QED
    BY <1>11, <2>3, <2>4 DEF SqlDispatch, Types, Work
<1>12. CASE SqlWait
  <2>1. (~firstErr) \in BOOLEAN
    OBVIOUS
  <2>2. RestTypes'
    BY <1>12, <1>c, <2>1, PhaseEndsTypes DEF SqlWait
  <2> QED
    BY <1>12, <2>2 DEF SqlWait, RestTypes, Types
<1> QED
  BY <1>1, <1>2, <1>3, <1>4, <1>5, <1>6, <1>7, <1>8, <1>9, <1>10, <1>11, <1>12 DEF Migrator

\* A goroutine works at a table that the checkpoint has and does not call completed,
\* in the loop of its phase, and only one table waits for the semaphore; a chunk in
\* work is not recorded.
Working ==
  \A t \in Tables :
    /\ worker[t] # "idle" => cp.table[t] \notin {"none", "completed"}
    /\ worker[t] = "waiting" => run \in {"export", "sql"} /\ at <= Len(Order) /\ Order[at] = t
    /\ worker[t] \in {"begin", "write", "chunks"} => run = "export"
    /\ worker[t] = "stream" => run = "sql"
    /\ worker[t] = "write" => t \notin Chunked
    /\ worker[t] = "chunks" => t \in Chunked
    /\ \A p \in Parts : chunk[t][p] # "done" => worker[t] = "chunks" /\ p \notin cp.chunks[t]

\* How a table leaves its worker.
LEMMA TableOver ==
  ASSUME Types, NEW t \in Tables, NEW counts \in BOOLEAN, TableExported(t) \/ TableFails(t, counts)
  PROVE  /\ cp' \in Checkpoints /\ file' \in Checkpoints \cup {NoFile} /\ firstErr' \in BOOLEAN
         /\ worker' = [worker EXCEPT ![t] = "idle"] /\ worker' \in [Tables -> Work]
<1>1. cp' \in Checkpoints
  <2>1. cp \in Checkpoints /\ "completed" \in States /\ "failed" \in States
    BY DEF Types, States
  <2> QED
    BY <2>1, MarkFacts DEF TableExported, TableFails
<1>2. file' \in Checkpoints \cup {NoFile}
  BY <1>1, SaveFacts DEF TableExported, TableFails
<1> QED
  BY <1>1, <1>2 DEF TableExported, TableFails, Types, Work

LEMMA TableTypes ==
  ASSUME Types, Working, NEW t \in Tables, TableStep(t)
  PROVE  Types'
<1>c. /\ opts \in OptionRecords /\ orch \in Checkpoints /\ cp \in Checkpoints
      /\ file \in Checkpoints \cup {NoFile}
  BY DEF Types
<1>n. NParts \in Nat \ {0} /\ pos[t] \in 0 .. NParts
  BY CheckpointAssumption DEF Types
<1>m. \A n \in 0 .. MaxCopies : OneMore(n) \in 0 .. MaxCopies
  BY MigrationAssumption DEF OneMore
<1>a. worker[t] = "waiting" => at + 1 \in 1 .. Len(Order) + 1
  BY LastIndex DEF Working, Types
<1>1. CASE ExportStart(t)
  <2>1. cp' \in Checkpoints
    BY <1>1, <1>c, MarkFacts DEF ExportStart, States
  <2>2. file' \in Checkpoints \cup {NoFile}
    BY <1>1, <2>1, SaveFacts DEF ExportStart
  <2> QED
    BY <1>1, <1>a, <2>1, <2>2 DEF ExportStart, Types, Work
<1>2. CASE CreateFile(t)
  BY <1>2 DEF CreateFile, Types, Work, All, Content
<1>3. CASE ExportEnds(t)
  <2>1. plain' \in [Tables -> [Parts -> Content]]
    <3>1. PICK n : plain' = [plain EXCEPT ![t] = [p \in Parts |-> IF p <= n THEN "full" ELSE "part"]]
      BY <1>3 DEF ExportEnds
    <3> QED
      BY <3>1 DEF Types, Content
  <2>2. /\ cp' \in Checkpoints /\ file' \in Checkpoints \cup {NoFile} /\ firstErr' \in BOOLEAN
        /\ worker' \in [Tables -> Work]
    BY <1>3, TableOver DEF ExportEnds
  <2> QED
    BY <1>3, <2>1, <2>2 DEF ExportEnds, Types
<1>4. CASE ExportFails(t)
  <2>1. /\ cp' \in Checkpoints /\ file' \in Checkpoints \cup {NoFile} /\ firstErr' \in BOOLEAN
        /\ worker' \in [Tables -> Work]
    BY <1>4, TableOver DEF ExportFails
  <2> QED
    BY <1>4, <2>1 DEF ExportFails, Types
<1>5. CASE BeginChunks(t)
  BY <1>5 DEF BeginChunks, Types, Work
<1>6. CASE ChunksEnd(t)
  <2>1. /\ cp' \in Checkpoints /\ file' \in Checkpoints \cup {NoFile} /\ firstErr' \in BOOLEAN
        /\ worker' \in [Tables -> Work]
    BY <1>6, TableOver DEF ChunksEnd
  <2> QED
    BY <1>6, <2>1 DEF ChunksEnd, Types
<1>7. CASE SqlStart(t)
  <2>1. pos' \in [Tables -> 0 .. NParts]
    BY <1>7, <1>n DEF SqlStart, Types
  <2> QED
    BY <1>7, <1>a, <2>1 DEF SqlStart, Types, Work
<1>8. CASE InsertBatch(t)
  <2>1. pos[t] + 1 \in 0 .. NParts
    BY <1>8, <1>n DEF InsertBatch, Parts
  <2>2. file' \in Checkpoints \cup {NoFile}
    BY <1>8, <1>c, SaveFacts DEF InsertBatch
  <2>3. target' \in [Tables -> [Parts -> 0 .. MaxCopies]]
    BY <1>8, <1>m DEF InsertBatch, Types
  <2>4. pos' \in [Tables -> 0 .. NParts]
    BY <1>8, <2>1 DEF InsertBatch, Types
  <2> QED
    BY <1>8, <2>2, <2>3, <2>4 DEF InsertBatch, Types
<1>9. CASE CommitUnknown(t)
  <2>1. target' \in [Tables -> [Parts -> 0 .. MaxCopies]]
    BY <1>9, <1>m DEF CommitUnknown, Types
  <2> QED
    BY <1>9, <2>1 DEF CommitUnknown, Types
<1>10. CASE InsertFails(t)
  <2>1. CASE opts.onError = "skip"
    <3>1. pos' \in [Tables -> 0 .. NParts]
      <4>1. pos[t] + 1 \in 0 .. NParts
        <5>1. pos[t] + 1 \in Parts
          BY <1>10 DEF InsertFails
        <5> QED
          BY <1>n, <5>1 DEF Parts
      <4> QED
        BY <1>10, <2>1, <4>1 DEF InsertFails, Types
    <3> QED
      BY <1>10, <2>1, <3>1 DEF InsertFails, Types
  <2>2. CASE opts.onError # "skip"
    <3>1. /\ cp' \in Checkpoints /\ file' \in Checkpoints \cup {NoFile} /\ firstErr' \in BOOLEAN
          /\ worker' \in [Tables -> Work]
      BY <1>10, <2>2, TableOver DEF InsertFails
    <3> QED
      BY <1>10, <2>2, <3>1 DEF InsertFails, Types
  <2> QED
    BY <2>1, <2>2
<1>11. CASE StreamFails(t)
  <2>1. /\ cp' \in Checkpoints /\ file' \in Checkpoints \cup {NoFile} /\ firstErr' \in BOOLEAN
        /\ worker' \in [Tables -> Work]
    BY <1>11, TableOver DEF StreamFails
  <2> QED
    BY <1>11, <2>1 DEF StreamFails, Types
<1>12. CASE StreamEnds(t)
  <2>1. /\ cp' \in Checkpoints /\ file' \in Checkpoints \cup {NoFile} /\ firstErr' \in BOOLEAN
        /\ worker' \in [Tables -> Work]
    BY <1>12, TableOver DEF StreamEnds
  <2> QED
    BY <1>12, <2>1 DEF StreamEnds, Types
<1> QED
  BY <1>1, <1>2, <1>3, <1>4, <1>5, <1>6, <1>7, <1>8, <1>9, <1>10, <1>11, <1>12 DEF TableStep

LEMMA ChunkTypes ==
  ASSUME Types, NEW t \in Tables, NEW p \in Parts, ChunkStep(t, p)
  PROVE  Types'
<1>1. CASE ChunkStart(t, p)
  BY <1>1 DEF ChunkStart, Types, Content
<1>2. CASE ChunkWritten(t, p)
  <2>1. PICK c \in Content : plain' = [plain EXCEPT ![t][p] = c]
    BY <1>2 DEF ChunkWritten, Content
  <2> QED
    BY <1>2, <2>1 DEF ChunkWritten, Types
<1>3. CASE ChunkEnds(t, p)
  <2>1. cp' \in Checkpoints
    BY <1>3, ChunkFacts DEF ChunkEnds, Types
  <2>2. file' \in Checkpoints \cup {NoFile}
    BY <1>3, <2>1, SaveFacts DEF ChunkEnds
  <2> QED
    BY <1>3, <2>1, <2>2 DEF ChunkEnds, Types
<1>4. CASE ChunkFails(t, p)
  <2>1. cp' \in Checkpoints
    BY <1>4, ChunkFacts DEF ChunkFails, Types
  <2> QED
    BY <1>4, <2>1 DEF ChunkFails, Types
<1> QED
  BY <1>1, <1>2, <1>3, <1>4 DEF ChunkStep

-----------------------------------------------------------------------------
(* How a run ends, and how a phase does. *)

LEMMA EndRunFacts ==
  ASSUME NEW r, EndRun(r)
  PROVE  /\ run' = "down" /\ result' = r /\ orch' = Fresh /\ cp' = Fresh
         /\ \A t \in Tables : worker'[t] = "idle" /\ \A p \in Parts : chunk'[t][p] = "done"
         /\ UNCHANGED <<opts, plain, ready, starts, read, fellBack>>
  BY DEF EndRun, ForEach, All

LEMMA PhaseEndsFacts ==
  ASSUME Types, NEW p \in {"precheck", "schema", "data", "validate"}, NEW ok \in BOOLEAN, NEW o,
         PhaseEnds(p, ok, o)
  PROVE  \/ /\ ok \/ opts.onErrorContinue
            /\ run' = After(p, opts) /\ run' \notin {"down", "export", "sql"}
            /\ orch' = o
            /\ UNCHANGED <<opts, cp, worker, chunk, chunkErr, pos, plain, ready, starts, result, read, fellBack>>
         \/ ~ok /\ ~opts.onErrorContinue /\ EndRun("error")
<1>1. CASE ok \/ opts.onErrorContinue
  <2>1. After(p, opts) \notin {"down", "export", "sql"}
    BY AfterFacts DEF Types
  <2> QED
    BY <1>1, <2>1 DEF PhaseEnds, Goes
<1>2. CASE ~(ok \/ opts.onErrorContinue)
  BY <1>2 DEF PhaseEnds
<1> QED
  BY <1>1, <1>2

-----------------------------------------------------------------------------
(* Who works at which table. *)

\* Without a loop in progress nobody works.
LEMMA NobodyWorks ==
  ASSUME Types, Working, run \notin {"export", "sql"} \/ Busy = {}
  PROVE  \A t \in Tables : worker[t] = "idle" /\ \A p \in Parts : chunk[t][p] = "done"
<1> SUFFICES ASSUME NEW t \in Tables PROVE worker[t] = "idle"
  BY DEF Working
<1>1. worker[t] \in Work
  BY DEF Types
<1>2. CASE Busy = {}
  BY <1>2 DEF Busy
<1>3. CASE run \notin {"export", "sql"}
  BY <1>1, <1>3 DEF Working, Work
<1> QED
  BY <1>2, <1>3

LEMMA StillIdle ==
  ASSUME Types, Working, run \notin {"export", "sql"} \/ Busy = {}, UNCHANGED <<worker, chunk>>
  PROVE  Working'
  BY NobodyWorks DEF Working

LEMMA EndWorks == ASSUME NEW r, EndRun(r) PROVE Working'
  BY EndRunFacts DEF Working

LEMMA PhaseEndWorks ==
  ASSUME Types, Working, run \notin {"export", "sql"} \/ Busy = {},
         NEW p \in {"precheck", "schema", "data", "validate"}, NEW ok \in BOOLEAN, NEW o,
         PhaseEnds(p, ok, o)
  PROVE  Working'
<1>1. CASE EndRun("error")
  BY <1>1, EndWorks
<1>2. CASE UNCHANGED <<worker, chunk>>
  BY <1>2, StillIdle
<1> QED
  BY <1>1, <1>2, PhaseEndsFacts

LEMMA PipelineWorks == ASSUME Types, Working, StartRun \/ Pipeline \/ Crash PROVE Working'
<1>1. CASE StartRun
  BY <1>1, StillIdle DEF StartRun
<1>2. CASE RunPrecheck
  BY <1>2, PhaseEndWorks DEF RunPrecheck
<1>3. CASE RunSchema
  BY <1>3, PhaseEndWorks DEF RunSchema
<1>4. CASE ClearCheckpoint
  BY <1>4, StillIdle DEF ClearCheckpoint
<1>5. CASE RunData
  BY <1>5, StillIdle DEF RunData
<1>6. CASE RunValidate
  BY <1>6, PhaseEndWorks DEF RunValidate
<1>7. CASE Complete
  BY <1>7, EndWorks DEF Complete
<1>8. CASE Crash
  BY <1>8, EndWorks DEF Crash
<1> QED
  BY <1>1, <1>2, <1>3, <1>4, <1>5, <1>6, <1>7, <1>8 DEF Pipeline

LEMMA MigratorWorks == ASSUME Types, Working, Migrator PROVE Working'
<1>o. \A i \in 1 .. Len(Order) : Order[i] \in Tables
  BY MigrationAssumption
<1>l. Len(Order) \in Nat /\ at \in 1 .. Len(Order) + 1 /\ cp \in Checkpoints /\ worker \in [Tables -> Work]
  BY LastIndex DEF Types
<1>1. CASE OpenData
  BY <1>1, StillIdle DEF OpenData
<1>2. CASE ConnectFails
  BY <1>2, PhaseEndWorks DEF ConnectFails
<1>3. CASE ExportSkip
  <2>1. \A t \in Tables : worker[t] # "waiting"
    BY <1>3 DEF ExportSkip, IsTableCompleted, Working
  <2> QED
    BY <1>3, <2>1 DEF ExportSkip, Working
<1>4. CASE ExportDispatch
  <2> DEFINE t == Order[at]
  <2>1. t \in Tables
    BY <1>4, <1>l, <1>o DEF ExportDispatch
  <2>2. /\ run = "export" /\ at <= Len(Order) /\ cp.table[t] # "completed"
        /\ cp' = GetOrCreateTable(cp, t) /\ worker' = [worker EXCEPT ![t] = "waiting"]
        /\ UNCHANGED <<run, at, chunk>>
    BY <1>4 DEF ExportDispatch, IsTableCompleted
  <2>3. /\ cp'.chunks = cp.chunks /\ \A u \in Tables \ {t} : cp'.table[u] = cp.table[u]
        /\ cp'.table[t] \notin {"none", "completed"}
    BY <1>l, <2>1, <2>2, CreateFacts
  <2>4. worker'[t] = "waiting" /\ \A u \in Tables \ {t} : worker'[u] = worker[u]
    BY <1>l, <2>1, <2>2
  <2>5. worker[t] = "idle"
    BY <1>4 DEF ExportDispatch
  <2>6. Order[at] = t
    OBVIOUS
  <2> HIDE DEF t
  <2> SUFFICES ASSUME NEW u \in Tables PROVE Working!(u)'
    BY DEF Working
  <2>7. CASE u = t
    BY <2>1, <2>2, <2>3, <2>4, <2>5, <2>6, <2>7 DEF Working
  <2>8. CASE u # t
    BY <2>2, <2>3, <2>4, <2>8 DEF Working
  <2> QED
    BY <2>7, <2>8
<1>5. CASE ExportWait
  <2>1. CASE firstErr /\ opts.onError # "skip"
    BY <1>5, <2>1, PhaseEndWorks DEF ExportWait
  <2>2. CASE ~(firstErr /\ opts.onError # "skip")
    BY <1>5, <2>2, StillIdle DEF ExportWait
  <2> QED
    BY <2>1, <2>2
<1>6. CASE RenameFiles
  BY <1>6, StillIdle DEF RenameFiles
<1>7. CASE TruncateTarget
  BY <1>7, StillIdle DEF TruncateTarget, FallBack
<1>8. CASE LightningLoads
  BY <1>8, StillIdle DEF LightningLoads
<1>9. CASE LightningFails
  BY <1>9, StillIdle DEF LightningFails, FallBack
<1>10. CASE MarkImported
  BY <1>10, StillIdle DEF MarkImported
<1>11. CASE ImportEnds
  BY <1>11, PhaseEndWorks DEF ImportEnds
<1>12. CASE SqlDispatch
  <2> DEFINE t == Order[at]
  <2>1. t \in Tables
    BY <1>12, <1>l, <1>o DEF SqlDispatch
  <2>2. /\ run = "sql" /\ at <= Len(Order)
        /\ cp' = MarkTable(GetOrCreateTable(cp, t), t, "running") /\ worker' = [worker EXCEPT ![t] = "waiting"]
        /\ UNCHANGED <<run, at, chunk>>
    BY <1>12 DEF SqlDispatch
  <2>3. /\ GetOrCreateTable(cp, t) \in Checkpoints /\ GetOrCreateTable(cp, t).table[t] # "none"
        /\ GetOrCreateTable(cp, t).chunks = cp.chunks
        /\ \A u \in Tables \ {t} : GetOrCreateTable(cp, t).table[u] = cp.table[u]
    BY <1>l, <2>1, CreateFacts
  <2>4. /\ cp'.chunks = cp.chunks /\ \A u \in Tables \ {t} : cp'.table[u] = cp.table[u]
        /\ cp'.table[t] = "running"
    <3> DEFINE c == GetOrCreateTable(cp, t)
    <3>1. c \in Checkpoints /\ c.table[t] # "none" /\ cp' = MarkTable(c, t, "running")
      BY <2>2, <2>3
    <3>2. c.chunks = cp.chunks /\ \A u \in Tables \ {t} : c.table[u] = cp.table[u]
      BY <2>3
    <3> HIDE DEF c
    <3> QED
      BY <2>1, <3>1, <3>2, RunningFacts
  <2>5. worker'[t] = "waiting" /\ \A u \in Tables \ {t} : worker'[u] = worker[u]
    BY <1>l, <2>1, <2>2
  <2>6. worker[t] = "idle" /\ Order[at] = t
    BY <1>12 DEF SqlDispatch
  <2> HIDE DEF t
  <2> SUFFICES ASSUME NEW u \in Tables PROVE Working!(u)'
    BY DEF Working
  <2>7. CASE u = t
    BY <2>1, <2>2, <2>4, <2>5, <2>6, <2>7 DEF Working
  <2>8. CASE u # t
    BY <2>2, <2>4, <2>5, <2>8 DEF Working
  <2> QED
    BY <2>7, <2>8
<1>13. CASE SqlWait
  <2>1. (~firstErr) \in BOOLEAN
    OBVIOUS
  <2> QED
    BY <1>13, <2>1, PhaseEndWorks DEF SqlWait
<1> QED
  BY <1>1, <1>2, <1>3, <1>4, <1>5, <1>6, <1>7, <1>8, <1>9, <1>10, <1>11, <1>12, <1>13 DEF Migrator

\* One table's worker moves, and with it at most that table's state and chunks.
LEMMA WorkerMoves ==
  ASSUME Types, Working, NEW t \in Tables, NEW w \in Work \ {"waiting"},
         worker' = [worker EXCEPT ![t] = w], cp' \in Checkpoints,
         \A u \in Tables \ {t} : cp'.table[u] = cp.table[u],
         \A u \in Tables \ {t} : cp'.chunks[u] = cp.chunks[u],
         \A u \in Tables \ {t} : chunk'[u] = chunk[u],
         run' = run, at' = at \/ worker[t] = "waiting",
         w # "idle" => cp'.table[t] \notin {"none", "completed"},
         w \in {"begin", "write", "chunks"} => run = "export",
         w = "stream" => run = "sql",
         w = "write" => t \notin Chunked, w = "chunks" => t \in Chunked,
         \A p \in Parts : chunk'[t][p] # "done" => w = "chunks" /\ p \notin cp'.chunks[t]
  PROVE  Working'
<1> SUFFICES ASSUME NEW u \in Tables PROVE Working!(u)'
  BY DEF Working
<1>1. worker'[t] = w /\ \A v \in Tables \ {t} : worker'[v] = worker[v]
  BY DEF Types
<1>2. CASE u = t
  BY <1>1, <1>2
<1>3. CASE u # t
  BY <1>1, <1>3 DEF Working
<1> QED
  BY <1>2, <1>3

LEMMA TableWorks == ASSUME Types, Working, NEW t \in Tables, TableStep(t) PROVE Working'
<1>c. cp \in Checkpoints /\ worker[t] \in Work
  BY DEF Types
<1>w. {"idle", "begin", "write", "chunks", "stream"} \subseteq Work \ {"waiting"}
  BY DEF Work
<1>d. worker[t] # "chunks" => \A p \in Parts : chunk[t][p] = "done"
  BY DEF Working
<1>e. ASSUME NEW counts \in BOOLEAN, TableExported(t) \/ TableFails(t, counts), UNCHANGED <<run, at, chunk>>,
             \A p \in Parts : chunk[t][p] = "done"
      PROVE  Working'
  <2>1. /\ cp' \in Checkpoints /\ cp'.chunks = cp.chunks /\ \A u \in Tables \ {t} : cp'.table[u] = cp.table[u]
    BY <1>c, <1>e, MarkFacts, StateNames DEF TableExported, TableFails
  <2>2. worker' = [worker EXCEPT ![t] = "idle"]
    BY <1>e DEF TableExported, TableFails
  <2> QED
    BY <1>e, <1>w, <2>1, <2>2, WorkerMoves
<1>1. CASE ExportStart(t)
  <2>1. /\ cp' \in Checkpoints /\ cp'.chunks = cp.chunks /\ \A u \in Tables \ {t} : cp'.table[u] = cp.table[u]
        /\ cp'.table[t] = "running"
    <3>1. cp' = MarkTable(cp, t, "running") /\ worker[t] # "idle"
      BY <1>1 DEF ExportStart
    <3>2. cp.table[t] # "none"
      BY <3>1 DEF Working
    <3> QED
      BY <1>c, <3>1, <3>2, RunningFacts
  <2> QED
    BY <1>1, <1>d, <1>w, <2>1, WorkerMoves DEF ExportStart
<1>2. CASE CreateFile(t)
  BY <1>2, <1>c, <1>d, <1>w, WorkerMoves DEF CreateFile, Working
<1>3. CASE ExportEnds(t)
  BY <1>3, <1>d, <1>e DEF ExportEnds
<1>4. CASE ExportFails(t)
  BY <1>4, <1>d, <1>e DEF ExportFails
<1>5. CASE BeginChunks(t)
  <2>1. /\ \A u \in Tables \ {t} : chunk'[u] = chunk[u]
        /\ \A p \in Parts : chunk'[t][p] # "done" => p \notin cp.chunks[t]
    BY <1>5 DEF BeginChunks, IsChunkCompleted, Types
  <2> QED
    BY <1>5, <1>c, <1>w, <2>1, WorkerMoves DEF BeginChunks, Working
<1>6. CASE ChunksEnd(t)
  BY <1>6, <1>e DEF ChunksEnd
<1>7. CASE SqlStart(t)
  <2>1. /\ worker[t] = "waiting" /\ run = "sql" /\ worker' = [worker EXCEPT ![t] = "stream"]
        /\ UNCHANGED <<run, cp, chunk>>
    BY <1>7 DEF SqlStart
  <2>2. cp.table[t] \notin {"none", "completed"}
    BY <2>1 DEF Working
  <2> QED
    BY <1>c, <1>d, <1>w, <2>1, <2>2, WorkerMoves
<1>8. CASE InsertBatch(t) \/ CommitUnknown(t)
  <2>1. UNCHANGED <<run, at, cp, worker, chunk>>
    BY <1>8 DEF InsertBatch, CommitUnknown
  <2> QED
    BY <2>1 DEF Working
<1>10. CASE InsertFails(t)
  <2>1. CASE opts.onError = "skip"
    BY <1>10, <2>1 DEF InsertFails, Working
  <2>2. CASE opts.onError # "skip"
    BY <1>10, <1>d, <1>e, <2>2 DEF InsertFails
  <2> QED
    BY <2>1, <2>2
<1>11. CASE StreamFails(t)
  BY <1>11, <1>d, <1>e DEF StreamFails
<1>12. CASE StreamEnds(t)
  BY <1>12, <1>d, <1>e DEF StreamEnds
<1> QED
  BY <1>1, <1>2, <1>3, <1>4, <1>5, <1>6, <1>7, <1>8, <1>10, <1>11, <1>12 DEF TableStep

LEMMA ChunkWorks == ASSUME Types, Working, NEW t \in Tables, NEW p \in Parts, ChunkStep(t, p) PROVE Working'
<1>c. cp \in Checkpoints /\ chunk \in [Tables -> [Parts -> {"todo", "copy", "written", "done"}]]
  BY DEF Types
<1>1. CASE ChunkStart(t, p)
  BY <1>1, <1>c DEF ChunkStart, Working
<1>2. CASE ChunkWritten(t, p)
  <2>1. UNCHANGED <<run, at, cp, worker>> /\ chunk[t][p] # "done" /\ chunk' = [chunk EXCEPT ![t][p] = "written"]
    BY <1>2 DEF ChunkWritten
  <2> QED
    BY <1>c, <2>1 DEF Working
<1>3. CASE ChunkEnds(t, p)
  <2>1. cp'.table = cp.table /\ cp'.chunks = [cp.chunks EXCEPT ![t] = @ \cup {p}]
    BY <1>3, <1>c, ChunkFacts DEF ChunkEnds
  <2>2. cp.chunks \in [Tables -> SUBSET Parts]
    BY <1>c DEF Checkpoints
  <2> QED
    BY <1>3, <1>c, <2>1, <2>2 DEF ChunkEnds, Working
<1>4. CASE ChunkFails(t, p)
  <2>1. cp' = cp
    <3>1. p \notin cp.chunks[t] /\ cp' = MarkChunkFailed(cp, t, p)
      BY <1>4 DEF ChunkFails, Working
    <3> QED
      BY <1>c, <3>1, ChunkFacts
  <2>2. UNCHANGED <<run, at, worker>> /\ chunk' = [chunk EXCEPT ![t][p] = "done"]
    BY <1>4 DEF ChunkFails
  <2> QED
    BY <1>c, <2>1, <2>2 DEF Working
<1> QED
  BY <1>1, <1>2, <1>3, <1>4 DEF ChunkStep

-----------------------------------------------------------------------------
(* Checkpoints are regular: no chunk of a table that is not there or not chunked. *)

Regular(c) == \A t \in Tables : c.table[t] = "none" \/ t \notin Chunked => c.chunks[t] = {}
RegularFile(f) == f # NoFile => Regular(f)
AllRegular == Regular(orch) /\ Regular(cp) /\ RegularFile(file)

LEMMA RegularFresh == Regular(Fresh)
  BY FreshFacts DEF Regular

LEMMA RegularLoad ==
  ASSUME NEW c \in Checkpoints, NEW f \in Checkpoints \cup {NoFile}, Regular(c), RegularFile(f)
  PROVE  Regular(Load(c, f))
<1>1. CASE f = NoFile
  BY <1>1, LoadFacts
<1>2. CASE f # NoFile
  <2> SUFFICES ASSUME NEW t \in Tables, Load(c, f).table[t] = "none" \/ t \notin Chunked
               PROVE  Load(c, f).chunks[t] = {}
    BY DEF Regular
  <2>1. CASE f.table[t] = "none"
    BY <1>2, <2>1, LoadFacts DEF Regular
  <2>2. CASE f.table[t] # "none"
    BY <1>2, <2>2, LoadFacts DEF Regular, RegularFile
  <2> QED
    BY <2>1, <2>2
<1> QED
  BY <1>1, <1>2

LEMMA RegularPhase ==
  ASSUME NEW c \in Checkpoints, NEW p \in Phases, Regular(c) PROVE Regular(SetPhase(c, p))
  BY PhaseFacts DEF Regular

LEMMA RegularReload ==
  ASSUME NEW c \in Checkpoints, NEW f \in Checkpoints \cup {NoFile}, NEW p \in Phases,
         Regular(c), RegularFile(f)
  PROVE  Regular(SetPhaseWithReload(c, f, p))
  BY LoadFacts, RegularLoad, RegularPhase DEF SetPhaseWithReload

LEMMA RegularCreate ==
  ASSUME NEW c \in Checkpoints, NEW t \in Tables, Regular(c) PROVE Regular(GetOrCreateTable(c, t))
<1> SUFFICES ASSUME NEW u \in Tables, GetOrCreateTable(c, t).table[u] = "none" \/ u \notin Chunked
             PROVE  GetOrCreateTable(c, t).chunks[u] = {}
  BY DEF Regular
<1>1. CASE u = t
  BY <1>1, CreateFacts DEF Regular
<1>2. CASE u # t
  BY <1>2, CreateFacts DEF Regular
<1> QED
  BY <1>1, <1>2

LEMMA RegularMark ==
  ASSUME NEW c \in Checkpoints, NEW t \in Tables, NEW s \in States \ {"none"}, Regular(c)
  PROVE  Regular(MarkTable(c, t, s))
<1> SUFFICES ASSUME NEW u \in Tables, MarkTable(c, t, s).table[u] = "none" \/ u \notin Chunked
             PROVE  MarkTable(c, t, s).chunks[u] = {}
  BY DEF Regular
<1>1. CASE u = t
  BY <1>1, MarkFacts DEF Regular
<1>2. CASE u # t
  BY <1>2, MarkFacts DEF Regular
<1> QED
  BY <1>1, <1>2

LEMMA RegularChunk ==
  ASSUME NEW c \in Checkpoints, NEW t \in Chunked, NEW p \in Parts, Regular(c), c.table[t] # "none"
  PROVE  Regular(MarkChunkCompleted(c, t, p))
<1>1. t \in Tables /\ c.chunks \in [Tables -> SUBSET Parts]
  BY MigrationAssumption DEF Checkpoints
<1>2. /\ MarkChunkCompleted(c, t, p).table = c.table
      /\ MarkChunkCompleted(c, t, p).chunks = [c.chunks EXCEPT ![t] = @ \cup {p}]
  BY <1>1, ChunkFacts
<1> DEFINE d == MarkChunkCompleted(c, t, p)
<1> HIDE DEF d
<1> SUFFICES ASSUME NEW u \in Tables, d.table[u] = "none" \/ u \notin Chunked
             PROVE  d.chunks[u] = {}
  BY DEF Regular, d
<1>3. u # t
  BY <1>2 DEF d
<1> QED
  BY <1>1, <1>2, <1>3 DEF Regular, d

LEMMA RegularSave ==
  ASSUME Types, NEW c \in Checkpoints, Regular(c), RegularFile(file), Save(c)
  PROVE  RegularFile(file')
  BY SaveFacts DEF RegularFile

LEMMA RegularPhaseEnd ==
  ASSUME Types, AllRegular, NEW p \in {"precheck", "schema", "data", "validate"}, NEW ok \in BOOLEAN,
         NEW o \in Checkpoints, Regular(o), PhaseEnds(p, ok, o)
  PROVE  Regular(orch') /\ Regular(cp')
<1>1. CASE EndRun("error")
  BY <1>1, EndRunFacts, RegularFresh
<1>2. CASE orch' = o /\ cp' = cp
  BY <1>2 DEF AllRegular
<1> QED
  BY <1>1, <1>2, PhaseEndsFacts

LEMMA PhaseNames ==
  /\ "precheck" \in Phases /\ "schema" \in Phases /\ "data" \in Phases /\ "validate" \in Phases
  /\ "completed" \in Phases /\ "data-export" \in Phases /\ "data-import" \in Phases
  BY DEF Phases

LEMMA PipelineRegular == ASSUME Types, AllRegular, StartRun \/ Pipeline \/ Crash PROVE AllRegular'
<1>c. /\ orch \in Checkpoints /\ cp \in Checkpoints /\ file \in Checkpoints \cup {NoFile}
      /\ Regular(orch) /\ Regular(cp) /\ RegularFile(file)
  BY DEF Types, AllRegular
<1>1. CASE StartRun
  BY <1>1, <1>c, FreshFacts, RegularFresh, RegularLoad DEF StartRun, AllRegular
<1>2. CASE RunPrecheck
  <2>1. SetPhase(orch, "precheck") \in Checkpoints /\ Regular(SetPhase(orch, "precheck"))
    BY <1>c, PhaseFacts, PhaseNames, RegularPhase
  <2>2. Regular(orch') /\ Regular(cp')
    BY <1>2, <2>1, RegularPhaseEnd DEF RunPrecheck
  <2>3. RegularFile(file')
    BY <1>2, <1>c, <2>1, RegularSave DEF RunPrecheck
  <2> QED
    BY <2>2, <2>3 DEF AllRegular
<1>3. CASE RunSchema
  <2>1. SetPhase(orch, "schema") \in Checkpoints /\ Regular(SetPhase(orch, "schema"))
    BY <1>c, PhaseFacts, PhaseNames, RegularPhase
  <2>2. Regular(orch') /\ Regular(cp')
    BY <1>3, <2>1, RegularPhaseEnd DEF RunSchema
  <2>3. RegularFile(file')
    BY <1>3, <1>c, <2>1, RegularSave DEF RunSchema
  <2> QED
    BY <2>2, <2>3 DEF AllRegular
<1>4. CASE ClearCheckpoint
  BY <1>4, <1>c DEF ClearCheckpoint, AllRegular, RegularFile
<1>5. CASE RunData
  <2>1. orch' \in Checkpoints /\ Regular(orch') /\ cp' = cp
    BY <1>5, <1>c, PhaseFacts, PhaseNames, RegularPhase DEF RunData
  <2>2. RegularFile(file')
    BY <1>5, <1>c, <2>1, RegularSave DEF RunData
  <2> QED
    BY <1>c, <2>1, <2>2 DEF AllRegular
<1>6. CASE RunValidate
  <2> DEFINE o == SetPhaseWithReload(orch, file, "validate")
  <2>1. o \in Checkpoints /\ Regular(o)
    BY <1>c, ReloadFacts, PhaseNames, RegularReload
  <2>2. Save(o) /\ \E ok \in BOOLEAN : PhaseEnds("validate", ok, o)
    BY <1>6 DEF RunValidate
  <2> HIDE DEF o
  <2>3. Regular(orch') /\ Regular(cp')
    BY <2>1, <2>2, RegularPhaseEnd
  <2>4. RegularFile(file')
    BY <1>c, <2>1, <2>2, RegularSave
  <2> QED
    BY <2>3, <2>4 DEF AllRegular
<1>7. CASE Complete
  <2>1. /\ SetPhaseWithReload(orch, file, "completed") \in Checkpoints
        /\ Regular(SetPhaseWithReload(orch, file, "completed"))
    BY <1>c, ReloadFacts, PhaseNames, RegularReload
  <2>2. RegularFile(file')
    BY <1>7, <1>c, <2>1, RegularSave DEF Complete
  <2>3. EndRun("ok")
    BY <1>7 DEF Complete
  <2> QED
    BY <2>2, <2>3, EndRunFacts, RegularFresh DEF AllRegular
<1>8. CASE Crash
  <2>1. EndRun("crash") /\ file' = file
    BY <1>8 DEF Crash
  <2> QED
    BY <1>c, <2>1, EndRunFacts, RegularFresh DEF AllRegular
<1> QED
  BY <1>1, <1>2, <1>3, <1>4, <1>5, <1>6, <1>7, <1>8 DEF Pipeline

\* The migrator writes what it has in memory, or nothing.
LEMMA MigratorRegular ==
  ASSUME Types, AllRegular, orch' = orch, cp' \in Checkpoints, Regular(cp'), Save(cp') \/ file' = file
  PROVE  AllRegular'
  BY RegularSave DEF AllRegular

LEMMA MigratorRegulars == ASSUME Types, AllRegular, Migrator PROVE AllRegular'
<1>c. /\ orch \in Checkpoints /\ cp \in Checkpoints /\ file \in Checkpoints \cup {NoFile}
      /\ Regular(orch) /\ Regular(cp) /\ RegularFile(file)
  BY DEF Types, AllRegular
<1>o. \A i \in 1 .. Len(Order) : Order[i] \in Tables
  BY MigrationAssumption
<1>l. Len(Order) \in Nat /\ at \in 1 .. Len(Order) + 1
  BY LastIndex DEF Types
<1>s. "running" \in States \ {"none"} /\ "completed" \in States \ {"none"}
  BY StateNames
<1>1. CASE OpenData
  <2>1. Load(Fresh, file) \in Checkpoints /\ Regular(Load(Fresh, file))
    BY <1>c, FreshFacts, LoadFacts, RegularFresh, RegularLoad
  <2>2. cp' = SetPhase(Load(Fresh, file), "data-export") /\ Save(cp') /\ orch' = orch
    BY <1>1 DEF OpenData
  <2>3. cp' \in Checkpoints /\ Regular(cp')
    BY <2>1, <2>2, PhaseFacts, PhaseNames, RegularPhase
  <2> QED
    BY <2>2, <2>3, MigratorRegular
<1>2. CASE ConnectFails
  <2>1. PhaseEnds("data", FALSE, orch) /\ file' = file
    BY <1>2 DEF ConnectFails
  <2> QED
    BY <1>c, <2>1, RegularPhaseEnd DEF AllRegular
<1>3. CASE ExportSkip \/ RenameFiles \/ TruncateTarget \/ LightningLoads \/ LightningFails
  <2>1. UNCHANGED <<orch, cp, file>>
    BY <1>3 DEF ExportSkip, RenameFiles, TruncateTarget, LightningLoads, LightningFails, FallBack
  <2> QED
    BY <2>1 DEF AllRegular
<1>4. CASE ExportDispatch
  <2>1. Order[at] \in Tables
    BY <1>4, <1>l, <1>o DEF ExportDispatch
  <2>2. cp' = GetOrCreateTable(cp, Order[at]) /\ orch' = orch /\ (Save(cp') \/ file' = file)
    BY <1>4 DEF ExportDispatch
  <2>3. cp' \in Checkpoints /\ Regular(cp')
    BY <1>c, <2>1, <2>2, CreateFacts, RegularCreate
  <2> QED
    BY <2>2, <2>3, MigratorRegular
<1>5. CASE ExportWait
  <2>1. CASE firstErr /\ opts.onError # "skip"
    <3>1. PhaseEnds("data", FALSE, orch) /\ file' = file
      BY <1>5, <2>1 DEF ExportWait
    <3> QED
      BY <1>c, <3>1, RegularPhaseEnd DEF AllRegular
  <2>2. CASE ~(firstErr /\ opts.onError # "skip")
    <3>1. cp' = SetPhase(cp, "data-import") /\ Save(cp') /\ orch' = orch
      BY <1>5, <2>2 DEF ExportWait
    <3>2. cp' \in Checkpoints /\ Regular(cp')
      BY <1>c, <3>1, PhaseFacts, PhaseNames, RegularPhase
    <3> QED
      BY <3>1, <3>2, MigratorRegular
  <2> QED
    BY <2>1, <2>2
<1>6. CASE MarkImported \/ SqlDispatch
  <2>1. Order[at] \in Tables
    BY <1>6, <1>l, <1>o DEF MarkImported, SqlDispatch
  <2> DEFINE c == GetOrCreateTable(cp, Order[at])
  <2>2. c \in Checkpoints /\ Regular(c)
    BY <1>c, <2>1, CreateFacts, RegularCreate
  <2>3. PICK s \in States \ {"none"} : cp' = MarkTable(c, Order[at], s)
    BY <1>6, <1>s DEF MarkImported, SqlDispatch
  <2>4. Save(cp') /\ orch' = orch
    BY <1>6 DEF MarkImported, SqlDispatch
  <2> HIDE DEF c
  <2>5. cp' \in Checkpoints /\ Regular(cp')
    BY <2>1, <2>2, <2>3, MarkFacts, RegularMark
  <2> QED
    BY <2>4, <2>5, MigratorRegular
<1>7. CASE ImportEnds
  <2>1. Save(cp) /\ PhaseEnds("data", TRUE, orch)
    BY <1>7 DEF ImportEnds
  <2>2. RegularFile(file')
    BY <1>c, <2>1, RegularSave
  <2> QED
    BY <1>c, <2>1, <2>2, RegularPhaseEnd DEF AllRegular
<1>8. CASE SqlWait
  <2>1. PhaseEnds("data", ~firstErr, orch) /\ file' = file /\ (~firstErr) \in BOOLEAN
    BY <1>8 DEF SqlWait
  <2> QED
    BY <1>c, <2>1, RegularPhaseEnd DEF AllRegular
<1> QED
  BY <1>1, <1>2, <1>3, <1>4, <1>5, <1>6, <1>7, <1>8 DEF Migrator

LEMMA TableRegular ==
  ASSUME Types, Working, AllRegular, NEW t \in Tables,
         TableStep(t) \/ \E p \in Parts : ChunkStep(t, p)
  PROVE  AllRegular'
<1>c. cp \in Checkpoints /\ Regular(cp)
  BY DEF Types, AllRegular
<1>s. "running" \in States \ {"none"} /\ "completed" \in States \ {"none"} /\ "failed" \in States \ {"none"}
  BY StateNames
<1>1. CASE UNCHANGED <<orch, cp, file>>
  BY <1>1 DEF AllRegular
<1>2. CASE orch' = orch /\ cp' = cp /\ Save(cp)
  BY <1>2, <1>c, MigratorRegular
<1>3. ASSUME NEW s \in States \ {"none"}, cp' = MarkTable(cp, t, s), orch' = orch, Save(cp')
      PROVE  AllRegular'
  BY <1>3, <1>c, MarkFacts, RegularMark, MigratorRegular
<1>4. ASSUME NEW p \in Parts, ChunkEnds(t, p) PROVE AllRegular'
  <2>1. /\ cp' = MarkChunkCompleted(cp, t, p) /\ Save(cp') /\ orch' = orch
        /\ chunk[t][p] # "done"
    BY <1>4 DEF ChunkEnds
  <2>2. t \in Chunked /\ cp.table[t] # "none"
    BY <2>1 DEF Working
  <2> QED
    BY <1>c, <2>1, <2>2, ChunkFacts, RegularChunk, MigratorRegular
<1>5. ASSUME NEW p \in Parts, ChunkFails(t, p) PROVE AllRegular'
  <2>1. cp' = MarkChunkFailed(cp, t, p) /\ p \notin cp.chunks[t] /\ UNCHANGED <<orch, file>>
    BY <1>5 DEF ChunkFails, Working
  <2>2. cp' = cp
    BY <1>c, <2>1, ChunkFacts
  <2> QED
    BY <1>1, <2>1, <2>2
<1>6. CASE TableStep(t)
  <2>1. CASE CreateFile(t) \/ BeginChunks(t) \/ SqlStart(t) \/ CommitUnknown(t)
    BY <1>1, <2>1 DEF CreateFile, BeginChunks, SqlStart, CommitUnknown
  <2>2. CASE InsertBatch(t)
    BY <1>1, <1>2, <2>2 DEF InsertBatch
  <2>3. CASE InsertFails(t)
    BY <1>1, <1>3, <1>s, <2>3 DEF InsertFails, TableFails
  <2>4. CASE ExportStart(t) \/ ExportEnds(t) \/ ExportFails(t) \/ ChunksEnd(t) \/ StreamFails(t) \/ StreamEnds(t)
    BY <1>3, <1>s, <2>4
       DEF ExportStart, ExportEnds, ExportFails, ChunksEnd, StreamFails, StreamEnds, TableExported, TableFails
  <2> QED
    BY <1>6, <2>1, <2>2, <2>3, <2>4 DEF TableStep
<1>7. ASSUME NEW p \in Parts, ChunkStep(t, p) PROVE AllRegular'
  BY <1>1, <1>4, <1>5, <1>7 DEF ChunkStep, ChunkStart, ChunkWritten
<1> QED
  BY <1>6, <1>7

-----------------------------------------------------------------------------
(* The semaphores. *)

Limits == Cardinality(Holding) <= Parallel /\ \A t \in Tables : Cardinality(Copying(t)) <= ChunkParallel

LEMMA Finite ==
  /\ \A S \in SUBSET Tables : IsFiniteSet(S) /\ Cardinality(S) \in Nat
  /\ \A S \in SUBSET Parts : IsFiniteSet(S) /\ Cardinality(S) \in Nat
<1>1. IsFiniteSet(1 .. Len(Order)) /\ IsFiniteSet(Parts)
  <2>1. Len(Order) \in Int /\ NParts \in Int
    BY LastIndex, CheckpointAssumption
  <2> QED
    BY <2>1, FS_Interval DEF Parts
<1>2. IsFiniteSet(Tables)
  <2>1. Order \in [1 .. Len(Order) -> Tables]
    BY MigrationAssumption
  <2>2. \A t \in Tables : \E i \in 1 .. Len(Order) : Order[i] = t
    BY <2>1, MigrationAssumption
  <2>3. Order \in Surjection(1 .. Len(Order), Tables)
    BY <2>1, <2>2 DEF Surjection
  <2> QED
    BY <1>1, <2>3, FS_Surjection
<1> QED
  BY <1>1, <1>2, FS_Subset, FS_CardinalityType

\* No place of a semaphore is taken.
LEMMA NothingTaken ==
  ASSUME Limits,
         \A t \in Tables : worker'[t] \in {"idle", "waiting"} \/ worker[t] \notin {"idle", "waiting"},
         \A t \in Tables : \A p \in Parts : chunk'[t][p] = "copy" => chunk[t][p] = "copy"
  PROVE  Limits'
<1>1. \A S \in SUBSET Tables : \A T \in SUBSET S : Cardinality(T) <= Cardinality(S)
  BY Finite, FS_Subset
<1>2. \A S \in SUBSET Parts : \A T \in SUBSET S : Cardinality(T) <= Cardinality(S)
  BY Finite, FS_Subset
<1>3. Cardinality(Holding') <= Parallel
  <2> DEFINE S == Holding
             T == Holding'
  <2>1. S \in SUBSET Tables /\ T \in SUBSET S
    BY DEF Holding
  <2>2. Cardinality(S) \in Nat /\ Cardinality(T) \in Nat /\ Parallel \in Nat
    BY <2>1, Finite, MigrationAssumption
  <2>3. Cardinality(S) <= Parallel
    BY DEF Limits
  <2>4. Cardinality(T) <= Cardinality(S)
    BY <1>1, <2>1
  <2> HIDE DEF S, T
  <2>5. Cardinality(T) <= Parallel
    BY <2>2, <2>3, <2>4
  <2> QED
    BY <2>5 DEF T
<1>4. ASSUME NEW t \in Tables PROVE Cardinality(Copying(t)') <= ChunkParallel
  <2> DEFINE S == Copying(t)
             T == Copying(t)'
  <2>1. S \in SUBSET Parts /\ T \in SUBSET S
    BY DEF Copying
  <2>2. Cardinality(S) \in Nat /\ Cardinality(T) \in Nat /\ ChunkParallel \in Nat
    BY <2>1, Finite, MigrationAssumption
  <2>3. Cardinality(S) <= ChunkParallel
    BY DEF Limits
  <2>4. Cardinality(T) <= Cardinality(S)
    BY <1>2, <2>1
  <2> HIDE DEF S, T
  <2>5. Cardinality(T) <= ChunkParallel
    BY <2>2, <2>3, <2>4
  <2> QED
    BY <2>5 DEF T
<1> QED
  BY <1>3, <1>4 DEF Limits

LEMMA LimitsUnchanged == ASSUME Limits, UNCHANGED <<worker, chunk>> PROVE Limits'
  BY NothingTaken

LEMMA EndRunLimits == ASSUME Limits, NEW r, EndRun(r) PROVE Limits'
  BY EndRunFacts, NothingTaken

LEMMA PhaseEndsLimits ==
  ASSUME Types, Limits, NEW p \in {"precheck", "schema", "data", "validate"}, NEW ok \in BOOLEAN, NEW o,
         PhaseEnds(p, ok, o)
  PROVE  Limits'
  BY PhaseEndsFacts, EndRunLimits, LimitsUnchanged

LEMMA PipelineLimits == ASSUME Types, Limits, StartRun \/ Pipeline \/ Crash PROVE Limits'
<1>1. CASE StartRun \/ ClearCheckpoint \/ RunData
  BY <1>1, LimitsUnchanged DEF StartRun, ClearCheckpoint, RunData
<1>2. CASE RunPrecheck \/ RunSchema \/ RunValidate
  BY <1>2, PhaseEndsLimits DEF RunPrecheck, RunSchema, RunValidate
<1>3. CASE Complete \/ Crash
  BY <1>3, EndRunLimits DEF Complete, Crash
<1> QED
  BY <1>1, <1>2, <1>3 DEF Pipeline

LEMMA MigratorLimits == ASSUME Types, Limits, Migrator PROVE Limits'
<1>w. worker \in [Tables -> Work]
  BY DEF Types
<1>1. CASE OpenData \/ ExportSkip \/ RenameFiles \/ TruncateTarget \/ LightningLoads \/ LightningFails \/ MarkImported
  BY <1>1, LimitsUnchanged
     DEF OpenData, ExportSkip, RenameFiles, TruncateTarget, LightningLoads, LightningFails, MarkImported, FallBack
<1>2. CASE ConnectFails \/ ImportEnds
  BY <1>2, PhaseEndsLimits DEF ConnectFails, ImportEnds
<1>3. CASE ExportWait
  BY <1>3, PhaseEndsLimits, LimitsUnchanged DEF ExportWait
<1>4. CASE ExportDispatch \/ SqlDispatch
  <2>1. PICK t : worker' = [worker EXCEPT ![t] = "waiting"] /\ chunk' = chunk
    BY <1>4 DEF ExportDispatch, SqlDispatch
  <2> QED
    BY <1>w, <2>1, NothingTaken
<1>5. CASE SqlWait
  <2>1. (~firstErr) \in BOOLEAN
    OBVIOUS
  <2> QED
    BY <1>5, <2>1, PhaseEndsLimits DEF SqlWait
<1> QED
  BY <1>1, <1>2, <1>3, <1>4, <1>5 DEF Migrator

LEMMA TableLimits == ASSUME Types, Limits, NEW t \in Tables, TableStep(t) PROVE Limits'
<1>w. worker \in [Tables -> Work] /\ chunk \in [Tables -> [Parts -> {"todo", "copy", "written", "done"}]]
  BY DEF Types
<1>1. ASSUME NEW w \in Work, worker' = [worker EXCEPT ![t] = w], chunk' = chunk, Cardinality(Holding) < Parallel
      PROVE  Limits'
  <2> DEFINE S == Holding
             T == Holding'
  <2>1. S \in SUBSET Tables /\ T \in SUBSET (S \cup {t})
    BY <1>1, <1>w DEF Holding
  <2>2. S \cup {t} \in SUBSET Tables /\ T \in SUBSET Tables
    BY <2>1
  <2>3. Cardinality(S) \in Nat /\ Cardinality(S \cup {t}) \in Nat /\ Cardinality(T) \in Nat /\ Parallel \in Nat
    BY <2>1, <2>2, Finite, MigrationAssumption
  <2>4. IsFiniteSet(S) /\ IsFiniteSet(S \cup {t})
    BY <2>1, <2>2, Finite
  <2>5. Cardinality(S \cup {t}) = IF t \in S THEN Cardinality(S) ELSE Cardinality(S) + 1
    BY <2>4, FS_AddElement
  <2>6. Cardinality(T) <= Cardinality(S \cup {t})
    BY <2>1, <2>4, FS_Subset
  <2>7. Cardinality(S) < Parallel
    BY <1>1
  <2> HIDE DEF S, T
  <2>8. Cardinality(T) <= Parallel
    BY <2>3, <2>5, <2>6, <2>7
  <2>9. \A u \in Tables : Copying(u)' = Copying(u)
    BY <1>1 DEF Copying
  <2> QED
    BY <2>8, <2>9 DEF T, Limits
<1>2. CASE ExportStart(t) \/ SqlStart(t)
  <2>1. "begin" \in Work /\ "stream" \in Work
    BY DEF Work
  <2> QED
    BY <1>1, <1>2, <2>1 DEF ExportStart, SqlStart
<1>3. CASE CreateFile(t)
  BY <1>3, <1>w, NothingTaken DEF CreateFile
<1>4. CASE BeginChunks(t)
  BY <1>4, <1>w, NothingTaken DEF BeginChunks
<1>5. ASSUME worker' = [worker EXCEPT ![t] = "idle"] \/ worker' = worker, chunk' = chunk PROVE Limits'
  BY <1>5, <1>w, NothingTaken
<1>6. CASE \/ ExportEnds(t) \/ ExportFails(t) \/ ChunksEnd(t) \/ InsertBatch(t) \/ CommitUnknown(t)
           \/ InsertFails(t) \/ StreamFails(t) \/ StreamEnds(t)
  BY <1>5, <1>6
     DEF ExportEnds, ExportFails, ChunksEnd, InsertBatch, CommitUnknown, InsertFails, StreamFails, StreamEnds,
         TableExported, TableFails
<1> QED
  BY <1>2, <1>3, <1>4, <1>6 DEF TableStep

LEMMA ChunkLimits == ASSUME Types, Limits, NEW t \in Tables, NEW p \in Parts, ChunkStep(t, p) PROVE Limits'
<1>w. chunk \in [Tables -> [Parts -> {"todo", "copy", "written", "done"}]]
  BY DEF Types
<1>1. CASE ChunkStart(t, p)
  <2>1. Holding' = Holding /\ chunk' = [chunk EXCEPT ![t][p] = "copy"] /\ Cardinality(Copying(t)) < ChunkParallel
    BY <1>1 DEF ChunkStart, Holding
  <2>2. ASSUME NEW u \in Tables, u # t PROVE Copying(u)' = Copying(u)
    BY <1>w, <2>1, <2>2 DEF Copying
  <2>3. Cardinality(Copying(t)') <= ChunkParallel
    <3> DEFINE S == Copying(t)
               T == Copying(t)'
    <3>1. S \in SUBSET Parts /\ T \in SUBSET (S \cup {p})
      BY <1>w, <2>1 DEF Copying
    <3>2. S \cup {p} \in SUBSET Parts /\ T \in SUBSET Parts
      BY <3>1
    <3>3. Cardinality(S) \in Nat /\ Cardinality(S \cup {p}) \in Nat /\ Cardinality(T) \in Nat /\ ChunkParallel \in Nat
      BY <3>1, <3>2, Finite, MigrationAssumption
    <3>4. IsFiniteSet(S) /\ IsFiniteSet(S \cup {p})
      BY <3>1, <3>2, Finite
    <3>5. Cardinality(S \cup {p}) = IF p \in S THEN Cardinality(S) ELSE Cardinality(S) + 1
      BY <3>4, FS_AddElement
    <3>6. Cardinality(T) <= Cardinality(S \cup {p})
      BY <3>1, <3>4, FS_Subset
    <3>7. Cardinality(S) < ChunkParallel
      BY <2>1
    <3> HIDE DEF S, T
    <3>8. Cardinality(T) <= ChunkParallel
      BY <3>3, <3>5, <3>6, <3>7
    <3> QED
      BY <3>8 DEF T
  <2> QED
    BY <2>1, <2>2, <2>3 DEF Limits
<1>2. CASE ChunkWritten(t, p) \/ ChunkEnds(t, p) \/ ChunkFails(t, p)
  <2>1. PICK s \in {"written", "done"} : chunk' = [chunk EXCEPT ![t][p] = s] /\ worker' = worker
    BY <1>2 DEF ChunkWritten, ChunkEnds, ChunkFails
  <2> QED
    BY <1>w, <2>1, NothingTaken
<1> QED
  BY <1>1, <1>2 DEF ChunkStep

-----------------------------------------------------------------------------
(* The two managers and the file. *)

\* While the tables are exported, the file has nothing as completed that the migrator,
\* whose writes it is made of, has not.
Behind ==
  run = "export" /\ file # NoFile => \A t \in Tables :
    /\ file.table[t] = "completed" => cp.table[t] = "completed"
    /\ file.chunks[t] \subseteq cp.chunks[t]

\* Before the data phase the orchestrator has every table of the file as the file has it.
OrchAgrees ==
  run \in {"precheck", "schema", "data"} /\ file # NoFile => \A t \in Tables :
    file.table[t] # "none" => orch.table[t] = file.table[t] /\ orch.chunks[t] = file.chunks[t]

\* A table's goroutine lives in one of the two loops.
LEMMA WorkerRuns ==
  ASSUME Types, Working, NEW t \in Tables, worker[t] # "idle" \/ \E p \in Parts : chunk[t][p] # "done"
  PROVE  run \in {"export", "sql"}
<1>1. worker[t] \in Work /\ worker[t] # "idle"
  BY DEF Types, Working
<1> QED
  BY <1>1 DEF Working, Work

LEMMA TableRuns ==
  ASSUME Types, Working, NEW t \in Tables, TableStep(t) \/ \E p \in Parts : ChunkStep(t, p)
  PROVE  run \in {"export", "sql"} /\ run' = run /\ orch' = orch
<1>1. CASE TableStep(t)
  <2>1. worker[t] # "idle" /\ run' = run /\ orch' = orch
    BY <1>1
       DEF TableStep, ExportStart, CreateFile, ExportEnds, ExportFails, BeginChunks, ChunksEnd, SqlStart,
           InsertBatch, CommitUnknown, InsertFails, StreamFails, StreamEnds
  <2> QED
    BY <2>1, WorkerRuns
<1>2. ASSUME NEW p \in Parts, ChunkStep(t, p)
      PROVE  run \in {"export", "sql"} /\ run' = run /\ orch' = orch
  <2>1. (worker[t] # "idle" \/ chunk[t][p] # "done") /\ run' = run /\ orch' = orch
    BY <1>2 DEF ChunkStep, ChunkStart, ChunkWritten, ChunkEnds, ChunkFails
  <2> QED
    BY <2>1, WorkerRuns
<1> QED
  BY <1>1, <1>2

LEMMA PipelineRuns ==
  ASSUME Types, StartRun \/ Pipeline \/ Crash
  PROVE  run \notin {"export", "sql"} \/ run' = "down"
  BY EndRunFacts
     DEF StartRun, Pipeline, RunPrecheck, RunSchema, ClearCheckpoint, RunData, RunValidate, Complete, Crash

\* Where the export may lead to and come from.
LEMMA MigratorRuns ==
  ASSUME Types, Migrator
  PROVE  /\ run \in {"open", "export", "rename", "truncate", "lightning", "marking", "sql"}
         /\ run' \notin {"precheck", "schema", "data", "clear"}
         /\ run' = "export" => OpenData \/ ExportSkip \/ ExportDispatch
<1>1. CASE OpenData \/ ExportSkip \/ ExportDispatch
  BY <1>1 DEF OpenData, ExportSkip, ExportDispatch, Goes
<1>2. ASSUME NEW ok \in BOOLEAN, PhaseEnds("data", ok, orch)
      PROVE  run' \in {"validate", "complete", "down"}
  <2>1. opts \in OptionRecords
    BY DEF Types
  <2>2. After("data", opts) \in {"validate", "complete"}
    BY <2>1, AfterFacts
  <2> QED
    BY <1>2, <2>2 DEF PhaseEnds, Goes, EndRun
<1>3. CASE ConnectFails \/ ImportEnds \/ ExportWait
  BY <1>2, <1>3 DEF ConnectFails, ImportEnds, ExportWait, Goes
<1>4. CASE SqlWait
  <2>1. (~firstErr) \in BOOLEAN
    OBVIOUS
  <2> QED
    BY <1>2, <1>4, <2>1 DEF SqlWait
<1>5. CASE RenameFiles \/ TruncateTarget \/ LightningLoads \/ LightningFails \/ MarkImported \/ SqlDispatch
  BY <1>5 DEF RenameFiles, TruncateTarget, LightningLoads, LightningFails, MarkImported, SqlDispatch, FallBack, Goes
<1> QED
  BY <1>1, <1>3, <1>4, <1>5 DEF Migrator

\* The checkpoint in memory only gains on a file that is behind, and is written or not.
LEMMA StaysBehind ==
  ASSUME Types, Behind, run = "export", cp' \in Checkpoints, Save(cp') \/ file' = file,
         \A t \in Tables : cp.table[t] = "completed" => cp'.table[t] = "completed",
         \A t \in Tables : cp.chunks[t] \subseteq cp'.chunks[t]
  PROVE  Behind'
  BY SaveFacts DEF Behind

LEMMA MigratorBehind == ASSUME Types, Working, AllRegular, Behind, Migrator PROVE Behind'
<1>c. cp \in Checkpoints /\ file \in Checkpoints \cup {NoFile}
  BY DEF Types
<1>1. CASE OpenData
  <2>1. Load(Fresh, file) \in Checkpoints
    BY <1>c, FreshFacts, LoadFacts
  <2>2. cp' = SetPhase(Load(Fresh, file), "data-export") /\ Save(cp')
    BY <1>1 DEF OpenData
  <2>3. cp' \in Checkpoints /\ cp'.table = Load(Fresh, file).table /\ cp'.chunks = Load(Fresh, file).chunks
    BY <2>1, <2>2, PhaseFacts, PhaseNames
  <2>4. file' = cp' \/ file' = file
    BY <2>2, <2>3, SaveFacts
  <2>5. CASE file' = cp'
    BY <2>5 DEF Behind
  <2>6. CASE file' = file
    <3>1. ASSUME NEW t \in Tables, file # NoFile
          PROVE  /\ file.table[t] = "completed" => cp'.table[t] = "completed"
                 /\ file.chunks[t] \subseteq cp'.chunks[t]
      <4>1. CASE file.table[t] = "none"
        BY <3>1, <4>1 DEF AllRegular, RegularFile, Regular
      <4>2. CASE file.table[t] # "none"
        BY <1>c, <2>3, <3>1, <4>2, FreshFacts, LoadFacts
      <4> QED
        BY <4>1, <4>2
    <3> QED
      BY <2>6, <3>1 DEF Behind
  <2> QED
    BY <2>4, <2>5, <2>6
<1>2. CASE ExportSkip
  BY <1>2 DEF ExportSkip, Behind
<1>3. CASE ExportDispatch
  <2>1. Order[at] \in Tables
    BY <1>3, MigrationAssumption, LastIndex DEF ExportDispatch, Types
  <2>2. run = "export" /\ cp' = GetOrCreateTable(cp, Order[at]) /\ (Save(cp') \/ file' = file)
    BY <1>3 DEF ExportDispatch
  <2>3. cp' \in Checkpoints /\ cp'.chunks = cp.chunks
    BY <1>c, <2>1, <2>2, CreateFacts
  <2>4. \A t \in Tables : cp.table[t] = "completed" => cp'.table[t] = "completed"
    BY <1>c, <2>1, <2>2, CreateFacts
  <2> QED
    BY <2>2, <2>3, <2>4, StaysBehind
<1>4. CASE run' # "export"
  BY <1>4 DEF Behind
<1> QED
  BY <1>1, <1>2, <1>3, <1>4, MigratorRuns

LEMMA TableBehind ==
  ASSUME Types, Working, Behind, NEW t \in Tables, TableStep(t) \/ \E p \in Parts : ChunkStep(t, p)
  PROVE  Behind'
<1>c. cp \in Checkpoints
  BY DEF Types
<1> SUFFICES ASSUME run = "export" PROVE Behind'
  BY TableRuns DEF Behind
<1>1. CASE UNCHANGED <<cp, file>>
  BY <1>1, TableRuns DEF Behind
<1>2. CASE cp' = cp /\ Save(cp)
  BY <1>2, <1>c, StaysBehind
<1>3. ASSUME NEW s \in States, cp' = MarkTable(cp, t, s), Save(cp'), worker[t] # "idle"
      PROVE  Behind'
  <2>1. cp.table[t] # "completed"
    BY <1>3 DEF Working
  <2>2. /\ cp' \in Checkpoints /\ cp'.chunks = cp.chunks /\ \A u \in Tables \ {t} : cp'.table[u] = cp.table[u]
    BY <1>c, <1>3, MarkFacts
  <2> QED
    BY <1>3, <2>1, <2>2, StaysBehind
<1>4. ASSUME NEW p \in Parts, ChunkEnds(t, p) PROVE Behind'
  <2>1. cp' = MarkChunkCompleted(cp, t, p) /\ Save(cp')
    BY <1>4 DEF ChunkEnds
  <2>2. cp' \in Checkpoints /\ cp'.table = cp.table /\ cp'.chunks = [cp.chunks EXCEPT ![t] = @ \cup {p}]
    BY <1>c, <2>1, ChunkFacts
  <2>3. cp.chunks \in [Tables -> SUBSET Parts]
    BY <1>c DEF Checkpoints
  <2>4. \A u \in Tables : cp.chunks[u] \subseteq cp'.chunks[u]
    BY <2>2, <2>3
  <2> QED
    BY <2>1, <2>2, <2>4, StaysBehind
<1>5. ASSUME NEW p \in Parts, ChunkFails(t, p) PROVE Behind'
  <2>1. cp' = MarkChunkFailed(cp, t, p) /\ p \notin cp.chunks[t] /\ file' = file
    BY <1>5 DEF ChunkFails, Working
  <2>2. cp' = cp
    BY <1>c, <2>1, ChunkFacts
  <2> QED
    BY <1>1, <2>1, <2>2
<1>6. CASE TableStep(t)
  <2>1. CASE CreateFile(t) \/ BeginChunks(t) \/ SqlStart(t) \/ CommitUnknown(t)
    BY <1>1, <2>1 DEF CreateFile, BeginChunks, SqlStart, CommitUnknown
  <2>2. CASE InsertBatch(t)
    BY <1>1, <1>2, <2>2 DEF InsertBatch
  <2>3. CASE InsertFails(t)
    BY <1>1, <1>3, StateNames, <2>3 DEF InsertFails, TableFails
  <2>4. CASE ExportStart(t) \/ ExportEnds(t) \/ ExportFails(t) \/ ChunksEnd(t) \/ StreamFails(t) \/ StreamEnds(t)
    BY <1>3, StateNames, <2>4
       DEF ExportStart, ExportEnds, ExportFails, ChunksEnd, StreamFails, StreamEnds, TableExported, TableFails
  <2> QED
    BY <1>6, <2>1, <2>2, <2>3, <2>4 DEF TableStep
<1>7. ASSUME NEW p \in Parts, ChunkStep(t, p) PROVE Behind'
  BY <1>1, <1>4, <1>5, <1>7 DEF ChunkStep, ChunkStart, ChunkWritten
<1> QED
  BY <1>6, <1>7

LEMMA PipelineAgrees ==
  ASSUME Types, OrchAgrees, StartRun \/ Pipeline \/ Crash
  PROVE  OrchAgrees'
<1>c. orch \in Checkpoints /\ file \in Checkpoints \cup {NoFile} /\ opts \in OptionRecords
  BY DEF Types
<1>1. CASE StartRun
  BY <1>1, <1>c, FreshFacts, LoadFacts DEF StartRun, OrchAgrees
<1>2. CASE RunPrecheck \/ RunSchema
  <2>1. PICK p \in {"precheck", "schema"} :
          run = p /\ Save(SetPhase(orch, p)) /\ \E ok \in BOOLEAN : PhaseEnds(p, ok, SetPhase(orch, p))
    BY <1>2 DEF RunPrecheck, RunSchema
  <2> DEFINE o == SetPhase(orch, p)
  <2>2. p \in Phases
    BY PhaseNames
  <2>3. o \in Checkpoints /\ o.table = orch.table /\ o.chunks = orch.chunks
    BY <1>c, <2>2, PhaseFacts
  <2>4. file' = o \/ file' = file
    BY <2>1, <2>3, SaveFacts
  <2>5. orch' = o \/ run' = "down"
    BY <2>1 DEF PhaseEnds, EndRun
  <2> HIDE DEF o
  <2>6. CASE run' = "down"
    BY <2>6 DEF OrchAgrees
  <2>7. CASE orch' = o
    <3>1. CASE file' = o
      BY <2>7, <3>1 DEF OrchAgrees
    <3>2. CASE file' = file
      BY <2>1, <2>3, <2>7, <3>2 DEF OrchAgrees
    <3> QED
      BY <2>4, <3>1, <3>2
  <2> QED
    BY <2>5, <2>6, <2>7
<1>3. CASE ClearCheckpoint
  BY <1>3 DEF ClearCheckpoint, OrchAgrees
<1>4. CASE RunData
  BY <1>4 DEF RunData, OrchAgrees
<1>5. CASE RunValidate
  <2>1. After("validate", opts) \in {"validate", "complete"}
    BY <1>c, AfterFacts
  <2>2. run' \in {"validate", "complete", "down"}
    BY <1>5, <2>1 DEF RunValidate, PhaseEnds, Goes, EndRun
  <2> QED
    BY <2>2 DEF OrchAgrees
<1>6. CASE Complete \/ Crash
  BY <1>6 DEF Complete, Crash, EndRun, OrchAgrees
<1> QED
  BY <1>1, <1>2, <1>3, <1>4, <1>5, <1>6 DEF Pipeline

LEMMA PipelineBehind == ASSUME Types, StartRun \/ Pipeline \/ Crash PROVE Behind'
<1>o. opts \in OptionRecords /\ Options \subseteq OptionRecords
  BY MigrationAssumption DEF Types
<1>1. CASE StartRun
  <2>1. PICK o \in OptionRecords : run' = After("none", o)
    BY <1>1, <1>o DEF StartRun
  <2>2. run' # "export"
    BY <2>1, AfterFacts
  <2> QED
    BY <2>2 DEF Behind
<1>2. CASE RunPrecheck \/ RunSchema \/ RunValidate
  <2>1. PICK p \in {"precheck", "schema", "validate"}, ok \in BOOLEAN : \E o : PhaseEnds(p, ok, o)
    BY <1>2 DEF RunPrecheck, RunSchema, RunValidate
  <2>2. run' # "export"
    BY <2>1, PhaseEndsFacts, EndRunFacts
  <2> QED
    BY <2>2 DEF Behind
<1>3. CASE ClearCheckpoint \/ RunData \/ Complete \/ Crash
  BY <1>3 DEF ClearCheckpoint, RunData, Complete, Crash, EndRun, Behind
<1> QED
  BY <1>1, <1>2, <1>3 DEF Pipeline

\* The inductive invariant.
WorkInv == Types /\ Working /\ Limits /\ AllRegular /\ Behind /\ OrchAgrees

LEMMA InitWork == Init => WorkInv
<1> SUFFICES ASSUME Init PROVE WorkInv
  OBVIOUS
<1>1. Types
  BY TypesInit
<1>2. Working
  BY DEF Init, Working, ForEach, All
<1>3. Limits
  <2>1. Holding = {} /\ \A t \in Tables : Copying(t) = {}
    BY DEF Init, Holding, Copying, ForEach, All
  <2>2. Parallel \in Nat /\ ChunkParallel \in Nat
    BY MigrationAssumption
  <2> QED
    BY <2>1, <2>2, FS_EmptySet DEF Limits
<1>4. AllRegular
  BY RegularFresh DEF Init, AllRegular, RegularFile
<1>5. Behind /\ OrchAgrees
  BY DEF Init, Behind, OrchAgrees
<1> QED
  BY <1>1, <1>2, <1>3, <1>4, <1>5 DEF WorkInv

LEMMA NextCases ==
  ASSUME [Next]_vars
  PROVE  \/ StartRun \/ Pipeline \/ Crash
         \/ Migrator
         \/ \E t \in Tables : TableStep(t) \/ \E p \in Parts : ChunkStep(t, p)
         \/ UNCHANGED vars
  BY DEF Next, Program, Finished

LEMMA NextWork == WorkInv /\ [Next]_vars => WorkInv'
<1> SUFFICES ASSUME Types, Working, Limits, AllRegular, Behind, OrchAgrees, [Next]_vars PROVE WorkInv'
  BY DEF WorkInv
<1>1. CASE StartRun \/ Pipeline \/ Crash
  BY <1>1, PipelineTypes, PipelineWorks, PipelineLimits, PipelineRegular, PipelineBehind, PipelineAgrees DEF WorkInv
<1>2. CASE Migrator
  <2>1. OrchAgrees'
    BY <1>2, MigratorRuns DEF OrchAgrees
  <2> QED
    BY <1>2, <2>1, MigratorTypes, MigratorWorks, MigratorLimits, MigratorRegulars, MigratorBehind DEF WorkInv
<1>3. ASSUME NEW t \in Tables, TableStep(t) \/ \E p \in Parts : ChunkStep(t, p)
      PROVE  WorkInv'
  <2>1. OrchAgrees'
    BY <1>3, TableRuns DEF OrchAgrees
  <2>2. AllRegular' /\ Behind'
    BY <1>3, TableRegular, TableBehind
  <2>3. Types' /\ Working' /\ Limits'
    BY <1>3, TableTypes, TableWorks, TableLimits, ChunkTypes, ChunkWorks, ChunkLimits
  <2> QED
    BY <2>1, <2>2, <2>3 DEF WorkInv
<1>4. CASE UNCHANGED vars
  <2>1. Types' /\ Working'
    BY <1>4 DEF Types, Working
  <2>2. Limits'
    BY <1>4, LimitsUnchanged
  <2>3. AllRegular' /\ Behind' /\ OrchAgrees'
    BY <1>4 DEF AllRegular, Behind, OrchAgrees
  <2> QED
    BY <2>1, <2>2, <2>3 DEF WorkInv
<1> QED
  BY <1>1, <1>2, <1>3, <1>4, NextCases

LEMMA AlwaysWork == Spec => []WorkInv
  BY InitWork, NextWork, PTL DEF Spec

\* Every variable keeps its type, and the two semaphores bound the tables and the chunks
\* of a table that are copied at the same time, whatever fails, crashes and restarts.
THEOREM TypeCorrect == Spec => []TypeOK
<1>1. WorkInv => TypeOK
  BY DEF WorkInv, Limits, TypeOK
<1> QED
  BY <1>1, AlwaysWork, PTL

\* The orchestrator's saves at the start of a phase never overwrite what the data
\* migrator, whose manager is another one, has left in the file of a table and its
\* chunks: before the data phase it has read the file, after it it reads it again.
THEOREM KeepsProgress == Spec => ProgressKept
<1> DEFINE Kept ==
      file # NoFile /\ run \in {"precheck", "schema", "data", "validate", "complete"} =>
        \A t \in Tables : file.table[t] # "none" =>
          file.table[t]' = file.table[t] /\ file.chunks[t]' = file.chunks[t]
<1>1. WorkInv /\ [Next]_vars => Kept
  <2> SUFFICES ASSUME Types, Working, OrchAgrees, [Next]_vars, file # NoFile,
                      run \in {"precheck", "schema", "data", "validate", "complete"},
                      NEW t \in Tables, file.table[t] # "none"
               PROVE  file'.table[t] = file.table[t] /\ file'.chunks[t] = file.chunks[t]
    BY DEF WorkInv
  <2>c. orch \in Checkpoints /\ file \in Checkpoints \cup {NoFile}
    BY DEF Types
  <2>1. CASE StartRun \/ ClearCheckpoint \/ Crash \/ UNCHANGED vars
    BY <2>1 DEF StartRun, ClearCheckpoint, Crash
  <2>2. CASE RunPrecheck \/ RunSchema \/ RunData
    <3>1. PICK p \in {"precheck", "schema", "data"} : run = p /\ Save(SetPhase(orch, p))
      BY <2>2 DEF RunPrecheck, RunSchema, RunData
    <3>2. p \in Phases
      BY PhaseNames
    <3> DEFINE o == SetPhase(orch, p)
    <3>3. o \in Checkpoints /\ o.table = orch.table /\ o.chunks = orch.chunks
      BY <2>c, <3>2, PhaseFacts
    <3>4. file' = o \/ file' = file
      BY <3>1, <3>3, SaveFacts
    <3>5. orch.table[t] = file.table[t] /\ orch.chunks[t] = file.chunks[t]
      BY <3>1 DEF OrchAgrees
    <3> HIDE DEF o
    <3> QED
      BY <3>3, <3>4, <3>5
  <2>3. CASE RunValidate \/ Complete
    <3>1. PICK p \in {"validate", "completed"} : Save(SetPhaseWithReload(orch, file, p))
      BY <2>3 DEF RunValidate, Complete
    <3>2. p \in Phases
      BY PhaseNames
    <3> DEFINE o == SetPhaseWithReload(orch, file, p)
    <3>3. o \in Checkpoints /\ o.table = Load(orch, file).table /\ o.chunks = Load(orch, file).chunks
      BY <2>c, <3>2, ReloadFacts
    <3>4. file' = o \/ file' = file
      BY <3>1, <3>3, SaveFacts
    <3>5. Load(orch, file).table[t] = file.table[t] /\ Load(orch, file).chunks[t] = file.chunks[t]
      BY <2>c, LoadFacts
    <3> HIDE DEF o
    <3> QED
      BY <3>3, <3>4, <3>5
  <2>4. ~Migrator
    BY MigratorRuns
  <2>5. ~\E u \in Tables : TableStep(u) \/ \E p \in Parts : ChunkStep(u, p)
    BY TableRuns
  <2> QED
    BY <2>1, <2>2, <2>3, <2>4, <2>5, NextCases DEF Pipeline
<1>2. WorkInv /\ [Next]_vars => [Kept]_vars
  BY <1>1
<1>3. [][Kept]_vars => ProgressKept
  BY DEF ProgressKept
<1> QED
  BY <1>2, <1>3, AlwaysWork, PTL DEF Spec

\* A run that comes after another one, whatever ended that, reads no table and copies no
\* chunk again that the checkpoint file has as completed.
THEOREM Resumes == Spec => ResumesExport
<1> DEFINE Skips ==
      run = "export" /\ file # NoFile =>
        /\ \A t \in read' \ read : file.table[t] # "completed"
        /\ \A t \in Chunked : \A p \in file.chunks[t] : chunk[t][p]' = "copy" => chunk[t][p] = "copy"
<1>1. WorkInv /\ [Next]_vars => Skips
  <2> SUFFICES ASSUME Types, Working, Behind, [Next]_vars, file # NoFile, run = "export"
               PROVE  /\ \A t \in read' \ read : file.table[t] # "completed"
                      /\ \A t \in Chunked : \A p \in file.chunks[t] : chunk'[t][p] = "copy" => chunk[t][p] = "copy"
    BY DEF WorkInv
  <2>c. /\ chunk \in [Tables -> [Parts -> {"todo", "copy", "written", "done"}]]
        /\ file \in Checkpoints /\ file.chunks \in [Tables -> SUBSET Parts]
    BY DEF Types, Checkpoints
  <2>d. Chunked \subseteq Tables
    BY MigrationAssumption
  <2>1. CASE UNCHANGED <<read, chunk>>
    BY <2>1
  <2>2. ASSUME NEW r, EndRun(r)
        PROVE  /\ \A t \in read' \ read : file.table[t] # "completed"
               /\ \A t \in Chunked : \A p \in file.chunks[t] : chunk'[t][p] = "copy" => chunk[t][p] = "copy"
    <3>1. read' = read /\ \A t \in Tables, p \in Parts : chunk'[t][p] = "done"
      BY <2>2, EndRunFacts
    <3> QED
      BY <2>c, <2>d, <3>1
  <2>3. CASE StartRun \/ Pipeline \/ Crash
    <3>1. run \notin {"down", "precheck", "schema", "clear", "data", "validate", "complete"}
      OBVIOUS
    <3>2. Crash
      BY <2>3, <3>1 DEF StartRun, Pipeline, RunPrecheck, RunSchema, ClearCheckpoint, RunData, RunValidate, Complete
    <3> QED
      BY <2>2, <3>2 DEF Crash
  <2>4. CASE Migrator
    <3>1. CASE ExportWait
      <4>1. CASE PhaseEnds("data", FALSE, orch)
        BY <2>1, <2>2, <4>1, PhaseEndsFacts
      <4> QED
        BY <2>1, <3>1, <4>1 DEF ExportWait
    <3>2. CASE ExportSkip \/ ExportDispatch
      BY <2>1, <3>2 DEF ExportSkip, ExportDispatch
    <3> QED
      BY <2>4, <3>1, <3>2
         DEF Migrator, OpenData, ConnectFails, RenameFiles, TruncateTarget, LightningLoads, LightningFails,
             MarkImported, ImportEnds, SqlDispatch, SqlWait
  <2>5. ASSUME NEW t \in Tables, TableStep(t)
        PROVE  /\ \A u \in read' \ read : file.table[u] # "completed"
               /\ \A u \in Chunked : \A p \in file.chunks[u] : chunk'[u][p] = "copy" => chunk[u][p] = "copy"
    <3>1. worker[t] # "idle" => file.table[t] # "completed"
      BY DEF Working, Behind
    <3>2. CASE CreateFile(t)
      BY <3>1, <3>2 DEF CreateFile
    <3>3. CASE BeginChunks(t)
      <4>1. read' = read \cup {t} /\ worker[t] = "begin"
        BY <3>3 DEF BeginChunks
      <4>2. \A u \in Tables, p \in Parts : chunk'[u][p] = "copy" => chunk[u][p] = "copy"
        BY <2>c, <3>3 DEF BeginChunks
      <4> QED
        BY <2>c, <2>d, <3>1, <4>1, <4>2
    <3>4. CASE SqlStart(t)
      BY <3>4 DEF SqlStart
    <3>5. CASE \/ ExportStart(t) \/ ExportEnds(t) \/ ExportFails(t) \/ ChunksEnd(t) \/ InsertBatch(t)
               \/ CommitUnknown(t) \/ InsertFails(t) \/ StreamFails(t) \/ StreamEnds(t)
      BY <2>1, <3>5
         DEF ExportStart, ExportEnds, ExportFails, ChunksEnd, InsertBatch, CommitUnknown, InsertFails,
             StreamFails, StreamEnds
    <3> QED
      BY <2>5, <3>2, <3>3, <3>4, <3>5 DEF TableStep
  <2>6. ASSUME NEW t \in Tables, NEW q \in Parts, ChunkStep(t, q)
        PROVE  /\ \A u \in read' \ read : file.table[u] # "completed"
               /\ \A u \in Chunked : \A p \in file.chunks[u] : chunk'[u][p] = "copy" => chunk[u][p] = "copy"
    <3>1. CASE ChunkStart(t, q)
      <4>1. chunk[t][q] # "done" /\ chunk' = [chunk EXCEPT ![t][q] = "copy"] /\ read' = read
        BY <3>1 DEF ChunkStart
      <4>2. q \notin cp.chunks[t] /\ file.chunks[t] \subseteq cp.chunks[t]
        BY <4>1 DEF Working, Behind
      <4> QED
        BY <2>c, <2>d, <4>1, <4>2
    <3>2. CASE ChunkWritten(t, q) \/ ChunkEnds(t, q) \/ ChunkFails(t, q)
      <4>1. PICK s \in {"written", "done"} : chunk' = [chunk EXCEPT ![t][q] = s] /\ read' = read
        BY <3>2 DEF ChunkWritten, ChunkEnds, ChunkFails
      <4> QED
        BY <2>c, <2>d, <4>1
    <3> QED
      BY <2>6, <3>1, <3>2 DEF ChunkStep
  <2>7. CASE UNCHANGED vars
    BY <2>1, <2>7
  <2> QED
    BY <2>3, <2>4, <2>5, <2>6, <2>7, NextCases
<1>2. WorkInv /\ [Next]_vars => [Skips]_vars
  BY <1>1
<1>3. [][Skips]_vars => ResumesExport
  BY DEF ResumesExport
<1> QED
  BY <1>2, <1>3, AlwaysWork, PTL DEF Spec

-----------------------------------------------------------------------------
(* What a checkpoint and a success are worth: without reads that end early and       *)
(* checkpoint files that cannot be written, and with one command repeated.           *)

Calm == "save error" \notin Occurs /\ "source lost" \notin Occurs /\ SameCommand

Aborts == opts.onError = "abort"
Full(t, p) == (IF plain[t][p] = "none" THEN ready[t][p] ELSE plain[t][p]) = "full"
InFiles(t) == \A p \in Parts : Full(t, p)
Copied(t) == \A p \in Parts : target[t][p] > 0

\* What a completed table has to be: exported, or on the target if it has no files.
Safe(t) == Aborts => IF opts.lightning THEN InFiles(t) ELSE opts.policy = "insert" => Copied(t)

Backed(c) ==
  \A t \in Tables :
    /\ \A p \in c.chunks[t] : Full(t, p)
    /\ c.table[t] = "completed" => Safe(t)

\* The migrator's checkpoint is on disk in all of its steps, and the orchestrator has
\* no table that the file has not.
Saved == run \in DataSteps \ {"open"} => file = cp
OrchOlder ==
  run \notin {"down", "data"} => \A t \in Tables :
    orch.table[t] # "none" => file # NoFile /\ file.table[t] # "none"

AllBacked ==
  /\ file # NoFile => Backed(file)
  /\ run \in {"precheck", "schema", "clear", "data"} => Backed(orch)

\* How far the goroutines are: chunks, the stream of a table, the dispatch loops.
ChunkProgress ==
  \A t \in Tables : worker[t] = "chunks" => \A p \in Parts :
    /\ chunk[t][p] = "written" => plain[t][p] = "full"
    /\ chunk[t][p] = "done" /\ ~chunkErr[t] => p \in cp.chunks[t]
StreamProgress ==
  \A t \in Tables : worker[t] = "stream" /\ Aborts => \A p \in 1 .. pos[t] : target[t][p] > 0
LoopProgress ==
  Aborts /\ ~firstErr => \A i \in 1 .. at - 1 :
    /\ run = "export" => worker[Order[i]] # "idle" \/ cp.table[Order[i]] = "completed"
    /\ run = "sql" => worker[Order[i]] # "idle" \/ Copied(Order[i])

\* An import begins with every table in the files, and a Lightning import that is
\* being marked has copied them all.
Importing ==
  /\ run \in {"export", "rename", "truncate", "lightning", "marking"} => opts.lightning
  /\ run \in {"truncate", "lightning", "marking"} => \A t \in Tables, p \in Parts : plain[t][p] = "none"
  /\ Aborts /\ opts.lightning /\ run \in {"rename", "truncate", "lightning", "marking", "sql"} =>
       \A t \in Tables : InFiles(t)
  /\ Aborts /\ run = "marking" => \A t \in Tables : Copied(t)

Started == (run # "down" => result = "none") /\ (starts = 0 => run = "down" /\ file = NoFile)
Ended ==
  Aborts /\ ~opts.onErrorContinue /\ "data" \notin opts.skip
    /\ (run \in {"validate", "complete"} \/ result = "ok") => \A t \in Tables : Copied(t)

CopyInv ==
  /\ Saved /\ OrchOlder /\ AllBacked
  /\ ChunkProgress /\ StreamProgress /\ LoopProgress
  /\ Importing /\ Started /\ Ended

LEMMA SaveCalm == ASSUME Calm, NEW c, Save(c) PROVE file' = c
  BY DEF Calm, Save

LEMMA PartsFacts == 1 \in Parts /\ Parts \subseteq 1 .. NParts
  BY CheckpointAssumption DEF Parts

\* Where the steps of the orchestrator lead.
LEMMA PipelineLeads ==
  ASSUME Types, StartRun \/ Pipeline \/ Crash
  PROVE  run' \in {"down", "precheck", "schema", "clear", "data", "validate", "complete", "open"}
<1>o. opts \in OptionRecords /\ Options \subseteq OptionRecords
  BY MigrationAssumption DEF Types
<1>1. CASE StartRun
  <2>1. PICK o \in OptionRecords : run' = After("none", o)
    BY <1>1, <1>o DEF StartRun
  <2> QED
    BY <2>1, AfterFacts
<1>2. CASE RunPrecheck \/ RunSchema \/ RunValidate
  <2>1. PICK p \in {"precheck", "schema", "validate"}, ok \in BOOLEAN : \E o : PhaseEnds(p, ok, o)
    BY <1>2 DEF RunPrecheck, RunSchema, RunValidate
  <2>2. After(p, opts) \in {"precheck", "schema", "clear", "data", "validate", "complete"}
    BY <1>o, AfterFacts
  <2> QED
    BY <2>1, <2>2, PhaseEndsFacts, EndRunFacts
<1>3. CASE ClearCheckpoint \/ RunData \/ Complete \/ Crash
  BY <1>3 DEF ClearCheckpoint, RunData, Complete, Crash, EndRun
<1> QED
  BY <1>1, <1>2, <1>3 DEF Pipeline

\* The end of the data phase.
LEMMA DataEnds ==
  ASSUME Types, NEW ok \in BOOLEAN, PhaseEnds("data", ok, orch)
  PROVE  \/ /\ ok \/ opts.onErrorContinue
            /\ run' \in {"validate", "complete"} /\ orch' = orch
            /\ UNCHANGED <<opts, cp, worker, chunk, chunkErr, pos, plain, ready, starts, result, read, fellBack>>
         \/ ~ok /\ ~opts.onErrorContinue /\ EndRun("error")
<1>1. After("data", opts) \in {"validate", "complete"}
  BY AfterFacts DEF Types
<1> QED
  BY <1>1, PhaseEndsFacts

\* A step of the migrator, by what it does to the two checkpoints.
LEMMA MigratorSaves ==
  ASSUME Types, Calm, Saved, Migrator
  PROVE  \/ /\ run' \in {"validate", "complete", "down"} /\ (run' = "down" \/ orch' = orch)
            /\ file' = file /\ UNCHANGED <<opts, plain, ready, target>>
         \/ /\ OpenData /\ run' \in {"export", "sql"} /\ file' = cp' /\ orch' = orch
         \/ /\ run' \in DataSteps \ {"open"} /\ file' = cp' /\ file = cp /\ orch' = orch
<1>d. DataSteps = {"open", "export", "rename", "truncate", "lightning", "marking", "sql"}
  BY DEF DataSteps
<1>s. run \in DataSteps \ {"open"} => file = cp
  BY DEF Saved
<1>1. CASE OpenData
  <2>1. file' = cp'
    BY <1>1, SaveCalm DEF OpenData
  <2> QED
    BY <1>1, <2>1 DEF OpenData, Goes
<1>2. ASSUME NEW ok \in BOOLEAN, PhaseEnds("data", ok, orch), file' = file, target' = target
      PROVE  /\ run' \in {"validate", "complete", "down"} /\ (run' = "down" \/ orch' = orch)
             /\ file' = file /\ UNCHANGED <<opts, plain, ready, target>>
  BY <1>2, DataEnds, EndRunFacts
<1>3. CASE ConnectFails
  BY <1>2, <1>3 DEF ConnectFails
<1>4. CASE ImportEnds
  <2>1. file' = cp /\ run = "marking" /\ target' = target /\ PhaseEnds("data", TRUE, orch)
    BY <1>4, SaveCalm DEF ImportEnds
  <2> QED
    BY <1>2, <1>d, <1>s, <2>1
<1>5. CASE SqlWait
  <2>1. (~firstErr) \in BOOLEAN
    OBVIOUS
  <2> QED
    BY <1>2, <1>5, <2>1 DEF SqlWait
<1>6. CASE ExportWait
  <2>1. CASE firstErr /\ opts.onError # "skip"
    BY <1>2, <1>6, <2>1 DEF ExportWait
  <2>2. CASE ~(firstErr /\ opts.onError # "skip")
    <3>1. run = "export" /\ run' = "rename" /\ Save(cp') /\ orch' = orch
      BY <1>6, <2>2 DEF ExportWait, Goes
    <3> QED
      BY <1>d, <1>s, <3>1, SaveCalm
  <2> QED
    BY <2>1, <2>2
<1>7. CASE ExportSkip \/ RenameFiles \/ TruncateTarget \/ LightningLoads \/ LightningFails
  <2>1. /\ run \in {"export", "rename", "truncate", "lightning"}
        /\ run' \in {"export", "truncate", "lightning", "marking", "sql"}
        /\ UNCHANGED <<orch, cp, file>>
    BY <1>7 DEF ExportSkip, RenameFiles, TruncateTarget, LightningLoads, LightningFails, FallBack, Goes
  <2> QED
    BY <1>d, <1>s, <2>1
<1>8. CASE ExportDispatch \/ MarkImported \/ SqlDispatch
  <2>1. /\ run \in {"export", "marking", "sql"} /\ run' = run /\ orch' = orch
        /\ Save(cp') \/ UNCHANGED <<cp, file>>
    BY <1>8 DEF ExportDispatch, MarkImported, SqlDispatch
  <2> QED
    BY <1>d, <1>s, <2>1, SaveCalm
<1> QED
  BY <1>1, <1>3, <1>4, <1>5, <1>6, <1>7, <1>8 DEF Migrator

\* What a goroutine of a table does to the migrator's checkpoint: nothing, a new state of
\* its own table, or a chunk of it that is written.
LEMMA TableSaves ==
  ASSUME Types, Calm, Working, Saved, NEW t \in Tables, TableStep(t) \/ \E p \in Parts : ChunkStep(t, p)
  PROVE  /\ file = cp /\ file' = cp' /\ cp' \in Checkpoints
         /\ \/ cp' = cp
            \/ \E s \in {"running", "completed", "failed"} :
                 cp' = MarkTable(cp, t, s) /\ worker[t] # "idle"
            \/ \E p \in Parts : ChunkEnds(t, p)
<1>c. cp \in Checkpoints /\ run \in {"export", "sql"}
  BY TableRuns DEF Types
<1>f. file = cp
  BY <1>c DEF Saved, DataSteps
<1>1. CASE UNCHANGED <<cp, file>>
  BY <1>1, <1>c, <1>f
<1>2. CASE cp' = cp /\ Save(cp)
  BY <1>2, <1>c, <1>f, SaveCalm
<1>3. ASSUME NEW s \in {"running", "completed", "failed"},
             cp' = MarkTable(cp, t, s), Save(cp'), worker[t] # "idle"
      PROVE  /\ file = cp /\ file' = cp' /\ cp' \in Checkpoints
             /\ \E x \in {"running", "completed", "failed"} : cp' = MarkTable(cp, t, x) /\ worker[t] # "idle"
  <2>1. s \in States
    BY StateNames
  <2> QED
    BY <1>3, <1>c, <1>f, <2>1, MarkFacts, SaveCalm
<1>4. ASSUME NEW p \in Parts, ChunkEnds(t, p)
      PROVE  file = cp /\ file' = cp' /\ cp' \in Checkpoints
  <2>1. cp' = MarkChunkCompleted(cp, t, p) /\ Save(cp')
    BY <1>4 DEF ChunkEnds
  <2> QED
    BY <1>c, <1>f, <2>1, ChunkFacts, SaveCalm
<1>5. ASSUME NEW p \in Parts, ChunkFails(t, p) PROVE cp' = cp /\ file' = file
  <2>1. cp' = MarkChunkFailed(cp, t, p) /\ p \notin cp.chunks[t] /\ file' = file
    BY <1>5 DEF ChunkFails, Working
  <2> QED
    BY <1>c, <2>1, ChunkFacts
<1>6. CASE TableStep(t)
  <2>1. CASE CreateFile(t) \/ BeginChunks(t) \/ SqlStart(t) \/ CommitUnknown(t)
    BY <1>1, <2>1 DEF CreateFile, BeginChunks, SqlStart, CommitUnknown
  <2>2. CASE InsertBatch(t)
    BY <1>1, <1>2, <2>2 DEF InsertBatch
  <2>3. CASE InsertFails(t)
    BY <1>1, <1>3, <2>3 DEF InsertFails, TableFails
  <2>4. CASE ExportStart(t) \/ ExportEnds(t) \/ ExportFails(t) \/ ChunksEnd(t) \/ StreamFails(t) \/ StreamEnds(t)
    BY <1>3, <2>4
       DEF ExportStart, ExportEnds, ExportFails, ChunksEnd, StreamFails, StreamEnds, TableExported, TableFails
  <2> QED
    BY <1>6, <2>1, <2>2, <2>3, <2>4 DEF TableStep
<1>7. ASSUME NEW p \in Parts, ChunkStep(t, p)
      PROVE  /\ file = cp /\ file' = cp' /\ cp' \in Checkpoints
             /\ cp' = cp \/ \E q \in Parts : ChunkEnds(t, q)
  <2>1. CASE ChunkEnds(t, p)
    BY <1>4, <2>1
  <2>2. CASE ChunkFails(t, p)
    BY <1>5, <1>c, <1>f, <2>2
  <2>3. CASE ChunkStart(t, p) \/ ChunkWritten(t, p)
    BY <1>c, <1>f, <2>3 DEF ChunkStart, ChunkWritten
  <2> QED
    BY <1>7, <2>1, <2>2, <2>3 DEF ChunkStep
<1> QED
  BY <1>6, <1>7

LEMMA SavedKept ==
  ASSUME Types, Calm, Working, Saved, [Next]_vars
  PROVE  Saved'
<1>1. CASE StartRun \/ Pipeline \/ Crash
  BY <1>1, PipelineLeads DEF Saved, DataSteps
<1>2. CASE Migrator
  BY <1>2, MigratorSaves DEF Saved, DataSteps
<1>3. ASSUME NEW t \in Tables, TableStep(t) \/ \E p \in Parts : ChunkStep(t, p) PROVE Saved'
  BY <1>3, TableSaves DEF Saved
<1>4. CASE UNCHANGED vars
  BY <1>4 DEF Saved
<1> QED
  BY <1>1, <1>2, <1>3, <1>4, NextCases

\* No table leaves the file while the migrator runs.
Keeps(c, d) == \A t \in Tables : c.table[t] # "none" => d.table[t] # "none"

LEMMA MarkKeeps ==
  ASSUME NEW c \in Checkpoints, NEW t \in Tables, NEW s \in {"running", "completed", "failed"}
  PROVE  Keeps(c, MarkTable(c, t, s)) /\ Keeps(c, MarkTable(GetOrCreateTable(c, t), t, s))
<1>1. s \in States /\ s # "none"
  BY StateNames
<1>2. \A d \in Checkpoints : Keeps(d, MarkTable(d, t, s))
  BY <1>1, MarkFacts DEF Keeps
<1>3. GetOrCreateTable(c, t) \in Checkpoints /\ Keeps(c, GetOrCreateTable(c, t))
  BY CreateFacts DEF Keeps
<1> QED
  BY <1>2, <1>3 DEF Keeps

LEMMA MigratorKeeps ==
  ASSUME Types, Calm, Saved, Migrator, file # NoFile
  PROVE  file' \in Checkpoints /\ Keeps(file, file')
<1>c. cp \in Checkpoints /\ file \in Checkpoints /\ cp' \in Checkpoints
  BY MigratorTypes DEF Types
<1>o. \A i \in 1 .. Len(Order) : Order[i] \in Tables
  BY MigrationAssumption
<1>l. Len(Order) \in Nat /\ at \in 1 .. Len(Order) + 1
  BY LastIndex DEF Types
<1>1. CASE file' = file
  BY <1>1, <1>c DEF Keeps
<1>2. CASE OpenData
  <2>1. Load(Fresh, file) \in Checkpoints /\ Keeps(file, Load(Fresh, file))
    BY <1>c, FreshFacts, LoadFacts DEF Keeps
  <2>2. file' = SetPhase(Load(Fresh, file), "data-export")
    BY <1>2, SaveCalm DEF OpenData
  <2> QED
    BY <2>1, <2>2, PhaseFacts, PhaseNames DEF Keeps
<1>3. ASSUME file = cp, file' = cp' PROVE Keeps(file, file')
  <2>1. CASE cp' = cp
    BY <1>3, <2>1 DEF Keeps
  <2>2. CASE ExportDispatch
    <3>1. Order[at] \in Tables /\ cp' = GetOrCreateTable(cp, Order[at])
      BY <1>l, <1>o, <2>2 DEF ExportDispatch
    <3> QED
      BY <1>3, <1>c, <3>1, CreateFacts DEF Keeps
  <2>3. CASE MarkImported \/ SqlDispatch
    <3>1. Order[at] \in Tables
      BY <1>l, <1>o, <2>3 DEF MarkImported, SqlDispatch
    <3>2. PICK s \in {"running", "completed"} : cp' = MarkTable(GetOrCreateTable(cp, Order[at]), Order[at], s)
      BY <2>3 DEF MarkImported, SqlDispatch
    <3> QED
      BY <1>3, <1>c, <3>1, <3>2, MarkKeeps
  <2>4. CASE cp' = SetPhase(cp, "data-import")
    BY <1>3, <1>c, <2>4, PhaseFacts, PhaseNames DEF Keeps
  <2>5. CASE ExportWait
    <3>1. cp' = SetPhase(cp, "data-import") \/ PhaseEnds("data", FALSE, orch)
      BY <2>5 DEF ExportWait
    <3>2. CASE PhaseEnds("data", FALSE, orch)
      <4>1. CASE EndRun("error")
        <5>1. ~(firstErr /\ opts.onError # "skip") => FALSE
          BY <2>5, <4>1 DEF ExportWait, EndRun, Goes
        <5>2. file' = file
          BY <2>5, <5>1 DEF ExportWait
        <5> QED
          BY <5>2 DEF Keeps
      <4>2. CASE cp' = cp
        BY <2>1, <4>2
      <4> QED
        BY <3>2, <4>1, <4>2, DataEnds
    <3> QED
      BY <2>4, <3>1, <3>2
  <2>6. CASE ConnectFails \/ SqlWait
    <3>1. file' = file
      BY <2>6 DEF ConnectFails, SqlWait
    <3> QED
      BY <3>1 DEF Keeps
  <2>7. CASE ImportEnds
    <3>1. file' = cp
      BY <2>7, SaveCalm DEF ImportEnds
    <3> QED
      BY <1>3, <3>1 DEF Keeps
  <2>8. CASE OpenData
    BY <1>2, <2>8
  <2>9. CASE ExportSkip \/ RenameFiles \/ TruncateTarget \/ LightningLoads \/ LightningFails
    <3>1. cp' = cp
      BY <2>9 DEF ExportSkip, RenameFiles, TruncateTarget, LightningLoads, LightningFails, FallBack
    <3> QED
      BY <2>1, <3>1
  <2> QED
    BY <2>2, <2>3, <2>5, <2>6, <2>7, <2>8, <2>9 DEF Migrator
<1> QED
  BY <1>1, <1>2, <1>3, <1>c, MigratorSaves

LEMMA TableKeeps ==
  ASSUME Types, Calm, Working, Saved, NEW t \in Tables, TableStep(t) \/ \E p \in Parts : ChunkStep(t, p)
  PROVE  file' \in Checkpoints /\ Keeps(file, file')
<1>c. cp \in Checkpoints
  BY DEF Types
<1>1. ASSUME NEW p \in Parts, ChunkEnds(t, p) PROVE Keeps(cp, cp')
  BY <1>1, <1>c, ChunkFacts DEF ChunkEnds, Keeps
<1>2. cp' = cp => Keeps(cp, cp')
  BY DEF Keeps
<1> QED
  BY <1>1, <1>2, <1>c, MarkKeeps, TableSaves

LEMMA PipelineOlder ==
  ASSUME Types, Calm, AllRegular, OrchOlder, StartRun \/ Pipeline \/ Crash
  PROVE  OrchOlder'
<1>c. orch \in Checkpoints /\ file \in Checkpoints \cup {NoFile}
  BY DEF Types
<1>1. CASE StartRun
  <2>1. orch' = Load(Fresh, file) /\ file' = file
    BY <1>1 DEF StartRun
  <2>2. \A t \in Tables : orch'.table[t] # "none" => file # NoFile /\ file.table[t] # "none"
    BY <1>c, <2>1, FreshFacts, LoadFacts
  <2> QED
    BY <2>1, <2>2 DEF OrchOlder
<1>2. ASSUME NEW o \in Checkpoints, file' = o, orch' = o \/ run' = "down" PROVE OrchOlder'
  BY <1>2, NotNoFile DEF OrchOlder
<1>3. CASE RunPrecheck \/ RunSchema
  <2>1. PICK p \in {"precheck", "schema"} :
          Save(SetPhase(orch, p)) /\ \E ok \in BOOLEAN : PhaseEnds(p, ok, SetPhase(orch, p))
    BY <1>3 DEF RunPrecheck, RunSchema
  <2>2. SetPhase(orch, p) \in Checkpoints
    BY <1>c, PhaseFacts, PhaseNames
  <2>3. file' = SetPhase(orch, p) /\ (orch' = SetPhase(orch, p) \/ run' = "down")
    BY <2>1, SaveCalm DEF PhaseEnds, EndRun
  <2> QED
    BY <1>2, <2>2, <2>3
<1>4. CASE ClearCheckpoint
  BY <1>4 DEF ClearCheckpoint, OrchOlder
<1>5. CASE RunData
  <2>1. orch' \in Checkpoints /\ file' = orch'
    BY <1>5, <1>c, PhaseFacts, PhaseNames, SaveCalm DEF RunData
  <2> QED
    BY <1>2, <2>1
<1>6. CASE RunValidate
  <2> DEFINE o == SetPhaseWithReload(orch, file, "validate")
  <2>1. o \in Checkpoints
    BY <1>c, ReloadFacts, PhaseNames
  <2>2. file' = o /\ (orch' = o \/ run' = "down")
    BY <1>6, SaveCalm DEF RunValidate, PhaseEnds, EndRun
  <2> HIDE DEF o
  <2> QED
    BY <1>2, <2>1, <2>2
<1>7. CASE Complete \/ Crash
  BY <1>7 DEF Complete, Crash, EndRun, OrchOlder
<1> QED
  BY <1>1, <1>3, <1>4, <1>5, <1>6, <1>7 DEF Pipeline

LEMMA OlderKept ==
  ASSUME Types, Calm, Working, AllRegular, Saved, OrchOlder, [Next]_vars
  PROVE  OrchOlder'
<1>1. CASE StartRun \/ Pipeline \/ Crash
  BY <1>1, PipelineOlder
<1>2. CASE Migrator
  <2>1. run' = "down" \/ orch' = orch
    BY <1>2, MigratorSaves
  <2>2. run \notin {"down", "data"}
    BY <1>2, MigratorRuns
  <2>3. file # NoFile => file' \in Checkpoints /\ Keeps(file, file')
    BY <1>2, MigratorKeeps
  <2> QED
    BY <2>1, <2>2, <2>3, NotNoFile DEF OrchOlder, Keeps
<1>3. ASSUME NEW t \in Tables, TableStep(t) \/ \E p \in Parts : ChunkStep(t, p) PROVE OrchOlder'
  <2>1. file' \in Checkpoints /\ Keeps(file, file') /\ orch' = orch /\ run \in {"export", "sql"}
    BY <1>3, TableKeeps, TableRuns
  <2> QED
    BY <2>1, NotNoFile DEF OrchOlder, Keeps
<1>4. CASE UNCHANGED vars
  BY <1>4 DEF OrchOlder
<1> QED
  BY <1>1, <1>2, <1>3, <1>4, NextCases

\* Backed of the next state, and what a step leaves of the files and of the target.
BackedNext(d) ==
  \A t \in Tables :
    /\ \A p \in d.chunks[t] : Full(t, p)'
    /\ d.table[t] = "completed" => Safe(t)'
FilesStay == \A t \in Tables, p \in Parts : Full(t, p) => Full(t, p)'
SafeStays == \A t \in Tables : Safe(t) => Safe(t)'

LEMMA Untouched ==
  ASSUME UNCHANGED <<opts, plain, ready, target>>
  PROVE  FilesStay /\ SafeStays /\ (\A t \in Tables : Copied(t) => Copied(t)') /\ (Aborts' <=> Aborts)
  BY DEF FilesStay, SafeStays, Full, Safe, InFiles, Copied, Aborts

LEMMA MoreOnTarget ==
  ASSUME UNCHANGED <<opts, plain, ready>>,
         \A t \in Tables, p \in Parts : target[t][p] > 0 => target'[t][p] > 0
  PROVE  FilesStay /\ SafeStays /\ (\A t \in Tables : Copied(t) => Copied(t)') /\ (Aborts' <=> Aborts)
<1>1. \A t \in Tables, p \in Parts : Full(t, p)' <=> Full(t, p)
  BY DEF Full
<1>2. \A t \in Tables : InFiles(t)' <=> InFiles(t)
  BY <1>1 DEF InFiles
<1>3. \A t \in Tables : Copied(t) => Copied(t)'
  BY DEF Copied
<1> QED
  BY <1>1, <1>2, <1>3 DEF FilesStay, SafeStays, Safe, Aborts

LEMMA BackedKept ==
  ASSUME NEW c \in Checkpoints, NEW d \in Checkpoints, Backed(c), FilesStay, SafeStays,
         \A t \in Tables : d.chunks[t] \subseteq c.chunks[t],
         \A t \in Tables : d.table[t] = "completed" => c.table[t] = "completed" \/ Safe(t)'
  PROVE  BackedNext(d)
<1>1. c.chunks \in [Tables -> SUBSET Parts]
  BY DEF Checkpoints
<1> QED
  BY <1>1 DEF Backed, BackedNext, FilesStay, SafeStays

LEMMA SameTables ==
  ASSUME NEW c \in Checkpoints, NEW d \in Checkpoints, Backed(c), FilesStay, SafeStays,
         d.table = c.table, d.chunks = c.chunks
  PROVE  BackedNext(d)
  BY BackedKept

LEMMA EmptyBacked ==
  ASSUME NEW d, \A t \in Tables : d.table[t] = "none" /\ d.chunks[t] = {}
  PROVE  BackedNext(d)
  BY DEF BackedNext

\* Reading the file again before validating gives the tables of the file.
LEMMA ReloadIsFile ==
  ASSUME Types, AllRegular, OrchOlder, run \in {"validate", "complete"}, NEW p \in Phases, NEW t \in Tables
  PROVE  LET o == SetPhaseWithReload(orch, file, p)
         IN  IF file = NoFile \/ file.table[t] = "none"
               THEN o.table[t] = "none" /\ o.chunks[t] = {}
               ELSE o.table[t] = file.table[t] /\ o.chunks[t] = file.chunks[t]
<1>c. orch \in Checkpoints /\ file \in Checkpoints \cup {NoFile}
  BY DEF Types
<1> DEFINE o == SetPhaseWithReload(orch, file, p)
<1>1. o.table[t] = Load(orch, file).table[t] /\ o.chunks[t] = Load(orch, file).chunks[t]
  BY <1>c, ReloadFacts
<1>2. orch.table[t] # "none" => file # NoFile /\ file.table[t] # "none"
  BY DEF OrchOlder
<1>3. orch.table[t] = "none" => orch.chunks[t] = {}
  BY DEF AllRegular, Regular
<1> HIDE DEF o
<1>4. IF file = NoFile \/ file.table[t] = "none"
        THEN o.table[t] = "none" /\ o.chunks[t] = {}
        ELSE o.table[t] = file.table[t] /\ o.chunks[t] = file.chunks[t]
  BY <1>1, <1>2, <1>3, <1>c, LoadFacts
<1> QED
  BY <1>4 DEF o

LEMMA ReloadBacked ==
  ASSUME Types, AllRegular, OrchOlder, run \in {"validate", "complete"}, NEW p \in Phases,
         file # NoFile => Backed(file), FilesStay, SafeStays
  PROVE  BackedNext(SetPhaseWithReload(orch, file, p))
<1>c. orch \in Checkpoints /\ file \in Checkpoints \cup {NoFile}
  BY DEF Types
<1> DEFINE o == SetPhaseWithReload(orch, file, p)
<1>1. o \in Checkpoints
  BY <1>c, ReloadFacts
<1>2. ASSUME NEW t \in Tables
      PROVE  IF file = NoFile \/ file.table[t] = "none"
               THEN o.table[t] = "none" /\ o.chunks[t] = {}
               ELSE o.table[t] = file.table[t] /\ o.chunks[t] = file.chunks[t]
  BY ReloadIsFile
<1> HIDE DEF o
<1>3. CASE file = NoFile
  BY <1>2, <1>3, EmptyBacked DEF o
<1>4. CASE file # NoFile
  <2>1. file \in Checkpoints
    BY <1>c, <1>4
  <2>2. \A t \in Tables : o.chunks[t] \subseteq file.chunks[t]
    BY <1>2, <1>4
  <2>3. \A t \in Tables : o.table[t] = "completed" => file.table[t] = "completed"
    BY <1>2, <1>4
  <2> QED
    BY <1>1, <1>4, <2>1, <2>2, <2>3, BackedKept DEF o
<1> QED
  BY <1>3, <1>4

\* The schema migrator drops tables under the policy drop only.
LEMMA SchemaStays ==
  ASSUME Types, RunSchema
  PROVE  FilesStay /\ SafeStays
<1>1. PICK ok \in BOOLEAN, S \in SUBSET Tables :
        /\ PhaseEnds("schema", ok, SetPhase(orch, "schema")) /\ S \in Dropped(ok)
        /\ target' = [t \in Tables |-> IF t \in S THEN All(0) ELSE target[t]]
  <2>1. \A ok \in BOOLEAN : Dropped(ok) \subseteq SUBSET Tables
    BY DEF Dropped
  <2> QED
    BY <2>1 DEF RunSchema
<1>2. UNCHANGED <<opts, plain, ready>>
  BY <1>1, PhaseEndsFacts, EndRunFacts
<1>3. CASE opts.policy = "drop"
  <2>1. \A t \in Tables, p \in Parts : Full(t, p)' <=> Full(t, p)
    BY <1>2 DEF Full
  <2> QED
    BY <1>2, <1>3, <2>1 DEF FilesStay, SafeStays, Safe, InFiles, Aborts
<1>4. CASE opts.policy # "drop"
  <2>1. S = {}
    BY <1>1, <1>4 DEF Dropped
  <2>2. target' = target
    BY <1>1, <2>1 DEF Types
  <2> QED
    BY <1>2, <2>2, Untouched
<1> QED
  BY <1>3, <1>4

LEMMA PipelineBacked ==
  ASSUME Types, Calm, AllRegular, OrchOlder, AllBacked, Started, StartRun \/ Pipeline \/ Crash
  PROVE  AllBacked'
<1>c. orch \in Checkpoints /\ file \in Checkpoints \cup {NoFile}
  BY DEF Types
<1>b. (BackedNext(file') => Backed(file)') /\ (BackedNext(orch') => Backed(orch)')
  BY DEF BackedNext, Backed
<1>1. CASE StartRun
  <2>1. orch' = Load(Fresh, file) /\ file' = file /\ UNCHANGED <<plain, ready, target>>
    BY <1>1 DEF StartRun
  <2>2. CASE file = NoFile
    <3>1. orch' = Fresh
      BY <1>c, <2>1, <2>2, FreshFacts, LoadFacts
    <3>2. BackedNext(orch')
      BY <3>1, FreshFacts, EmptyBacked
    <3> QED
      BY <1>b, <2>1, <2>2, <3>2 DEF AllBacked
  <2>3. CASE file # NoFile
    <3>1. opts' = opts
      <4>1. starts # 0 /\ starts \in 0 .. MaxStarts /\ MaxStarts \in Nat
        BY <2>3, MigrationAssumption DEF Started, Types
      <4>2. starts > 0
        BY <4>1
      <4> QED
        BY <1>1, <4>2 DEF StartRun, Calm
    <3>2. FilesStay /\ SafeStays
      BY <2>1, <3>1, Untouched
    <3>3. file \in Checkpoints /\ Backed(file)
      BY <1>c, <2>3 DEF AllBacked
    <3>4. BackedNext(file')
      BY <2>1, <3>2, <3>3, SameTables
    <3>5. /\ orch' \in Checkpoints /\ \A t \in Tables : orch'.chunks[t] \subseteq file.chunks[t]
          /\ \A t \in Tables : orch'.table[t] = "completed" => file.table[t] = "completed"
      BY <2>1, <2>3, <3>3, FreshFacts, LoadFacts
    <3>6. BackedNext(orch')
      BY <3>2, <3>3, <3>5, BackedKept
    <3> QED
      BY <1>b, <3>4, <3>6 DEF AllBacked
  <2> QED
    BY <2>2, <2>3
<1>2. ASSUME NEW o \in Checkpoints, BackedNext(o), file' = o, orch' = o \/ run' \in {"down", "validate", "complete"}
      PROVE  AllBacked'
  BY <1>2, <1>b DEF AllBacked
<1>3. CASE RunPrecheck \/ RunSchema
  <2>1. PICK p \in {"precheck", "schema"} : /\ run = p /\ Save(SetPhase(orch, p))
                                            /\ \E ok \in BOOLEAN : PhaseEnds(p, ok, SetPhase(orch, p))
    BY <1>3 DEF RunPrecheck, RunSchema
  <2> DEFINE o == SetPhase(orch, p)
  <2>2. o \in Checkpoints /\ o.table = orch.table /\ o.chunks = orch.chunks
    BY <1>c, PhaseFacts, PhaseNames
  <2>3. file' = o /\ (orch' = o \/ run' = "down")
    BY <2>1, SaveCalm DEF PhaseEnds, EndRun
  <2>4. FilesStay /\ SafeStays
    <3>1. CASE RunPrecheck
      <4>1. UNCHANGED <<opts, plain, ready, target>>
        BY <2>1, <3>1, PhaseEndsFacts, EndRunFacts DEF RunPrecheck
      <4> QED
        BY <4>1, Untouched
    <3> QED
      BY <1>3, <3>1, SchemaStays
  <2> HIDE DEF o
  <2>5. Backed(orch)
    BY <2>1 DEF AllBacked
  <2>6. BackedNext(o)
    BY <1>c, <2>2, <2>4, <2>5, SameTables
  <2> QED
    BY <1>2, <2>2, <2>3, <2>6
<1>4. CASE ClearCheckpoint
  <2>1. file' = NoFile /\ orch' = orch /\ run = "clear" /\ UNCHANGED <<opts, plain, ready, target>>
    BY <1>4 DEF ClearCheckpoint
  <2>2. BackedNext(orch')
    BY <1>c, <2>1, SameTables, Untouched DEF AllBacked
  <2> QED
    BY <1>b, <2>1, <2>2 DEF AllBacked
<1>5. CASE RunData
  <2>1. /\ orch' = SetPhase(orch, "data") /\ run = "data" /\ file' = orch'
        /\ UNCHANGED <<opts, plain, ready, target>>
    BY <1>5, SaveCalm DEF RunData
  <2>2. orch' \in Checkpoints /\ orch'.table = orch.table /\ orch'.chunks = orch.chunks
    BY <1>c, <2>1, PhaseFacts, PhaseNames
  <2>3. BackedNext(orch')
    BY <1>c, <2>1, <2>2, SameTables, Untouched DEF AllBacked
  <2> QED
    BY <1>2, <2>1, <2>2, <2>3
<1>6. CASE RunValidate \/ Complete
  <2>1. PICK p \in {"validate", "completed"} : Save(SetPhaseWithReload(orch, file, p))
    BY <1>6 DEF RunValidate, Complete
  <2> DEFINE o == SetPhaseWithReload(orch, file, p)
  <2>2. run \in {"validate", "complete"} /\ UNCHANGED <<opts, plain, ready, target>>
    BY <1>6, PhaseEndsFacts, EndRunFacts DEF RunValidate, Complete
  <2>3. file' = o /\ o \in Checkpoints
    BY <1>c, <2>1, ReloadFacts, PhaseNames, SaveCalm
  <2>4. BackedNext(o)
    BY <2>2, PhaseNames, ReloadBacked, Untouched DEF AllBacked
  <2>5. run' \in {"validate", "complete", "down"}
    <3>1. After("validate", opts) \in {"validate", "complete"}
      BY AfterFacts DEF Types
    <3> QED
      BY <1>6, <3>1 DEF RunValidate, Complete, PhaseEnds, Goes, EndRun
  <2> HIDE DEF o
  <2> QED
    BY <1>b, <2>3, <2>4, <2>5 DEF AllBacked
<1>7. CASE Crash
  <2>1. run' = "down" /\ file' = file /\ UNCHANGED <<opts, plain, ready, target>>
    BY <1>7, EndRunFacts DEF Crash
  <2>2. file # NoFile => BackedNext(file')
    BY <1>c, <2>1, SameTables, Untouched DEF AllBacked
  <2> QED
    BY <1>b, <2>1, <2>2 DEF AllBacked
<1> QED
  BY <1>1, <1>3, <1>4, <1>5, <1>6, <1>7 DEF Pipeline

\* While the files are imported, an aborting run by Lightning has every table in them.
LEMMA SafeInFiles ==
  ASSUME Importing, run \in {"truncate", "lightning", "marking"}, NEW t \in Tables
  PROVE  opts.lightning /\ (Aborts => InFiles(t)) /\ Safe(t)
  BY DEF Importing, Safe

LEMMA LoadedMore ==
  ASSUME Types, NEW L, NEW t \in Tables, NEW p \in Parts
  PROVE  /\ target[t][p] > 0 => Loaded(L)[t][p] > 0
         /\ <<t, p>> \in L => Loaded(L)[t][p] > 0
<1>1. MaxCopies \in Nat \ {0} /\ target[t][p] \in 0 .. MaxCopies
  BY MigrationAssumption DEF Types
<1>2. OneMore(target[t][p]) > 0
  BY <1>1 DEF OneMore
<1>3. Loaded(L)[t][p] =
        IF <<t, p>> \notin L THEN target[t][p] ELSE IF t \in Keyed THEN 1 ELSE OneMore(target[t][p])
  BY DEF Loaded
<1> QED
  BY <1>1, <1>2, <1>3

\* Renaming a file leaves its part where it was.
LEMMA RenameStays == ASSUME Types, RenameFiles PROVE FilesStay /\ SafeStays
<1>1. /\ ready' = [t \in Tables |-> [p \in Parts |-> IF plain[t][p] = "none" THEN ready[t][p] ELSE plain[t][p]]]
      /\ plain' = ForEach(All("none")) /\ UNCHANGED <<opts, target>>
  BY DEF RenameFiles
<1>2. ASSUME NEW t \in Tables, NEW p \in Parts PROVE Full(t, p)' <=> Full(t, p)
  <2>1. plain'[t][p] = "none" /\ ready'[t][p] = IF plain[t][p] = "none" THEN ready[t][p] ELSE plain[t][p]
    BY <1>1 DEF ForEach, All
  <2> QED
    BY <2>1 DEF Full
<1> QED
  BY <1>1, <1>2 DEF FilesStay, SafeStays, Safe, InFiles, Copied, Aborts

LEMMA TruncateStays == ASSUME Types, Importing, TruncateTarget PROVE FilesStay /\ SafeStays
<1>1. UNCHANGED <<opts, plain, ready>> /\ run = "truncate"
  BY DEF TruncateTarget, FallBack
<1>2. \A t \in Tables, p \in Parts : Full(t, p)' <=> Full(t, p)
  BY <1>1 DEF Full
<1>3. opts.lightning
  BY <1>1 DEF Importing
<1> QED
  BY <1>1, <1>2, <1>3 DEF FilesStay, SafeStays, Safe, InFiles, Aborts

LEMMA LightningStays ==
  ASSUME Types, LightningLoads \/ LightningFails
  PROVE  FilesStay /\ SafeStays
<1>1. UNCHANGED <<opts, plain, ready>> /\ \E L : target' = Loaded(L)
  BY DEF LightningLoads, LightningFails, FallBack
<1>2. \A t \in Tables, p \in Parts : target[t][p] > 0 => target'[t][p] > 0
  BY <1>1, LoadedMore
<1> QED
  BY <1>1, <1>2, MoreOnTarget

LEMMA MigratorStays == ASSUME Types, Importing, Migrator PROVE FilesStay /\ SafeStays
<1>1. CASE UNCHANGED <<opts, plain, ready, target>>
  BY <1>1, Untouched
<1>2. ASSUME NEW ok \in BOOLEAN, PhaseEnds("data", ok, orch), target' = target
      PROVE  UNCHANGED <<opts, plain, ready, target>>
  BY <1>2, DataEnds, EndRunFacts
<1>3. CASE OpenData \/ ExportSkip \/ ExportDispatch \/ MarkImported \/ SqlDispatch
  BY <1>1, <1>3 DEF OpenData, ExportSkip, ExportDispatch, MarkImported, SqlDispatch
<1>4. CASE ConnectFails \/ ImportEnds
  BY <1>1, <1>2, <1>4 DEF ConnectFails, ImportEnds
<1>5. CASE ExportWait
  BY <1>1, <1>2, <1>5 DEF ExportWait
<1>6. CASE SqlWait
  <2>1. (~firstErr) \in BOOLEAN
    OBVIOUS
  <2> QED
    BY <1>1, <1>2, <1>6, <2>1 DEF SqlWait
<1> QED
  BY <1>3, <1>4, <1>5, <1>6, RenameStays, TruncateStays, LightningStays DEF Migrator

\* Which tables of the checkpoint in memory a step of the migrator calls completed.
LEMMA MigratorMarks ==
  ASSUME Types, Importing, Migrator, ~OpenData, run' \in DataSteps
  PROVE  /\ cp'.chunks = cp.chunks
         /\ \A t \in Tables : cp'.table[t] = "completed" => cp.table[t] = "completed" \/ Safe(t)
<1>c. cp \in Checkpoints
  BY DEF Types
<1>o. \A i \in 1 .. Len(Order) : Order[i] \in Tables
  BY MigrationAssumption
<1>l. Len(Order) \in Nat /\ at \in 1 .. Len(Order) + 1
  BY LastIndex DEF Types
<1>1. CASE cp' = cp
  BY <1>1
<1>2. CASE ExportDispatch
  <2>1. Order[at] \in Tables /\ cp' = GetOrCreateTable(cp, Order[at])
    BY <1>2, <1>l, <1>o DEF ExportDispatch
  <2> QED
    BY <1>c, <2>1, CreateFacts
<1>3. CASE MarkImported
  <2>1. Order[at] \in Tables /\ run = "marking"
    BY <1>3, <1>l, <1>o DEF MarkImported
  <2> DEFINE c == GetOrCreateTable(cp, Order[at])
  <2>2. c \in Checkpoints /\ c.chunks = cp.chunks /\ \A u \in Tables \ {Order[at]} : c.table[u] = cp.table[u]
    BY <1>c, <2>1, CreateFacts
  <2>3. cp' = MarkTable(c, Order[at], "completed") /\ "completed" \in States
    BY <1>3, StateNames DEF MarkImported
  <2> HIDE DEF c
  <2>4. cp'.chunks = cp.chunks /\ \A u \in Tables \ {Order[at]} : cp'.table[u] = cp.table[u]
    BY <2>1, <2>2, <2>3, MarkFacts
  <2> QED
    BY <2>1, <2>4, SafeInFiles
<1>4. CASE SqlDispatch
  <2> DEFINE t == Order[at]
             c == GetOrCreateTable(cp, t)
  <2>1. t \in Tables
    BY <1>4, <1>l, <1>o DEF SqlDispatch
  <2>2. /\ c \in Checkpoints /\ c.chunks = cp.chunks /\ c.table[t] # "none"
        /\ \A u \in Tables \ {t} : c.table[u] = cp.table[u]
    BY <1>c, <2>1, CreateFacts
  <2>3. cp' = MarkTable(c, t, "running")
    BY <1>4 DEF SqlDispatch
  <2> HIDE DEF t, c
  <2>4. /\ cp'.chunks = c.chunks /\ \A u \in Tables \ {t} : cp'.table[u] = c.table[u]
        /\ cp'.table[t] = "running"
    BY <2>1, <2>2, <2>3, RunningFacts
  <2> QED
    BY <2>2, <2>4
<1>5. ASSUME NEW ok \in BOOLEAN, PhaseEnds("data", ok, orch) PROVE FALSE
  <2>1. run' \in {"validate", "complete", "down"}
    BY <1>5, DataEnds, EndRunFacts
  <2> QED
    BY <2>1 DEF DataSteps
<1>6. CASE ConnectFails \/ ImportEnds
  BY <1>5, <1>6 DEF ConnectFails, ImportEnds
<1>7. CASE SqlWait
  <2>1. (~firstErr) \in BOOLEAN
    OBVIOUS
  <2> QED
    BY <1>5, <1>7, <2>1 DEF SqlWait
<1>8. CASE ExportWait
  <2>1. cp' = SetPhase(cp, "data-import")
    BY <1>5, <1>8 DEF ExportWait
  <2> QED
    BY <1>c, <2>1, PhaseFacts, PhaseNames
<1>9. CASE ExportSkip \/ RenameFiles \/ TruncateTarget \/ LightningLoads \/ LightningFails
  BY <1>1, <1>9 DEF ExportSkip, RenameFiles, TruncateTarget, LightningLoads, LightningFails, FallBack
<1> QED
  BY <1>2, <1>3, <1>4, <1>6, <1>7, <1>8, <1>9 DEF Migrator

LEMMA MigratorBacked ==
  ASSUME Types, Calm, Saved, AllBacked, Importing, Migrator
  PROVE  AllBacked'
<1>c. /\ cp \in Checkpoints /\ file \in Checkpoints \cup {NoFile}
      /\ cp' \in Checkpoints
  BY MigratorTypes DEF Types
<1>s. FilesStay /\ SafeStays
  BY MigratorStays
<1>r. run' \notin {"precheck", "schema", "data", "clear"}
  BY MigratorRuns
<1> SUFFICES ASSUME file' # NoFile PROVE BackedNext(file')
  BY <1>r DEF AllBacked, Backed, BackedNext
<1>1. CASE file' = file
  BY <1>1, <1>c, <1>s, SameTables DEF AllBacked
<1>2. CASE OpenData
  <2>1. cp' = SetPhase(Load(Fresh, file), "data-export") /\ file' = cp'
    BY <1>2, SaveCalm DEF OpenData
  <2>2. /\ Load(Fresh, file) \in Checkpoints
        /\ cp'.table = Load(Fresh, file).table /\ cp'.chunks = Load(Fresh, file).chunks
    BY <1>c, <2>1, FreshFacts, LoadFacts, PhaseFacts, PhaseNames
  <2>3. CASE file = NoFile
    <3>1. Load(Fresh, file) = Fresh
      BY <2>3, FreshFacts, LoadFacts
    <3> QED
      BY <2>1, <2>2, <3>1, FreshFacts, EmptyBacked
  <2>4. CASE file # NoFile
    <3>1. \A t \in Tables : cp'.chunks[t] \subseteq file.chunks[t]
      BY <1>c, <2>2, <2>4, FreshFacts, LoadFacts
    <3>2. \A t \in Tables : cp'.table[t] = "completed" => file.table[t] = "completed"
      BY <1>c, <2>2, <2>4, FreshFacts, LoadFacts
    <3> QED
      BY <1>c, <1>s, <2>1, <2>4, <3>1, <3>2, BackedKept DEF AllBacked
  <2> QED
    BY <2>3, <2>4
<1>3. ASSUME run' \in DataSteps \ {"open"}, file' = cp', file = cp, ~OpenData PROVE BackedNext(file')
  <2>1. Backed(cp)
    BY <1>3, <1>c, NotNoFile DEF AllBacked
  <2>2. /\ \A t \in Tables : cp'.chunks[t] \subseteq cp.chunks[t]
        /\ \A t \in Tables : cp'.table[t] = "completed" => cp.table[t] = "completed" \/ Safe(t)'
    BY <1>3, <1>s, MigratorMarks DEF SafeStays
  <2> QED
    BY <1>3, <1>c, <1>s, <2>1, <2>2, BackedKept
<1> QED
  BY <1>1, <1>2, <1>3, MigratorSaves

\* A goroutine touches the files of its own table only.
LEMMA OtherFiles ==
  ASSUME NEW t \in Tables, \A u \in Tables \ {t} : plain'[u] = plain[u], UNCHANGED <<opts, ready, target>>
  PROVE  \A u \in Tables \ {t} : (\A p \in Parts : Full(u, p)' <=> Full(u, p)) /\ (Safe(u) => Safe(u)')
<1> SUFFICES ASSUME NEW u \in Tables \ {t}
             PROVE  (\A p \in Parts : Full(u, p)' <=> Full(u, p)) /\ (Safe(u) => Safe(u)')
  OBVIOUS
<1>1. \A p \in Parts : Full(u, p)' <=> Full(u, p)
  BY DEF Full
<1> QED
  BY <1>1 DEF Safe, InFiles, Copied, Aborts

\* A file that is created or begun again is one of a table, and a chunk, that the
\* checkpoint has not as completed.
LEMMA BeginBacked ==
  ASSUME Types, Working, AllRegular, Backed(cp), NEW t \in Tables,
         CreateFile(t) \/ \E p \in Parts : ChunkStart(t, p)
  PROVE  BackedNext(cp')
<1>c. /\ plain \in [Tables -> [Parts -> Content]] /\ cp \in Checkpoints
      /\ cp.chunks \in [Tables -> SUBSET Parts]
  BY DEF Types, Checkpoints
<1>1. cp' = cp /\ UNCHANGED <<opts, ready, target>> /\ worker[t] # "idle"
  BY DEF CreateFile, ChunkStart
<1>2. \A u \in Tables \ {t} : plain'[u] = plain[u]
  BY <1>c DEF CreateFile, ChunkStart
<1>3. cp.table[t] # "completed"
  BY <1>1 DEF Working
<1>4. \A p \in cp.chunks[t] : Full(t, p)'
  <2>1. CASE CreateFile(t)
    <3>1. cp.chunks[t] = {}
      BY <2>1 DEF CreateFile, AllRegular, Regular
    <3> QED
      BY <3>1
  <2>2. ASSUME NEW q \in Parts, ChunkStart(t, q) PROVE \A p \in cp.chunks[t] : Full(t, p)'
    <3>1. q \notin cp.chunks[t]
      BY <2>2 DEF ChunkStart, Working
    <3>2. \A p \in Parts \ {q} : plain'[t][p] = plain[t][p]
      BY <1>c, <2>2 DEF ChunkStart
    <3>3. \A p \in Parts \ {q} : Full(t, p)' <=> Full(t, p)
      BY <1>1, <3>2 DEF Full
    <3> QED
      BY <1>c, <3>1, <3>3 DEF Backed
  <2> QED
    BY <2>1, <2>2
<1>5. \A u \in Tables \ {t} : (\A p \in Parts : Full(u, p)' <=> Full(u, p)) /\ (Safe(u) => Safe(u)')
  BY <1>1, <1>2, OtherFiles
<1> QED
  BY <1>1, <1>3, <1>4, <1>5, <1>c DEF Backed, BackedNext

\* The other steps of a goroutine keep what is in the files and on the target.
LEMMA TableStays ==
  ASSUME Types, Calm, NEW t \in Tables,
         \/ TableStep(t) /\ ~CreateFile(t)
         \/ \E p \in Parts : ChunkWritten(t, p) \/ ChunkEnds(t, p) \/ ChunkFails(t, p)
  PROVE  FilesStay /\ SafeStays /\ (\A u \in Tables : Copied(u) => Copied(u)') /\ opts' = opts
<1>c. /\ plain \in [Tables -> [Parts -> Content]]
      /\ target \in [Tables -> [Parts -> 0 .. MaxCopies]] /\ MaxCopies \in Nat \ {0}
  BY MigrationAssumption DEF Types
<1>1. CASE UNCHANGED <<opts, plain, ready, target>>
  BY <1>1, Untouched
<1>2. CASE InsertBatch(t) \/ CommitUnknown(t)
  <2>1. PICK p \in Parts : target' = [target EXCEPT ![t][p] = OneMore(@)]
    BY <1>2 DEF InsertBatch, CommitUnknown
  <2>2. \A n \in 0 .. MaxCopies : OneMore(n) > 0
    BY <1>c DEF OneMore
  <2>3. \A u \in Tables, q \in Parts : target[u][q] > 0 => target'[u][q] > 0
    BY <1>c, <2>1, <2>2
  <2> QED
    BY <1>2, <2>3, MoreOnTarget DEF InsertBatch, CommitUnknown
<1>3. ASSUME UNCHANGED <<opts, ready, target>>, \A u \in Tables \ {t} : plain'[u] = plain[u],
             \A p \in Parts : plain'[t][p] = "full" \/ plain'[t][p] = plain[t][p]
      PROVE  FilesStay /\ SafeStays /\ (\A u \in Tables : Copied(u) => Copied(u)') /\ opts' = opts
  <2>1. \A u \in Tables \ {t} : (\A p \in Parts : Full(u, p)' <=> Full(u, p)) /\ (Safe(u) => Safe(u)')
    BY <1>3, OtherFiles
  <2>2. \A p \in Parts : Full(t, p) => Full(t, p)'
    BY <1>3 DEF Full
  <2>3. \A u \in Tables : Copied(u)' <=> Copied(u)
    BY <1>3 DEF Copied
  <2>4. Safe(t) => Safe(t)'
    BY <1>3, <2>2, <2>3 DEF Safe, InFiles, Aborts
  <2> QED
    BY <1>3, <2>1, <2>2, <2>3, <2>4 DEF FilesStay, SafeStays
<1>4. CASE ExportEnds(t)
  <2>1. plain' = [plain EXCEPT ![t] = [p \in Parts |-> "full"]]
    <3>1. PICK n : n = NParts /\ plain' = [plain EXCEPT ![t] = [p \in Parts |-> IF p <= n THEN "full" ELSE "part"]]
      BY <1>4 DEF ExportEnds, Calm
    <3>2. \A p \in Parts : p <= n
      BY <3>1, CheckpointAssumption DEF Parts
    <3> QED
      BY <3>1, <3>2
  <2> QED
    BY <1>3, <1>4, <1>c, <2>1 DEF ExportEnds
<1>5. ASSUME NEW p \in Parts, ChunkWritten(t, p)
      PROVE  FilesStay /\ SafeStays /\ (\A u \in Tables : Copied(u) => Copied(u)') /\ opts' = opts
  <2>1. plain' = [plain EXCEPT ![t][p] = "full"]
    BY <1>5 DEF ChunkWritten, Calm
  <2> QED
    BY <1>3, <1>5, <1>c, <2>1 DEF ChunkWritten
<1>6. CASE \E p \in Parts : ChunkEnds(t, p) \/ ChunkFails(t, p)
  BY <1>1, <1>6 DEF ChunkEnds, ChunkFails
<1>7. CASE \/ ExportStart(t) \/ ExportFails(t) \/ BeginChunks(t) \/ ChunksEnd(t) \/ SqlStart(t)
           \/ InsertFails(t) \/ StreamFails(t) \/ StreamEnds(t)
  BY <1>1, <1>7 DEF ExportStart, ExportFails, BeginChunks, ChunksEnd, SqlStart, InsertFails, StreamFails, StreamEnds
<1> QED
  BY <1>2, <1>4, <1>5, <1>6, <1>7 DEF TableStep

\* Everything a table is cut in has been streamed.
LEMMA StreamComplete ==
  ASSUME Types, Calm, StreamProgress, NEW t \in Tables, StreamEnds(t), Aborts
  PROVE  Copied(t)
<1>1. worker[t] = "stream" /\ pos[t] = NParts
  BY DEF StreamEnds, Calm
<1> QED
  BY <1>1 DEF StreamProgress, Copied, Parts

\* What is marked completed is safe.
LEMMA MarkedSafe ==
  ASSUME Types, Calm, Working, Saved, AllBacked, ChunkProgress, StreamProgress, Importing,
         NEW t \in Tables, ExportEnds(t) \/ (ChunksEnd(t) /\ ~chunkErr[t]) \/ StreamEnds(t)
  PROVE  Safe(t)'
<1>1. CASE ExportEnds(t)
  <2>1. /\ run = "export" /\ opts' = opts /\ opts.lightning
    BY <1>1 DEF ExportEnds, Working, Importing
  <2>2. \A p \in Parts : plain'[t][p] = "full"
    <3>1. PICK n : n = NParts /\ plain' = [plain EXCEPT ![t] = [p \in Parts |-> IF p <= n THEN "full" ELSE "part"]]
      BY <1>1 DEF ExportEnds, Calm
    <3>2. \A p \in Parts : p <= n
      BY <3>1, CheckpointAssumption DEF Parts
    <3> QED
      BY <3>1, <3>2 DEF Types
  <2> QED
    BY <2>1, <2>2 DEF Safe, InFiles, Full
<1>2. CASE ChunksEnd(t) /\ ~chunkErr[t]
  <2>1. /\ worker[t] = "chunks" /\ \A p \in Parts : chunk[t][p] = "done"
        /\ UNCHANGED <<opts, plain, ready, target>>
    BY <1>2 DEF ChunksEnd
  <2>2. run = "export" /\ opts.lightning
    BY <2>1 DEF Working, Importing
  <2>3. \A p \in Parts : p \in cp.chunks[t]
    BY <1>2, <2>1 DEF ChunkProgress
  <2>4. Backed(cp)
    <3>1. file = cp /\ cp \in Checkpoints
      BY <2>2 DEF Saved, DataSteps, Types
    <3> QED
      BY <3>1, NotNoFile DEF AllBacked
  <2>5. InFiles(t)
    BY <2>3, <2>4 DEF Backed, InFiles
  <2> QED
    BY <2>1, <2>2, <2>5 DEF Safe, InFiles, Full
<1>3. CASE StreamEnds(t)
  <2>1. run = "sql" /\ UNCHANGED <<opts, plain, ready, target>>
    BY <1>3 DEF StreamEnds, Working
  <2>2. Aborts => Copied(t) /\ (opts.lightning => InFiles(t))
    BY <1>3, <2>1, StreamComplete DEF Importing
  <2> QED
    BY <2>1, <2>2 DEF Safe, InFiles, Full, Copied, Aborts
<1> QED
  BY <1>1, <1>2, <1>3

LEMMA TableBacked ==
  ASSUME Types, Calm, Working, AllRegular, Saved, AllBacked, ChunkProgress, StreamProgress, Importing,
         NEW t \in Tables, TableStep(t) \/ \E p \in Parts : ChunkStep(t, p)
  PROVE  AllBacked'
<1>c. cp \in Checkpoints /\ file = cp /\ file' = cp' /\ cp' \in Checkpoints
  BY TableSaves DEF Types
<1>b. Backed(cp)
  BY <1>c, NotNoFile DEF AllBacked
<1>r. run' \in {"export", "sql"}
  BY TableRuns
<1> SUFFICES BackedNext(cp')
  BY <1>c, <1>r DEF AllBacked, Backed, BackedNext
<1>1. CASE CreateFile(t) \/ \E p \in Parts : ChunkStart(t, p)
  BY <1>1, <1>b, BeginBacked
<1>2. ASSUME NEW p \in Parts, ChunkEnds(t, p) PROVE BackedNext(cp')
  <2>1. cp' = MarkChunkCompleted(cp, t, p) /\ chunk[t][p] = "written" /\ UNCHANGED <<opts, plain, ready, target>>
    BY <1>2 DEF ChunkEnds
  <2>2. Full(t, p)'
    <3>1. worker[t] = "chunks"
      BY <2>1 DEF Working
    <3>2. plain[t][p] = "full"
      BY <2>1, <3>1 DEF ChunkProgress
    <3> QED
      BY <2>1, <3>2 DEF Full
  <2>3. cp'.table = cp.table /\ cp'.chunks = [cp.chunks EXCEPT ![t] = @ \cup {p}]
    BY <1>c, <2>1, ChunkFacts
  <2>4. FilesStay /\ SafeStays
    BY <2>1, Untouched
  <2>5. cp.chunks \in [Tables -> SUBSET Parts]
    BY <1>c DEF Checkpoints
  <2> SUFFICES ASSUME NEW u \in Tables
               PROVE  (\A q \in cp'.chunks[u] : Full(u, q)') /\ (cp'.table[u] = "completed" => Safe(u)')
    BY DEF BackedNext
  <2>6. \A q \in cp.chunks[u] : Full(u, q)'
    BY <1>b, <2>4, <2>5 DEF Backed, FilesStay
  <2>7. \A q \in cp'.chunks[u] : Full(u, q)'
    BY <2>2, <2>3, <2>5, <2>6
  <2> QED
    BY <1>b, <2>3, <2>4, <2>7 DEF Backed, SafeStays
<1>3. ASSUME FilesStay, SafeStays, cp' = cp PROVE BackedNext(cp')
  BY <1>3, <1>b, <1>c, BackedKept
<1>4. ASSUME FilesStay, SafeStays, NEW s \in {"running", "completed", "failed"}, cp' = MarkTable(cp, t, s),
             s = "completed" => Safe(t)'
      PROVE  BackedNext(cp')
  <2>1. s \in States
    BY StateNames
  <2>2. cp'.chunks = cp.chunks /\ \A u \in Tables \ {t} : cp'.table[u] = cp.table[u]
    BY <1>4, <1>c, <2>1, MarkFacts
  <2>3. cp'.table[t] = "completed" => Safe(t)'
    BY <1>4, <1>c, <2>1, MarkFacts
  <2> QED
    BY <1>4, <1>b, <1>c, <2>2, <2>3, BackedKept
<1>5. ASSUME NEW p \in Parts, ChunkWritten(t, p) \/ ChunkFails(t, p) PROVE BackedNext(cp')
  <2>1. cp' = cp
    <3>1. CASE ChunkWritten(t, p)
      BY <3>1 DEF ChunkWritten
    <3>2. CASE ChunkFails(t, p)
      <4>1. cp' = MarkChunkFailed(cp, t, p) /\ p \notin cp.chunks[t]
        BY <3>2 DEF ChunkFails, Working
      <4> QED
        BY <1>c, <4>1, ChunkFacts
    <3> QED
      BY <1>5, <3>1, <3>2
  <2> QED
    BY <1>3, <1>5, <2>1, TableStays
<1>6. CASE TableStep(t) /\ ~CreateFile(t)
  <2>s. FilesStay /\ SafeStays
    BY <1>6, TableStays
  <2>1. CASE BeginChunks(t) \/ SqlStart(t) \/ CommitUnknown(t) \/ InsertBatch(t)
    BY <1>3, <2>1, <2>s DEF BeginChunks, SqlStart, CommitUnknown, InsertBatch
  <2>2. CASE ExportStart(t) \/ ExportFails(t) \/ StreamFails(t) \/ InsertFails(t) \/ (ChunksEnd(t) /\ chunkErr[t])
    <3>1. cp' = cp \/ \E s \in {"running", "failed"} : cp' = MarkTable(cp, t, s)
      BY <2>2 DEF ExportStart, ExportFails, StreamFails, InsertFails, ChunksEnd, TableFails
    <3> QED
      BY <1>3, <1>4, <2>s, <3>1
  <2>3. CASE ExportEnds(t) \/ (ChunksEnd(t) /\ ~chunkErr[t]) \/ StreamEnds(t)
    <3>1. cp' = MarkTable(cp, t, "completed")
      BY <2>3 DEF ExportEnds, ChunksEnd, StreamEnds, TableExported
    <3>2. Safe(t)'
      BY <2>3, MarkedSafe
    <3> QED
      BY <1>4, <2>s, <3>1, <3>2
  <2> QED
    BY <1>6, <2>1, <2>2, <2>3 DEF TableStep
<1> QED
  BY <1>1, <1>2, <1>5, <1>6 DEF ChunkStep

\* Without the export's or the INSERT path's loop there is no progress to account for.
LEMMA NoLoop ==
  ASSUME Working', run' \notin {"export", "sql"}
  PROVE  ChunkProgress' /\ StreamProgress' /\ LoopProgress'
  BY DEF Working, ChunkProgress, StreamProgress, LoopProgress

\* How the INSERT path is reached.
LEMMA MigratorToSql ==
  ASSUME Types, Migrator, run' = "sql"
  PROVE  \/ run \in {"open", "truncate", "lightning"} /\ worker' = worker /\ at' = 1
         \/ SqlDispatch
<1>1. CASE OpenData
  BY <1>1 DEF OpenData, Goes
<1>2. CASE TruncateTarget \/ LightningFails
  BY <1>2 DEF TruncateTarget, LightningFails, FallBack, Goes
<1>3. ASSUME NEW ok \in BOOLEAN, PhaseEnds("data", ok, orch) PROVE FALSE
  <2>1. run' \in {"validate", "complete", "down"}
    BY <1>3, DataEnds, EndRunFacts
  <2> QED
    BY <2>1
<1>4. CASE ConnectFails \/ ImportEnds \/ ExportWait
  BY <1>3, <1>4 DEF ConnectFails, ImportEnds, ExportWait, Goes
<1>5. CASE SqlWait
  <2>1. (~firstErr) \in BOOLEAN
    OBVIOUS
  <2> QED
    BY <1>3, <1>5, <2>1 DEF SqlWait
<1>6. CASE ExportSkip \/ ExportDispatch \/ RenameFiles \/ LightningLoads \/ MarkImported
  BY <1>6 DEF ExportSkip, ExportDispatch, RenameFiles, LightningLoads, MarkImported, Goes
<1> QED
  BY <1>1, <1>2, <1>4, <1>5, <1>6 DEF Migrator

LEMMA MigratorProgress ==
  ASSUME Types, Working, ChunkProgress, StreamProgress, LoopProgress, Migrator
  PROVE  ChunkProgress' /\ StreamProgress' /\ LoopProgress'
<1>c. cp \in Checkpoints /\ worker \in [Tables -> Work] /\ Len(Order) \in Nat /\ at \in 1 .. Len(Order) + 1
  BY LastIndex DEF Types
<1>o. \A i \in 1 .. Len(Order) : Order[i] \in Tables
  BY MigrationAssumption
<1>w. Working'
  BY MigratorWorks
<1>1. CASE run \in {"open", "truncate", "lightning"} /\ worker' = worker /\ at' = 1
  <2>1. \A t \in Tables : worker'[t] = "idle"
    BY <1>1, NobodyWorks
  <2>2. ChunkProgress' /\ StreamProgress'
    BY <2>1 DEF ChunkProgress, StreamProgress
  <2>3. LoopProgress'
    <3>1. 1 .. at' - 1 = {}
      BY <1>1
    <3> QED
      BY <3>1 DEF LoopProgress
  <2> QED
    BY <2>2, <2>3
<1>2. CASE ExportSkip
  <2>1. /\ run = "export" /\ cp.table[Order[at]] = "completed" /\ at' = at + 1
        /\ UNCHANGED <<run, opts, cp, firstErr, worker, chunk, chunkErr, pos, plain, target>>
    BY <1>2 DEF ExportSkip, IsTableCompleted
  <2>2. ChunkProgress' /\ StreamProgress'
    BY <2>1 DEF ChunkProgress, StreamProgress, Aborts
  <2>3. LoopProgress'
    <3> SUFFICES ASSUME Aborts, ~firstErr, NEW i \in 1 .. at
                 PROVE  worker[Order[i]] # "idle" \/ cp.table[Order[i]] = "completed"
      BY <1>c, <2>1 DEF LoopProgress, Aborts
    <3>1. CASE i = at
      BY <2>1, <3>1
    <3>2. CASE i # at
      BY <1>c, <2>1, <3>2 DEF LoopProgress
    <3> QED
      BY <3>1, <3>2
  <2> QED
    BY <2>2, <2>3
<1>3. CASE ExportDispatch \/ SqlDispatch
  <2> DEFINE t == Order[at]
  <2>1. t \in Tables /\ run \in {"export", "sql"}
    BY <1>3, <1>c, <1>o DEF ExportDispatch, SqlDispatch
  <2>2. /\ worker' = [worker EXCEPT ![t] = "waiting"]
        /\ UNCHANGED <<run, opts, at, firstErr, chunk, chunkErr, pos, plain, target>>
    BY <1>3 DEF ExportDispatch, SqlDispatch
  <2>3. cp'.chunks = cp.chunks /\ \A u \in Tables \ {t} : cp'.table[u] = cp.table[u]
    <3>1. CASE ExportDispatch
      BY <1>c, <2>1, <3>1, CreateFacts DEF ExportDispatch
    <3>2. CASE SqlDispatch
      <4> DEFINE c == GetOrCreateTable(cp, t)
      <4>1. c \in Checkpoints /\ c.chunks = cp.chunks /\ \A u \in Tables \ {t} : c.table[u] = cp.table[u]
        BY <1>c, <2>1, CreateFacts
      <4>2. cp' = MarkTable(c, t, "running") /\ "running" \in States
        BY <3>2, StateNames DEF SqlDispatch
      <4> HIDE DEF c, t
      <4> QED
        BY <2>1, <4>1, <4>2, MarkFacts
    <3> QED
      BY <1>3, <3>1, <3>2
  <2> HIDE DEF t
  <2>4. worker'[t] = "waiting" /\ \A u \in Tables \ {t} : worker'[u] = worker[u]
    BY <1>c, <2>1, <2>2
  <2>5. ChunkProgress'
    BY <2>2, <2>3, <2>4 DEF ChunkProgress
  <2>6. StreamProgress'
    BY <2>2, <2>4 DEF StreamProgress, Aborts
  <2>7. LoopProgress'
    <3> SUFFICES ASSUME Aborts, ~firstErr, NEW i \in 1 .. at - 1
                 PROVE  /\ run = "export" => worker'[Order[i]] # "idle" \/ cp'.table[Order[i]] = "completed"
                        /\ run = "sql" => worker'[Order[i]] # "idle" \/ Copied(Order[i])
      BY <2>2 DEF LoopProgress, Aborts, Copied
    <3>1. Order[i] \in Tables
      BY <1>c, <1>o
    <3>2. CASE Order[i] = t
      BY <2>4, <3>2
    <3>3. CASE Order[i] # t
      BY <2>3, <2>4, <3>1, <3>3 DEF LoopProgress
    <3> QED
      BY <3>2, <3>3
  <2> QED
    BY <2>5, <2>6, <2>7
<1>4. CASE run' = "export"
  <2>1. OpenData => run = "open" /\ worker' = worker /\ at' = 1
    BY DEF OpenData, Goes
  <2> QED
    BY <1>1, <1>2, <1>3, <1>4, <2>1, MigratorRuns
<1>5. CASE run' = "sql"
  BY <1>1, <1>3, <1>5, MigratorToSql
<1>6. CASE run' \notin {"export", "sql"}
  BY <1>6, <1>w, NoLoop
<1> QED
  BY <1>4, <1>5, <1>6

\* The chunks of a table, and what has been written of them.
LEMMA TableChunkProgress ==
  ASSUME Types, Working, ChunkProgress, NEW t \in Tables, TableStep(t)
  PROVE  ChunkProgress'
<1>c. /\ cp \in Checkpoints /\ worker \in [Tables -> Work] /\ plain \in [Tables -> [Parts -> Content]]
      /\ chunk \in [Tables -> [Parts -> {"todo", "copy", "written", "done"}]]
      /\ chunkErr \in [Tables -> BOOLEAN]
  BY DEF Types
<1>1. /\ \A u \in Tables \ {t} : worker'[u] = worker[u]
      /\ \A u \in Tables \ {t} : plain'[u] = plain[u]
      /\ \A u \in Tables \ {t} : chunk'[u] = chunk[u]
      /\ \A u \in Tables \ {t} : chunkErr'[u] = chunkErr[u]
  BY <1>c
     DEF TableStep, ExportStart, CreateFile, ExportEnds, ExportFails, BeginChunks, ChunksEnd, SqlStart,
         InsertBatch, CommitUnknown, InsertFails, StreamFails, StreamEnds, TableExported, TableFails
<1>2. cp'.chunks = cp.chunks
  <2>1. cp' = cp \/ \E s \in {"running", "completed", "failed"} : cp' = MarkTable(cp, t, s)
    BY DEF TableStep, ExportStart, CreateFile, ExportEnds, ExportFails, BeginChunks, ChunksEnd, SqlStart,
           InsertBatch, CommitUnknown, InsertFails, StreamFails, StreamEnds, TableExported, TableFails
  <2>2. {"running", "completed", "failed"} \subseteq States
    BY StateNames
  <2> QED
    BY <1>c, <2>1, <2>2, MarkFacts
<1>3. worker'[t] = "chunks" => BeginChunks(t)
  BY <1>c
     DEF TableStep, ExportStart, CreateFile, ExportEnds, ExportFails, BeginChunks, ChunksEnd, SqlStart,
         InsertBatch, CommitUnknown, InsertFails, StreamFails, StreamEnds, TableExported, TableFails
<1>4. ASSUME BeginChunks(t), NEW p \in Parts
      PROVE  chunk'[t][p] # "written" /\ (chunk'[t][p] = "done" => p \in cp.chunks[t])
  BY <1>4, <1>c DEF BeginChunks, IsChunkCompleted
<1> QED
  BY <1>1, <1>2, <1>3, <1>4 DEF ChunkProgress

LEMMA ChunkChunkProgress ==
  ASSUME Types, Calm, Working, ChunkProgress, NEW t \in Tables, NEW p \in Parts, ChunkStep(t, p)
  PROVE  ChunkProgress'
<1>c. /\ cp \in Checkpoints /\ plain \in [Tables -> [Parts -> Content]]
      /\ chunk \in [Tables -> [Parts -> {"todo", "copy", "written", "done"}]]
      /\ chunkErr \in [Tables -> BOOLEAN] /\ cp.chunks \in [Tables -> SUBSET Parts]
  BY DEF Types, Checkpoints
<1>k. cp \in Checkpoints
  BY <1>c
<1>1. worker' = worker
  BY DEF ChunkStep, ChunkStart, ChunkWritten, ChunkEnds, ChunkFails
<1>2. ASSUME NEW u \in Tables, NEW q \in Parts, u # t \/ q # p
      PROVE  chunk'[u][q] = chunk[u][q] /\ plain'[u][q] = plain[u][q]
  <2>1. \E x : chunk' = [chunk EXCEPT ![t][p] = x]
    BY DEF ChunkStep, ChunkStart, ChunkWritten, ChunkEnds, ChunkFails
  <2>2. plain' = plain \/ \E x : plain' = [plain EXCEPT ![t][p] = x]
    BY DEF ChunkStep, ChunkStart, ChunkWritten, ChunkEnds, ChunkFails
  <2>3. chunk'[u][q] = chunk[u][q]
    BY <1>2, <1>c, <2>1
  <2>4. plain'[u][q] = plain[u][q]
    BY <1>2, <1>c, <2>2
  <2> QED
    BY <2>3, <2>4
<1>3. \A u \in Tables : chunkErr[u] => chunkErr'[u]
  BY <1>c DEF ChunkStep, ChunkStart, ChunkWritten, ChunkEnds, ChunkFails
<1>4. \A u \in Tables : cp.chunks[u] \subseteq cp'.chunks[u]
  <2>1. CASE ChunkStart(t, p) \/ ChunkWritten(t, p)
    BY <2>1 DEF ChunkStart, ChunkWritten
  <2>2. CASE ChunkEnds(t, p)
    <3>1. cp' = MarkChunkCompleted(cp, t, p)
      BY <2>2 DEF ChunkEnds
    <3>2. cp'.chunks = [cp.chunks EXCEPT ![t] = @ \cup {p}]
      BY <1>k, <3>1, ChunkFacts
    <3> QED
      BY <1>c, <3>2
  <2>3. CASE ChunkFails(t, p)
    <3>1. cp' = MarkChunkFailed(cp, t, p) /\ p \notin cp.chunks[t]
      BY <2>3 DEF ChunkFails, Working
    <3>2. cp' = cp
      BY <1>c, <3>1, ChunkFacts
    <3> QED
      BY <3>2
  <2> QED
    BY <2>1, <2>2, <2>3 DEF ChunkStep
<1>5. /\ chunk'[t][p] = "written" => plain'[t][p] = "full"
      /\ chunk'[t][p] = "done" /\ ~chunkErr'[t] => p \in cp'.chunks[t]
  <2>1. CASE ChunkStart(t, p)
    BY <1>c, <2>1 DEF ChunkStart
  <2>2. CASE ChunkWritten(t, p)
    <3>1. plain' = [plain EXCEPT ![t][p] = "full"] /\ chunk' = [chunk EXCEPT ![t][p] = "written"]
      BY <2>2 DEF ChunkWritten, Calm
    <3> QED
      BY <1>c, <3>1
  <2>3. CASE ChunkEnds(t, p)
    <3>1. cp' = MarkChunkCompleted(cp, t, p) /\ chunk' = [chunk EXCEPT ![t][p] = "done"]
      BY <2>3 DEF ChunkEnds
    <3>2. cp'.chunks = [cp.chunks EXCEPT ![t] = @ \cup {p}]
      BY <1>k, <3>1, ChunkFacts
    <3> QED
      BY <1>c, <3>1, <3>2
  <2>4. CASE ChunkFails(t, p)
    BY <1>c, <2>4 DEF ChunkFails
  <2> QED
    BY <2>1, <2>2, <2>3, <2>4 DEF ChunkStep
<1> SUFFICES ASSUME NEW u \in Tables, worker[u] = "chunks", NEW q \in Parts
             PROVE  /\ chunk'[u][q] = "written" => plain'[u][q] = "full"
                    /\ chunk'[u][q] = "done" /\ ~chunkErr'[u] => q \in cp'.chunks[u]
  BY <1>1 DEF ChunkProgress
<1>6. CASE u = t /\ q = p
  BY <1>5, <1>6
<1>7. CASE u # t \/ q # p
  BY <1>2, <1>3, <1>4, <1>7 DEF ChunkProgress
<1> QED
  BY <1>6, <1>7

\* The stream of a table, and the two dispatch loops.
LEMMA TableStreamProgress ==
  ASSUME Types, Calm, Working, StreamProgress, NEW t \in Tables, TableStep(t)
  PROVE  StreamProgress'
<1>c. /\ worker \in [Tables -> Work] /\ pos \in [Tables -> 0 .. NParts] /\ MaxCopies \in Nat \ {0}
      /\ target \in [Tables -> [Parts -> 0 .. MaxCopies]] /\ opts' = opts
  BY MigrationAssumption
     DEF Types, TableStep, ExportStart, CreateFile, ExportEnds, ExportFails, BeginChunks, ChunksEnd, SqlStart,
         InsertBatch, CommitUnknown, InsertFails, StreamFails, StreamEnds
<1>m. \A n \in 0 .. MaxCopies : OneMore(n) > 0
  BY <1>c DEF OneMore
<1>1. /\ \A u \in Tables \ {t} : worker'[u] = worker[u]
      /\ \A u \in Tables \ {t} : pos'[u] = pos[u]
      /\ \A u \in Tables \ {t} : target'[u] = target[u]
  BY <1>c
     DEF TableStep, ExportStart, CreateFile, ExportEnds, ExportFails, BeginChunks, ChunksEnd, SqlStart,
         InsertBatch, CommitUnknown, InsertFails, StreamFails, StreamEnds, TableExported, TableFails
<1>2. ASSUME worker'[t] = "stream", Aborts, NEW q \in 1 .. pos'[t] PROVE target'[t][q] > 0
  <2>1. CASE SqlStart(t)
    <3>1. pos'[t] = 0
      BY <1>c, <2>1 DEF SqlStart
    <3> QED
      BY <1>2, <3>1
  <2>2. CASE InsertBatch(t)
    <3> DEFINE p == pos[t] + 1
    <3>1. /\ worker[t] = "stream" /\ p \in Parts /\ pos' = [pos EXCEPT ![t] = p]
          /\ target' = [target EXCEPT ![t][p] = OneMore(@)]
      BY <2>2 DEF InsertBatch
    <3>2. CASE q = p
      BY <1>c, <1>m, <3>1, <3>2
    <3>3. CASE q # p
      <4>1. pos'[t] = p /\ pos[t] \in Int
        BY <1>c, <3>1
      <4>2. q \in 1 .. pos[t]
        BY <1>2, <3>3, <4>1
      <4>3. target[t][q] > 0
        BY <1>2, <3>1, <4>2 DEF StreamProgress
      <4> QED
        BY <1>c, <3>1, <3>3, <4>3
    <3> QED
      BY <3>2, <3>3
  <2>3. CASE CommitUnknown(t)
    <3> DEFINE p == pos[t] + 1
    <3>1. worker[t] = "stream" /\ p \in Parts /\ pos' = pos /\ target' = [target EXCEPT ![t][p] = OneMore(@)]
      BY <2>3 DEF CommitUnknown
    <3>2. target[t][q] > 0
      BY <1>2, <3>1 DEF StreamProgress
    <3>3. q # p
      BY <1>2, <1>c, <3>1
    <3> QED
      BY <1>c, <3>1, <3>2, <3>3
  <2>4. CASE InsertFails(t)
    <3>1. worker'[t] = "idle"
      BY <1>2, <1>c, <2>4 DEF InsertFails, TableFails, Aborts
    <3> QED
      BY <1>2, <3>1
  <2>5. CASE \/ ExportStart(t) \/ CreateFile(t) \/ ExportEnds(t) \/ ExportFails(t) \/ BeginChunks(t)
             \/ ChunksEnd(t) \/ StreamFails(t) \/ StreamEnds(t)
    <3>1. \E w \in {"begin", "write", "chunks", "idle"} : worker' = [worker EXCEPT ![t] = w]
      BY <2>5
         DEF ExportStart, CreateFile, ExportEnds, ExportFails, BeginChunks, ChunksEnd, StreamFails, StreamEnds,
             TableExported, TableFails
    <3> QED
      BY <1>2, <1>c, <3>1
  <2> QED
    BY <2>1, <2>2, <2>3, <2>4, <2>5 DEF TableStep
<1> QED
  BY <1>1, <1>2, <1>c DEF StreamProgress, Aborts

LEMMA TableLoopProgress ==
  ASSUME Types, Calm, Working, StreamProgress, LoopProgress, NEW t \in Tables, TableStep(t)
  PROVE  LoopProgress'
<1>c. cp \in Checkpoints /\ worker \in [Tables -> Work] /\ Len(Order) \in Nat /\ at \in 1 .. Len(Order) + 1
  BY LastIndex DEF Types
<1>o. \A i \in 1 .. Len(Order) : Order[i] \in Tables
  BY MigrationAssumption
<1>r. run' = run /\ opts' = opts
  BY DEF TableStep, ExportStart, CreateFile, ExportEnds, ExportFails, BeginChunks, ChunksEnd, SqlStart,
         InsertBatch, CommitUnknown, InsertFails, StreamFails, StreamEnds
\* The table whose goroutine moves.
<1>1. ASSUME Aborts, ~firstErr'
      PROVE  \/ worker'[t] # "idle"
             \/ run = "export" /\ cp'.table[t] = "completed"
             \/ run = "sql" /\ Copied(t)'
  <2>1. ASSUME TableFails(t, TRUE) PROVE FALSE
    BY <1>1, <2>1 DEF TableFails
  <2>2. CASE ExportFails(t) \/ (ChunksEnd(t) /\ chunkErr[t]) \/ StreamFails(t)
    BY <1>1, <2>1, <2>2 DEF ExportFails, ChunksEnd, StreamFails, Aborts
  <2>3. CASE InsertFails(t)
    BY <1>1, <2>1, <2>3 DEF InsertFails, Aborts
  <2>4. CASE ExportEnds(t) \/ (ChunksEnd(t) /\ ~chunkErr[t])
    <3>1. cp' = MarkTable(cp, t, "completed") /\ worker[t] \in {"write", "chunks"}
      BY <2>4 DEF ExportEnds, ChunksEnd, TableExported
    <3>2. run = "export" /\ cp.table[t] # "none" /\ "completed" \in States
      BY <3>1, StateNames DEF Working
    <3> QED
      BY <1>c, <3>1, <3>2, MarkFacts
  <2>5. CASE StreamEnds(t)
    <3>1. run = "sql" /\ target' = target
      BY <2>5 DEF StreamEnds, Working
    <3>2. Copied(t)
      BY <1>1, <2>5, StreamComplete
    <3> QED
      BY <3>1, <3>2 DEF Copied
  <2>6. CASE ExportStart(t) \/ CreateFile(t) \/ BeginChunks(t) \/ SqlStart(t)
    <3>1. \E w \in {"begin", "write", "chunks", "stream"} : worker' = [worker EXCEPT ![t] = w]
      BY <2>6 DEF ExportStart, CreateFile, BeginChunks, SqlStart
    <3> QED
      BY <1>c, <3>1
  <2>7. CASE InsertBatch(t) \/ CommitUnknown(t)
    BY <2>7 DEF InsertBatch, CommitUnknown
  <2> QED
    BY <2>2, <2>3, <2>4, <2>5, <2>6, <2>7 DEF TableStep
\* The other tables.
<1>2. ASSUME NEW u \in Tables \ {t}
      PROVE  worker'[u] = worker[u] /\ cp'.table[u] = cp.table[u] /\ (Copied(u) => Copied(u)')
  <2>1. worker' = worker \/ \E w : worker' = [worker EXCEPT ![t] = w]
    BY DEF TableStep, ExportStart, CreateFile, ExportEnds, ExportFails, BeginChunks, ChunksEnd, SqlStart,
           InsertBatch, CommitUnknown, InsertFails, StreamFails, StreamEnds, TableExported, TableFails
  <2>2. cp' = cp \/ \E s \in {"running", "completed", "failed"} : cp' = MarkTable(cp, t, s)
    BY DEF TableStep, ExportStart, CreateFile, ExportEnds, ExportFails, BeginChunks, ChunksEnd, SqlStart,
           InsertBatch, CommitUnknown, InsertFails, StreamFails, StreamEnds, TableExported, TableFails
  <2>3. {"running", "completed", "failed"} \subseteq States
    BY StateNames
  <2>4. target' = target \/ \E p, x : target' = [target EXCEPT ![t][p] = x]
    BY DEF TableStep, ExportStart, CreateFile, ExportEnds, ExportFails, BeginChunks, ChunksEnd, SqlStart,
           InsertBatch, CommitUnknown, InsertFails, StreamFails, StreamEnds
  <2>5. target'[u] = target[u]
    BY <2>4 DEF Types
  <2>6. cp'.table[u] = cp.table[u]
    BY <1>c, <2>2, <2>3, MarkFacts
  <2> QED
    BY <1>c, <2>1, <2>5, <2>6 DEF Copied
\* The loops only move on with the table that waits.
<1>3. firstErr => firstErr'
  BY DEF TableStep, ExportStart, CreateFile, ExportEnds, ExportFails, BeginChunks, ChunksEnd, SqlStart,
         InsertBatch, CommitUnknown, InsertFails, StreamFails, StreamEnds, TableExported, TableFails
<1>4. \/ at' = at
      \/ at' = at + 1 /\ at <= Len(Order) /\ Order[at] = t
  <2>1. worker[t] = "waiting" => at <= Len(Order) /\ Order[at] = t
    BY DEF Working
  <2> QED
    BY <2>1
       DEF TableStep, ExportStart, CreateFile, ExportEnds, ExportFails, BeginChunks, ChunksEnd, SqlStart,
           InsertBatch, CommitUnknown, InsertFails, StreamFails, StreamEnds
<1> SUFFICES ASSUME Aborts, ~firstErr', NEW i \in 1 .. at' - 1
             PROVE  /\ run = "export" => worker'[Order[i]] # "idle" \/ cp'.table[Order[i]] = "completed"
                    /\ run = "sql" => worker'[Order[i]] # "idle" \/ Copied(Order[i])'
  BY <1>r DEF LoopProgress, Aborts, Copied
<1>5. Order[i] = t \/ i \in 1 .. at - 1
  BY <1>4, <1>c
<1>6. CASE Order[i] = t
  BY <1>1, <1>6 DEF Copied
<1>7. CASE Order[i] # t /\ i \in 1 .. at - 1
  <2>1. Order[i] \in Tables \ {t}
    BY <1>7, <1>c, <1>o
  <2>2. ~firstErr
    BY <1>3
  <2>3. /\ run = "export" => worker[Order[i]] # "idle" \/ cp.table[Order[i]] = "completed"
        /\ run = "sql" => worker[Order[i]] # "idle" \/ Copied(Order[i])
    BY <1>7, <2>2 DEF LoopProgress
  <2>4. /\ worker'[Order[i]] = worker[Order[i]] /\ cp'.table[Order[i]] = cp.table[Order[i]]
        /\ (Copied(Order[i]) => Copied(Order[i])')
    BY <1>2, <2>1
  <2> QED
    BY <2>3, <2>4
<1> QED
  BY <1>5, <1>6, <1>7

LEMMA ChunkOtherProgress ==
  ASSUME Types, Working, StreamProgress, LoopProgress, NEW t \in Tables, NEW p \in Parts, ChunkStep(t, p)
  PROVE  StreamProgress' /\ LoopProgress'
<1>c. cp \in Checkpoints
  BY DEF Types
<1>1. UNCHANGED <<run, opts, at, firstErr, worker, pos, target>>
  BY DEF ChunkStep, ChunkStart, ChunkWritten, ChunkEnds, ChunkFails
<1>2. cp'.table = cp.table
  <2>1. CASE ChunkStart(t, p) \/ ChunkWritten(t, p)
    BY <2>1 DEF ChunkStart, ChunkWritten
  <2>2. CASE ChunkEnds(t, p)
    BY <1>c, <2>2, ChunkFacts DEF ChunkEnds
  <2>3. CASE ChunkFails(t, p)
    <3>1. cp' = MarkChunkFailed(cp, t, p) /\ p \notin cp.chunks[t]
      BY <2>3 DEF ChunkFails, Working
    <3>2. cp' = cp
      BY <1>c, <3>1, ChunkFacts
    <3> QED
      BY <3>2
  <2> QED
    BY <2>1, <2>2, <2>3 DEF ChunkStep
<1> QED
  BY <1>1, <1>2 DEF StreamProgress, LoopProgress, Aborts, Copied

\* Every table has a place in the loops.
LEMMA EveryTable == \A t \in Tables : \E i \in 1 .. Len(Order) : Order[i] = t
<1>1. DOMAIN Order = 1 .. Len(Order)
  BY MigrationAssumption
<1> QED
  BY <1>1, MigrationAssumption

\* A loop that has ended without an error has done its work for every table.
LEMMA LoopDone ==
  ASSUME Types, LoopProgress, Aborts, ~firstErr, at > Len(Order), Busy = {}, NEW t \in Tables
  PROVE  /\ run = "export" => cp.table[t] = "completed"
         /\ run = "sql" => Copied(t)
<1>1. Len(Order) \in Nat /\ at = Len(Order) + 1
  BY LastIndex DEF Types
<1>2. PICK i \in 1 .. at - 1 : Order[i] = t
  BY <1>1, EveryTable
<1>3. worker[t] = "idle"
  BY DEF Busy
<1> QED
  BY <1>2, <1>3 DEF LoopProgress

LEMMA MigratorImporting ==
  ASSUME Types, Calm, Saved, AllBacked, LoopProgress, Importing, Migrator
  PROVE  Importing'
<1>t. opts \in OptionRecords
  BY DEF Types
<1>s. FilesStay /\ SafeStays
  BY MigratorStays
<1>f. \A t \in Tables : InFiles(t) => InFiles(t)'
  BY <1>s DEF FilesStay, InFiles
<1>1. CASE OpenData
  <2>1. opts' = opts /\ IF opts.lightning THEN run' = "export" ELSE run' = "sql"
    BY <1>1 DEF OpenData, Goes
  <2> QED
    BY <2>1 DEF Importing, Aborts
<1>2. CASE ExportSkip \/ ExportDispatch
  <2>1. run = "export" /\ run' = run /\ opts' = opts
    BY <1>2 DEF ExportSkip, ExportDispatch
  <2> QED
    BY <2>1 DEF Importing
<1>3. ASSUME NEW ok \in BOOLEAN, PhaseEnds("data", ok, orch) PROVE Importing'
  <2>1. run' \in {"validate", "complete", "down"}
    BY <1>3, DataEnds, EndRunFacts
  <2> QED
    BY <2>1 DEF Importing
<1>4. CASE ConnectFails \/ ImportEnds
  BY <1>3, <1>4 DEF ConnectFails, ImportEnds
<1>5. CASE SqlWait
  <2>1. (~firstErr) \in BOOLEAN
    OBVIOUS
  <2> QED
    BY <1>3, <1>5, <2>1 DEF SqlWait
<1>6. CASE ExportWait
  <2>1. CASE firstErr /\ opts.onError # "skip"
    BY <1>3, <1>6, <2>1 DEF ExportWait
  <2>2. CASE ~(firstErr /\ opts.onError # "skip")
    <3>1. run = "export" /\ run' = "rename" /\ opts' = opts /\ at > Len(Order) /\ Busy = {}
      BY <1>6, <2>2 DEF ExportWait, Goes
    <3>2. opts.lightning
      BY <3>1 DEF Importing
    <3>3. ASSUME Aborts, NEW t \in Tables PROVE InFiles(t)
      <4>1. ~firstErr
        BY <2>2, <3>3 DEF Aborts
      <4>2. cp.table[t] = "completed"
        BY <3>1, <3>3, <4>1, LoopDone
      <4>3. file = cp /\ cp \in Checkpoints
        BY <3>1 DEF Saved, DataSteps, Types
      <4>4. Safe(t)
        BY <4>2, <4>3, NotNoFile DEF AllBacked, Backed
      <4> QED
        BY <3>2, <3>3, <4>4 DEF Safe
    <3> QED
      BY <1>f, <3>1, <3>2, <3>3 DEF Importing, Aborts
  <2> QED
    BY <2>1, <2>2
<1>7. CASE RenameFiles
  <2>1. /\ run = "rename" /\ run' \in {"marking", "truncate", "lightning"} /\ opts' = opts
        /\ plain' = ForEach(All("none"))
        /\ run' = "marking" => \A t \in Tables, p \in Parts : plain[t][p] = "none" /\ ready[t][p] = "none"
    BY <1>7 DEF RenameFiles, Goes
  <2>2. \A t \in Tables, p \in Parts : plain'[t][p] = "none"
    BY <2>1 DEF ForEach, All
  <2>3. opts.lightning /\ (Aborts => \A t \in Tables : InFiles(t))
    BY <2>1 DEF Importing
  <2>4. ASSUME Aborts, run' = "marking", NEW t \in Tables PROVE FALSE
    <3>1. Full(t, 1)
      BY <2>3, <2>4, PartsFacts DEF InFiles
    <3>2. plain[t][1] = "none" /\ ready[t][1] = "none"
      BY <2>1, <2>4, PartsFacts
    <3> QED
      BY <3>1, <3>2 DEF Full
  <2> QED
    BY <1>f, <2>1, <2>2, <2>3, <2>4 DEF Importing, Aborts
<1>8. CASE TruncateTarget
  <2>1. run = "truncate" /\ run' \in {"lightning", "sql"} /\ UNCHANGED <<opts, plain>>
    BY <1>8 DEF TruncateTarget, FallBack, Goes
  <2> QED
    BY <1>f, <2>1 DEF Importing, Aborts
<1>9. CASE LightningFails
  <2>1. run = "lightning" /\ run' = "sql" /\ UNCHANGED <<opts, plain>>
    BY <1>9 DEF LightningFails, FallBack, Goes
  <2> QED
    BY <1>f, <2>1 DEF Importing, Aborts
<1>10. CASE LightningLoads
  <2>1. run = "lightning" /\ run' = "marking" /\ UNCHANGED <<opts, plain, ready>> /\ target' = Loaded(Loadable)
    BY <1>10 DEF LightningLoads, Goes
  <2>2. ASSUME Aborts, NEW t \in Tables, NEW p \in Parts PROVE target'[t][p] > 0
    <3>1. Full(t, p) /\ plain[t][p] = "none"
      BY <2>1, <2>2 DEF Importing, InFiles
    <3>2. <<t, p>> \in Loadable
      BY <3>1 DEF Full, Loadable
    <3> QED
      BY <2>1, <3>2, LoadedMore
  <2> QED
    BY <1>f, <2>1, <2>2 DEF Importing, Aborts, Copied
<1>11. CASE MarkImported
  <2>1. run = "marking" /\ run' = run /\ UNCHANGED <<opts, plain, ready, target>>
    BY <1>11 DEF MarkImported
  <2> QED
    BY <1>f, <2>1 DEF Importing, Aborts, Copied
<1>12. CASE SqlDispatch
  <2>1. run = "sql" /\ run' = run /\ opts' = opts
    BY <1>12 DEF SqlDispatch
  <2> QED
    BY <1>f, <2>1 DEF Importing, Aborts
<1> QED
  BY <1>1, <1>2, <1>4, <1>5, <1>6, <1>7, <1>8, <1>9, <1>10, <1>11, <1>12 DEF Migrator

LEMMA TableImporting ==
  ASSUME Types, Calm, Working, Importing, NEW t \in Tables, TableStep(t) \/ \E p \in Parts : ChunkStep(t, p)
  PROVE  Importing'
<1>1. run \in {"export", "sql"} /\ run' = run
  BY TableRuns
<1>2. opts' = opts
  BY DEF TableStep, ExportStart, CreateFile, ExportEnds, ExportFails, BeginChunks, ChunksEnd, SqlStart,
         InsertBatch, CommitUnknown, InsertFails, StreamFails, StreamEnds,
         ChunkStep, ChunkStart, ChunkWritten, ChunkEnds, ChunkFails
<1>3. ASSUME run = "sql" PROVE UNCHANGED <<plain, ready>>
  <2>1. worker[t] \notin {"begin", "write", "chunks"} /\ \A p \in Parts : chunk[t][p] = "done"
    BY <1>3 DEF Working
  <2> QED
    BY <1>3, <2>1
       DEF TableStep, ExportStart, CreateFile, ExportEnds, ExportFails, BeginChunks, ChunksEnd, SqlStart,
           InsertBatch, CommitUnknown, InsertFails, StreamFails, StreamEnds,
           ChunkStep, ChunkStart, ChunkWritten, ChunkEnds, ChunkFails
<1>4. run = "sql" => \A u \in Tables : InFiles(u)' <=> InFiles(u)
  BY <1>3 DEF InFiles, Full
<1> QED
  BY <1>1, <1>2, <1>4 DEF Importing, Aborts

\* Only a start begins from nothing.
LEMMA StartedKept == ASSUME Types, Working, Started, [Next]_vars PROVE Started'
<1>1. CASE StartRun
  <2>1. starts' = starts + 1 /\ starts \in Nat /\ result' = "none"
    BY <1>1, MigrationAssumption DEF StartRun, Types
  <2>2. starts' # 0
    BY <2>1
  <2> QED
    BY <2>1, <2>2 DEF Started
<1>2. ASSUME run # "down", starts' = starts, result' = result \/ run' = "down" PROVE Started'
  BY <1>2 DEF Started
<1>3. CASE Pipeline \/ Crash
  <2>1. run # "down" /\ starts' = starts /\ (result' = result \/ run' = "down")
    <3>1. CASE RunPrecheck \/ RunSchema \/ RunValidate
      BY <3>1, PhaseEndsFacts, EndRunFacts DEF RunPrecheck, RunSchema, RunValidate
    <3>2. CASE ClearCheckpoint \/ RunData
      BY <3>2 DEF ClearCheckpoint, RunData
    <3>3. CASE Complete \/ Crash
      BY <3>3, EndRunFacts DEF Complete, Crash
    <3> QED
      BY <1>3, <3>1, <3>2, <3>3 DEF Pipeline
  <2> QED
    BY <1>2, <2>1
<1>4. CASE Migrator
  <2> SUFFICES starts' = starts /\ (result' = result \/ run' = "down")
    BY <1>2, <1>4, MigratorRuns
  <2>1. ASSUME NEW ok \in BOOLEAN, PhaseEnds("data", ok, orch)
        PROVE  starts' = starts /\ (result' = result \/ run' = "down")
    BY <2>1, DataEnds, EndRunFacts
  <2>2. CASE ConnectFails \/ ImportEnds \/ ExportWait
    BY <2>1, <2>2 DEF ConnectFails, ImportEnds, ExportWait
  <2>3. CASE SqlWait
    <3>1. (~firstErr) \in BOOLEAN
      OBVIOUS
    <3> QED
      BY <2>1, <2>3, <3>1 DEF SqlWait
  <2>4. CASE \/ OpenData \/ ExportSkip \/ ExportDispatch \/ RenameFiles \/ TruncateTarget \/ LightningLoads
             \/ LightningFails \/ MarkImported \/ SqlDispatch
    BY <2>4
       DEF OpenData, ExportSkip, ExportDispatch, RenameFiles, TruncateTarget, LightningLoads, LightningFails,
           MarkImported, SqlDispatch, FallBack
  <2> QED
    BY <1>4, <2>2, <2>3, <2>4 DEF Migrator
<1>5. ASSUME NEW t \in Tables, TableStep(t) \/ \E p \in Parts : ChunkStep(t, p) PROVE Started'
  <2>1. starts' = starts /\ result' = result
    BY <1>5
       DEF TableStep, ExportStart, CreateFile, ExportEnds, ExportFails, BeginChunks, ChunksEnd, SqlStart,
           InsertBatch, CommitUnknown, InsertFails, StreamFails, StreamEnds,
           ChunkStep, ChunkStart, ChunkWritten, ChunkEnds, ChunkFails
  <2> QED
    BY <1>2, <1>5, <2>1, TableRuns
<1>6. CASE UNCHANGED vars
  BY <1>6 DEF Started
<1> QED
  BY <1>1, <1>3, <1>4, <1>5, <1>6, NextCases

\* A run that has passed the data phase without an error has copied every table.
LEMMA EndedKept ==
  ASSUME Types, Working, LoopProgress, Importing, Started, Ended, [Next]_vars
  PROVE  Ended'
<1>o. opts \in OptionRecords /\ Options \subseteq OptionRecords
  BY MigrationAssumption DEF Types
<1>r. run # "down" => result = "none"
  BY DEF Started
<1>0. ASSUME run' \notin {"validate", "complete"}, result' # "ok" PROVE Ended'
  BY <1>0 DEF Ended
<1>1. CASE StartRun
  <2>1. PICK o \in OptionRecords : opts' = o /\ run' = After("none", o) /\ result' = "none"
    BY <1>1, <1>o DEF StartRun
  <2>2. "data" \notin o.skip => run' \notin {"validate", "complete"}
    BY <2>1, AfterFacts
  <2> QED
    BY <2>1, <2>2 DEF Ended
<1>2. CASE RunPrecheck \/ RunSchema
  <2>1. PICK p \in {"precheck", "schema"}, ok \in BOOLEAN :
          run = p /\ PhaseEnds(p, ok, SetPhase(orch, p))
    BY <1>2 DEF RunPrecheck, RunSchema
  <2>2. CASE EndRun("error")
    BY <1>0, <2>2, EndRunFacts
  <2>3. CASE run' = After(p, opts) /\ UNCHANGED <<opts, result>>
    <3>1. "data" \notin opts.skip => run' \notin {"validate", "complete"}
      BY <1>o, <2>3, AfterFacts
    <3> QED
      BY <1>r, <2>1, <2>3, <3>1 DEF Ended
  <2> QED
    BY <2>1, <2>2, <2>3, PhaseEndsFacts
<1>3. CASE ClearCheckpoint \/ RunData
  <2>1. run # "down" /\ run' \in {"data", "open"} /\ result' = result
    BY <1>3 DEF ClearCheckpoint, RunData
  <2> QED
    BY <1>0, <1>r, <2>1
<1>4. CASE RunValidate \/ Complete
  <2>1. run \in {"validate", "complete"} /\ UNCHANGED <<opts, target>>
    BY <1>4, PhaseEndsFacts, EndRunFacts DEF RunValidate, Complete
  <2> QED
    BY <2>1 DEF Ended, Aborts, Copied
<1>5. CASE Crash
  BY <1>0, <1>5, EndRunFacts DEF Crash
<1>6. CASE Migrator
  <2>1. ASSUME NEW ok \in BOOLEAN, PhaseEnds("data", ok, orch), target' = target,
               ok /\ Aborts => \A t \in Tables : Copied(t)
        PROVE  Ended'
    <3>1. CASE EndRun("error")
      BY <1>0, <3>1, EndRunFacts
    <3>2. CASE (ok \/ opts.onErrorContinue) /\ opts' = opts
      BY <2>1, <3>2 DEF Ended, Aborts, Copied
    <3> QED
      BY <2>1, <3>1, <3>2, DataEnds
  <2>2. ASSUME PhaseEnds("data", FALSE, orch), target' = target PROVE Ended'
    BY <2>1, <2>2
  <2>3. ASSUME run' \in {"export", "sql", "rename", "truncate", "lightning", "marking"}, result' = result
        PROVE  Ended'
    BY <1>0, <1>6, <1>r, <2>3, MigratorRuns
  <2>4. CASE ConnectFails
    BY <2>2, <2>4 DEF ConnectFails
  <2>5. CASE ImportEnds
    <3>1. run = "marking" /\ PhaseEnds("data", TRUE, orch) /\ target' = target
      BY <2>5 DEF ImportEnds
    <3>2. Aborts => \A t \in Tables : Copied(t)
      BY <3>1 DEF Importing
    <3> QED
      BY <2>1, <3>1, <3>2
  <2>6. CASE SqlWait
    <3>1. run = "sql" /\ at > Len(Order) /\ Busy = {} /\ PhaseEnds("data", ~firstErr, orch) /\ target' = target
      BY <2>6 DEF SqlWait
    <3>2. (~firstErr) \in BOOLEAN
      OBVIOUS
    <3>3. ~firstErr /\ Aborts => \A t \in Tables : Copied(t)
      BY <3>1, LoopDone
    <3> QED
      BY <2>1, <3>1, <3>2, <3>3
  <2>7. CASE ExportWait
    <3>1. CASE firstErr /\ opts.onError # "skip"
      BY <2>2, <2>7, <3>1 DEF ExportWait
    <3>2. CASE ~(firstErr /\ opts.onError # "skip")
      BY <2>3, <2>7, <3>2 DEF ExportWait, Goes
    <3> QED
      BY <3>1, <3>2
  <2>8. CASE \/ OpenData \/ ExportSkip \/ ExportDispatch \/ RenameFiles \/ TruncateTarget \/ LightningLoads
             \/ LightningFails \/ MarkImported \/ SqlDispatch
    <3>1. run' \in {"export", "sql", "rename", "truncate", "lightning", "marking"} /\ result' = result
      BY <2>8
         DEF OpenData, ExportSkip, ExportDispatch, RenameFiles, TruncateTarget, LightningLoads, LightningFails,
             MarkImported, SqlDispatch, FallBack, Goes
    <3> QED
      BY <2>3, <3>1
  <2> QED
    BY <1>6, <2>4, <2>5, <2>6, <2>7, <2>8 DEF Migrator
<1>7. ASSUME NEW t \in Tables, TableStep(t) \/ \E p \in Parts : ChunkStep(t, p) PROVE Ended'
  <2>1. result' = result
    BY <1>7
       DEF TableStep, ExportStart, CreateFile, ExportEnds, ExportFails, BeginChunks, ChunksEnd, SqlStart,
           InsertBatch, CommitUnknown, InsertFails, StreamFails, StreamEnds,
           ChunkStep, ChunkStart, ChunkWritten, ChunkEnds, ChunkFails
  <2>2. run \in {"export", "sql"} /\ run' = run
    BY <1>7, TableRuns
  <2> QED
    BY <1>0, <1>r, <2>1, <2>2
<1>8. CASE UNCHANGED vars
  BY <1>8 DEF Ended, Aborts, Copied
<1> QED
  BY <1>1, <1>2, <1>3, <1>4, <1>5, <1>6, <1>7, <1>8, NextCases DEF Pipeline

LEMMA InitCopy == Init => CopyInv
<1> SUFFICES ASSUME Init PROVE CopyInv
  OBVIOUS
<1>1. /\ run = "down" /\ orch = Fresh /\ file = NoFile /\ at = 1 /\ starts = 0 /\ result = "none"
      /\ \A t \in Tables : worker[t] = "idle"
  BY DEF Init, ForEach
<1>2. 1 .. at - 1 = {}
  BY <1>1
<1> QED
  BY <1>1, <1>2
     DEF CopyInv, Saved, DataSteps, OrchOlder, AllBacked, ChunkProgress, StreamProgress, LoopProgress, Importing,
         Started, Ended

LEMMA NextCopy == ASSUME Calm, WorkInv, CopyInv, [Next]_vars PROVE CopyInv'
<1>i. /\ Types /\ Working /\ AllRegular
      /\ Saved /\ OrchOlder /\ AllBacked /\ ChunkProgress /\ StreamProgress /\ LoopProgress
      /\ Importing /\ Started /\ Ended
  BY DEF WorkInv, CopyInv
<1>1. Saved' /\ OrchOlder' /\ Started' /\ Ended'
  BY <1>i, SavedKept, OlderKept, StartedKept, EndedKept
<1>2. AllBacked' /\ ChunkProgress' /\ StreamProgress' /\ LoopProgress' /\ Importing'
  <2>1. CASE StartRun \/ Pipeline \/ Crash
    <3>1. run' \in {"down", "precheck", "schema", "clear", "data", "validate", "complete", "open"} /\ Working'
      BY <1>i, <2>1, PipelineLeads, PipelineWorks
    <3>2. ChunkProgress' /\ StreamProgress' /\ LoopProgress'
      BY <3>1, NoLoop
    <3>3. Importing'
      BY <3>1 DEF Importing
    <3> QED
      BY <1>i, <2>1, <3>2, <3>3, PipelineBacked
  <2>2. CASE Migrator
    BY <1>i, <2>2, MigratorBacked, MigratorProgress, MigratorImporting
  <2>3. ASSUME NEW t \in Tables, TableStep(t) \/ \E p \in Parts : ChunkStep(t, p)
        PROVE  AllBacked' /\ ChunkProgress' /\ StreamProgress' /\ LoopProgress' /\ Importing'
    <3>1. AllBacked' /\ Importing'
      BY <1>i, <2>3, TableBacked, TableImporting
    <3>2. ChunkProgress' /\ StreamProgress' /\ LoopProgress'
      BY <1>i, <2>3, TableChunkProgress, ChunkChunkProgress, TableStreamProgress, TableLoopProgress,
         ChunkOtherProgress
    <3> QED
      BY <3>1, <3>2
  <2>4. CASE UNCHANGED vars
    BY <1>i, <2>4
       DEF AllBacked, Backed, Full, Safe, InFiles, Copied, Aborts, ChunkProgress, StreamProgress, LoopProgress,
           Importing
  <2> QED
    BY <2>1, <2>2, <2>3, <2>4, NextCases
<1> QED
  BY <1>1, <1>2 DEF CopyInv

LEMMA AlwaysCopy == ASSUME Calm PROVE Spec => []CopyInv
<1>1. Init => CopyInv
  BY InitCopy
<1>2. WorkInv /\ CopyInv /\ [Next]_vars => CopyInv'
  BY NextCopy
<1> QED
  BY <1>1, <1>2, AlwaysWork, PTL DEF Spec

\* What the checkpoint file calls completed is in complete files or on the target, at
\* every instant a crash may come, whatever else fails, if the source's connection does
\* not end in the middle of a table and the checkpoint file can be written.
THEOREM BackedAlways ==
  ASSUME "save error" \notin Occurs, "source lost" \notin Occurs, SameCommand
  PROVE  Spec => []CheckpointBacked
<1>1. Calm
  BY DEF Calm
<1>2. WorkInv /\ CopyInv => CheckpointBacked
  <2> SUFFICES ASSUME Types, AllBacked, file # NoFile PROVE CheckpointBacked
    BY DEF WorkInv, CopyInv, CheckpointBacked, TablesBacked, ChunksBacked
  <2>1. file.chunks \in [Tables -> SUBSET Parts]
    BY DEF Types, Checkpoints
  <2>2. Backed(file)
    BY DEF AllBacked
  <2>3. \A t \in Tables, p \in Parts : Full(t, p) => Exported(t, p)
    BY DEF Full, Exported
  <2>4. ChunksBacked
    BY <2>1, <2>2, <2>3 DEF ChunksBacked, Backed
  <2>5. TablesBacked
    BY <2>2, <2>3 DEF TablesBacked, Backed, Safe, InFiles, Copied, Aborts
  <2> QED
    BY <2>4, <2>5 DEF CheckpointBacked
<1> QED
  BY <1>1, <1>2, AlwaysWork, AlwaysCopy, PTL

\* A pipeline that aborts on errors and returns none has copied every table, under the
\* same two conditions.
THEOREM SuccessComplete ==
  ASSUME "save error" \notin Occurs, "source lost" \notin Occurs, SameCommand
  PROVE  Spec => []SuccessIsComplete
<1>1. Calm
  BY DEF Calm
<1>2. CopyInv => SuccessIsComplete
  BY DEF CopyInv, Ended, Aborts, Copied, SuccessIsComplete
<1> QED
  BY <1>1, <1>2, AlwaysCopy, PTL

==============================================================================
