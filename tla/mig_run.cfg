CONSTANTS
  t1 = t1
  t2 = t2
  Tables = {t1, t2}
  NParts = 2
  Order <- TwoTables
  Chunked = {t1}
  Keyed = {t1}
  Parallel = 1
  ChunkParallel = 2
  Options <- Commands
  SameCommand = TRUE
  Occurs = {"phase error", "connect error", "export error", "lightning error", "insert error", "commit unknown", "save error", "crash"}
  MaxStarts = 2
  MaxCopies = 1
SPECIFICATION LiveSpec
INVARIANTS CheckpointBacked SuccessIsComplete
PROPERTIES ProgressKept ResumesExport RunEnds
