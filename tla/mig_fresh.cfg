CONSTANTS
  t1 = t1
  t2 = t2
  Tables = {t1, t2}
  NParts = 2
  Order <- TwoTables
  Chunked = {t1}
  Keyed = {t1}
  Parallel = 1
  ChunkParallel = 1
  Options <- DropWithLightning
  SameCommand = TRUE
  Occurs = {}
  MaxStarts = 2
  MaxCopies = 2
SPECIFICATION Spec
INVARIANT FreshCopy
