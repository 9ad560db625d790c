CONSTANTS
  t1 = t1
  a = a
  Tables = {t1}
  Key = Key
  Columns = {a}
  MaxDDL = 3
  MaxRows = 1
  MaxStarts = 2
  Occurs = {"setup error", "crash"}
SPECIFICATION MCSpec
INVARIANTS NothingSkipped SchemaConverges HaltMeansReplay RowsArrive
