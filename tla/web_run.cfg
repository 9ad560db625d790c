CONSTANTS
  t1 = t1
  c1 = c1
  c2 = c2
  Tasks = {t1}
  Requests = {c1, c2}
  Work = 1
  MaxRuns = 2
  MaxBoots = 1
  Occurs = {"run error", "tick"}
SPECIFICATION Spec
SYMMETRY RequestSymmetry
INVARIANTS RunningIsServed OneRun CancelReaches CompletedIsWhole
PROPERTIES CheckpointKept ImplementsApi
