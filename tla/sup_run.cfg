CONSTANTS
  c1 = c1
  c2 = c2
  Clients = {c1, c2}
  MaxRestarts = 1
  MaxStarts = 2
  MaxSpawns = 5
  MaxBoots = 1
  Occurs = {"start error", "respawn error", "stale status"}
SPECIFICATION FairSpec
INVARIANTS OneChildUntilOverlap RestartBudget StopLeavesNothing NoDoubleClose
PROPERTIES ImplementsControl SupervisionSettles
CHECK_DEADLOCK FALSE
