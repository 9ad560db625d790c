CONSTANTS
  c1 = c1
  c2 = c2
  Clients = {c1}
  MaxRestarts = 2
  MaxStarts = 3
  MaxSpawns = 6
  MaxBoots = 0
  Occurs = {}
SPECIFICATION Spec
INVARIANT AtMostOneChild
CHECK_DEADLOCK FALSE
