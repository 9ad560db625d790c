CONSTANTS
  t1 = t1
  t2 = t2
  w1 = w1
  w2 = w2
  Commit = Commit
  Tables = {t1, t2}
  SkipTables = {t2}
  Workers = {w1}
  Route <- RouteShared
  Log <- LogRestart
  EventsCap = 1
  BatchSize = 1
  Occurs = {"crash"}
  MaxStarts = 2
  MaxUnread = 1
SPECIFICATION MCSpec
INVARIANT UnparsedIsResent
