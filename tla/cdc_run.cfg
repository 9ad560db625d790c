CONSTANTS
  t1 = t1
  t2 = t2
  w1 = w1
  w2 = w2
  Commit = Commit
  Tables = {t1, t2}
  SkipTables = {}
  Workers = {w1, w2}
  Route <- RouteApart
  Log <- LogTwoTables
  EventsCap = 1
  BatchSize = 2
  Occurs = {"apply error", "structural", "parse error", "unreadable", "disconnect", "signal", "drain timeout", "ddl halt"}
  MaxStarts = 1
  MaxUnread = 1
SPECIFICATION MCSpec
INVARIANTS EventsConserved AppliedInOrder DrainComplete
PROPERTY ImplementsDelivery
