SPECIFICATION FairSpec
CONSTANTS
  Tasks = {t1}
  First = {"tasks", "history", "detail", "assess", "cdc"}
  Ways <- MCWays
  MaxVisits = 2
  MaxLost = 1
  Losable = {"list", "delete", "get", "operation", "status", "command"}
  pg1 = pg1
  pg2 = pg2
  both = both
  only1 = only1
  Sources = {pg1}
  Default = pg1
  NoSource = none
  TablesOf <- MCNoTables
  Searches = {}
  Saved = {}
  MaxTests = 1
  MaxLoads = 1
  MaxSubmits = 1
  MaxLists = 2
  MaxGets = 2
  MaxOps = 1
  Logged = {t1}
  MaxLogs = 0
  Kept = 2
  ChanSize = 1
  MaxStreams = 0
  MaxLogCalls = 0
  Configured = {TRUE, FALSE}
  Drifts = {"failed"}
  MaxRefreshes = 2
  Databases = {db1}
  Blank = none
  MaxAssess = 2
  Others = {"created", "running"}
  Restarted = {t1}
INVARIANT DeletedStaysAway ReportIsLatest
PROPERTY PagesSettle CommandEnds
CHECK_DEADLOCK FALSE
