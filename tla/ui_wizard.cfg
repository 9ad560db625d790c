SPECIFICATION Spec
CONSTANTS
  Tasks = {t1, t2}
  First = {"wizard"}
  Ways <- MCLeave
  MaxVisits = 3
  MaxLost = 1
  Losable = {"submit", "stream"}
  pg1 = pg1
  pg2 = pg2
  both = both
  only1 = only1
  Sources = {pg1, pg2}
  Default = pg1
  NoSource = none
  TablesOf <- MCTablesOf
  Searches <- MCSearches
  Saved = {pg2}
  MaxTests = 1
  MaxLoads = 1
  MaxSubmits = 2
  MaxLists = 1
  MaxGets = 1
  MaxOps = 0
  Logged = {t1}
  MaxLogs = 2
  Kept = 1
  ChanSize = 1
  MaxStreams = 2
  MaxLogCalls = 1
  Configured = {FALSE}
  Drifts = {}
  MaxRefreshes = 1
  Databases = {}
  Blank = none
  MaxAssess = 0
  Others = {}
  Restarted = {}
INVARIANT TablesMatch StartedOnce LoadingAwaits OneStream LogsComplete
CHECK_DEADLOCK FALSE
