------------------------ MODULE DDLReplicationProofs ------------------------
(***************************************************************************)
(* Proofs about DDLReplication: types; NothingSkipped, SchemaConverges and *)
(* HaltMeansReplay of transactions that do not overlap; RowsArrive of all. *)
(***************************************************************************)
EXTENDS DDLReplication, FiniteSetTheorems, TLAPS

USE DEF sourceVars, targetVars, pollVars, streamVars, historyVars, vars

---------------------------------------------------------------------------
\* What the changes of the log leave and add.

LEMMA CapturedFacts ==
  ASSUME NEW s \in Statement
  PROVE  /\ Captured(s) \in Seq(LogEntry) /\ Len(Captured(s)) \in 1 .. 2
         /\ \A i \in 1 .. Len(Captured(s)) :
              Captured(s)[i].state = "open" /\ Captured(s)[i].stmt = s
         /\ \A i, j \in 1 .. Len(Captured(s)) :
              Captured(s)[i].object = "table" /\ Captured(s)[j].object = "table" => i = j
         /\ \E i \in 1 .. Len(Captured(s)) : Captured(s)[i].object = "table"
<1>1. CASE s.op = "create"
  BY <1>1 DEF Captured, LogEntry
<1>2. CASE s.op # "create"
  BY <1>2 DEF Captured, LogEntry
<1> QED
  BY <1>1, <1>2

LEMMA LogGrows ==
  ASSUME log \in Seq(LogEntry), NEW s \in Statement, log' = log \o Captured(s)
  PROVE  /\ log' \in Seq(LogEntry) /\ Len(log) < Len(log')
         /\ Ids \subseteq Ids' /\ \A i \in Ids : log'[i] = log[i]
         /\ \A i \in Ids' \ Ids :
              /\ Len(log) < i /\ log'[i].state = "open"
              /\ log'[i].stmt = s /\ log'[i].stmt.table = s.table
         /\ \A i, j \in Ids' \ Ids : Applies(i)' /\ Applies(j)' => i = j
         /\ \E i \in Ids' \ Ids : Applies(i)'
<1> DEFINE c == Captured(s)
<1>2. /\ c \in Seq(LogEntry) /\ Len(c) \in 1 .. 2
      /\ \A i \in 1 .. Len(c) : c[i].state = "open" /\ c[i].stmt = s
      /\ \A i, j \in 1 .. Len(c) : c[i].object = "table" /\ c[j].object = "table" => i = j
      /\ \E i \in 1 .. Len(c) : c[i].object = "table"
  BY CapturedFacts
<1>3. log' = log \o c
  OBVIOUS
<1> HIDE DEF c
<1>4. log' \in Seq(LogEntry) /\ Len(log') = Len(log) + Len(c)
  BY <1>2, <1>3
<1>5. \A i \in Ids : log'[i] = log[i]
  BY <1>2, <1>3 DEF Ids
<1>l. Len(log) \in Nat
  OBVIOUS
<1>6. \A i \in Ids' \ Ids : Len(log) < i /\ log'[i] = c[i - Len(log)] /\ i - Len(log) \in 1 .. Len(c)
  <2> SUFFICES ASSUME NEW i \in Ids' \ Ids
               PROVE  Len(log) < i /\ log'[i] = c[i - Len(log)] /\ i - Len(log) \in 1 .. Len(c)
    OBVIOUS
  <2>1. i \in Len(log) + 1 .. Len(log) + Len(c)
    BY <1>2, <1>4 DEF Ids
  <2> QED
    BY <1>2, <1>3, <2>1
<1>7. \A i \in Ids' \ Ids : log'[i].state = "open" /\ log'[i].stmt = s /\ log'[i].stmt.table = s.table
  <2> SUFFICES ASSUME NEW i \in Ids' \ Ids
               PROVE  log'[i].state = "open" /\ log'[i].stmt = s
    OBVIOUS
  <2>1. log'[i] = c[i - Len(log)] /\ i - Len(log) \in 1 .. Len(c)
    BY <1>6
  <2>2. c[i - Len(log)].state = "open" /\ c[i - Len(log)].stmt = s
    BY <1>2, <2>1, Zenon
  <2> QED
    BY <2>1, <2>2
<1>8. \A i, j \in Ids' \ Ids : Applies(i)' /\ Applies(j)' => i = j
  <2> SUFFICES ASSUME NEW i \in Ids' \ Ids, NEW j \in Ids' \ Ids, Applies(i)', Applies(j)' PROVE i = j
    OBVIOUS
  <2>1. i - Len(log) = j - Len(log)
    BY <1>2, <1>6 DEF Applies
  <2>2. i \in Int /\ j \in Int
    BY DEF Ids
  <2> QED
    BY <1>l, <2>1, <2>2
<1>9. Len(log) < Len(log') /\ Ids \subseteq Ids'
  <2>1. Len(c) \in 1 .. 2 /\ Len(log') = Len(log) + Len(c)
    BY <1>2, <1>4
  <2>2. Len(log) < Len(log')
    BY <1>l, <2>1
  <2> QED
    BY <1>4, <1>l, <2>2 DEF Ids
<1>10. \E i \in Ids' \ Ids : Applies(i)'
  <2>1. PICK k \in 1 .. Len(c) : c[k].object = "table"
    BY <1>2
  <2>2. Len(log) + k \in Ids' \ Ids
    BY <1>2, <1>4, <1>l DEF Ids
  <2>3. log'[Len(log) + k] = c[k]
    BY <1>2, <1>3, <1>l
  <2> QED
    BY <2>1, <2>2, <2>3 DEF Applies
<1> QED
  BY <1>4, <1>5, <1>6, <1>7, <1>8, <1>9, <1>10

LEMMA LogCloses ==
  ASSUME log \in Seq(LogEntry), NEW t \in Tables, NEW state \in {"committed", "aborted"},
         log' = Closed(t, state)
  PROVE  /\ log' \in Seq(LogEntry) /\ Len(log') = Len(log) /\ Ids' = Ids
         /\ \A i \in Ids : /\ log'[i].stmt = log[i].stmt /\ log'[i].object = log[i].object
                           /\ log'[i].state = IF log[i].state = "open" /\ log[i].stmt.table = t
                                              THEN state ELSE log[i].state
<1>1. \A i \in Ids : log[i] \in LogEntry
  BY DEF Ids
<1>2. Closed(t, state) \in [1 .. Len(log) -> LogEntry]
  BY <1>1 DEF Closed, Ids, LogEntry
<1>3. log' \in Seq(LogEntry) /\ Len(log') = Len(log)
  BY <1>2
<1>4. \A i \in Ids : log'[i] = IF log[i].state = "open" /\ log[i].stmt.table = t
                              THEN [log[i] EXCEPT !.state = state] ELSE log[i]
  BY DEF Closed
<1>5. \A i \in Ids : /\ log'[i].stmt = log[i].stmt /\ log'[i].object = log[i].object
                     /\ log'[i].state = IF log[i].state = "open" /\ log[i].stmt.table = t
                                        THEN state ELSE log[i].state
  BY <1>1, <1>4 DEF LogEntry
<1> QED
  BY <1>3, <1>5 DEF Ids

---------------------------------------------------------------------------
\* Type correctness.

LEMMA TypeInit == Init => TypeOK
<1> SUFFICES ASSUME Init PROVE TypeOK
  OBVIOUS
<1>1. log \in Seq(LogEntry) /\ wal \in Seq(Row) /\ Len(log) = 0 /\ Len(wal) = 0
  BY DEF Init
<1>2. catalog \in [Tables -> SUBSET ({Key} \cup Columns)]
  BY DEF Init, Absent
<1>3. rows \in [Tables -> SUBSET (1 .. Len(wal))]
  BY DEF Init
<1>4. file \in [lsn : 0 .. Len(wal), ddl : 0 .. Len(log)]
  BY <1>1 DEF Init
<1>5. schema \in [Tables -> SUBSET ({Key} \cup Columns)]
  BY <1>2 DEF Init
<1>6. lastID \in 0 .. Len(log) /\ recv \in 0 .. Len(wal) /\ settled \in 0 .. recv
  BY <1>1 DEF Init
<1>7. Len(wal) <= MaxRows /\ starts \in 0 .. MaxStarts
  BY <1>1, DDLAssumption DEF Init
<1>8. triggers \subseteq Triggers /\ fetched \subseteq Ids /\ executed \subseteq Ids /\ before \subseteq executed
      /\ missed \subseteq Tables /\ abandoned \subseteq 1 .. Len(wal)
  BY DEF Init
<1> QED
  BY <1>1, <1>2, <1>3, <1>4, <1>5, <1>6, <1>7, <1>8 DEF Init, TypeOK

\* A result of a statement is a table.
LEMMA ResultType ==
  ASSUME NEW s \in Statement, NEW def \in SUBSET ({Key} \cup Columns)
  PROVE  Result(s, def) \in SUBSET ({Key} \cup Columns)
<1>1. s.cols \subseteq Columns /\ s.op \in {"create", "add", "drop"}
  BY DEF Statement
<1> QED
  BY <1>1 DEF Result, Absent

LEMMA TypeStep == TypeOK /\ [Next]_vars => TypeOK'
<1> SUFFICES ASSUME TypeOK, [Next]_vars PROVE TypeOK'
  OBVIOUS
<1>0. /\ Len(log) \in Nat /\ Len(wal) \in Nat /\ MaxRows \in Nat /\ MaxStarts \in Nat
      /\ \A i \in Ids : log[i] \in LogEntry /\ log[i].stmt \in Statement /\ log[i].stmt.table \in Tables
  <2>1. log \in Seq(LogEntry) /\ wal \in Seq(Row)
    BY DEF TypeOK
  <2>2. Len(log) \in Nat /\ Len(wal) \in Nat
    BY <2>1
  <2>3. \A i \in Ids : log[i] \in LogEntry
    BY <2>1 DEF Ids
  <2>4. \A i \in Ids : log[i].stmt \in Statement /\ log[i].stmt.table \in Tables
    BY <2>3 DEF LogEntry, Statement
  <2> QED
    BY <2>2, <2>3, <2>4, DDLAssumption
<1>f. file.lsn \in 0 .. Len(wal) /\ file.ddl \in 0 .. Len(log)
  BY DEF TypeOK
<1>1. ASSUME NEW s \in Statement, DDLExecutes(s) PROVE TypeOK'
  <2>1. log' \in Seq(LogEntry) /\ Len(log) < Len(log') /\ Ids \subseteq Ids'
    BY <1>1, LogGrows DEF DDLExecutes, TypeOK
  <2>2. Len(log') \in Nat
    BY <2>1
  <2>3. 0 .. Len(log) \subseteq 0 .. Len(log')
    BY <1>0, <2>1, <2>2
  <2> QED
    BY <1>1, <2>1, <2>3 DEF DDLExecutes, TypeOK
<1>2. ASSUME NEW s \in Statement, DDLMissed(s) PROVE TypeOK'
  <2>1. s.table \in Tables
    BY DEF Statement
  <2>2. Result(s, catalog[s.table]) \in SUBSET ({Key} \cup Columns)
    BY <2>1, ResultType DEF TypeOK
  <2>3. catalog' \in [Tables -> SUBSET ({Key} \cup Columns)] /\ missed' \subseteq Tables
    BY <1>2, <2>1, <2>2 DEF DDLMissed, TypeOK
  <2> QED
    BY <1>2, <2>3 DEF DDLMissed, TypeOK, Ids
<1>3. ASSUME NEW t \in Tables, DDLCommits(t) PROVE TypeOK'
  <2>1. log' \in Seq(LogEntry) /\ Len(log') = Len(log) /\ Ids' = Ids
    BY <1>3, LogCloses DEF DDLCommits, TypeOK
  <2>2. PICK i \in OpenIds : /\ log[i].stmt.table = t
                             /\ catalog' = [catalog EXCEPT ![t] = Result(log[i].stmt, @)]
    BY <1>3 DEF DDLCommits
  <2>3. Result(log[i].stmt, catalog[t]) \in SUBSET ({Key} \cup Columns)
    BY <1>0, ResultType DEF OpenIds, TypeOK
  <2>4. catalog' \in [Tables -> SUBSET ({Key} \cup Columns)]
    BY <2>2, <2>3 DEF TypeOK
  <2> QED
    BY <1>3, <2>1, <2>4 DEF DDLCommits, TypeOK
<1>4. ASSUME NEW t \in Tables, DDLRollsBack(t) PROVE TypeOK'
  <2>1. log' \in Seq(LogEntry) /\ Len(log') = Len(log) /\ Ids' = Ids
    BY <1>4, LogCloses DEF DDLRollsBack, TypeOK
  <2> QED
    BY <1>4, <2>1 DEF DDLRollsBack, TypeOK
<1>5. ASSUME NEW t \in Tables, Insert(t) PROVE TypeOK'
  <2>1. wal' \in Seq(Row) /\ Len(wal') = Len(wal) + 1 /\ Len(wal') <= MaxRows
    BY <1>0, <1>5 DEF Insert, TypeOK, Row
  <2>2. 1 .. Len(wal) \subseteq 1 .. Len(wal') /\ 0 .. Len(wal) \subseteq 0 .. Len(wal')
    BY <1>0, <2>1
  <2>3. rows' \in [Tables -> SUBSET (1 .. Len(wal'))]
    BY <1>5, <2>2 DEF Insert, TypeOK
  <2> QED
    BY <1>5, <2>1, <2>2, <2>3 DEF Insert, TypeOK, Ids
<1>6. CASE StartRun
  <2>0. /\ starts < MaxStarts /\ starts' = starts + 1
        /\ recv' = file.lsn /\ settled' = file.lsn /\ lastID' = file.ddl
    BY <1>6, Zenon DEF StartRun
  <2>s. starts \in 0 .. MaxStarts
    BY DEF TypeOK
  <2>1. starts' \in 0 .. MaxStarts
    BY <1>0, <2>0, <2>s
  <2>2. recv' \in 0 .. Len(wal) /\ settled' \in 0 .. recv' /\ lastID' \in 0 .. Len(log)
    BY <1>0, <1>f, <2>0
  <2>3. poll' \in {"wait", "off"} /\ run' = "loop" /\ fetched' = {} /\ before' \subseteq executed'
    BY <1>6, Zenon DEF StartRun, TypeOK
  <2>5. triggers' \subseteq Triggers
    <3>1. triggers' = Triggers \/ triggers' \in {triggers, triggers \cup {"ddl_command_end"}}
      BY <1>6, Zenon DEF StartRun
    <3> QED
      BY <3>1 DEF TypeOK, Triggers
  <2>4. UNCHANGED <<catalog, log, wal, targetVars, file, executed, missed, abandoned>>
    BY <1>6 DEF StartRun
  <2> QED
    BY <2>1, <2>2, <2>3, <2>4, <2>5 DEF TypeOK, Ids
<1>7. CASE Tick \/ Shutdown \/ Cancelled \/ RowHalts
  <2>1. file' \in [lsn : 0 .. Len(wal), ddl : 0 .. Len(log)]
    <3>1. [lsn |-> recv, ddl |-> lastID] \in [lsn : 0 .. Len(wal), ddl : 0 .. Len(log)]
      BY DEF TypeOK
    <3> QED
      BY <1>7, <3>1 DEF Tick, Shutdown, Cancelled, RowHalts, Save, TypeOK
  <2>2. run' \in {"down", "loop", "ending", "cancelled"}
    BY <1>7 DEF Tick, Shutdown, Cancelled, RowHalts, TypeOK
  <2>3. UNCHANGED <<sourceVars, targetVars, pollVars, streamVars, starts, historyVars>>
    BY <1>7 DEF Tick, Shutdown, Cancelled, RowHalts
  <2> QED
    BY <2>1, <2>2, <2>3 DEF TypeOK, Ids
<1>8. CASE Exit \/ Crash
  <2>1. settled + 1 .. file.lsn \subseteq 1 .. Len(wal)
    BY <1>0, <1>f DEF TypeOK
  <2>2. /\ run' = "down" /\ poll' = "off" /\ fetched' = {} /\ lastID' = 0 /\ recv' = 0 /\ settled' = 0
        /\ abandoned' = abandoned \cup settled + 1 .. file.lsn
        /\ UNCHANGED <<catalog, log, wal, targetVars, file, starts, executed, before, missed>>
    BY <1>8 DEF Exit, Crash, Ends
  <2>3. triggers' \subseteq Triggers
    BY <1>8 DEF Exit, Crash, TypeOK
  <2>4. abandoned' \subseteq 1 .. Len(wal)
    BY <2>1, <2>2 DEF TypeOK
  <2>5. lastID' \in 0 .. Len(log) /\ recv' \in 0 .. Len(wal) /\ settled' \in 0 .. recv'
    BY <1>0, <2>2
  <2> QED
    BY <2>2, <2>3, <2>4, <2>5 DEF TypeOK, Ids
<1>9. CASE PollFetches
  <2>1. fetched' \subseteq Ids
    BY <1>9 DEF PollFetches, NewDDL
  <2> QED
    BY <1>9, <2>1 DEF PollFetches, TypeOK, Ids
<1>10. ASSUME NEW i \in fetched, PollSkips(i) \/ PollRecords(i) PROVE TypeOK'
  <2>1. i \in 0 .. Len(log)
    BY <1>0 DEF TypeOK, Ids
  <2> QED
    BY <1>10, <2>1 DEF PollSkips, PollRecords, Records, TypeOK, Ids
<1>11. ASSUME NEW i \in fetched, PollExecutes(i) PROVE TypeOK'
  <2>1. i \in Ids /\ log[i].stmt \in Statement /\ log[i].stmt.table \in Tables
    BY <1>0 DEF TypeOK
  <2> DEFINE s == log[i].stmt
  <2>2. Result(s, schema[s.table]) \in SUBSET ({Key} \cup Columns)
    BY <2>1, ResultType DEF TypeOK
  <2>3. schema' \in [Tables -> SUBSET ({Key} \cup Columns)]
    BY <1>11, <2>1, <2>2 DEF PollExecutes, Effect, TypeOK
  <2>4. rows' \in [Tables -> SUBSET (1 .. Len(wal))]
    BY <1>11 DEF PollExecutes, Effect, TypeOK
  <2> QED
    BY <1>11, <2>1, <2>3, <2>4 DEF PollExecutes, TypeOK, Ids
<1>12. ASSUME NEW i \in fetched, PollHalts(i) PROVE TypeOK'
  BY <1>12 DEF PollHalts, TypeOK, Ids
<1>13. CASE Receive
  BY <1>0, <1>13 DEF Receive, TypeOK, Ids
<1>14. CASE RowApplies
  <2>1. settled + 1 \in 1 .. Len(wal) /\ settled + 1 \in 0 .. recv
    BY <1>0, <1>14 DEF RowApplies, Pending, TypeOK
  <2>2. rows' \in [Tables -> SUBSET (1 .. Len(wal))]
    BY <1>14, <2>1 DEF RowApplies, TypeOK
  <2> QED
    BY <1>14, <2>1, <2>2 DEF RowApplies, TypeOK, Ids
<1>15. CASE RowFails
  <2>1. settled + 1 \in 0 .. recv
    BY <1>0, <1>15 DEF RowFails, Pending, TypeOK
  <2> QED
    BY <1>15, <2>1 DEF RowFails, TypeOK, Ids
<1>16. CASE UNCHANGED vars
  BY <1>16 DEF TypeOK, Ids
<1> QED
  BY <1>1, <1>2, <1>3, <1>4, <1>5, <1>6, <1>7, <1>8, <1>9, <1>10, <1>11, <1>12, <1>13, <1>14, <1>15, <1>16
     DEF Next, Source, Runner, Poller, Applier

\* Every variable keeps its type; the positions stay within the logs.
THEOREM TypeCorrect == Spec => []TypeOK
  BY TypeInit, TypeStep, PTL DEF Spec

---------------------------------------------------------------------------
\* Nothing is skipped.

\* Open transactions have the last ids and one table: they do not overlap.
OpenLast ==
  \A i, j \in Ids : log[i].state = "open" =>
    /\ Committed(j) => j < i
    /\ log[j].state = "open" => log[j].stmt.table = log[i].stmt.table

\* A recorded id is a committed one.
Recorded(id) == id = 0 \/ (id \in Ids /\ Committed(id))

\* What has been read starts after lastID and has no gap.
NoGap ==
  \A j \in fetched :
    /\ lastID < j /\ Committed(j)
    /\ \A i \in Ids : Committed(i) /\ lastID < i /\ i < j => i \in fetched

\* What is about to be recorded was executed.
Done == poll = "record" => \A i \in fetched : IsNext(i) => i \in executed

Settled(id) == \A i \in Ids : Committed(i) /\ Applies(i) /\ i <= id => i \in executed

DDLInv ==
  /\ TypeOK /\ OpenLast /\ Recorded(lastID) /\ Recorded(file.ddl) /\ NoGap /\ Done
  /\ Settled(lastID) /\ Settled(file.ddl)

LEMMA InvInit == Init => DDLInv
<1> SUFFICES ASSUME Init PROVE DDLInv
  OBVIOUS
<1>1. TypeOK
  BY TypeInit
<1>2. Ids = {}
  BY DEF Init, Ids
<1>3. lastID = 0 /\ file.ddl = 0 /\ fetched = {} /\ poll = "off"
  BY DEF Init
<1> QED
  BY <1>1, <1>2, <1>3 DEF DDLInv, OpenLast, Recorded, NoGap, Done, Settled

\* A step that leaves the log alone and takes nothing back.
LEMMA Kept ==
  ASSUME DDLInv, TypeOK', log' = log, executed \subseteq executed',
         Recorded(lastID)', Recorded(file.ddl)', NoGap', Done', Settled(lastID)', Settled(file.ddl)'
  PROVE  DDLInv'
<1>1. OpenLast'
  BY DEF DDLInv, OpenLast, Ids, Committed
<1> QED
  BY <1>1 DEF DDLInv

\* A step that leaves the poller, the file and the log alone.
LEMMA Elsewhere ==
  ASSUME DDLInv, TypeOK', UNCHANGED <<log, executed, pollVars>>, file'.ddl = file.ddl
  PROVE  DDLInv'
  BY DEF DDLInv, OpenLast, Recorded, NoGap, Done, Settled, Ids, Committed, Applies, IsNext

\* The recorded ids, and those that were read, were committed before, so that
\* what a step commits is after them all.
LEMMA CommitAfter ==
  ASSUME DDLInv, NEW i \in Ids, log[i].state = "open"
  PROVE  lastID < i /\ file.ddl < i /\ \A j \in fetched : j < i
<1>1. i \in Nat /\ i > 0
  BY DEF Ids
<1>2. \A j \in Ids : Committed(j) => j < i
  BY DEF DDLInv, OpenLast
<1>3. \A j \in fetched : j \in Ids /\ Committed(j)
  BY DEF DDLInv, NoGap, TypeOK
<1> QED
  BY <1>1, <1>2, <1>3 DEF DDLInv, Recorded

\* The log may change as long as nothing is committed that was not open, and
\* nothing committed is changed.
LEMMA LogChanges ==
  ASSUME DDLInv, TypeOK', OpenLast', UNCHANGED <<executed, pollVars, file>>, Ids \subseteq Ids',
         \A i \in Ids : Committed(i) => Committed(i)',
         \A i \in Ids : Applies(i)' = Applies(i),
         \A i \in Ids' : Committed(i)' => i \in Ids /\ (Committed(i) \/ log[i].state = "open")
  PROVE  DDLInv'
<1>1. \A i \in Ids' : Committed(i)' /\ (i <= lastID \/ i <= file.ddl \/ \E j \in fetched : i < j)
        => i \in Ids /\ Committed(i)
  <2> SUFFICES ASSUME NEW i \in Ids', Committed(i)', ~Committed(i),
                      i <= lastID \/ i <= file.ddl \/ \E j \in fetched : i < j
               PROVE  FALSE
    OBVIOUS
  <2>1. i \in Ids /\ log[i].state = "open"
    OBVIOUS
  <2>2. lastID < i /\ file.ddl < i /\ \A j \in fetched : j < i
    BY <2>1, CommitAfter
  <2>3. i \in Int /\ lastID \in Int /\ file.ddl \in Int /\ fetched \subseteq Int
    BY <2>1 DEF DDLInv, TypeOK, Ids
  <2>4. ~(i <= lastID) /\ ~(i <= file.ddl)
    BY <2>2, <2>3
  <2>5. ~ \E j \in fetched : i < j
    BY <2>2, <2>3
  <2> QED
    BY <2>4, <2>5, Zenon
<1>2. Recorded(lastID)' /\ Recorded(file.ddl)'
  BY DEF DDLInv, Recorded
<1>3. NoGap'
  <2>1. fetched \subseteq Ids
    BY DEF DDLInv, TypeOK
  <2> QED
    BY <1>1, <2>1 DEF DDLInv, NoGap
<1>4. Done'
  BY DEF DDLInv, Done, IsNext
<1>5. Settled(lastID)' /\ Settled(file.ddl)'
  BY <1>1 DEF DDLInv, Settled
<1> QED
  BY <1>2, <1>3, <1>4, <1>5 DEF DDLInv

LEMMA InvStep == "overlap" \notin Occurs /\ DDLInv /\ [Next]_vars => DDLInv'
<1> SUFFICES ASSUME "overlap" \notin Occurs, DDLInv, [Next]_vars PROVE DDLInv'
  OBVIOUS
<1>t. TypeOK /\ TypeOK'
  BY TypeStep DEF DDLInv
<1>l. log \in Seq(LogEntry) /\ Len(log) \in Nat
  BY <1>t DEF TypeOK
<1>n. Ids \subseteq Nat /\ fetched \subseteq Ids /\ lastID \in Nat /\ file.ddl \in Nat
  <2>1. lastID \in 0 .. Len(log) /\ file.ddl \in 0 .. Len(log) /\ fetched \subseteq Ids
    BY <1>t DEF TypeOK
  <2>2. Ids \subseteq Nat
    BY <1>l DEF Ids
  <2> QED
    BY <1>l, <2>1, <2>2
<1>1. ASSUME NEW s \in Statement, DDLExecutes(s) PROVE DDLInv'
  <2>1. /\ Ids \subseteq Ids' /\ \A i \in Ids : log'[i] = log[i]
        /\ \A i \in Ids' \ Ids : Len(log) < i /\ log'[i].state = "open" /\ log'[i].stmt.table = s.table
    BY <1>1, <1>l, LogGrows DEF DDLExecutes
  <2>2. \A i \in Ids : log[i].state # "open"
    BY <1>1 DEF DDLExecutes, Alone, OpenIds
  <2>3. OpenLast'
    <3> SUFFICES ASSUME NEW i \in Ids', NEW j \in Ids', log'[i].state = "open"
                 PROVE  /\ log'[j].state = "committed" => j < i
                        /\ log'[j].state = "open" => log'[j].stmt.table = log'[i].stmt.table
      BY DEF OpenLast, Committed
    <3>1. i \notin Ids
      BY <2>1, <2>2
    <3>2. CASE j \in Ids
      <4>1. j <= Len(log) /\ Len(log) < i /\ j \in Nat /\ i \in Nat
        BY <1>l, <2>1, <3>1, <3>2 DEF Ids
      <4> QED
        BY <1>l, <2>1, <2>2, <3>2, <4>1
    <3>3. CASE j \notin Ids
      BY <2>1, <3>1, <3>3
    <3> QED
      BY <3>2, <3>3
  <2>4. \A i \in Ids : Committed(i) => Committed(i)'
    BY <2>1 DEF Committed
  <2>5. \A i \in Ids : Applies(i)' = Applies(i)
    BY <2>1 DEF Applies
  <2>6. \A i \in Ids' : Committed(i)' => i \in Ids /\ (Committed(i) \/ log[i].state = "open")
    BY <2>1 DEF Committed
  <2> QED
    BY <1>t, <1>1, <2>1, <2>3, <2>4, <2>5, <2>6, LogChanges DEF DDLExecutes
<1>2. ASSUME NEW s \in Statement, DDLMissed(s) PROVE DDLInv'
  BY <1>t, <1>2, Elsewhere DEF DDLMissed
<1>3. ASSUME NEW t \in Tables, NEW state \in {"committed", "aborted"}, log' = Closed(t, state),
             UNCHANGED <<executed, pollVars, file>>, Locked(t)
      PROVE  DDLInv'
  <2>1. /\ Ids' = Ids
        /\ \A i \in Ids : /\ log'[i].stmt = log[i].stmt /\ log'[i].object = log[i].object
                          /\ log'[i].state = IF log[i].state = "open" /\ log[i].stmt.table = t
                                             THEN state ELSE log[i].state
    BY <1>3, <1>l, LogCloses
  <2>2. \A i \in Ids : log[i].state = "open" => log[i].stmt.table = t
    BY <1>3 DEF Locked, OpenIds, DDLInv, OpenLast
  <2>3. \A i \in Ids : log'[i].state # "open"
    BY <2>1, <2>2
  <2>4. OpenLast'
    BY <2>1, <2>3 DEF OpenLast
  <2>5. \A i \in Ids : Committed(i) => Committed(i)'
    BY <2>1 DEF Committed
  <2>6. \A i \in Ids : Applies(i)' = Applies(i)
    BY <2>1 DEF Applies
  <2>7. \A i \in Ids' : Committed(i)' => i \in Ids /\ (Committed(i) \/ log[i].state = "open")
    BY <2>1 DEF Committed
  <2> QED
    BY <1>t, <1>3, <2>1, <2>4, <2>5, <2>6, <2>7, LogChanges
<1>4. ASSUME NEW t \in Tables, DDLCommits(t) \/ DDLRollsBack(t) PROVE DDLInv'
  <2>1. Locked(t) /\ UNCHANGED <<executed, pollVars, file>>
    BY <1>4 DEF DDLCommits, DDLRollsBack, Locked
  <2>2. \E state \in {"committed", "aborted"} : log' = Closed(t, state)
    BY <1>4 DEF DDLCommits, DDLRollsBack
  <2> QED
    BY <1>3, <2>1, <2>2
<1>5. ASSUME NEW t \in Tables, Insert(t) PROVE DDLInv'
  BY <1>t, <1>5, Elsewhere DEF Insert
<1>6. CASE StartRun
  <2>1. /\ lastID' = file.ddl /\ fetched' = {} /\ poll' \in {"wait", "off"}
        /\ UNCHANGED <<log, file, executed>>
    BY <1>6, Zenon DEF StartRun
  <2>2. Recorded(lastID)' /\ Recorded(file.ddl)' /\ Settled(lastID)' /\ Settled(file.ddl)'
    BY <2>1 DEF DDLInv, Recorded, Settled, Ids, Committed, Applies
  <2>3. NoGap' /\ Done'
    BY <2>1 DEF NoGap, Done
  <2> QED
    BY <1>t, <2>1, <2>2, <2>3, Kept
<1>7. CASE Tick \/ Shutdown \/ RowHalts
  <2>1. file'.ddl = lastID /\ UNCHANGED <<log, executed, pollVars>>
    BY <1>7 DEF Tick, Shutdown, RowHalts, Save
  <2>2. Recorded(lastID)' /\ Recorded(file.ddl)' /\ Settled(lastID)' /\ Settled(file.ddl)'
    BY <2>1 DEF DDLInv, Recorded, Settled, Ids, Committed, Applies
  <2>3. NoGap' /\ Done'
    BY <2>1 DEF DDLInv, NoGap, Done, Ids, Committed, IsNext
  <2> QED
    BY <1>t, <2>1, <2>2, <2>3, Kept
<1>8. CASE Cancelled \/ Receive \/ RowApplies \/ RowFails
  BY <1>t, <1>8, Elsewhere DEF Cancelled, Receive, RowApplies, RowFails
<1>9. CASE Exit \/ Crash
  <2>1. lastID' = 0 /\ fetched' = {} /\ poll' = "off" /\ UNCHANGED <<log, file, executed>>
    BY <1>9 DEF Exit, Crash, Ends
  <2>2. Recorded(lastID)' /\ Recorded(file.ddl)' /\ Settled(file.ddl)'
    BY <2>1 DEF DDLInv, Recorded, Settled, Ids, Committed, Applies
  <2>3. Settled(lastID)'
    BY <1>l, <2>1 DEF Settled, Ids
  <2>4. NoGap' /\ Done'
    BY <2>1 DEF NoGap, Done
  <2> QED
    BY <1>t, <2>1, <2>2, <2>3, <2>4, Kept
<1>10. CASE PollFetches
  <2>1. /\ poll' = "apply" /\ UNCHANGED <<log, file, executed, lastID>>
    BY <1>10 DEF PollFetches
  <2>2. PICK n \in 0 .. Len(log) : fetched' = {i \in Ids : lastID < i /\ i <= n /\ Committed(i)}
    BY <1>10 DEF PollFetches, NewDDL
  <2>3. NoGap'
    <3>1. \A j \in fetched' : j \in Ids /\ lastID < j /\ j <= n /\ Committed(j)
      BY <2>2
    <3>2. \A j \in fetched' : \A i \in Ids : Committed(i) /\ lastID < i /\ i < j => i \in fetched'
      <4> SUFFICES ASSUME NEW j \in fetched', NEW i \in Ids, Committed(i), lastID < i, i < j
                   PROVE  i \in fetched'
        OBVIOUS
      <4>1. i \in Nat /\ n \in Nat /\ Len(log) \in Nat
        BY <1>n
      <4>2. j \in Nat /\ j <= n
        BY <1>n, <3>1
      <4>3. i <= n
        BY <4>1, <4>2
      <4> QED
        BY <2>2, <4>3
    <3> QED
      BY <2>1, <3>1, <3>2 DEF NoGap, Ids, Committed
  <2>4. Done'
    BY <2>1 DEF Done
  <2>5. Recorded(lastID)' /\ Recorded(file.ddl)' /\ Settled(lastID)' /\ Settled(file.ddl)'
    BY <2>1 DEF DDLInv, Recorded, Settled, Ids, Committed, Applies
  <2> QED
    BY <1>t, <2>1, <2>3, <2>4, <2>5, Kept
<1>11. ASSUME NEW i \in fetched, PollSkips(i) \/ PollRecords(i) PROVE DDLInv'
  <2>1. /\ lastID' = i /\ fetched' = fetched \ {i} /\ poll' \in {"wait", "apply"}
        /\ UNCHANGED <<log, file, executed>>
    BY <1>11 DEF PollSkips, PollRecords, Records
  <2>2. i \in Ids /\ Committed(i) /\ lastID < i /\ \A j \in fetched : i <= j
    BY <1>11, <1>n DEF PollSkips, PollRecords, IsNext, DDLInv, NoGap
  <2>3. Applies(i) => i \in executed
    BY <1>11 DEF PollSkips, PollRecords, Polls, DDLInv, Done
  <2>4. Settled(lastID)'
    <3> SUFFICES ASSUME NEW k \in Ids, Committed(k), Applies(k), k <= i PROVE k \in executed
      BY <2>1 DEF Settled, Ids, Committed, Applies
    <3>1. CASE k <= lastID
      BY <3>1 DEF DDLInv, Settled
    <3>2. CASE k = i
      BY <2>3, <3>2
    <3>3. ~(lastID < k /\ k < i)
      BY <1>n, <2>2 DEF DDLInv, NoGap
    <3> QED
      BY <1>n, <2>2, <3>1, <3>2, <3>3
  <2>5. NoGap'
    <3>1. \A j \in fetched \ {i} : i < j /\ Committed(j) /\ j \in Ids
      BY <1>n, <2>2 DEF DDLInv, NoGap
    <3>2. \A j \in fetched \ {i} : \A k \in Ids : Committed(k) /\ i < k /\ k < j => k \in fetched \ {i}
      <4> SUFFICES ASSUME NEW j \in fetched \ {i}, NEW k \in Ids, Committed(k), i < k, k < j
                   PROVE  k \in fetched \ {i}
        OBVIOUS
      <4>1. lastID < k /\ k # i
        BY <1>n, <2>2
      <4> QED
        BY <4>1 DEF DDLInv, NoGap
    <3> QED
      BY <2>1, <3>1, <3>2 DEF NoGap, Ids, Committed
  <2>6. Recorded(lastID)' /\ Recorded(file.ddl)' /\ Settled(file.ddl)' /\ Done'
    BY <2>1, <2>2 DEF DDLInv, Recorded, Settled, Done, Ids, Committed, Applies
  <2> QED
    BY <1>t, <2>1, <2>4, <2>5, <2>6, Kept
<1>12. ASSUME NEW i \in fetched, PollExecutes(i) PROVE DDLInv'
  <2>1. executed' = executed \cup {i} /\ UNCHANGED <<log, file, fetched, lastID>>
    BY <1>12 DEF PollExecutes
  <2>2. Done'
    <3> SUFFICES ASSUME NEW j \in fetched, IsNext(j) PROVE j \in executed'
      BY <2>1 DEF Done, IsNext
    <3>1. i <= j /\ j <= i
      BY <1>12 DEF PollExecutes, IsNext
    <3>2. i \in Nat /\ j \in Nat
      BY <1>n
    <3>3. i = j
      BY <3>1, <3>2
    <3> QED
      BY <2>1, <3>3
  <2>3. Recorded(lastID)' /\ Recorded(file.ddl)' /\ Settled(lastID)' /\ Settled(file.ddl)'
    BY <2>1 DEF DDLInv, Recorded, Settled, Ids, Committed, Applies
  <2>4. NoGap'
    BY <2>1 DEF DDLInv, NoGap, Ids, Committed
  <2> QED
    BY <1>t, <2>1, <2>2, <2>3, <2>4, Kept
<1>13. ASSUME NEW i \in fetched, PollHalts(i) PROVE DDLInv'
  <2>1. poll' = "halted" /\ UNCHANGED <<log, file, executed, fetched, lastID>>
    BY <1>13 DEF PollHalts
  <2> QED
    BY <1>t, <2>1, Kept DEF DDLInv, Recorded, NoGap, Done, Settled, Ids, Committed, Applies
<1>14. CASE UNCHANGED vars
  BY <1>t, <1>14, Elsewhere
<1> QED
  BY <1>1, <1>2, <1>4, <1>5, <1>6, <1>7, <1>8, <1>9, <1>10, <1>11, <1>12, <1>13, <1>14
     DEF Next, Source, Runner, Poller, Applier

\* Whatever is skipped, read in part, replayed or lost in a crash: a statement on
\* a table that the checkpoint is past was executed on TiDB, if transactions with
\* DDL do not overlap (FetchNewDDL, runDDLPoller).
THEOREM NoneSkipped == "overlap" \notin Occurs => (Spec => []NothingSkipped)
<1> SUFFICES ASSUME "overlap" \notin Occurs PROVE Spec => []NothingSkipped
  OBVIOUS
<1>1. DDLInv => NothingSkipped
  BY DEF DDLInv, Settled, NothingSkipped
<1>2. DDLInv /\ [Next]_vars => DDLInv'
  BY InvStep
<1> QED
  BY <1>1, <1>2, InvInit, PTL DEF Spec

---------------------------------------------------------------------------
\* The schema follows, and the rows arrive.

\* Entry i of the log L is a committed statement on table t that TiDB gets.
Of(L, i, t)    == L[i].state = "committed" /\ L[i].object = "table" /\ L[i].stmt.table = t
Drops(L, i, t) == Of(L, i, t) /\ L[i].stmt.op = "drop"

PossibleAt(s, def) ==
  \/ s.op = "create" /\ def = Absent
  \/ s.op = "add" /\ def # Absent /\ s.cols # {} /\ s.cols \cap def = {}
  \/ s.op = "drop" /\ def # Absent

\* h[n] is the table as the statements up to id n made it, def what it is now.
History(L, h, t, def) ==
  /\ h[Len(L)] = def
  /\ \A i \in 1 .. Len(L) : Of(L, i, t) =>
       PossibleAt(L[i].stmt, h[i - 1]) /\ h[i] = Result(L[i].stmt, h[i - 1])
  /\ \A i, j \in 0 .. Len(L) : i <= j =>
       /\ (\A k \in i + 1 .. j : ~Of(L, k, t)) => h[i] = h[j]
       /\ (\A k \in i + 1 .. j : ~Drops(L, k, t)) => h[i] \subseteq h[j]

\* The table is that of id p, or that of a later one, up to which X has all the
\* statements: replaying them gets there, or is stopped by an ADD.  Or one of them
\* is a DROP, which removes whatever the replay makes of the table.
Near(L, h, t, def, p, X) ==
  \E e \in p .. Len(L) :
    /\ \A i \in p + 1 .. e : Of(L, i, t) => i \in X
    /\ def = h[e] \/ \E d \in p + 1 .. e : Drops(L, d, t)

\* A process starts from the file's id, with what was executed before it; then it
\* is where it has recorded, or one statement further.
Placed(h, t) ==
  /\ Near(log, h, t, schema[t], file.ddl, executed)
  /\ run # "down" =>
       /\ poll # "record" => Near(log, h, t, schema[t], lastID, before)
       /\ poll = "record" => \A i \in fetched : IsNext(i) => Near(log, h, t, schema[t], i, before)

Follows(h, t) == History(log, h, t, catalog[t]) /\ Placed(h, t)

OpenOnce ==
  /\ \A i \in OpenIds : /\ PossibleAt(log[i].stmt, catalog[log[i].stmt.table])
                        /\ \E j \in OpenIds : Applies(j) /\ log[j].stmt = log[i].stmt
  /\ \A i, j \in OpenIds : Applies(i) /\ Applies(j) => i = j

SchemaInv ==
  /\ OpenOnce
  /\ poll = "record" => \E i \in fetched : IsNext(i)
  /\ run # "down" => file.ddl <= lastID
  /\ \A t \in Tables \ missed : \E h : Follows(h, t)

\* A table that is only created is created once, and neither its rows nor TiDB know
\* another form of it.
Alike(t) ==
  /\ schema[t] \in {Absent, catalog[t]}
  /\ \A i \in Ids : Committed(i) /\ log[i].stmt.table = t => catalog[t] = Result(log[i].stmt, Absent)
  /\ \A r \in 1 .. Len(wal) : wal[r].table = t => wal[r].cols = catalog[t] /\ catalog[t] # Absent

\* The rows up to n that were not given up are there.
Arrived(t, n) == \A r \in (1 .. n) \ abandoned : wal[r].table = t => r \in rows[t]

OpenPossible ==
  \A i \in OpenIds :
    /\ PossibleAt(log[i].stmt, catalog[log[i].stmt.table])
    /\ \A j \in OpenIds : log[j].stmt.table = log[i].stmt.table => log[j].stmt = log[i].stmt

RowsOf(t) == Alike(t) /\ Arrived(t, settled) /\ (run = "down" => Arrived(t, file.lsn))

RowInv ==
  /\ OpenPossible
  /\ \A i \in fetched : Committed(i)
  /\ \A t \in Tables : OnlyCreated(t) => RowsOf(t)

\* What the types say of the entries of the log.
LEMMA LogFacts ==
  ASSUME TypeOK
  PROVE  /\ log \in Seq(LogEntry) /\ Len(log) \in Nat /\ Len(wal) \in Nat /\ wal \in Seq(Row)
         /\ \A i \in Ids : /\ log[i].stmt \in Statement /\ log[i].stmt.table \in Tables
                           /\ log[i].stmt.op \in {"create", "add", "drop"}
                           /\ i \in Nat /\ i - 1 \in 0 .. Len(log) /\ i \in 0 .. Len(log)
         /\ fetched \subseteq Ids /\ DOMAIN catalog = Tables /\ DOMAIN schema = Tables
         /\ DOMAIN rows = Tables
         /\ settled \in Nat /\ file.lsn \in 0 .. Len(wal) /\ settled \in 0 .. recv /\ recv \in 0 .. Len(wal)
<1>1. /\ log \in Seq(LogEntry) /\ wal \in Seq(Row)
      /\ fetched \subseteq Ids /\ DOMAIN catalog = Tables /\ DOMAIN schema = Tables /\ DOMAIN rows = Tables
      /\ file.lsn \in 0 .. Len(wal) /\ settled \in 0 .. recv /\ recv \in 0 .. Len(wal)
  BY DEF TypeOK
<1>2. Len(log) \in Nat /\ Len(wal) \in Nat
  BY <1>1
<1>3. \A i \in Ids : log[i] \in LogEntry
  BY <1>1 DEF Ids
<1>4. \A i \in Ids : /\ log[i].stmt \in Statement /\ log[i].stmt.table \in Tables
                     /\ log[i].stmt.op \in {"create", "add", "drop"}
  BY <1>3 DEF LogEntry, Statement
<1>5. \A i \in Ids : i \in Nat /\ i - 1 \in 0 .. Len(log) /\ i \in 0 .. Len(log)
  BY <1>2 DEF Ids
<1> QED
  BY <1>1, <1>2, <1>4, <1>5

LEMMA PossibleIs ==
  ASSUME NEW s \in Statement, Possible(s)
  PROVE  PossibleAt(s, catalog[s.table])
<1>1. Cardinality(s.cols) = 1 => s.cols # {}
  BY FS_EmptySet
<1> QED
  BY <1>1 DEF Possible, PossibleAt

LEMMA RowInit == Init => RowInv
<1> SUFFICES ASSUME Init PROVE RowInv
  OBVIOUS
<1>1. Ids = {} /\ OpenIds = {} /\ fetched = {}
  BY DEF Init, Ids, OpenIds
<1>2. Len(wal) = 0 /\ settled = 0 /\ file.lsn = 0 /\ schema = catalog
  BY DEF Init
<1> QED
  BY <1>1, <1>2 DEF RowInv, RowsOf, OpenPossible, Alike, Arrived

\* A step that leaves the log, the source and TiDB alone.
LEMMA RowFrame ==
  ASSUME RowInv, UNCHANGED <<log, catalog, missed, wal, targetVars>>,
         \A i \in fetched' : i \in fetched \/ Committed(i),
         \A t \in Tables : OnlyCreated(t) /\ RowsOf(t) =>
           Arrived(t, settled)' /\ (run' = "down" => Arrived(t, file.lsn)')
  PROVE  RowInv'
  BY DEF RowInv, RowsOf, OpenPossible, OpenIds, Ids, Committed, Alike, OnlyCreated

\* A step that leaves the stream alone.
LEMMA StreamFrame ==
  ASSUME UNCHANGED <<settled, run, abandoned, rows>>, file'.lsn = file.lsn,
         NEW t, RowsOf(t), \A r \in 1 .. settled : wal'[r] = wal[r],
         \A r \in 1 .. file.lsn : wal'[r] = wal[r]
  PROVE  Arrived(t, settled)' /\ (run' = "down" => Arrived(t, file.lsn)')
  BY DEF RowsOf, Arrived

LEMMA RowStep == TypeOK /\ RowInv /\ [Next]_vars => RowInv'
<1> SUFFICES ASSUME TypeOK, RowInv, [Next]_vars PROVE RowInv'
  OBVIOUS
<1>0. TypeOK'
  BY TypeStep
<1>t. /\ log \in Seq(LogEntry) /\ Len(log) \in Nat /\ Len(wal) \in Nat /\ wal \in Seq(Row)
      /\ \A i \in Ids : /\ log[i].stmt \in Statement /\ log[i].stmt.table \in Tables
                        /\ log[i].stmt.op \in {"create", "add", "drop"}
      /\ fetched \subseteq Ids /\ DOMAIN catalog = Tables /\ DOMAIN schema = Tables
      /\ DOMAIN rows = Tables
      /\ settled \in Nat /\ file.lsn \in 0 .. Len(wal) /\ settled \in 0 .. recv /\ recv \in 0 .. Len(wal)
  BY LogFacts
<1>1. ASSUME NEW s \in Statement, DDLExecutes(s) PROVE RowInv'
  <2>1. /\ Ids \subseteq Ids' /\ \A i \in Ids : log'[i] = log[i]
        /\ \A i \in Ids' \ Ids : log'[i].state = "open" /\ log'[i].stmt = s
    BY <1>1, <1>t, LogGrows DEF DDLExecutes
  <2>2. /\ UNCHANGED <<catalog, wal, targetVars, file, run, fetched, streamVars, missed, abandoned>>
        /\ ~Locked(s.table) /\ PossibleAt(s, catalog[s.table])
    BY <1>1, PossibleIs DEF DDLExecutes
  <2>3. OpenIds' = OpenIds \cup (Ids' \ Ids)
    BY <2>1 DEF OpenIds
  <2>4. OpenPossible'
    BY <2>1, <2>2, <2>3 DEF RowInv, OpenPossible, OpenIds, Locked
  <2>5. \A i \in fetched' : Committed(i)'
    BY <1>t, <2>1, <2>2 DEF RowInv, Committed
  <2>6. ASSUME NEW t \in Tables, OnlyCreated(t)' PROVE RowsOf(t)'
    <3>1. OnlyCreated(t)
      BY <2>1, <2>2, <2>6 DEF OnlyCreated
    <3>2. RowsOf(t)
      BY <3>1 DEF RowInv
    <3>3. Alike(t)'
      BY <2>1, <2>2, <3>2 DEF RowsOf, Alike, Committed
    <3> QED
      BY <2>2, <3>2, <3>3, StreamFrame DEF RowsOf
  <2> QED
    BY <2>4, <2>5, <2>6 DEF RowInv
<1>2. ASSUME NEW s \in Statement, DDLMissed(s) PROVE RowInv'
  <2>1. /\ UNCHANGED <<log, wal, targetVars, file, run, fetched, streamVars, abandoned>>
        /\ ~Locked(s.table) /\ missed' = missed \cup {s.table}
        /\ \A t \in Tables : t # s.table => catalog'[t] = catalog[t]
    BY <1>2, <1>t DEF DDLMissed
  <2>2. OpenPossible'
    BY <1>t, <2>1 DEF RowInv, OpenPossible, OpenIds, Ids, Locked
  <2>3. ASSUME NEW t \in Tables, OnlyCreated(t)' PROVE RowsOf(t)'
    <3>1. OnlyCreated(t) /\ t # s.table
      BY <2>1, <2>3 DEF OnlyCreated, Ids
    <3>2. RowsOf(t)
      BY <3>1 DEF RowInv
    <3>3. Alike(t)'
      BY <2>1, <3>1, <3>2 DEF RowsOf, Alike, Committed, Ids
    <3> QED
      BY <2>1, <3>2, <3>3, StreamFrame DEF RowsOf
  <2> QED
    BY <2>1, <2>2, <2>3 DEF RowInv, Committed
<1>3. ASSUME NEW t \in Tables, DDLCommits(t) \/ DDLRollsBack(t) PROVE RowInv'
  <2>1. /\ UNCHANGED <<wal, targetVars, file, run, fetched, streamVars, missed, abandoned>>
        /\ \A u \in Tables : u # t => catalog'[u] = catalog[u]
    BY <1>3, <1>t DEF DDLCommits, DDLRollsBack
  <2>2. /\ Ids' = Ids
        /\ \A i \in Ids : /\ log'[i].stmt = log[i].stmt
                          /\ log'[i].state # log[i].state =>
                               log[i].state = "open" /\ log[i].stmt.table = t
                          /\ log[i].stmt.table = t => log'[i].state # "open"
    <3>1. \E state \in {"committed", "aborted"} : log' = Closed(t, state)
      BY <1>3 DEF DDLCommits, DDLRollsBack
    <3> QED
      BY <1>t, <3>1, LogCloses
  <2>3. OpenPossible'
    BY <1>t, <2>1, <2>2 DEF RowInv, OpenPossible, OpenIds
  <2>4. \A i \in fetched' : Committed(i)'
    BY <1>t, <2>1, <2>2 DEF RowInv, Committed
  <2>5. ASSUME NEW u \in Tables, OnlyCreated(u)' PROVE RowsOf(u)'
    <3>1. OnlyCreated(u)
      BY <2>1, <2>2, <2>5 DEF OnlyCreated
    <3>2. RowsOf(u)
      BY <3>1 DEF RowInv
    <3>3. CASE u # t
      <4>1. Alike(u)'
        BY <2>1, <2>2, <3>2, <3>3 DEF RowsOf, Alike, Committed
      <4> QED
        BY <2>1, <3>2, <4>1, StreamFrame DEF RowsOf
    <3>4. CASE u = t /\ DDLRollsBack(t)
      <4>1. catalog' = catalog /\ \A i \in Ids : Committed(i)' => Committed(i)
        <5>1. log' = Closed(t, "aborted") /\ catalog' = catalog
          BY <3>4 DEF DDLRollsBack
        <5> QED
          BY <1>t, <5>1, LogCloses DEF Committed
      <4>2. Alike(u)'
        BY <2>1, <2>2, <3>2, <4>1 DEF RowsOf, Alike
      <4> QED
        BY <2>1, <3>2, <4>2, StreamFrame DEF RowsOf
    <3>5. CASE u = t /\ DDLCommits(t)
      <4>1. PICK i \in OpenIds : /\ log[i].stmt.table = t
                                 /\ catalog'[t] = Result(log[i].stmt, catalog[t])
        BY <1>t, <3>5 DEF DDLCommits
      <4>2. log[i].stmt.op = "create" /\ catalog[t] = Absent
        BY <3>1, <3>5, <4>1 DEF OnlyCreated, OpenIds, RowInv, OpenPossible, PossibleAt
      <4>3. \A j \in Ids : Committed(j) => log[j].stmt.table # t
        <5> SUFFICES ASSUME NEW j \in Ids, Committed(j), log[j].stmt.table = t PROVE FALSE
          OBVIOUS
        <5>1. log[j].stmt.op = "create" /\ catalog[t] = Result(log[j].stmt, Absent)
          BY <3>1, <3>2, <3>5 DEF OnlyCreated, RowsOf, Alike
        <5> QED
          BY <4>2, <5>1 DEF Result, Absent
      <4>4. \A j \in Ids : Committed(j)' /\ log'[j].stmt.table = t => log[j].stmt = log[i].stmt
        BY <2>2, <4>1, <4>3 DEF Committed, RowInv, OpenPossible, OpenIds
      <4>5. Alike(t)'
        BY <2>1, <2>2, <3>2, <3>5, <4>1, <4>2, <4>4 DEF RowsOf, Alike
      <4> QED
        BY <2>1, <3>2, <3>5, <4>5, StreamFrame DEF RowsOf
    <3> QED
      BY <1>3, <3>3, <3>4, <3>5
  <2> QED
    BY <2>3, <2>4, <2>5 DEF RowInv
<1>4. ASSUME NEW t \in Tables, Insert(t) PROVE RowInv'
  <2>1. /\ UNCHANGED <<log, catalog, targetVars, file, run, fetched, streamVars, missed, abandoned>>
        /\ Len(wal') = Len(wal) + 1 /\ \A r \in 1 .. Len(wal) : wal'[r] = wal[r]
        /\ wal'[Len(wal) + 1] = [table |-> t, cols |-> catalog[t]] /\ catalog[t] # Absent
    BY <1>4, <1>t DEF Insert
  <2>2. ASSUME NEW u \in Tables, OnlyCreated(u)' PROVE RowsOf(u)'
    <3>1. RowsOf(u)
      BY <2>1, <2>2 DEF RowInv, OnlyCreated, Ids
    <3>2. \A r \in 1 .. Len(wal') : r \in 1 .. Len(wal) \/ r = Len(wal) + 1
      BY <1>t, <2>1
    <3>3. Alike(u)'
      BY <2>1, <3>1, <3>2 DEF RowsOf, Alike, Committed, Ids
    <3>4. (\A r \in 1 .. settled : r \in 1 .. Len(wal)) /\ (\A r \in 1 .. file.lsn : r \in 1 .. Len(wal))
      BY <1>t
    <3> QED
      BY <2>1, <3>1, <3>3, <3>4, StreamFrame DEF RowsOf
  <2> QED
    BY <2>1, <2>2 DEF RowInv, OpenPossible, OpenIds, Committed, Ids
<1>5. CASE StartRun
  <2>1. /\ UNCHANGED <<log, catalog, missed, wal, targetVars, abandoned>> /\ fetched' = {}
        /\ run = "down" /\ run' = "loop" /\ settled' = file.lsn
    BY <1>5 DEF StartRun
  <2> QED
    BY <2>1, RowFrame DEF RowsOf, Arrived
<1>6. CASE Tick \/ Shutdown \/ RowHalts \/ Cancelled \/ Receive
  <2>1. /\ UNCHANGED <<log, catalog, missed, wal, targetVars, abandoned, fetched, settled>>
        /\ run' # "down"
    BY <1>6 DEF Tick, Shutdown, RowHalts, Cancelled, Receive, Pending
  <2> QED
    BY <2>1, RowFrame DEF RowsOf, Arrived
<1>7. CASE Exit \/ Crash
  <2>1. /\ UNCHANGED <<log, catalog, missed, wal, targetVars, file>> /\ fetched' = {}
        /\ settled' = 0 /\ abandoned' = abandoned \cup settled + 1 .. file.lsn
    BY <1>7 DEF Exit, Crash, Ends
  <2>2. \A r \in (1 .. file.lsn) \ abandoned' : r \in (1 .. settled) \ abandoned
    BY <1>t, <2>1
  <2> QED
    BY <2>1, <2>2, RowFrame DEF RowsOf, Arrived
<1>8. CASE PollFetches
  <2>1. /\ UNCHANGED <<log, catalog, missed, wal, targetVars, abandoned, settled, run, file>>
        /\ \A i \in fetched' : Committed(i)
    BY <1>8 DEF PollFetches, NewDDL
  <2> QED
    BY <2>1, RowFrame DEF RowsOf, Arrived
<1>9. ASSUME NEW i \in fetched, PollSkips(i) \/ PollRecords(i) \/ PollHalts(i) PROVE RowInv'
  <2>1. /\ UNCHANGED <<log, catalog, missed, wal, targetVars, abandoned, settled, run, file>>
        /\ fetched' \subseteq fetched
    BY <1>9 DEF PollSkips, PollRecords, PollHalts, Records
  <2> QED
    BY <2>1, RowFrame DEF RowsOf, Arrived
<1>10. ASSUME NEW i \in fetched, PollExecutes(i) PROVE RowInv'
  <2> DEFINE s == log[i].stmt
  <2>1. /\ UNCHANGED <<log, catalog, missed, wal, abandoned, settled, run, file, fetched>>
        /\ s.table \in Tables /\ i \in Ids /\ Committed(i)
        /\ Effect(s)
    BY <1>10, <1>t DEF PollExecutes, RowInv
  <2>2. ASSUME NEW t \in Tables, OnlyCreated(t)' PROVE RowsOf(t)'
    <3>1. OnlyCreated(t)
      BY <2>1, <2>2 DEF OnlyCreated, Ids
    <3>2. RowsOf(t)
      BY <3>1 DEF RowInv
    <3>3. rows'[t] = rows[t] /\ schema'[t] \in {schema[t], catalog[t]}
      <4>1. CASE t # s.table
        BY <1>t, <2>1, <4>1 DEF Effect
      <4>2. CASE t = s.table
        <5>1. s.op = "create" /\ catalog[t] = Result(s, Absent)
          BY <2>1, <3>1, <3>2, <4>2 DEF OnlyCreated, RowsOf, Alike
        <5> QED
          BY <1>t, <2>1, <4>2, <5>1 DEF Effect
      <4> QED
        BY <4>1, <4>2
    <3>4. Alike(t)' /\ Arrived(t, settled)' /\ (run' = "down" => Arrived(t, file.lsn)')
      BY <2>1, <3>2, <3>3 DEF RowsOf, Alike, Arrived, Committed, Ids
    <3> QED
      BY <3>4 DEF RowsOf
  <2> QED
    BY <2>1, <2>2 DEF RowInv, OpenPossible, OpenIds, Committed, Ids
<1>11. CASE RowApplies \/ RowFails
  <2>1. /\ UNCHANGED <<log, catalog, missed, wal, schema, abandoned, run, file, fetched>>
        /\ settled' = settled + 1 /\ settled + 1 \in 1 .. Len(wal) /\ run = "loop"
    BY <1>11, <1>t DEF RowApplies, RowFails, Pending
  <2>2. \A t \in Tables : rows[t] \subseteq rows'[t]
    BY <1>11, <1>t DEF RowApplies, RowFails
  <2>3. Event.table \in Tables
    <3>1. Event \in Row
      BY <1>t, <2>1 DEF Event
    <3> QED
      BY <3>1 DEF Row
  <2>4. ASSUME NEW t \in Tables, OnlyCreated(t)' PROVE RowsOf(t)'
    <3>1. RowsOf(t)
      BY <2>1, <2>4 DEF RowInv, OnlyCreated, Ids
    <3>2. Alike(t)'
      BY <2>1, <3>1 DEF RowsOf, Alike, Committed, Ids
    <3>3. t = Event.table => settled + 1 \in rows'[t]
      <4>1. CASE RowApplies
        BY <1>t, <4>1 DEF RowApplies
      <4>2. CASE RowFails /\ t = Event.table
        BY <2>1, <3>1, <4>2 DEF RowFails, Fatal, Target, Event, RowsOf, Alike
      <4> QED
        BY <1>11, <4>1, <4>2
    <3>4. \A r \in 1 .. settled + 1 : r \in 1 .. settled \/ r = settled + 1
      BY <1>t
    <3>5. Arrived(t, settled)'
      BY <2>1, <2>2, <3>1, <3>3, <3>4 DEF RowsOf, Arrived, Event
    <3> QED
      BY <2>1, <3>2, <3>5 DEF RowsOf
  <2> QED
    BY <2>1, <2>4 DEF RowInv, OpenPossible, OpenIds, Committed, Ids
<1>12. CASE UNCHANGED vars
  BY <1>12, RowFrame DEF RowsOf, Arrived
<1> QED
  BY <1>1, <1>2, <1>3, <1>4, <1>5, <1>6, <1>7, <1>8, <1>9, <1>10, <1>11, <1>12
     DEF Next, Source, Runner, Poller, Applier

\* A row of a table that is only created reaches TiDB unless its process ends with
\* it, whatever the poller does, whether transactions overlap and whatever TiDB
\* rejects (applyEvent waits for a missing table).
THEOREM RowsReach == Spec => []RowsArrive
<1>1. TypeOK /\ RowInv => RowsArrive
  <2> SUFFICES ASSUME TypeOK, RowInv, NEW r \in (1 .. settled) \ abandoned, OnlyCreated(wal[r].table)
               PROVE  r \in rows[wal[r].table]
    BY DEF RowsArrive
  <2>1. wal[r] \in Row
    BY LogFacts
  <2>2. RowsOf(wal[r].table)
    BY <2>1 DEF Row, RowInv
  <2> QED
    BY <2>2 DEF RowsOf, Arrived
<1> QED
  BY <1>1, TypeInit, TypeStep, RowInit, RowStep, PTL DEF Spec

---------------------------------------------------------------------------
\* The steps of a replay, for any log.

\* The next id has no statement on the table.
LEMMA Passed ==
  ASSUME NEW L, Len(L) \in Nat, NEW h, NEW t, NEW cat, NEW def, NEW X, History(L, h, t, cat),
         NEW p \in 0 .. Len(L), NEW i \in p .. Len(L), Near(L, h, t, def, p, X),
         \A k \in p + 1 .. i : ~Of(L, k, t)
  PROVE  Near(L, h, t, def, i, X)
<1>1. PICK e \in p .. Len(L) : /\ \A k \in p + 1 .. e : Of(L, k, t) => k \in X
                               /\ def = h[e] \/ \E d \in p + 1 .. e : Drops(L, d, t)
  BY DEF Near
<1>2. CASE i <= e
  <2>1. e \in i .. Len(L) /\ i + 1 .. e \subseteq p + 1 .. e
    BY <1>2
  <2>2. \A d \in p + 1 .. e : Drops(L, d, t) => d \in i + 1 .. e
    BY DEF Drops
  <2> QED
    BY <1>1, <2>1, <2>2 DEF Near
<1>3. CASE e < i
  <2>1. p + 1 .. e \subseteq p + 1 .. i /\ e + 1 .. i \subseteq p + 1 .. i /\ e \in 0 .. Len(L)
    BY <1>3
  <2>2. def = h[e]
    BY <1>1, <2>1 DEF Drops
  <2>3. h[e] = h[i]
    BY <1>3, <2>1 DEF History
  <2>4. i \in i .. Len(L) /\ i + 1 .. i = {}
    OBVIOUS
  <2> QED
    BY <2>2, <2>3, <2>4 DEF Near
<1> QED
  BY <1>2, <1>3

\* Seen from an earlier id, with the statements in between executed.
LEMMA SeenFrom ==
  ASSUME NEW L, Len(L) \in Nat, NEW h, NEW t, NEW def, NEW X, NEW Y, X \subseteq Y,
         NEW i \in 0 .. Len(L), NEW p \in 0 .. i, Near(L, h, t, def, i, X),
         \A k \in p + 1 .. i : Of(L, k, t) => k \in Y
  PROVE  Near(L, h, t, def, p, Y)
<1>1. PICK e \in i .. Len(L) : /\ \A k \in i + 1 .. e : Of(L, k, t) => k \in X
                               /\ def = h[e] \/ \E d \in i + 1 .. e : Drops(L, d, t)
  BY DEF Near
<1>2. /\ e \in p .. Len(L) /\ i + 1 .. e \subseteq p + 1 .. e
      /\ \A k \in p + 1 .. e : k \in p + 1 .. i \/ k \in i + 1 .. e
  OBVIOUS
<1> QED
  BY <1>1, <1>2 DEF Near

\* A statement that was not executed before finds the table as in the source.
LEMMA InSync ==
  ASSUME NEW L, Len(L) \in Nat, NEW h, NEW t, NEW cat, NEW def, NEW X, History(L, h, t, cat),
         NEW p \in 0 .. Len(L), NEW i \in p + 1 .. Len(L), Near(L, h, t, def, p, X),
         \A k \in p + 1 .. i - 1 : ~Of(L, k, t), Of(L, i, t), i \notin X
  PROVE  def = h[i - 1] /\ PossibleAt(L[i].stmt, def)
<1>1. PICK e \in p .. Len(L) : /\ \A k \in p + 1 .. e : Of(L, k, t) => k \in X
                               /\ def = h[e] \/ \E d \in p + 1 .. e : Drops(L, d, t)
  BY DEF Near
<1>2. e < i
  BY <1>1
<1>3. /\ p + 1 .. e \subseteq p + 1 .. i - 1 /\ e + 1 .. i - 1 \subseteq p + 1 .. i - 1
      /\ e \in 0 .. Len(L) /\ i - 1 \in 0 .. Len(L) /\ e <= i - 1 /\ i \in 1 .. Len(L)
  BY <1>2
<1>4. def = h[e]
  BY <1>1, <1>3 DEF Drops
<1>5. h[e] = h[i - 1]
  BY <1>3 DEF History
<1> QED
  BY <1>3, <1>4, <1>5 DEF History

\* What TiDB makes of a statement, as Executable and Effect say.
Takes(s, def)  == s.op = "add" => def # Absent /\ s.cols \cap def = {}
Becomes(s, def) == IF s.op = "create" /\ def # Absent THEN def ELSE Result(s, def)

LEMMA Replayed ==
  ASSUME NEW L, Len(L) \in Nat, NEW h, NEW t, NEW cat, NEW def, NEW X, History(L, h, t, cat),
         NEW p \in 0 .. Len(L), NEW i \in p + 1 .. Len(L), Near(L, h, t, def, p, X),
         \A k \in p + 1 .. i - 1 : ~Of(L, k, t), Of(L, i, t), Takes(L[i].stmt, def),
         L[i].stmt.op \in {"create", "add", "drop"}
  PROVE  Near(L, h, t, Becomes(L[i].stmt, def), i, X)
<1> DEFINE s == L[i].stmt
           r == Becomes(s, def)
<1>0. /\ i \in 1 .. Len(L) /\ i - 1 \in 0 .. Len(L) /\ i \in 0 .. Len(L) /\ i \in i .. Len(L)
      /\ i + 1 .. i = {}
      /\ PossibleAt(s, h[i - 1]) /\ h[i] = Result(s, h[i - 1])
  BY DEF History
<1>e. ASSUME r = h[i] PROVE Near(L, h, t, r, i, X)
  BY <1>0, <1>e DEF Near
<1>1. PICK e \in p .. Len(L) : /\ \A k \in p + 1 .. e : Of(L, k, t) => k \in X
                               /\ def = h[e] \/ \E d \in p + 1 .. e : Drops(L, d, t)
  BY DEF Near
<1>2. CASE s.op = "drop"
  <2>1. r = h[i]
    BY <1>0, <1>2 DEF Becomes, Result
  <2> QED
    BY <1>e, <2>1
<1>3. CASE s.op # "drop" /\ e < i
  <2>1. /\ p + 1 .. e \subseteq p + 1 .. i - 1 /\ e + 1 .. i - 1 \subseteq p + 1 .. i - 1
        /\ e \in 0 .. Len(L) /\ e <= i - 1
    BY <1>3
  <2>2. def = h[e]
    BY <1>1, <2>1 DEF Drops
  <2>3. h[e] = h[i - 1]
    BY <1>0, <2>1 DEF History
  <2>4. r = h[i]
    BY <1>0, <1>3, <2>2, <2>3 DEF Becomes, PossibleAt
  <2> QED
    BY <1>e, <2>4
<1>4. CASE s.op # "drop" /\ i <= e
  <2>1. /\ e \in i .. Len(L) /\ i + 1 .. e \subseteq p + 1 .. e /\ e \in 0 .. Len(L)
        /\ \A d \in p + 1 .. e : d \in p + 1 .. i - 1 \/ d = i \/ d \in i + 1 .. e
    BY <1>4
  <2>2. \A d \in p + 1 .. e : Drops(L, d, t) => d \in i + 1 .. e
    BY <1>4, <2>1 DEF Drops
  <2>3. CASE \E d \in p + 1 .. e : Drops(L, d, t)
    BY <1>1, <2>1, <2>2, <2>3 DEF Near
  <2>4. CASE ~ \E d \in p + 1 .. e : Drops(L, d, t)
    <3>1. def = h[e] /\ h[i] \subseteq h[e]
      BY <1>0, <1>1, <1>4, <2>1, <2>4 DEF History
    <3>2. s.op = "create"
      <4>1. s.op = "add" => s.cols \subseteq h[i] /\ s.cols # {}
        BY <1>0 DEF Result, PossibleAt
      <4> QED
        BY <1>4, <3>1, <4>1 DEF Takes
    <3>3. Key \in h[i]
      BY <1>0, <3>2 DEF Result
    <3>4. r = h[e]
      BY <3>1, <3>2, <3>3 DEF Becomes, Absent
    <3> QED
      BY <1>1, <2>1, <3>4 DEF Near
  <2> QED
    BY <2>3, <2>4
<1> QED
  BY <1>2, <1>3, <1>4

---------------------------------------------------------------------------
\* The log grows and is committed.

\* Entries that TiDB does not get leave everything as it was.
LEMMA SameLog ==
  ASSUME NEW L, NEW M, Len(L) \in Nat, Len(M) = Len(L), NEW t,
         \A i \in 1 .. Len(L) : (Of(M, i, t) <=> Of(L, i, t)) /\ M[i].stmt = L[i].stmt,
         NEW h, NEW cat, History(L, h, t, cat)
  PROVE  /\ History(M, h, t, cat)
         /\ \A p \in 0 .. Len(L) : \A def, X : Near(L, h, t, def, p, X) => Near(M, h, t, def, p, X)
<1>1. \A i \in 1 .. Len(L) : Drops(M, i, t) <=> Drops(L, i, t)
  BY DEF Drops
<1>2. \A p \in 0 .. Len(L) : \A j \in 0 .. Len(L) : p + 1 .. j \subseteq 1 .. Len(L)
  OBVIOUS
<1>3. History(M, h, t, cat)
  <2>1. h[Len(M)] = cat
    BY DEF History
  <2>2. \A i \in 1 .. Len(M) : Of(M, i, t) => PossibleAt(M[i].stmt, h[i - 1]) /\ h[i] = Result(M[i].stmt, h[i - 1])
    BY DEF History
  <2>3. ASSUME NEW i \in 0 .. Len(M), NEW j \in 0 .. Len(M), i <= j
        PROVE  /\ (\A k \in i + 1 .. j : ~Of(M, k, t)) => h[i] = h[j]
               /\ (\A k \in i + 1 .. j : ~Drops(M, k, t)) => h[i] \subseteq h[j]
    <3>1. i + 1 .. j \subseteq 1 .. Len(L)
      BY <1>2
    <3> QED
      BY <1>1, <2>3, <3>1 DEF History
  <2> QED
    BY <2>1, <2>2, <2>3 DEF History
<1>4. ASSUME NEW p \in 0 .. Len(L), NEW def, NEW X, Near(L, h, t, def, p, X)
      PROVE  Near(M, h, t, def, p, X)
  <2>1. PICK e \in p .. Len(L) : /\ \A i \in p + 1 .. e : Of(L, i, t) => i \in X
                                 /\ def = h[e] \/ \E d \in p + 1 .. e : Drops(L, d, t)
    BY <1>4 DEF Near
  <2>2. p + 1 .. e \subseteq 1 .. Len(L)
    BY <1>2
  <2> QED
    BY <1>1, <2>1, <2>2 DEF Near
<1> QED
  BY <1>3, <1>4

LEMMA LongerLog ==
  ASSUME NEW L, NEW M, Len(L) \in Nat, Len(M) \in Nat, Len(L) <= Len(M), NEW t,
         \A i \in 1 .. Len(L) : M[i] = L[i], \A i \in Len(L) + 1 .. Len(M) : ~Of(M, i, t),
         NEW h, NEW cat, History(L, h, t, cat)
  PROVE  \E g : /\ History(M, g, t, cat)
                /\ \A p \in 0 .. Len(L) : \A def, X : Near(L, h, t, def, p, X) => Near(M, g, t, def, p, X)
<1> DEFINE l == Len(L)
           m == Len(M)
           g == [n \in 0 .. m |-> IF n <= l THEN h[n] ELSE h[l]]
<1>0. l \in Nat /\ m \in Nat /\ l <= m /\ l \in 0 .. l
  OBVIOUS
<1>1. \A i \in 1 .. l : (Of(M, i, t) <=> Of(L, i, t)) /\ (Drops(M, i, t) <=> Drops(L, i, t))
  BY DEF Of, Drops
<1>2. (\A n \in 0 .. l : g[n] = h[n]) /\ \A n \in l .. m : g[n] = h[l]
  OBVIOUS
<1> HIDE DEF g
<1>3. History(M, g, t, cat)
  <2>1. g[m] = cat
    BY <1>0, <1>2 DEF History
  <2>2. ASSUME NEW i \in 1 .. m, Of(M, i, t)
        PROVE  PossibleAt(M[i].stmt, g[i - 1]) /\ g[i] = Result(M[i].stmt, g[i - 1])
    <3>1. i \in 1 .. l /\ i - 1 \in 0 .. l /\ i \in 0 .. l
      <4>1. i \notin l + 1 .. m
        BY <2>2
      <4> QED
        BY <4>1, <1>0
    <3> QED
      BY <1>1, <1>2, <2>2, <3>1 DEF History
  <2>3. ASSUME NEW i \in 0 .. m, NEW j \in 0 .. m, i <= j
        PROVE  /\ (\A k \in i + 1 .. j : ~Of(M, k, t)) => g[i] = g[j]
               /\ (\A k \in i + 1 .. j : ~Drops(M, k, t)) => g[i] \subseteq g[j]
    <3>1. CASE j <= l
      <4>1. i \in 0 .. l /\ j \in 0 .. l /\ \A k \in i + 1 .. j : k \in 1 .. l
        BY <1>0, <2>3, <3>1
      <4> QED
        BY <1>1, <1>2, <2>3, <4>1 DEF History
    <3>2. CASE l < j /\ i <= l
      <4>1. i \in 0 .. l /\ j \in l .. m /\ \A k \in i + 1 .. l : k \in 1 .. l /\ k \in i + 1 .. j
        BY <1>0, <2>3, <3>2
      <4>2. g[i] = h[i] /\ g[j] = h[l]
        BY <1>2, <4>1
      <4>3. /\ (\A k \in i + 1 .. l : ~Of(L, k, t)) => h[i] = h[l]
            /\ (\A k \in i + 1 .. l : ~Drops(L, k, t)) => h[i] \subseteq h[l]
        BY <1>0, <3>2, <4>1 DEF History
      <4> QED
        BY <1>1, <4>1, <4>2, <4>3
    <3>3. CASE l < i
      <4>1. i \in l .. m /\ j \in l .. m
        BY <1>0, <2>3, <3>3
      <4> QED
        BY <1>2, <4>1
    <3> QED
      BY <1>0, <3>1, <3>2, <3>3
  <2> QED
    BY <2>1, <2>2, <2>3 DEF History
<1>4. ASSUME NEW p \in 0 .. l, NEW def, NEW X, Near(L, h, t, def, p, X)
      PROVE  Near(M, g, t, def, p, X)
  <2>1. PICK e \in p .. l : /\ \A i \in p + 1 .. e : Of(L, i, t) => i \in X
                            /\ def = h[e] \/ \E d \in p + 1 .. e : Drops(L, d, t)
    BY <1>4 DEF Near
  <2>2. e \in p .. m /\ p + 1 .. e \subseteq 1 .. l /\ g[e] = h[e]
    BY <1>0, <1>2
  <2> QED
    BY <1>1, <2>1, <2>2 DEF Near
<1> QED
  BY <1>3, <1>4

\* A statement is committed after all that were.
LEMMA CommittedLog ==
  ASSUME NEW L, NEW M, Len(L) \in Nat, Len(M) = Len(L), NEW t, NEW c \in 1 .. Len(L),
         \A i \in 1 .. Len(L) : M[i].stmt = L[i].stmt /\ (Of(M, i, t) <=> Of(L, i, t) \/ i = c),
         \A i \in 1 .. Len(L) : Of(L, i, t) => i < c,
         NEW h, NEW cat, History(L, h, t, cat), PossibleAt(L[c].stmt, cat),
         NEW new, new = Result(L[c].stmt, cat)
  PROVE  \E g : /\ History(M, g, t, new)
                /\ \A p \in 0 .. c - 1 : \A def, X : Near(L, h, t, def, p, X) => Near(M, g, t, def, p, X)
<1> DEFINE l == Len(L)
           g == [n \in 0 .. l |-> IF n < c THEN h[n] ELSE new]
<1>0. l \in Nat /\ Len(M) = l /\ c - 1 \in 0 .. l /\ c - 1 <= l /\ c \in Nat /\ c <= l
  OBVIOUS
<1>1. \A i \in 1 .. l : i # c => (Of(M, i, t) <=> Of(L, i, t)) /\ (Drops(M, i, t) <=> Drops(L, i, t))
  BY DEF Drops
<1>2. (\A n \in 0 .. c - 1 : g[n] = h[n]) /\ (\A n \in c .. l : g[n] = new)
  OBVIOUS
<1> HIDE DEF g
<1>3. \A n \in c - 1 .. l : h[n] = cat
  <2> SUFFICES ASSUME NEW n \in c - 1 .. l PROVE h[n] = cat
    OBVIOUS
  <2>1. n \in 0 .. l /\ n <= l /\ l \in 0 .. l /\ \A k \in n + 1 .. l : k \in 1 .. l /\ ~(k < c)
    BY <1>0
  <2> QED
    BY <2>1 DEF History
<1>4. Of(M, c, t) /\ (~Drops(M, c, t) => cat \subseteq new)
  <2>1. Of(M, c, t)
    OBVIOUS
  <2>2. L[c].stmt.op \in {"create", "add", "drop"}
    BY DEF PossibleAt
  <2>3. ~Drops(M, c, t) => L[c].stmt.op # "drop"
    BY <2>1 DEF Drops
  <2>4. L[c].stmt.op # "drop" => cat \subseteq new
    BY <2>2 DEF PossibleAt, Result, Absent
  <2> QED
    BY <2>1, <2>3, <2>4
<1>5. History(M, g, t, new)
  <2>1. g[Len(M)] = new
    BY <1>0, <1>2
  <2>2. ASSUME NEW i \in 1 .. l, Of(M, i, t)
        PROVE  PossibleAt(M[i].stmt, g[i - 1]) /\ g[i] = Result(M[i].stmt, g[i - 1])
    <3>1. CASE i = c
      <4>1. g[i - 1] = cat /\ g[i] = new
        BY <1>0, <1>2, <1>3, <3>1
      <4> QED
        BY <3>1, <4>1
    <3>2. CASE i # c
      <4>1. Of(L, i, t) /\ i < c
        BY <2>2, <3>2
      <4>2. i \in 0 .. c - 1 /\ i - 1 \in 0 .. c - 1
        BY <4>1
      <4> QED
        BY <1>2, <4>1, <4>2 DEF History
    <3> QED
      BY <3>1, <3>2
  <2>3. ASSUME NEW i \in 0 .. l, NEW j \in 0 .. l, i <= j
        PROVE  /\ (\A k \in i + 1 .. j : ~Of(M, k, t)) => g[i] = g[j]
               /\ (\A k \in i + 1 .. j : ~Drops(M, k, t)) => g[i] \subseteq g[j]
    <3>1. CASE j < c
      <4>1. i \in 0 .. c - 1 /\ j \in 0 .. c - 1 /\ \A k \in i + 1 .. j : k \in 1 .. l /\ k # c
        BY <2>3, <3>1
      <4> QED
        BY <1>1, <1>2, <2>3, <4>1 DEF History
    <3>2. CASE c <= j /\ i < c
      <4>1. /\ i \in 0 .. c - 1 /\ j \in c .. l /\ c \in i + 1 .. j /\ i <= c - 1
            /\ \A k \in i + 1 .. c - 1 : k \in 1 .. l /\ k # c /\ k \in i + 1 .. j
        BY <2>3, <3>2
      <4>2. g[i] = h[i] /\ g[j] = new
        BY <1>2, <4>1
      <4>3. (\A k \in i + 1 .. c - 1 : ~Drops(L, k, t)) => h[i] \subseteq h[c - 1]
        BY <1>0, <4>1 DEF History
      <4>4. h[c - 1] = cat
        BY <1>0, <1>3
      <4> QED
        BY <1>1, <1>4, <4>1, <4>2, <4>3, <4>4
    <3>3. CASE c <= i
      <4>1. i \in c .. l /\ j \in c .. l
        BY <2>3, <3>3
      <4> QED
        BY <1>2, <4>1
    <3> QED
      BY <1>0, <3>1, <3>2, <3>3
  <2> QED
    BY <1>0, <2>1, <2>2, <2>3 DEF History
<1>6. ASSUME NEW p \in 0 .. c - 1, NEW def, NEW X, Near(L, h, t, def, p, X)
      PROVE  Near(M, g, t, def, p, X)
  <2>1. PICK e \in p .. l : /\ \A i \in p + 1 .. e : Of(L, i, t) => i \in X
                            /\ def = h[e] \/ \E d \in p + 1 .. e : Drops(L, d, t)
    BY <1>6 DEF Near
  <2> DEFINE q == IF e < c THEN e ELSE c - 1
  <2>2. q \in p .. l /\ q \in 0 .. c - 1 /\ \A k \in p + 1 .. q : k \in p + 1 .. e /\ k \in 1 .. l /\ k # c
    BY <1>0
  <2>3. g[q] = h[e]
    <3>1. CASE e < c
      BY <1>2, <2>2, <3>1
    <3>2. CASE c <= e
      <4>1. e \in c - 1 .. l /\ q = c - 1 /\ c - 1 \in c - 1 .. l
        BY <1>0, <3>2
      <4> QED
        BY <1>2, <1>3, <2>2, <4>1
    <3> QED
      BY <1>0, <3>1, <3>2
  <2>4. \A d \in p + 1 .. e : Drops(L, d, t) => d \in p + 1 .. q /\ Drops(M, d, t)
    <3> SUFFICES ASSUME NEW d \in p + 1 .. e, Drops(L, d, t) PROVE d \in p + 1 .. q /\ Drops(M, d, t)
      OBVIOUS
    <3>1. d \in 1 .. l
      BY <1>0
    <3>2. d < c
      BY <3>1 DEF Drops
    <3> QED
      BY <1>0, <1>1, <3>1, <3>2
  <2> HIDE DEF q
  <2> QED
    BY <1>0, <1>1, <2>1, <2>2, <2>3, <2>4 DEF Near
<1> QED
  BY <1>5, <1>6

---------------------------------------------------------------------------
\* The steps of the processes.

LEMMA SchemaInit == Init => SchemaInv
<1> SUFFICES ASSUME Init PROVE SchemaInv
  OBVIOUS
<1>1. /\ Ids = {} /\ OpenIds = {} /\ Len(log) = 0 /\ poll = "off" /\ run = "down"
      /\ file.ddl = 0 /\ schema = catalog
  BY DEF Init, Ids, OpenIds
<1>2. ASSUME NEW t \in Tables PROVE \E h : Follows(h, t)
  <2> DEFINE h == [n \in 0 .. 0 |-> catalog[t]]
  <2>1. h[0] = catalog[t]
    OBVIOUS
  <2> HIDE DEF h
  <2>2. History(log, h, t, catalog[t])
    BY <1>1, <2>1 DEF History
  <2>3. Near(log, h, t, schema[t], file.ddl, executed)
    <3>1. 0 \in 0 .. Len(log) /\ 0 + 1 .. 0 = {}
      BY <1>1
    <3> QED
      BY <1>1, <2>1, <3>1 DEF Near
  <2> QED
    BY <1>1, <2>2, <2>3 DEF Follows, Placed
<1> QED
  BY <1>1, <1>2 DEF SchemaInv, OpenOnce

\* A step that leaves the log and the source alone.
LEMMA SchemaFrame ==
  ASSUME SchemaInv, UNCHANGED <<log, catalog, missed>>,
         poll' = "record" => \E i \in fetched' : IsNext(i)',
         run' # "down" => file'.ddl <= lastID',
         \A t \in Tables \ missed : \A h : Follows(h, t) => Placed(h, t)'
  PROVE  SchemaInv'
<1>1. OpenOnce'
  BY DEF SchemaInv, OpenOnce, OpenIds, Ids, Applies
<1>2. ASSUME NEW t \in Tables \ missed PROVE \E h : Follows(h, t)'
  <2>1. PICK h : Follows(h, t)
    BY DEF SchemaInv
  <2>2. Placed(h, t)'
    BY <2>1
  <2> QED
    BY <2>1, <2>2 DEF Follows
<1> QED
  BY <1>1, <1>2 DEF SchemaInv

\* A step that leaves TiDB, the file and the poller alone.
LEMMA PlacedFrame ==
  ASSUME UNCHANGED <<schema, file, executed, run, poll, fetched, lastID, before>>,
         NEW t, NEW h, Placed(h, t), NEW g,
         Near(log, h, t, schema[t], file.ddl, executed) =>
           Near(log', g, t, schema[t], file.ddl, executed),
         run # "down" /\ Near(log, h, t, schema[t], lastID, before) =>
           Near(log', g, t, schema[t], lastID, before),
         \A i \in fetched : Near(log, h, t, schema[t], i, before) =>
           Near(log', g, t, schema[t], i, before)
  PROVE  Placed(g, t)'
  BY DEF Placed, IsNext

\* What is between lastID and the next id has no committed statement.
LEMMA NoneBetween ==
  ASSUME DDLInv, NEW i \in fetched, IsNext(i), NEW t
  PROVE  /\ i \in lastID + 1 .. Len(log) /\ lastID \in 0 .. Len(log) /\ i \in Ids
         /\ \A k \in lastID + 1 .. i - 1 : ~Of(log, k, t)
<1>1. TypeOK
  BY DEF DDLInv
<1>2. Len(log) \in Nat /\ lastID \in 0 .. Len(log) /\ fetched \subseteq Ids
  BY <1>1, LogFacts DEF TypeOK
<1>3. i \in Ids /\ lastID < i
  BY <1>2 DEF DDLInv, NoGap
<1>4. ASSUME NEW k \in lastID + 1 .. i - 1, Of(log, k, t) PROVE FALSE
  <2>1. k \in Ids /\ lastID < k /\ k < i
    BY <1>2, <1>3 DEF Ids
  <2>2. k \in fetched
    BY <1>4, <2>1 DEF DDLInv, NoGap, Of, Committed
  <2>3. i <= k /\ i \in Nat /\ k \in Nat
    BY <1>2, <1>3, <2>1, <2>2 DEF IsNext, Ids
  <2> QED
    BY <2>1, <2>3
<1> QED
  BY <1>2, <1>3, <1>4 DEF Ids

LEMMA SchemaExecutes ==
  ASSUME DDLInv, SchemaInv, NEW s \in Statement, DDLExecutes(s)
  PROVE  \A t \in Tables \ missed : \E g : History(log', g, t, catalog[t]) /\ Placed(g, t)'
<1>t. TypeOK
  BY DEF DDLInv
<1>1. /\ log \in Seq(LogEntry) /\ Len(log) \in Nat /\ fetched \subseteq Ids
      /\ lastID \in 0 .. Len(log) /\ file.ddl \in 0 .. Len(log)
  BY <1>t, LogFacts DEF TypeOK
<1>2. /\ log' \in Seq(LogEntry) /\ Len(log) < Len(log') /\ \A i \in Ids : log'[i] = log[i]
      /\ \A i \in Ids' \ Ids : log'[i].state = "open"
  BY <1>1, LogGrows DEF DDLExecutes
<1>3. /\ Len(log') \in Nat /\ Len(log) <= Len(log') /\ \A i \in 1 .. Len(log) : log'[i] = log[i]
  BY <1>1, <1>2 DEF Ids
<1>4. \A t : \A i \in Len(log) + 1 .. Len(log') : ~Of(log', i, t)
  <2>1. \A i \in Len(log) + 1 .. Len(log') : i \in Ids' \ Ids
    BY <1>1, <1>3 DEF Ids
  <2> QED
    BY <1>2, <2>1 DEF Of
<1>5. UNCHANGED <<schema, file, executed, run, poll, fetched, lastID, before>>
  BY DEF DDLExecutes
<1> SUFFICES ASSUME NEW t \in Tables \ missed
             PROVE  \E g : History(log', g, t, catalog[t]) /\ Placed(g, t)'
  OBVIOUS
<1>6. PICK h : Follows(h, t)
  BY DEF SchemaInv
<1>7. History(log, h, t, catalog[t]) /\ Placed(h, t)
  BY <1>6 DEF Follows
<1>8. PICK g : /\ History(log', g, t, catalog[t])
               /\ \A p \in 0 .. Len(log) : \A def, X : Near(log, h, t, def, p, X) => Near(log', g, t, def, p, X)
  BY <1>1, <1>3, <1>4, <1>7, LongerLog
<1>9. fetched \subseteq 0 .. Len(log)
  BY <1>1 DEF Ids
<1>10. Placed(g, t)'
  BY <1>1, <1>5, <1>7, <1>8, <1>9, PlacedFrame
<1> QED
  BY <1>8, <1>10

\* An entry of the only transaction with DDL that is open.
LEMMA OneOpen ==
  ASSUME DDLInv, SchemaInv, NEW t \in Tables, NEW i \in OpenIds, log[i].stmt.table = t
  PROVE  \E c \in Ids : /\ log[c].state = "open" /\ Applies(c) /\ log[c].stmt = log[i].stmt
                        /\ PossibleAt(log[c].stmt, catalog[t])
                        /\ \A j \in Ids : log[j].state = "open" => log[j].stmt.table = t
                        /\ \A j \in Ids : log[j].state = "open" /\ Applies(j) => j = c
                        /\ \A j \in Ids : Committed(j) => j < c
<1>1. PICK c \in OpenIds : Applies(c) /\ log[c].stmt = log[i].stmt
  BY DEF SchemaInv, OpenOnce
<1>2. c \in Ids /\ log[c].state = "open" /\ PossibleAt(log[c].stmt, catalog[t])
  BY <1>1 DEF OpenIds, SchemaInv, OpenOnce
<1>3. /\ \A j \in Ids : log[j].state = "open" => log[j].stmt.table = t
      /\ \A j \in Ids : Committed(j) => j < c
  BY <1>1, <1>2 DEF DDLInv, OpenLast
<1>4. \A j \in Ids : log[j].state = "open" /\ Applies(j) => j = c
  BY <1>1 DEF OpenIds, SchemaInv, OpenOnce
<1> QED
  BY <1>1, <1>2, <1>3, <1>4

LEMMA SchemaCloses ==
  ASSUME DDLInv, SchemaInv, NEW t \in Tables, DDLCommits(t) \/ DDLRollsBack(t)
  PROVE  /\ OpenIds' = {}
         /\ \A u \in Tables \ missed : \E g : History(log', g, u, catalog'[u]) /\ Placed(g, u)'
<1>t. TypeOK
  BY DEF DDLInv
<1>1. /\ log \in Seq(LogEntry) /\ Len(log) \in Nat /\ fetched \subseteq Ids /\ DOMAIN catalog = Tables
      /\ lastID \in 0 .. Len(log) /\ file.ddl \in 0 .. Len(log) /\ fetched \subseteq 0 .. Len(log)
      /\ \A i \in Ids : log[i].stmt.table \in Tables
  <2>1. TypeOK /\ fetched \subseteq Ids
    BY <1>t, LogFacts
  <2> QED
    BY <2>1, LogFacts DEF TypeOK, Ids
<1>2. PICK i \in OpenIds : /\ log[i].stmt.table = t
                           /\ DDLCommits(t) => catalog' = [catalog EXCEPT ![t] = Result(log[i].stmt, @)]
  BY DEF DDLCommits, DDLRollsBack, Locked
<1>3. PICK c \in Ids : /\ log[c].state = "open" /\ Applies(c) /\ log[c].stmt = log[i].stmt
                       /\ PossibleAt(log[c].stmt, catalog[t])
                       /\ \A j \in Ids : log[j].state = "open" => log[j].stmt.table = t
                       /\ \A j \in Ids : log[j].state = "open" /\ Applies(j) => j = c
                       /\ \A j \in Ids : Committed(j) => j < c
  BY <1>2, OneOpen
<1>4. UNCHANGED <<schema, file, executed, run, poll, fetched, lastID, before>>
  BY DEF DDLCommits, DDLRollsBack
<1>5. PICK state \in {"committed", "aborted"} :
        /\ log' = Closed(t, state)
        /\ state = "committed" => DDLCommits(t)
        /\ state = "aborted" => catalog' = catalog
  BY DEF DDLCommits, DDLRollsBack
<1>6. /\ log' \in Seq(LogEntry) /\ Len(log') = Len(log) /\ Ids' = Ids
      /\ \A j \in Ids : /\ log'[j].stmt = log[j].stmt /\ log'[j].object = log[j].object
                        /\ log'[j].state = IF log[j].state = "open" /\ log[j].stmt.table = t
                                           THEN state ELSE log[j].state
  BY <1>1, <1>5, LogCloses
<1>7. OpenIds' = {}
  BY <1>3, <1>6 DEF OpenIds
<1>8. /\ lastID < c /\ file.ddl < c /\ \A j \in fetched : j < c
  BY <1>3, CommitAfter
<1>9. ASSUME NEW u \in Tables \ missed PROVE \E g : History(log', g, u, catalog'[u]) /\ Placed(g, u)'
  <2>1. PICK h : History(log, h, u, catalog[u]) /\ Placed(h, u)
    BY DEF SchemaInv, Follows
  <2>2. CASE u = t /\ state = "committed"
    <3>1. c \in 1 .. Len(log) /\ catalog'[u] = Result(log[c].stmt, catalog[u])
      BY <1>1, <1>2, <1>3, <1>5, <2>2 DEF Ids
    <3>2. \A k \in 1 .. Len(log) : log'[k].stmt = log[k].stmt /\ (Of(log', k, u) <=> Of(log, k, u) \/ k = c)
      BY <1>2, <1>3, <1>6, <2>2 DEF Of, Ids, Applies
    <3>3. \A k \in 1 .. Len(log) : Of(log, k, u) => k < c
      BY <1>3 DEF Of, Ids, Committed
    <3>4. PICK g : /\ History(log', g, u, catalog'[u])
                   /\ \A p \in 0 .. c - 1 : \A def, X : Near(log, h, u, def, p, X) => Near(log', g, u, def, p, X)
      <4>1. /\ Len(log) \in Nat /\ Len(log') = Len(log) /\ PossibleAt(log[c].stmt, catalog[u])
            /\ History(log, h, u, catalog[u])
        BY <1>1, <1>3, <1>6, <2>1, <2>2
      <4> DEFINE M == log'
                 new == catalog'[u]
      <4>2. /\ Len(M) = Len(log) /\ new = Result(log[c].stmt, catalog[u])
            /\ \A k \in 1 .. Len(log) : M[k].stmt = log[k].stmt /\ (Of(M, k, u) <=> Of(log, k, u) \/ k = c)
        BY <3>1, <3>2, <4>1
      <4> HIDE DEF M, new
      <4>3. \E g : /\ History(M, g, u, new)
                   /\ \A p \in 0 .. c - 1 : \A def, X : Near(log, h, u, def, p, X) => Near(M, g, u, def, p, X)
        BY <3>1, <3>3, <4>1, <4>2, CommittedLog
      <4> QED
        BY <4>3 DEF M, new
    <3>5. lastID \in 0 .. c - 1 /\ file.ddl \in 0 .. c - 1 /\ fetched \subseteq 0 .. c - 1
      BY <1>1, <1>8, <3>1
    <3>6. Placed(g, u)'
      BY <1>4, <2>1, <3>4, <3>5, PlacedFrame
    <3> QED
      BY <3>4, <3>6
  <2>3. CASE u # t \/ state = "aborted"
    <3>1. catalog'[u] = catalog[u]
      BY <1>1, <1>2, <1>5, <2>3
    <3>2. \A k \in 1 .. Len(log) : log'[k].stmt = log[k].stmt /\ (Of(log', k, u) <=> Of(log, k, u))
      BY <1>3, <1>6, <2>3 DEF Of, Ids
    <3>3. /\ History(log', h, u, catalog'[u])
          /\ \A p \in 0 .. Len(log) : \A def, X : Near(log, h, u, def, p, X) => Near(log', h, u, def, p, X)
      BY <1>1, <1>6, <2>1, <3>1, <3>2, SameLog
    <3>4. Placed(h, u)'
      BY <1>1, <1>4, <2>1, <3>3, PlacedFrame
    <3> QED
      BY <3>3, <3>4
  <2> QED
    BY <2>2, <2>3
<1> QED
  BY <1>7, <1>9

\* Seen from lastID, with all that was executed.
LEMMA AtLast ==
  ASSUME DDLInv, SchemaInv, run # "down", NEW h, NEW t, Placed(h, t)
  PROVE  Near(log, h, t, schema[t], lastID, executed)
<1>1. Len(log) \in Nat /\ lastID \in 0 .. Len(log) /\ before \subseteq executed
  BY LogFacts DEF DDLInv, TypeOK
<1>2. CASE poll # "record"
  <2>1. Near(log, h, t, schema[t], lastID, before)
    BY <1>2 DEF Placed
  <2>2. lastID \in 0 .. lastID /\ lastID + 1 .. lastID = {}
    BY <1>1
  <2> QED
    BY <1>1, <2>1, <2>2, SeenFrom
<1>3. CASE poll = "record"
  <2>1. PICK i \in fetched : IsNext(i)
    BY <1>3 DEF SchemaInv
  <2>2. Near(log, h, t, schema[t], i, before) /\ i \in executed
    BY <1>3, <2>1 DEF Placed, DDLInv, Done
  <2>3. /\ i \in lastID + 1 .. Len(log) /\ \A k \in lastID + 1 .. i - 1 : ~Of(log, k, t)
    BY <2>1, NoneBetween
  <2>4. /\ i \in 0 .. Len(log) /\ lastID \in 0 .. i
        /\ \A k \in lastID + 1 .. i : k \in lastID + 1 .. i - 1 \/ k = i
    BY <1>1, <2>3
  <2>5. \A k \in lastID + 1 .. i : Of(log, k, t) => k \in executed
    BY <2>2, <2>3, <2>4
  <2> QED
    BY <1>1, <2>2, <2>4, <2>5, SeenFrom
<1> QED
  BY <1>2, <1>3

\* The table after the statement of id i, or after passing it over.
LEMMA PlacedExecutes ==
  ASSUME DDLInv, SchemaInv, NEW i \in fetched, PollExecutes(i),
         NEW t \in Tables, NEW h, Follows(h, t)
  PROVE  Near(log, h, t, schema'[t], i, before)
<1>1. /\ Len(log) \in Nat /\ \A k \in Ids : log[k].stmt.op \in {"create", "add", "drop"}
      /\ DOMAIN schema = Tables
  BY LogFacts DEF DDLInv
<1>2. /\ i \in lastID + 1 .. Len(log) /\ lastID \in 0 .. Len(log) /\ i \in Ids
      /\ \A k \in lastID + 1 .. i - 1 : ~Of(log, k, t)
  BY NoneBetween DEF PollExecutes
<1>3. /\ History(log, h, t, catalog[t]) /\ Near(log, h, t, schema[t], lastID, before)
  BY DEF PollExecutes, Polls, Follows, Placed
<1> DEFINE s == log[i].stmt
<1>4. Applies(i) /\ Executable(s) /\ Effect(s) /\ Committed(i)
  BY DEF PollExecutes, DDLInv, NoGap
<1>5. CASE s.table = t
  <2>1. Of(log, i, t)
    BY <1>4, <1>5 DEF Of, Applies, Committed
  <2>2. Takes(s, schema[t])
    BY <1>4, <1>5 DEF Executable, Takes
  <2>3. schema'[t] = Becomes(s, schema[t])
    BY <1>1, <1>4, <1>5 DEF Effect, Becomes
  <2>4. Near(log, h, t, Becomes(log[i].stmt, schema[t]), i, before)
    BY <1>1, <1>2, <1>3, <2>1, <2>2, Replayed
  <2> QED
    BY <2>3, <2>4
<1>6. CASE s.table # t
  <2>1. schema'[t] = schema[t]
    BY <1>1, <1>4, <1>6 DEF Effect
  <2>2. /\ i \in lastID .. Len(log)
        /\ \A k \in lastID + 1 .. i : k \in lastID + 1 .. i - 1 \/ k = i
    BY <1>1, <1>2
  <2>3. \A k \in lastID + 1 .. i : ~Of(log, k, t)
    BY <1>2, <1>6, <2>2 DEF Of
  <2> QED
    BY <1>1, <1>2, <1>3, <2>1, <2>2, <2>3, Passed
<1> QED
  BY <1>5, <1>6

LEMMA SchemaStep ==
  "overlap" \notin Occurs /\ DDLInv /\ SchemaInv /\ [Next]_vars => SchemaInv'
<1> SUFFICES ASSUME "overlap" \notin Occurs, DDLInv, SchemaInv, [Next]_vars PROVE SchemaInv'
  OBVIOUS
<1>t. /\ Len(log) \in Nat /\ log \in Seq(LogEntry) /\ fetched \subseteq Ids /\ Ids \subseteq Nat
      /\ lastID \in 0 .. Len(log) /\ file.ddl \in 0 .. Len(log) /\ before \subseteq executed
  BY LogFacts DEF DDLInv, TypeOK, Ids
<1>1. ASSUME NEW s \in Statement, DDLExecutes(s) PROVE SchemaInv'
  <2>1. /\ Ids \subseteq Ids' /\ \A i \in Ids : log'[i] = log[i]
        /\ \A i \in Ids' \ Ids : log'[i].state = "open" /\ log'[i].stmt = s
        /\ \A i, j \in Ids' \ Ids : Applies(i)' /\ Applies(j)' => i = j
        /\ \E i \in Ids' \ Ids : Applies(i)'
    BY <1>1, <1>t, LogGrows DEF DDLExecutes
  <2>2. OpenIds = {} /\ PossibleAt(s, catalog[s.table])
    BY <1>1, PossibleIs DEF DDLExecutes, Alone
  <2>3. OpenIds' = Ids' \ Ids
    BY <2>1, <2>2 DEF OpenIds
  <2>4. UNCHANGED <<catalog, missed, run, poll, fetched, file, lastID>>
    BY <1>1 DEF DDLExecutes
  <2>5. OpenOnce'
    BY <2>1, <2>2, <2>3, <2>4 DEF OpenOnce
  <2>6. \A t \in Tables \ missed' : \E h : Follows(h, t)'
    BY <1>1, <2>4, SchemaExecutes DEF Follows
  <2> QED
    BY <2>4, <2>5, <2>6 DEF SchemaInv, IsNext
<1>2. ASSUME NEW s \in Statement, DDLMissed(s) PROVE SchemaInv'
  <2>1. /\ UNCHANGED <<log, schema, file, executed, run, poll, fetched, lastID, before>>
        /\ missed' = missed \cup {s.table} /\ ~Locked(s.table)
    BY <1>2 DEF DDLMissed
  <2>2. \A t \in Tables : t # s.table => catalog'[t] = catalog[t]
    BY <1>2 DEF DDLMissed, DDLInv, TypeOK
  <2>3. \A i \in OpenIds : log[i].stmt.table \in Tables /\ log[i].stmt.table # s.table
    BY <2>1, LogFacts DEF Locked, OpenIds, DDLInv
  <2>4. OpenOnce'
    BY <2>1, <2>2, <2>3 DEF SchemaInv, OpenOnce, OpenIds, Ids, Applies
  <2>5. ASSUME NEW t \in Tables \ missed' PROVE \E h : Follows(h, t)'
    <3>1. PICK h : Follows(h, t)
      BY <2>1 DEF SchemaInv
    <3> QED
      BY <2>1, <2>2, <3>1 DEF Follows, Placed, IsNext
  <2> QED
    BY <2>1, <2>4, <2>5 DEF SchemaInv, IsNext
<1>3. ASSUME NEW t \in Tables, DDLCommits(t) \/ DDLRollsBack(t) PROVE SchemaInv'
  <2>1. UNCHANGED <<missed, run, poll, fetched, file, lastID>>
    BY <1>3 DEF DDLCommits, DDLRollsBack
  <2>2. /\ OpenIds' = {}
        /\ \A u \in Tables \ missed : \E g : History(log', g, u, catalog'[u]) /\ Placed(g, u)'
    BY <1>3, SchemaCloses
  <2>3. OpenOnce'
    BY <2>2 DEF OpenOnce
  <2>4. \A u \in Tables \ missed' : \E h : Follows(h, u)'
    BY <2>1, <2>2 DEF Follows
  <2> QED
    BY <2>1, <2>3, <2>4 DEF SchemaInv, IsNext
<1>4. ASSUME UNCHANGED <<log, catalog, missed, schema, file, executed, before, lastID>>,
             run' = "down" <=> run = "down",
             UNCHANGED <<poll, fetched>> \/ (poll # "record" /\ poll' # "record")
      PROVE  SchemaInv'
  <2>1. \A t \in Tables \ missed : \A h : Follows(h, t) => Placed(h, t)'
    BY <1>4 DEF Follows, Placed, IsNext
  <2>2. poll' = "record" => \E i \in fetched' : IsNext(i)'
    BY <1>4 DEF SchemaInv, IsNext
  <2>3. run' # "down" => file'.ddl <= lastID'
    BY <1>4 DEF SchemaInv
  <2> QED
    BY <1>4, <2>1, <2>2, <2>3, SchemaFrame
<1>5. CASE (\E t \in Tables : Insert(t)) \/ Receive \/ RowApplies \/ RowFails \/ UNCHANGED vars
  BY <1>4, <1>5 DEF Insert, Receive, RowApplies, RowFails
<1>6. CASE Cancelled \/ PollFetches \/ \E i \in fetched : PollHalts(i)
  BY <1>4, <1>6 DEF Cancelled, PollFetches, PollHalts, Polls
<1>7. CASE StartRun
  <2>1. /\ UNCHANGED <<log, catalog, missed, schema, file, executed>>
        /\ lastID' = file.ddl /\ before' = executed /\ poll' # "record"
    BY <1>7 DEF StartRun
  <2>2. \A t \in Tables \ missed : \A h : Follows(h, t) => Placed(h, t)'
    BY <2>1 DEF Follows, Placed
  <2>3. file'.ddl <= lastID'
    BY <1>t, <2>1
  <2> QED
    BY <2>1, <2>2, <2>3, SchemaFrame
<1>8. CASE Tick \/ Shutdown \/ RowHalts
  <2>1. /\ UNCHANGED <<log, catalog, missed, schema, executed, before, lastID, poll, fetched>>
        /\ file'.ddl = lastID /\ run # "down" /\ run' # "down"
    BY <1>8 DEF Tick, Shutdown, RowHalts, Save, Pending
  <2>2. \A t \in Tables \ missed : \A h : Follows(h, t) => Placed(h, t)'
    <3> SUFFICES ASSUME NEW t \in Tables \ missed, NEW h, Follows(h, t) PROVE Placed(h, t)'
      OBVIOUS
    <3>1. Near(log, h, t, schema[t], lastID, executed)
      BY <2>1, AtLast DEF Follows
    <3> QED
      BY <2>1, <3>1 DEF Follows, Placed, IsNext
  <2>3. poll' = "record" => \E i \in fetched' : IsNext(i)'
    BY <2>1 DEF SchemaInv, IsNext
  <2>4. file'.ddl <= lastID'
    BY <1>t, <2>1
  <2> QED
    BY <2>1, <2>2, <2>3, <2>4, SchemaFrame
<1>9. CASE Exit \/ Crash
  <2>1. UNCHANGED <<log, catalog, missed, schema, file, executed>> /\ run' = "down" /\ poll' = "off"
    BY <1>9 DEF Exit, Crash, Ends
  <2>2. \A t \in Tables \ missed : \A h : Follows(h, t) => Placed(h, t)'
    BY <2>1 DEF Follows, Placed
  <2> QED
    BY <2>1, <2>2, SchemaFrame
<1>10. ASSUME NEW i \in fetched, PollSkips(i) \/ PollRecords(i) PROVE SchemaInv'
  <2>1. /\ UNCHANGED <<log, catalog, missed, schema, file, executed, before, run>>
        /\ lastID' = i /\ poll' # "record" /\ run # "down" /\ IsNext(i)
    BY <1>10 DEF PollSkips, PollRecords, Records, Polls
  <2>2. /\ i \in lastID + 1 .. Len(log) /\ \A t : \A k \in lastID + 1 .. i - 1 : ~Of(log, k, t)
    BY <2>1, NoneBetween
  <2>3. ASSUME NEW t \in Tables \ missed, NEW h, Follows(h, t)
        PROVE  Near(log, h, t, schema[t], i, before)
    <3>1. CASE PollRecords(i)
      BY <2>1, <2>3, <3>1 DEF PollRecords, Polls, Follows, Placed
    <3>2. CASE PollSkips(i)
      <4>1. Near(log, h, t, schema[t], lastID, before) /\ ~Of(log, i, t)
        BY <2>1, <2>3, <3>2 DEF PollSkips, Polls, Follows, Placed, Of, Applies
      <4>2. /\ i \in lastID .. Len(log)
            /\ \A k \in lastID + 1 .. i : k \in lastID + 1 .. i - 1 \/ k = i
        BY <1>t, <2>2
      <4>3. \A k \in lastID + 1 .. i : ~Of(log, k, t)
        BY <2>2, <4>1, <4>2
      <4> QED
        BY <1>t, <2>3, <4>1, <4>2, <4>3, Passed DEF Follows
    <3> QED
      BY <1>10, <3>1, <3>2
  <2>4. \A t \in Tables \ missed : \A h : Follows(h, t) => Placed(h, t)'
    BY <2>1, <2>3 DEF Follows, Placed
  <2>5. file'.ddl <= lastID'
    <3>1. file.ddl <= lastID
      BY <2>1 DEF SchemaInv
    <3> QED
      BY <1>t, <2>1, <2>2, <3>1
  <2> QED
    BY <2>1, <2>4, <2>5, SchemaFrame
<1>11. ASSUME NEW i \in fetched, PollExecutes(i) PROVE SchemaInv'
  <2>1. /\ UNCHANGED <<log, catalog, missed, file, before, run, fetched, lastID>>
        /\ executed' = executed \cup {i} /\ poll' = "record" /\ run # "down" /\ IsNext(i)
    BY <1>11 DEF PollExecutes, Polls
  <2>2. \A j \in fetched : IsNext(j) => j = i
    <3> SUFFICES ASSUME NEW j \in fetched, IsNext(j) PROVE j = i
      OBVIOUS
    <3>1. i <= j /\ j <= i /\ i \in Nat /\ j \in Nat
      BY <1>t, <2>1 DEF IsNext
    <3> QED
      BY <3>1
  <2>3. file.ddl <= lastID
    BY <2>1 DEF SchemaInv
  <2>4. ASSUME NEW t \in Tables \ missed, NEW h, Follows(h, t) PROVE Placed(h, t)'
    <3>1. Near(log, h, t, schema'[t], i, before)
      BY <1>11, <2>4, PlacedExecutes
    <3>2. /\ i \in lastID + 1 .. Len(log) /\ \A k \in lastID + 1 .. i - 1 : ~Of(log, k, t)
      BY <2>1, NoneBetween
    <3>3. /\ i \in 0 .. Len(log) /\ file.ddl \in 0 .. i
          /\ \A k \in file.ddl + 1 .. i : k \in Ids /\ (k <= lastID \/ k \in lastID + 1 .. i - 1 \/ k = i)
      BY <1>t, <2>3, <3>2 DEF Ids
    <3>4. \A k \in file.ddl + 1 .. i : Of(log, k, t) => k \in executed'
      BY <2>1, <3>2, <3>3 DEF DDLInv, Settled, Of, Committed, Applies
    <3>5. before \subseteq executed'
      BY <1>t, <2>1
    <3>6. Near(log, h, t, schema'[t], file.ddl, executed')
      BY <1>t, <3>1, <3>3, <3>4, <3>5, SeenFrom
    <3> QED
      BY <2>1, <2>2, <3>1, <3>6 DEF Placed, IsNext
  <2>5. \A t \in Tables \ missed : \A h : Follows(h, t) => Placed(h, t)'
    BY <2>4
  <2>6. \E j \in fetched' : IsNext(j)'
    BY <2>1 DEF IsNext
  <2>7. file'.ddl <= lastID'
    BY <2>1, <2>3
  <2> QED
    BY <2>1, <2>5, <2>6, <2>7, SchemaFrame
<1> QED
  BY <1>1, <1>2, <1>3, <1>5, <1>6, <1>7, <1>8, <1>9, <1>10, <1>11
     DEF Next, Source, Runner, Poller, Applier

\* When the poller has caught up, the tables in TiDB are those in PostgreSQL,
\* whatever was replayed after crashes, read in part or rejected, if transactions
\* with DDL do not overlap (runDDLPoller, makeDDLIdempotent).
THEOREM SchemaFollows == "overlap" \notin Occurs => (Spec => []SchemaConverges)
<1> SUFFICES ASSUME "overlap" \notin Occurs PROVE Spec => []SchemaConverges
  OBVIOUS
<1>1. DDLInv /\ SchemaInv => SchemaConverges
  <2> SUFFICES ASSUME DDLInv, SchemaInv, CaughtUp, NEW t \in Tables \ missed PROVE schema[t] = catalog[t]
    BY DEF SchemaConverges
  <2>1. PICK h : History(log, h, t, catalog[t]) /\ Near(log, h, t, schema[t], lastID, before)
    BY DEF SchemaInv, Follows, Placed, CaughtUp
  <2>2. Len(log) \in Nat /\ lastID \in 0 .. Len(log)
    BY LogFacts DEF DDLInv, TypeOK
  <2>3. \A k \in lastID + 1 .. Len(log) : ~Of(log, k, t)
    <3> SUFFICES ASSUME NEW k \in lastID + 1 .. Len(log), Of(log, k, t) PROVE FALSE
      OBVIOUS
    <3>1. k \in Ids /\ ~(k <= lastID)
      BY <2>2 DEF Ids
    <3> QED
      BY <3>1 DEF CaughtUp, Of, Committed
  <2>4. Len(log) \in lastID .. Len(log)
    BY <2>2
  <2>5. Near(log, h, t, schema[t], Len(log), before)
    BY <2>1, <2>2, <2>3, <2>4, Passed
  <2>6. \A e \in Len(log) .. Len(log) : e = Len(log) /\ Len(log) + 1 .. e = {}
    BY <2>2
  <2>7. schema[t] = h[Len(log)]
    BY <2>5, <2>6 DEF Near
  <2> QED
    BY <2>1, <2>7 DEF History
<1>2. DDLInv /\ [Next]_vars => DDLInv'
  BY InvStep
<1>3. DDLInv /\ SchemaInv /\ [Next]_vars => SchemaInv'
  BY SchemaStep
<1> QED
  BY <1>1, <1>2, <1>3, InvInit, SchemaInit, PTL DEF Spec

\* Where TiDB rejects nothing, the poller only halts at a statement that an earlier
\* process has executed and not recorded (runDDLPoller's "crash window").
THEOREM HaltsAtReplays ==
  "overlap" \notin Occurs /\ "rejected" \notin Occurs => (Spec => []HaltMeansReplay)
<1> SUFFICES ASSUME "overlap" \notin Occurs, "rejected" \notin Occurs PROVE Spec => []HaltMeansReplay
  OBVIOUS
<1>1. Init => HaltMeansReplay
  BY DEF Init, HaltMeansReplay
<1>2. DDLInv /\ SchemaInv /\ HaltMeansReplay /\ [Next]_vars => HaltMeansReplay'
  <2> SUFFICES ASSUME DDLInv, SchemaInv, HaltMeansReplay, [Next]_vars, poll' = "halted"
               PROVE  HaltMeansReplay'
    BY DEF HaltMeansReplay
  <2>t. /\ \A i \in Ids : log[i].stmt.table \in Tables
        /\ fetched \subseteq Ids /\ Ids \subseteq Nat /\ Len(log) \in Nat /\ log \in Seq(LogEntry)
    BY LogFacts DEF DDLInv, Ids
  <2>1. ASSUME poll = "halted", UNCHANGED <<fetched, before>>, missed \subseteq missed',
               \A i \in fetched : log'[i].stmt = log[i].stmt
        PROVE  HaltMeansReplay'
    BY <2>1 DEF HaltMeansReplay, IsNext
  <2>2. CASE UNCHANGED <<log, poll, fetched, before, missed>>
    BY <2>1, <2>2
  <2>3. CASE Source
    <3>1. UNCHANGED <<poll, fetched, before>> /\ missed \subseteq missed'
      BY <2>3 DEF Source, DDLExecutes, DDLMissed, DDLCommits, DDLRollsBack, Insert
    <3>2. \A i \in Ids : log'[i].stmt = log[i].stmt
      <4>1. ASSUME NEW s \in Statement, DDLExecutes(s) PROVE \A i \in Ids : log'[i].stmt = log[i].stmt
        BY <2>t, <4>1, LogGrows DEF DDLExecutes
      <4>2. ASSUME NEW t \in Tables, DDLCommits(t) \/ DDLRollsBack(t)
            PROVE  \A i \in Ids : log'[i].stmt = log[i].stmt
        <5>1. \E state \in {"committed", "aborted"} : log' = Closed(t, state)
          BY <4>2 DEF DDLCommits, DDLRollsBack
        <5> QED
          BY <2>t, <5>1, LogCloses
      <4> QED
        BY <2>3, <4>1, <4>2 DEF Source, DDLMissed, Insert
    <3> QED
      BY <2>t, <2>1, <3>1, <3>2
  <2>4. CASE Runner \/ Receive \/ Applier
    <3>1. ~StartRun /\ ~Exit /\ ~Crash
      BY DEF StartRun, Exit, Crash, Ends
    <3> QED
      BY <2>2, <2>4, <3>1
         DEF Runner, Tick, Shutdown, Cancelled, Receive, Applier, RowApplies, RowFails, RowHalts
  <2>5. ASSUME NEW i \in fetched, PollHalts(i) PROVE HaltMeansReplay'
    <3>1. /\ UNCHANGED <<log, fetched, before, missed>> /\ IsNext(i) /\ Applies(i)
          /\ ~Executable(log[i].stmt) /\ poll = "apply" /\ run # "down"
      BY <2>5 DEF PollHalts, Polls
    <3>2. \A j \in fetched : IsNext(j) => j = i
      <4> SUFFICES ASSUME NEW j \in fetched, IsNext(j) PROVE j = i
        OBVIOUS
      <4>1. i <= j /\ j <= i /\ i \in Nat /\ j \in Nat
        BY <2>t, <3>1 DEF IsNext
      <4> QED
        BY <4>1
    <3>3. ASSUME log[i].stmt.table \notin missed, i \notin before PROVE FALSE
      <4> DEFINE t == log[i].stmt.table
      <4>1. t \in Tables \ missed
        BY <2>t, <3>3
      <4>2. PICK h : History(log, h, t, catalog[t]) /\ Near(log, h, t, schema[t], lastID, before)
        BY <3>1, <4>1 DEF SchemaInv, Follows, Placed
      <4>3. /\ i \in lastID + 1 .. Len(log) /\ lastID \in 0 .. Len(log)
            /\ \A k \in lastID + 1 .. i - 1 : ~Of(log, k, t)
        BY <3>1, NoneBetween
      <4>4. Of(log, i, t)
        BY <3>1 DEF Of, Applies, DDLInv, NoGap, Committed
      <4>5. PossibleAt(log[i].stmt, schema[t])
        BY <2>t, <3>3, <4>2, <4>3, <4>4, InSync
      <4> QED
        BY <3>1, <4>5 DEF PossibleAt, Executable
    <3> QED
      BY <3>1, <3>2, <3>3 DEF HaltMeansReplay, IsNext
  <2>6. CASE Poller
    <3>1. ~PollFetches /\ \A i \in fetched : ~PollSkips(i) /\ ~PollExecutes(i) /\ ~PollRecords(i)
      BY DEF PollFetches, PollSkips, PollExecutes, PollRecords, Records
    <3> QED
      BY <2>5, <2>6, <3>1 DEF Poller
  <2> QED
    BY <2>2, <2>3, <2>4, <2>6 DEF Next
<1>3. DDLInv /\ [Next]_vars => DDLInv'
  BY InvStep
<1>4. DDLInv /\ SchemaInv /\ [Next]_vars => SchemaInv'
  BY SchemaStep
<1> QED
  BY <1>1, <1>2, <1>3, <1>4, InvInit, SchemaInit, PTL DEF Spec
=============================================================================
