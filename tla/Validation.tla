------------------------------ MODULE Validation ------------------------------
(***************************************************************************)
(* The validation phase (internal/validator/validator.go, Validator.Run)   *)
(* over two databases that nobody writes to: one goroutine per table,      *)
(* started under a semaphore; each holds one TiDB connection to its end    *)
(* and takes a PostgreSQL connection for one statement at a time, both     *)
(* from pools of bounded size.  RowCompare has the comparison itself.      *)
(***************************************************************************)
EXTENDS RowCompare

CONSTANTS
  Tables,
  Inputs,      \* what Run may find: the tables asked for, in the order of the
               \* loop, the contents of the databases, mode and no_pk_strategy
  Parallel,    \* migration.parallel
  SourcePool,  \* SetMaxOpenConns of the PostgreSQL pool
  TargetPool,  \* and of the TiDB pool
  Threshold,   \* no_pk_table_threshold
  SampleMax,   \* the largest sample
  Occurs       \* bound: which of Occurrences may happen

\* "error": a statement or a connection fails; "cut": rows.Next ends early or
\* rows cannot be scanned, which nobody looks at.
Occurrences == {"error", "cut"}

ASSUME ValidationAssumption ==
  /\ IsFiniteSet(Tables)
  /\ \A input \in Inputs :
       /\ input.order \in Seq(Tables)
       /\ \A i, j \in DOMAIN input.order : input.order[i] = input.order[j] => i = j
       /\ \A t \in Tables : IsTable(input.db[t])
  /\ Parallel \in Nat \ {0} /\ SourcePool \in Nat \ {0} /\ TargetPool \in Nat \ {0}
  /\ Threshold \in Nat /\ SampleMax \in Nat \ {0}
  /\ Occurs \subseteq Occurrences

VARIABLES
  order,      \* the tables that are validated
  db,         \* db[t]: kinds, primary key, unique index, rows of both sides
  mode,
  strategy,
  launched,   \* tables the loop of Run is through with
  sem,        \* occupied slots of the semaphore
  job,        \* job[t]: the goroutine of table t
  onSource,   \* tables that hold a PostgreSQL connection
  onTarget,   \* tables that hold a TiDB connection
  report,     \* rpt.Tables: the status reported, or "none"
  result,     \* the overall status when Run has returned
  faults      \* history: faults[t], what went wrong for table t

vars == <<order, db, mode, strategy, launched, sem, job, onSource, onTarget, report, result, faults>>
fixed == <<order, db, mode, strategy>>

Statuses == {"pass", "warn", "fail"}
Comparisons == {"sample", "hash_group", "aggregate", "bucket"}
SourceSteps == {"count source", "detect key", "read source", "checksum source"}
TargetSteps == {"count target", "compare", "checksum target"}
Steps == {"idle", "connect", "report", "done"} \cup SourceSteps \cup TargetSteps

\* tr, pgData and the locals of a goroutine: "rows" and "diff" are SourceRows
\* and DiffRows, "from" and "sample" the offset and the rows read.
Jobs ==
  [at : Steps, status : Statuses, rows : Nat, diff : Int,
   pk : Seq(Nat), how : Comparisons, from : Nat, sample : Seq(Seq(Values))]

NewJob == [at |-> "idle", status |-> "pass", rows |-> 0, diff |-> 0,
           pk |-> <<>>, how |-> "sample", from |-> 0, sample |-> <<>>]

Init ==
  /\ \E input \in Inputs :
       /\ order = input.order /\ db = input.db
       /\ mode = input.mode /\ strategy = input.strategy
  /\ launched = 0 /\ sem = 0
  /\ job = [t \in Tables |-> NewJob]
  /\ onSource = {} /\ onTarget = {}
  /\ report = [t \in Tables |-> "none"]
  /\ result = "none"
  /\ faults = [t \in Tables |-> {}]

-----------------------------------------------------------------------------
(***************************************************************************)
(* The loop of Run and the connections.                                    *)
(***************************************************************************)
Launch ==
  /\ launched < Len(order) /\ sem < Parallel
  /\ launched' = launched + 1 /\ sem' = sem + 1
  /\ job' = [job EXCEPT ![order[launched + 1]].at = "connect"]
  /\ UNCHANGED <<fixed, onSource, onTarget, report, result, faults>>

\* The goroutine goes on as "new" says.
Becomes(t, new) == job' = [job EXCEPT ![t] = new]

\* tr.Status is set to "status" and the table is reported next.
Ends(t, status) == Becomes(t, [job[t] EXCEPT !.at = "report", !.status = status])

Fault(t, what) == faults' = [faults EXCEPT ![t] = @ \cup {what}]

Connect(t) ==
  /\ job[t].at = "connect"
  /\ Cardinality(onTarget) < TargetPool
  /\ onTarget' = onTarget \cup {t}
  /\ IF mode \in {"quick", "sample", "checksum"}
     THEN Becomes(t, [job[t] EXCEPT !.at = "count source"])
     ELSE Ends(t, "fail")
  /\ UNCHANGED <<fixed, launched, sem, onSource, report, result, faults>>

ConnectFails(t) ==
  /\ "error" \in Occurs
  /\ job[t].at = "connect"
  /\ Ends(t, "fail")
  /\ Fault(t, "connect")
  /\ UNCHANGED <<fixed, launched, sem, onSource, onTarget, report, result>>

\* A statement on PostgreSQL waits for a connection of the pool; the outcome
\* gives it back, rows being read to their end.
QuerySource(t) ==
  /\ job[t].at \in SourceSteps /\ t \notin onSource
  /\ Cardinality(onSource) < SourcePool
  /\ onSource' = onSource \cup {t}
  /\ UNCHANGED <<fixed, launched, sem, job, onTarget, report, result, faults>>

SourceAnswers(t, step) ==
  /\ job[t].at = step /\ t \in onSource
  /\ onSource' = onSource \ {t}
  /\ UNCHANGED <<fixed, launched, sem, onTarget, report, result>>

TargetAnswers(t, step) ==
  /\ job[t].at = step
  /\ UNCHANGED <<fixed, launched, sem, onSource, onTarget, report, result>>

-----------------------------------------------------------------------------
(***************************************************************************)
(* Row counts.  A count that fails leaves the zeros of tr, and what comes  *)
(* after the counts looks at the difference and the rows only.             *)
(***************************************************************************)
AfterCounts(new) ==
  IF mode = "quick" \/ (new.status = "fail" /\ new.diff # 0) THEN [new EXCEPT !.at = "report"]
  ELSE IF mode = "checksum" THEN [new EXCEPT !.at = "checksum source"]
  ELSE IF new.rows = 0 THEN [new EXCEPT !.at = "report", !.status = "pass"]
  ELSE [new EXCEPT !.at = "detect key"]

CountFails(t) ==
  /\ "error" \in Occurs
  /\ Becomes(t, AfterCounts([job[t] EXCEPT !.status = "fail"]))
  /\ Fault(t, "count")

CountSource(t) ==
  /\ SourceAnswers(t, "count source")
  /\ \/ /\ Becomes(t, [job[t] EXCEPT !.at = "count target"])
        /\ UNCHANGED faults
     \/ CountFails(t)

CountTarget(t) ==
  /\ TargetAnswers(t, "count target")
  /\ \/ LET source == Len(db[t].source)
            diff   == source - Len(db[t].target)
        IN  /\ Becomes(t, AfterCounts([job[t] EXCEPT
                 !.rows = source, !.diff = diff, !.status = IF diff # 0 THEN "fail" ELSE @]))
            /\ UNCHANGED faults
     \/ CountFails(t)

-----------------------------------------------------------------------------
(***************************************************************************)
(* The strategy of a table.                                                *)
(***************************************************************************)
NoKeyStrategy(rows) ==
  IF strategy = "auto"
  THEN IF rows <= Threshold THEN "hash_group" ELSE "aggregate"
  ELSE strategy

Comparison(hasKey, rows) ==
  IF ~hasKey /\ NoKeyStrategy(rows) \in Comparisons THEN NoKeyStrategy(rows) ELSE "sample"

Detected(t, pk, unique) ==
  Becomes(t, [job[t] EXCEPT !.at = "read source", !.pk = pk,
                            !.how = Comparison(pk # <<>> \/ unique, job[t].rows)])

\* detectTableKey; its errors count as a table without a key.
DetectKey(t) ==
  /\ SourceAnswers(t, "detect key")
  /\ \/ /\ Detected(t, db[t].pk, db[t].unique)
        /\ UNCHANGED faults
     \/ /\ "error" \in Occurs
        /\ Detected(t, <<>>, FALSE)
        /\ Fault(t, "key")
     \/ /\ "cut" \in Occurs
        /\ \E n \in 0 .. Len(db[t].pk), unique \in {FALSE, db[t].unique} :
             /\ n = 0 \/ n < Len(db[t].pk)
             /\ Detected(t, SubSeq(db[t].pk, 1, n), unique)
        /\ Fault(t, "key")

-----------------------------------------------------------------------------
(***************************************************************************)
(* Reading PostgreSQL and comparing with TiDB.                             *)
(***************************************************************************)
\* LIMIT size OFFSET from, ordered by the first column, which is the order of
\* db[t].source; the whole table for the other strategies.
Windows(t) ==
  LET n == job[t].rows
  IN  IF job[t].how = "sample"
      THEN {w \in [from : 0 .. n - 1, size : 1 .. SampleMax] : w.from + w.size <= n}
      ELSE {[from |-> 0, size |-> n]}

SourceRead(t, from, size) ==
  Becomes(t, [job[t] EXCEPT !.at = "compare", !.from = from,
                            !.sample = SubSeq(db[t].source, from + 1, from + size)])

\* (Wrong variant: the error path keeps the connection.)
SourceFailsLeaking(t, step, status) ==
  /\ "error" \in Occurs
  /\ job[t].at = step /\ t \in onSource
  /\ Ends(t, status)
  /\ Fault(t, "later")
  /\ UNCHANGED <<fixed, launched, sem, onSource, onTarget, report, result>>

SourceFails(t, step, status) ==
  /\ "error" \in Occurs
  /\ SourceAnswers(t, step)
  /\ Ends(t, status)
  /\ Fault(t, "later")

ReadSource(t) ==
  /\ SourceAnswers(t, "read source")
  /\ \E w \in Windows(t) :
       \/ /\ SourceRead(t, w.from, w.size)
          /\ UNCHANGED faults
       \/ /\ "cut" \in Occurs
          /\ \E n \in 0 .. w.size - 1 : SourceRead(t, w.from, n)
          /\ Fault(t, "cut")

Matches(t, target) ==
  LET kinds == db[t].kinds
      rows  == job[t].sample
  IN  \/ job[t].how = "hash_group" /\ HashGroupMatches(kinds, rows, target)
      \/ job[t].how = "aggregate" /\ AggregateMatches(kinds, rows, target)
      \/ job[t].how = "bucket" /\ BucketCompareMatches(kinds, rows, target)
      \/ job[t].how = "sample" /\ SampleMatches(kinds, job[t].pk, job[t].from, rows, target)

Verdict(t, target) == Ends(t, IF Matches(t, target) THEN "pass" ELSE "fail")

Compare(t) ==
  /\ TargetAnswers(t, "compare")
  /\ \/ Verdict(t, db[t].target) /\ UNCHANGED faults
     \/ /\ "cut" \in Occurs
        /\ \E n \in 0 .. Len(db[t].target) - 1 : Verdict(t, SubSeq(db[t].target, 1, n))
        /\ Fault(t, "cut")
     \/ "error" \in Occurs /\ Ends(t, "fail") /\ Fault(t, "later")

\* ORDER BY id needs a column of that name, and GROUP_CONCAT(t) one that is
\* called t, for t is the derived table: the second statement fails on every
\* table without them, and those are the tables modelled.
ChecksumSource(t) ==
  /\ SourceAnswers(t, "checksum source")
  /\ Becomes(t, [job[t] EXCEPT !.at = "checksum target"])
  /\ UNCHANGED faults

ChecksumTarget(t) ==
  /\ TargetAnswers(t, "checksum target")
  /\ Ends(t, "warn")
  /\ UNCHANGED faults

-----------------------------------------------------------------------------
(***************************************************************************)
(* Reports.                                                                *)
(***************************************************************************)
\* AddTableReport under the mutex, then the deferred calls.
Report(t) ==
  /\ job[t].at = "report"
  /\ report' = [report EXCEPT ![t] = job[t].status]
  /\ job' = [job EXCEPT ![t].at = "done"]
  /\ onTarget' = onTarget \ {t}
  /\ sem' = sem - 1
  /\ UNCHANGED <<fixed, launched, onSource, result, faults>>

OverallStatus ==
  LET reported == {report[t] : t \in Range(order)}
  IN  IF "fail" \in reported THEN "fail"
      ELSE IF "warn" \in reported THEN "warn" ELSE "pass"

\* wg.Wait returns when the goroutine of every table is done.
RunReturns ==
  /\ result = "none"
  /\ launched = Len(order)
  /\ \A t \in Range(order) : job[t].at = "done"
  /\ result' = OverallStatus
  /\ UNCHANGED <<fixed, launched, sem, job, onSource, onTarget, report, faults>>

TableStep(t) ==
  \/ Connect(t) \/ ConnectFails(t) \/ QuerySource(t)
  \/ CountSource(t) \/ CountTarget(t) \/ DetectKey(t)
  \/ ReadSource(t) \/ SourceFails(t, "read source", "fail") \/ Compare(t)
  \/ ChecksumSource(t) \/ SourceFails(t, "checksum source", "warn") \/ ChecksumTarget(t)
  \/ Report(t)

Next == Launch \/ (\E t \in Tables : TableStep(t)) \/ RunReturns

Spec == Init /\ [][Next]_vars

\* Go schedules Run and every goroutine, and every statement is answered.
FairSpec ==
  /\ Spec
  /\ WF_vars(Launch) /\ WF_vars(RunReturns)
  /\ \A t \in Tables : WF_vars(TableStep(t))

-----------------------------------------------------------------------------
(***************************************************************************)
(* Properties.                                                             *)
(***************************************************************************)
Active(t) == job[t].at \notin {"idle", "done"}

\* The semaphore counts the goroutines that run and admits migration.parallel
\* of them (validator.go:93, 98, 101); neither pool lends more connections
\* than it has, and a connection to PostgreSQL is held for a statement only.
TypeOK ==
  /\ launched \in 0 .. Len(order)
  /\ job \in [Tables -> Jobs]
  /\ report \in [Tables -> Statuses \cup {"none"}]
  /\ faults \in [Tables -> SUBSET {"connect", "count", "key", "cut", "later"}]
  /\ result \in Statuses \cup {"none"}
  /\ sem = Cardinality({t \in Tables : Active(t)}) /\ sem <= Parallel
  /\ onSource \subseteq {t \in Tables : job[t].at \in SourceSteps}
  /\ onTarget \subseteq {t \in Tables : Active(t)}
  /\ Cardinality(onSource) <= SourcePool /\ Cardinality(onTarget) <= TargetPool

\* What the comparison of table t has looked at is in TiDB.
Verified(t) ==
  LET d == db[t]
  IN  /\ Len(d.source) = Len(d.target)
      /\ mode = "sample" => Found(d.kinds, job[t].sample, d.target)
      /\ job[t].how # "sample" => Found(d.kinds, d.source, d.target)

\* A validation that passes has looked at every table and found every row it
\* read in TiDB, as often as it is in PostgreSQL; all rows with the strategies
\* that are called exact (validator.go:698, nopk.go:457).  Two things void
\* this: a count that fails, because a table without counts passes as an empty
\* one in the mode "sample" (validator.go:213-220), and a result set that ends
\* early unnoticed.
PassIsSound ==
  result = "pass" =>
    \A t \in Range(order) : faults[t] \cap {"count", "cut"} # {} \/ Verified(t)

\* No false alarm: when nothing went wrong, a faithful copy is not reported as
\* a failure by the row counts, by hash_group and by sampling with a primary
\* key, and a plain one not by aggregate and bucket, which neither trim texts
\* nor skip an array column on both sides (nopk.go:478-528, 591-641).  There is
\* no such promise for sampling without a primary key: the column it matches
\* rows by need not be unique.
MustPass(t) ==
  LET d == db[t]
  IN  \/ mode \in {"quick", "checksum"} /\ IsCopy(d.kinds, d.source, d.target)
      \/ /\ mode = "sample"
         /\ job[t].how = "hash_group" \/ (job[t].how = "sample" /\ d.pk # <<>>)
         /\ IsCopy(d.kinds, d.source, d.target)
      \/ mode = "sample" /\ job[t].how # "sample" /\ IsPlainCopy(d.kinds, d.source, d.target)

CopyPasses == \A t \in Tables : faults[t] = {} /\ MustPass(t) => report[t] # "fail"

\* Run returns: the semaphore and the two pools, of which a goroutine may hold
\* parts while it waits for others, never have everyone waiting for everyone.
ValidationEnds == <>(result # "none")
=============================================================================
