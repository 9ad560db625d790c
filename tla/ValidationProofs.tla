--------------------------- MODULE ValidationProofs ---------------------------
(***************************************************************************)
(* Theorems about Validation: type correctness with the bounds of the      *)
(* semaphore and the pools, the soundness of a PASS, and that no faithful  *)
(* copy raises an alarm.                                                   *)
(***************************************************************************)
EXTENDS Validation, RowCompareProofs, SequenceTheorems

-----------------------------------------------------------------------------
(***************************************************************************)
(* The inductive invariant.                                                *)
(***************************************************************************)
FaultKinds == {"connect", "count", "key", "cut", "later"}

Shapes ==
  /\ launched \in 0 .. Len(order)
  /\ job \in [Tables -> Jobs]
  /\ report \in [Tables -> Statuses \cup {"none"}]
  /\ faults \in [Tables -> SUBSET FaultKinds]
  /\ result \in Statuses \cup {"none"}

ActiveTables == {t \in Tables : Active(t)}
Slots == sem = Cardinality(ActiveTables) /\ sem <= Parallel

Pools ==
  /\ onSource \subseteq {t \in Tables : job[t].at \in SourceSteps}
  /\ onTarget \subseteq ActiveTables
  /\ Cardinality(onSource) <= SourcePool /\ Cardinality(onTarget) <= TargetPool

\* What Run has found stays as it is.
Static ==
  /\ order \in Seq(Tables)
  /\ \A i, k \in DOMAIN order : order[i] = order[k] => i = k
  /\ \A t \in Tables : IsTable(db[t])

\* The loop comes to a table once.
NotYet == \A i \in DOMAIN order : i > launched => job[order[i]].at = "idle"

\* Verified, of the table d and the goroutine j.
IsVerified(d, j) ==
  /\ Len(d.source) = Len(d.target)
  /\ mode = "sample" => Found(d.kinds, j.sample, d.target)
  /\ j.how # "sample" => Found(d.kinds, d.source, d.target)

Early == {"idle", "connect", "count source", "count target"}

\* What a goroutine j of a table d with the faults f and the report r knows
\* at each of its steps: before the counts nothing; after them, when it goes
\* on, that they agree; before the comparison which rows it has.
JobInv(d, j, f, r) ==
  LET clean == f \cap {"count", "cut"} = {}
  IN  /\ j.at \in Early => j.status = "pass" /\ j.rows = 0 /\ j.diff = 0
      /\ j.at \in {"count source", "count target"} => mode \in {"quick", "sample", "checksum"}
      /\ j.at \in Early \cup {"detect key", "checksum source", "checksum target"} =>
           j.how = "sample" /\ j.sample = <<>>
      /\ j.at \in {"detect key", "read source", "compare"} =>
           mode = "sample" /\ j.rows = Len(d.source) /\ Len(d.source) = Len(d.target)
      /\ j.at = "compare" =>
           /\ j.sample \in Seq([DOMAIN d.kinds -> Values])
           /\ j.from + Len(j.sample) <= Len(d.source)
           /\ clean /\ j.how # "sample" => j.sample = d.source
      /\ j.at \in {"report", "done"} /\ j.status = "pass" /\ clean => IsVerified(d, j)
      /\ j.at = "done" => r = j.status

JobsInv == \A t \in Tables : JobInv(db[t], job[t], faults[t], report[t])

\* Run has returned: all is done, and nothing was reported that is worse.
Returned ==
  result # "none" =>
    \A t \in Range(order) :
      job[t].at = "done" /\ (result = "pass" => report[t] \notin {"fail", "warn"})

Inv == Shapes /\ Slots /\ Pools /\ Static /\ NotYet /\ JobsInv /\ Returned

LEMMA InvTypeOK ==
  ASSUME Inv
  PROVE  TypeOK
BY DEF Inv, Shapes, Slots, Pools, ActiveTables, FaultKinds, TypeOK

LEMMA Known ==
  ASSUME Static, NEW t \in Tables
  PROVE  /\ db[t].kinds \in Seq(Kinds) /\ Len(db[t].kinds) <= MaxColumns
         /\ db[t].source \in Seq([DOMAIN db[t].kinds -> Values])
         /\ db[t].target \in Seq([DOMAIN db[t].kinds -> Values])
         /\ Len(db[t].source) \in Nat /\ Len(db[t].target) \in Nat
         /\ db[t].pk \in Seq(Nat)
<1>1. IsTable(db[t])
  BY DEF Static
<1>2. /\ db[t].kinds \in Seq(Kinds) /\ Len(db[t].kinds) <= MaxColumns
      /\ db[t].source \in Seq([DOMAIN db[t].kinds -> Values])
      /\ db[t].target \in Seq([DOMAIN db[t].kinds -> Values])
      /\ db[t].pk \in Seq(DOMAIN db[t].kinds)
  BY <1>1 DEF IsTable
<1>3. DOMAIN db[t].kinds \subseteq Nat
  BY <1>2
<1> QED
  BY <1>2, <1>3

LEMMA FiniteTables ==
  ASSUME NEW S \in SUBSET Tables
  PROVE  IsFiniteSet(S) /\ Cardinality(S) \in Nat
BY ValidationAssumption, FS_Subset, FS_CardinalityType

LEMMA OneMore ==
  ASSUME NEW S \in SUBSET Tables, NEW x \in Tables, NEW n \in Nat, Cardinality(S) < n
  PROVE  Cardinality(S \cup {x}) <= n
<1>1. IsFiniteSet(S) /\ Cardinality(S) \in Nat
  BY FiniteTables
<1>2. Cardinality(S \cup {x}) = IF x \in S THEN Cardinality(S) ELSE Cardinality(S) + 1
  BY <1>1, FS_AddElement
<1> QED
  BY <1>1, <1>2

-----------------------------------------------------------------------------
(***************************************************************************)
(* A step of the goroutine of t that is neither its first nor its last.    *)
(***************************************************************************)
LEMMA StepKeeps ==
  ASSUME Inv, NEW t \in Tables, NEW new \in Jobs, NEW f \in SUBSET FaultKinds,
         job[t].at \notin {"idle", "done"}, new.at \notin {"idle", "done"},
         job' = [job EXCEPT ![t] = new], faults' = [faults EXCEPT ![t] = f],
         UNCHANGED <<fixed, launched, sem, report, result>>,
         onSource' \subseteq onSource \cup {t}, t \in onSource' => new.at \in SourceSteps,
         Cardinality(onSource') <= SourcePool,
         onTarget' \subseteq onTarget \cup {t}, Cardinality(onTarget') <= TargetPool,
         JobInv(db[t], new, f, report[t])
  PROVE  Inv'
<1>0. job \in [Tables -> Jobs] /\ faults \in [Tables -> SUBSET FaultKinds]
  BY DEF Inv, Shapes
<1>1. /\ job'[t] = new /\ \A u \in Tables \ {t} : job'[u] = job[u]
      /\ faults'[t] = f /\ \A u \in Tables \ {t} : faults'[u] = faults[u]
  BY <1>0
<1>2. order' = order /\ db' = db /\ mode' = mode /\ launched' = launched /\ sem' = sem
      /\ report' = report /\ result' = result
  BY DEF fixed
<1>3. Shapes'
  BY <1>0, <1>2 DEF Inv, Shapes
<1>4. ActiveTables' = ActiveTables
  BY <1>1 DEF ActiveTables, Active
<1>5. Slots'
  BY <1>2, <1>4 DEF Inv, Slots
<1>6. Pools'
  <2>1. onSource' \subseteq {u \in Tables : job'[u].at \in SourceSteps}
    BY <1>1 DEF Inv, Pools
  <2>2. t \in ActiveTables
    BY DEF ActiveTables, Active
  <2>3. onTarget' \subseteq ActiveTables'
    BY <1>4, <2>2 DEF Inv, Pools
  <2> QED
    BY <2>1, <2>3 DEF Pools
<1>7. Static'
  BY <1>2 DEF Inv, Static
<1>8. NotYet'
  <2> SUFFICES ASSUME NEW i \in DOMAIN order, i > launched
               PROVE  job'[order[i]].at = "idle"
    BY <1>2 DEF NotYet
  <2>1. job[order[i]].at = "idle" /\ order[i] \in Tables
    BY DEF Inv, NotYet, Static
  <2> QED
    BY <1>1, <2>1
<1>9. JobsInv'
  <2> SUFFICES ASSUME NEW u \in Tables
               PROVE  JobInv(db[u], job[u], faults[u], report[u])'
    BY DEF JobsInv
  <2>1. JobInv(db[u], job'[u], faults'[u], report[u])
    BY <1>1 DEF Inv, JobsInv
  <2> QED
    BY <1>2, <2>1 DEF JobInv, IsVerified
<1>10. Returned'
  <2> SUFFICES ASSUME result # "none", NEW u \in Range(order)
               PROVE  job'[u].at = "done" /\ (result = "pass" => report[u] \notin {"fail", "warn"})
    BY <1>2 DEF Returned
  <2>1. job[u].at = "done" /\ (result = "pass" => report[u] \notin {"fail", "warn"}) /\ u \in Tables
    BY DEF Inv, Returned, Static, Range
  <2> QED
    BY <1>1, <2>1
<1> QED
  BY <1>3, <1>5, <1>6, <1>7, <1>8, <1>9, <1>10 DEF Inv

\* The parts of Inv that the steps look at.
LEMMA Before ==
  ASSUME Inv, NEW t \in Tables
  PROVE  /\ job[t] \in Jobs /\ faults[t] \in SUBSET FaultKinds
         /\ JobInv(db[t], job[t], faults[t], report[t])
         /\ faults = [faults EXCEPT ![t] = faults[t]]
         /\ onSource \in SUBSET Tables /\ onTarget \in SUBSET Tables
         /\ Cardinality(onSource) \in Nat /\ Cardinality(onTarget) \in Nat
         /\ Cardinality(onSource) <= SourcePool /\ Cardinality(onTarget) <= TargetPool
         /\ Cardinality(onSource \ {t}) <= SourcePool
         /\ t \notin onSource \/ job[t].at \in SourceSteps
<1>1. onSource \in SUBSET Tables /\ onTarget \in SUBSET Tables
  <2>1. onSource \subseteq {u \in Tables : job[u].at \in SourceSteps} /\ onTarget \subseteq ActiveTables
    BY DEF Inv, Pools
  <2> QED
    BY <2>1 DEF ActiveTables
<1>2. IsFiniteSet(onSource) /\ IsFiniteSet(onTarget)
      /\ Cardinality(onSource) \in Nat /\ Cardinality(onTarget) \in Nat
  BY <1>1, FiniteTables
<1>3. Cardinality(onSource \ {t}) <= Cardinality(onSource) /\ Cardinality(onSource \ {t}) \in Nat
  BY <1>1, <1>2, FiniteTables, FS_Subset, onSource \ {t} \in SUBSET onSource
<1>4. Cardinality(onSource) <= SourcePool /\ Cardinality(onTarget) <= TargetPool
  BY DEF Inv, Pools
<1>5. Cardinality(onSource \ {t}) <= SourcePool
  BY <1>2, <1>3, <1>4, ValidationAssumption
<1>6. job \in [Tables -> Jobs] /\ faults \in [Tables -> SUBSET FaultKinds]
  BY DEF Inv, Shapes
<1> QED
  BY <1>1, <1>2, <1>4, <1>5, <1>6 DEF Inv, Pools, JobsInv

-----------------------------------------------------------------------------
(***************************************************************************)
(* The actions of a goroutine.                                             *)
(***************************************************************************)
LEMMA ConnectKeeps ==
  ASSUME Inv, NEW t \in Tables, Connect(t)
  PROVE  Inv'
<1> DEFINE next  == [job[t] EXCEPT !.at = "count source"]
           ended == [job[t] EXCEPT !.at = "report", !.status = "fail"]
<1>1. /\ job[t].at = "connect"
      /\ Cardinality(onTarget) < TargetPool
      /\ onTarget' = onTarget \cup {t}
      /\ \/ job' = [job EXCEPT ![t] = next] /\ mode \in {"quick", "sample", "checksum"}
         \/ job' = [job EXCEPT ![t] = ended]
      /\ UNCHANGED <<fixed, launched, sem, onSource, report, result, faults>>
  BY DEF Connect, Becomes, Ends
<1>2. Cardinality(onTarget') <= TargetPool
  BY <1>1, Before, OneMore, ValidationAssumption
<1>3. next \in Jobs /\ ended \in Jobs
  BY Before DEF Jobs, Steps, SourceSteps, Statuses
<1>4. mode \in {"quick", "sample", "checksum"} => JobInv(db[t], next, faults[t], report[t])
  BY <1>1, Before DEF JobInv, Jobs, Early
<1>5. JobInv(db[t], ended, faults[t], report[t])
  BY <1>1, Before DEF JobInv, Jobs, Early
<1>6. next.at = "count source" /\ ended.at = "report" /\ t \notin onSource
  BY <1>1, Before DEF Jobs, SourceSteps
<1> HIDE DEF next, ended
<1>7. faults' = [faults EXCEPT ![t] = faults[t]] /\ faults[t] \in SUBSET FaultKinds
  BY <1>1, Before
<1>8. UNCHANGED <<fixed, launched, sem, report, result>> /\ onSource' = onSource
      /\ Cardinality(onSource') <= SourcePool
  BY <1>1, Before
<1> QED
  BY <1>1, <1>2, <1>3, <1>4, <1>5, <1>6, <1>7, <1>8, StepKeeps

LEMMA ConnectFailsKeeps ==
  ASSUME Inv, NEW t \in Tables, ConnectFails(t)
  PROVE  Inv'
<1> DEFINE new == [job[t] EXCEPT !.at = "report", !.status = "fail"]
<1>1. /\ job[t].at = "connect"
      /\ job' = [job EXCEPT ![t] = new]
      /\ faults' = [faults EXCEPT ![t] = faults[t] \cup {"connect"}]
      /\ UNCHANGED <<fixed, launched, sem, report, result>> /\ onSource' = onSource /\ onTarget' = onTarget
  BY DEF ConnectFails, Ends, Becomes, Fault
<1>2. new \in Jobs /\ new.at = "report" /\ t \notin onSource
  BY <1>1, Before DEF Jobs, Steps, SourceSteps, Statuses
<1>3. JobInv(db[t], new, faults[t] \cup {"connect"}, report[t])
  BY <1>1, Before DEF JobInv, Jobs, Early
<1> HIDE DEF new
<1> QED
  BY <1>1, <1>2, <1>3, Before, StepKeeps DEF FaultKinds

LEMMA QuerySourceKeeps ==
  ASSUME Inv, NEW t \in Tables, QuerySource(t)
  PROVE  Inv'
<1>1. /\ job[t].at \in SourceSteps /\ job' = job
      /\ Cardinality(onSource) < SourcePool /\ onSource' = onSource \cup {t}
      /\ UNCHANGED <<fixed, launched, sem, report, result>> /\ faults' = faults /\ onTarget' = onTarget
  BY DEF QuerySource
<1>2. Cardinality(onSource') <= SourcePool
  BY <1>1, Before, OneMore, ValidationAssumption
<1>3. job' = [job EXCEPT ![t] = job[t]] /\ job[t] \in Jobs /\ job[t].at \notin {"idle", "done"}
  BY <1>1, Before DEF Inv, Shapes, SourceSteps
<1> QED
  BY <1>1, <1>2, <1>3, Before, StepKeeps

\* Steps that give a PostgreSQL connection back, or need none.
LEMMA AnswerKeeps ==
  ASSUME Inv, NEW t \in Tables, NEW new \in Jobs, NEW f \in SUBSET FaultKinds,
         job[t].at \in SourceSteps \cup TargetSteps, new.at \notin {"idle", "done"},
         job' = [job EXCEPT ![t] = new], faults' = [faults EXCEPT ![t] = f],
         UNCHANGED <<fixed, launched, sem, onTarget, report, result>>,
         onSource' = onSource \ {t} \/ (onSource' = onSource /\ job[t].at \in TargetSteps),
         JobInv(db[t], new, f, report[t])
  PROVE  Inv'
<1>1. job[t].at \notin {"idle", "done"}
  BY DEF SourceSteps, TargetSteps
<1>2. job[t].at \in TargetSteps => t \notin onSource
  BY Before DEF SourceSteps, TargetSteps
<1>3. t \notin onSource' /\ onSource' \subseteq onSource \cup {t}
  BY <1>2
<1>4. Cardinality(onSource') <= SourcePool
  BY Before
<1>5. onTarget' \subseteq onTarget \cup {t} /\ Cardinality(onTarget') <= TargetPool
  BY Before
<1>6. UNCHANGED <<fixed, launched, sem, report, result>>
  OBVIOUS
<1> QED
  BY <1>1, <1>3, <1>4, <1>5, <1>6, StepKeeps

LEMMA FoundNothing ==
  ASSUME NEW kinds, NEW target
  PROVE  Found(kinds, <<>>, target)
<1> DEFINE f == [i \in {} |-> i]
<1>1. DOMAIN <<>> = {}
  OBVIOUS
<1>2. f \in [{} -> DOMAIN target] /\ \A a, b \in {} : f[a] = f[b] => a = b
  OBVIOUS
<1>3. f \in Injection({}, DOMAIN target)
  BY <1>2, Fun_IsInj
<1>4. \A i \in {} : AgreesWith(kinds, <<>>[i], target[f[i]])
  OBVIOUS
<1> HIDE DEF f
<1> QED
  BY <1>1, <1>3, <1>4 DEF Found

LEMMA CountFailsKeeps ==
  ASSUME Inv, NEW t \in Tables, job[t].at \in {"count source", "count target"}, CountFails(t),
         UNCHANGED <<fixed, launched, sem, onTarget, report, result>>,
         onSource' = onSource \ {t} \/ (onSource' = onSource /\ job[t].at \in TargetSteps)
  PROVE  Inv'
<1> DEFINE base == [job[t] EXCEPT !.status = "fail"]
           new  == AfterCounts(base)
           f    == faults[t] \cup {"count"}
<1>1. job' = [job EXCEPT ![t] = new] /\ faults' = [faults EXCEPT ![t] = f]
  BY DEF CountFails, Becomes, Fault
<1>2. /\ job[t] \in Jobs /\ job[t].rows = 0 /\ job[t].diff = 0 /\ job[t].how = "sample"
      /\ job[t].sample = <<>> /\ mode \in {"quick", "sample", "checksum"}
  BY Before DEF JobInv, Early
<1>3. \/ new = [job[t] EXCEPT !.at = "report", !.status = "fail"]
      \/ new = [job[t] EXCEPT !.at = "checksum source", !.status = "fail"]
      \/ new = [job[t] EXCEPT !.at = "report", !.status = "pass"]
  BY <1>2 DEF AfterCounts, Jobs
<1> HIDE DEF new
<1>4. new \in Jobs /\ new.at \in {"report", "checksum source"} /\ new.how = "sample" /\ new.sample = <<>>
  BY <1>2, <1>3 DEF Jobs, Steps, SourceSteps, Statuses
<1>5. JobInv(db[t], new, f, report[t])
  BY <1>4 DEF JobInv, Early
<1>6. f \in SUBSET FaultKinds
  BY Before DEF FaultKinds
<1>7. job[t].at \in SourceSteps \cup TargetSteps
  BY DEF SourceSteps, TargetSteps
<1> HIDE DEF f
<1> QED
  BY <1>1, <1>4, <1>5, <1>6, <1>7, AnswerKeeps

LEMMA CountSourceKeeps ==
  ASSUME Inv, NEW t \in Tables, CountSource(t)
  PROVE  Inv'
<1> DEFINE new == [job[t] EXCEPT !.at = "count target"]
<1>1. /\ job[t].at = "count source" /\ onSource' = onSource \ {t}
      /\ UNCHANGED <<fixed, launched, sem, onTarget, report, result>>
      /\ (job' = [job EXCEPT ![t] = new] /\ faults' = faults) \/ CountFails(t)
  BY DEF CountSource, SourceAnswers, Becomes
<1>2. CASE job' = [job EXCEPT ![t] = new] /\ faults' = faults
  <2>1. new \in Jobs /\ new.at = "count target"
    BY Before DEF Jobs, Steps, TargetSteps
  <2>2. JobInv(db[t], new, faults[t], report[t])
    BY <1>1, Before DEF JobInv, Early, Jobs
  <2>3. job[t].at \in SourceSteps \cup TargetSteps
    BY <1>1 DEF SourceSteps
  <2> HIDE DEF new
  <2> QED
    BY <1>1, <1>2, <2>1, <2>2, <2>3, Before, AnswerKeeps
<1>3. CASE CountFails(t)
  BY <1>1, <1>3, CountFailsKeeps
<1> QED
  BY <1>1, <1>2, <1>3

LEMMA CountTargetKeeps ==
  ASSUME Inv, NEW t \in Tables, CountTarget(t)
  PROVE  Inv'
<1> DEFINE n    == Len(db[t].source)
           diff == n - Len(db[t].target)
           base == [job[t] EXCEPT !.rows = n, !.diff = diff, !.status = IF diff # 0 THEN "fail" ELSE @]
           new  == AfterCounts(base)
<1>1. /\ job[t].at = "count target" /\ onSource' = onSource
      /\ UNCHANGED <<fixed, launched, sem, onTarget, report, result>>
      /\ (job' = [job EXCEPT ![t] = new] /\ faults' = faults) \/ CountFails(t)
  BY DEF CountTarget, TargetAnswers, Becomes
<1>2. /\ job[t] \in Jobs /\ job[t].status = "pass" /\ job[t].how = "sample"
      /\ job[t].sample = <<>> /\ mode \in {"quick", "sample", "checksum"}
  BY <1>1, Before DEF JobInv, Early
<1>3. CASE job' = [job EXCEPT ![t] = new] /\ faults' = faults
  <2>1. n \in Nat /\ Len(db[t].target) \in Nat /\ diff \in Int /\ (diff = 0 => n = Len(db[t].target))
    BY Known DEF Inv
  <2> HIDE DEF n, diff
  <2>2. /\ base \in Jobs /\ base.rows = n /\ base.diff = diff /\ base.how = "sample" /\ base.sample = <<>>
        /\ base.status = IF diff # 0 THEN "fail" ELSE "pass"
    BY <1>2, <2>1 DEF Jobs, Statuses
  <2> HIDE DEF base
  <2>3. \/ new = [base EXCEPT !.at = "report"] /\ (base.status = "pass" => diff = 0 /\ mode = "quick")
        \/ new = [base EXCEPT !.at = "checksum source"]
        \/ new = [base EXCEPT !.at = "report", !.status = "pass"] /\ diff = 0
        \/ new = [base EXCEPT !.at = "detect key"] /\ diff = 0 /\ mode = "sample"
    BY <1>2, <2>2 DEF AfterCounts
  <2> HIDE DEF new
  <2>4. /\ new \in Jobs /\ new.at \in {"report", "checksum source", "detect key"}
        /\ new.how = "sample" /\ new.sample = <<>> /\ new.rows = n
        /\ new.at = "report" /\ new.status = "pass" => diff = 0
        /\ new.at = "detect key" => diff = 0 /\ mode = "sample"
    BY <2>2, <2>3 DEF Jobs, Steps, SourceSteps, Statuses
  <2>5. new.at = "report" /\ new.status = "pass" => IsVerified(db[t], new)
    BY <2>1, <2>4, FoundNothing DEF IsVerified, n
  <2>6. JobInv(db[t], new, faults[t], report[t])
    BY <2>1, <2>4, <2>5 DEF JobInv, Early, n
  <2>7. job[t].at \in SourceSteps \cup TargetSteps /\ job[t].at \in TargetSteps
    BY <1>1 DEF TargetSteps
  <2>8. new.at \notin {"idle", "done"}
    BY <2>4
  <2> QED
    BY <1>1, <1>3, <2>4, <2>6, <2>7, <2>8, Before, AnswerKeeps
<1>4. CASE CountFails(t)
  BY <1>1, <1>4, CountFailsKeeps DEF TargetSteps
<1> QED
  BY <1>1, <1>3, <1>4

LEMMA DetectKeyKeeps ==
  ASSUME Inv, NEW t \in Tables, DetectKey(t)
  PROVE  Inv'
<1>1. /\ job[t].at = "detect key" /\ onSource' = onSource \ {t}
      /\ UNCHANGED <<fixed, launched, sem, onTarget, report, result>>
  BY DEF DetectKey, SourceAnswers
<1>2. PICK pk \in Seq(Nat), unique \in {TRUE, FALSE, db[t].unique}, f \in SUBSET FaultKinds :
        /\ Detected(t, pk, unique) /\ faults' = [faults EXCEPT ![t] = f]
        /\ faults[t] \subseteq f
  <2>0. <<>> \in Seq(Nat)
    OBVIOUS
  <2>1. db[t].pk \in Seq(Nat) /\ <<>> \in Seq(Nat)
    BY <2>0, Known DEF Inv
  <2>2. CASE Detected(t, db[t].pk, db[t].unique) /\ faults' = faults
    BY <2>1, <2>2, Before
  <2>3. CASE Detected(t, <<>>, FALSE) /\ Fault(t, "key")
    <3>1. faults[t] \cup {"key"} \in SUBSET FaultKinds
      BY Before DEF FaultKinds
    <3> QED
      BY <2>1, <2>3, <3>1 DEF Fault
  <2>4. ASSUME NEW n \in 0 .. Len(db[t].pk), NEW unique \in {FALSE, db[t].unique},
               Detected(t, SubSeq(db[t].pk, 1, n), unique), Fault(t, "key")
        PROVE  \E pk \in Seq(Nat), u \in {TRUE, FALSE, db[t].unique}, f \in SUBSET FaultKinds :
                 /\ Detected(t, pk, u) /\ faults' = [faults EXCEPT ![t] = f]
                 /\ faults[t] \subseteq f
    <3>1. faults[t] \cup {"key"} \in SUBSET FaultKinds
      BY Before DEF FaultKinds
    <3>2. \A i \in 1 .. n : db[t].pk[i] \in Nat
      BY <2>1
    <3>3. SubSeq(db[t].pk, 1, n) \in Seq(Nat)
      BY <3>2, SubSeqProperties
    <3> QED
      BY <2>4, <3>1, <3>3 DEF Fault
  <2> QED
    BY <2>2, <2>3, <2>4 DEF DetectKey
<1> DEFINE how == Comparison(pk # <<>> \/ unique, job[t].rows)
           new == [job[t] EXCEPT !.at = "read source", !.pk = pk, !.how = how]
<1>3. job' = [job EXCEPT ![t] = new]
  BY <1>2 DEF Detected, Becomes
<1>4. how \in Comparisons
  BY DEF Comparison, Comparisons
<1> HIDE DEF how
<1>5. new \in Jobs /\ new.at = "read source" /\ new.rows = job[t].rows
  BY <1>4, Before DEF Jobs, Steps, SourceSteps
<1>6. mode = "sample" /\ job[t].rows = Len(db[t].source) /\ Len(db[t].source) = Len(db[t].target)
  BY <1>1, Before DEF JobInv
<1> HIDE DEF new
<1>7. JobInv(db[t], new, f, report[t])
  BY <1>5, <1>6 DEF JobInv, Early
<1>8. job[t].at \in SourceSteps \cup TargetSteps
  BY <1>1 DEF SourceSteps
<1> QED
  BY <1>1, <1>2, <1>3, <1>5, <1>7, <1>8, AnswerKeeps

LEMMA SourceFailsKeeps ==
  ASSUME Inv, NEW t \in Tables, NEW step \in SourceSteps, NEW status \in {"warn", "fail"},
         SourceFails(t, step, status)
  PROVE  Inv'
<1> DEFINE new == [job[t] EXCEPT !.at = "report", !.status = status]
           f   == faults[t] \cup {"later"}
<1>1. /\ job[t].at = step /\ onSource' = onSource \ {t}
      /\ UNCHANGED <<fixed, launched, sem, onTarget, report, result>>
      /\ job' = [job EXCEPT ![t] = new] /\ faults' = [faults EXCEPT ![t] = f]
  BY DEF SourceFails, SourceAnswers, Ends, Becomes, Fault
<1>2. new \in Jobs /\ new.at = "report" /\ new.status \in {"warn", "fail"}
  BY Before DEF Jobs, Steps, Statuses
<1>3. JobInv(db[t], new, f, report[t])
  BY <1>2 DEF JobInv, Early
<1>4. f \in SUBSET FaultKinds
  BY Before DEF FaultKinds
<1> HIDE DEF new, f
<1> QED
  BY <1>1, <1>2, <1>3, <1>4, AnswerKeeps

LEMMA ReadSourceKeeps ==
  ASSUME Inv, NEW t \in Tables, ReadSource(t)
  PROVE  Inv'
<1> DEFINE source == db[t].source
           Rows   == [DOMAIN db[t].kinds -> Values]
<1>1. /\ job[t].at = "read source" /\ onSource' = onSource \ {t}
      /\ UNCHANGED <<fixed, launched, sem, onTarget, report, result>>
  BY DEF ReadSource, SourceAnswers
<1>2. job[t].rows = Len(source) /\ source \in Seq(Rows) /\ Len(source) \in Nat
      /\ mode = "sample" /\ Len(source) = Len(db[t].target)
  BY <1>1, Before, Known DEF JobInv, Inv
<1>3. PICK from \in Nat, size \in Nat, n \in Nat :
        /\ SourceRead(t, from, n) /\ n <= size /\ from + size <= Len(source)
        /\ job[t].how # "sample" => from = 0 /\ size = Len(source)
        /\ (n = size /\ faults' = faults) \/ Fault(t, "cut")
  <2>1. PICK w \in Windows(t) :
          \/ SourceRead(t, w.from, w.size) /\ faults' = faults
          \/ \E n \in 0 .. w.size - 1 : SourceRead(t, w.from, n) /\ Fault(t, "cut")
    BY DEF ReadSource
  <2>2. /\ w.from \in Nat /\ w.size \in Nat /\ w.from + w.size <= Len(source)
        /\ job[t].how # "sample" => w.from = 0 /\ w.size = Len(source)
    <3>1. CASE job[t].how = "sample"
      BY <1>2, <3>1, ValidationAssumption DEF Windows
    <3>2. CASE job[t].how # "sample"
      BY <1>2, <3>2 DEF Windows
    <3> QED
      BY <3>1, <3>2
  <2>3. CASE SourceRead(t, w.from, w.size) /\ faults' = faults
    BY <2>2, <2>3
  <2>4. ASSUME NEW n \in 0 .. w.size - 1, SourceRead(t, w.from, n), Fault(t, "cut")
        PROVE  n \in Nat /\ n <= w.size
    BY <2>2
  <2> QED
    BY <2>1, <2>2, <2>3, <2>4
<1> DEFINE sample == SubSeq(source, from + 1, from + n)
           new    == [job[t] EXCEPT !.at = "compare", !.from = from, !.sample = sample]
<1>4. job' = [job EXCEPT ![t] = new]
  BY <1>3 DEF SourceRead, Becomes
<1>5. PICK f \in SUBSET FaultKinds :
        faults' = [faults EXCEPT ![t] = f] /\ (f \cap {"count", "cut"} = {} => n = size)
  <2>1. CASE n = size /\ faults' = faults
    BY <2>1, Before
  <2>2. CASE Fault(t, "cut")
    <3>1. faults[t] \cup {"cut"} \in SUBSET FaultKinds
      BY Before DEF FaultKinds
    <3> QED
      BY <2>2, <3>1 DEF Fault
  <2> QED
    BY <1>3, <2>1, <2>2
<1>6. sample \in Seq(Rows) /\ Len(sample) = n
  <2>1. from + 1 \in Int /\ from + n \in Int /\ from + n <= Len(source)
    BY <1>2, <1>3
  <2>2. \A i \in from + 1 .. from + n : source[i] \in Rows
    BY <1>2, <2>1
  <2>3. /\ sample \in Seq(Rows)
        /\ Len(sample) = IF from + 1 <= from + n THEN from + n - (from + 1) + 1 ELSE 0
    BY <2>1, <2>2, SubSeqProperties
  <2> QED
    BY <2>1, <2>3
<1>7. job[t].how # "sample" /\ n = size => sample = source
  BY <1>2, <1>3, SubSeqFull
<1>8. sample \in Seq(Seq(Values))
  <2>1. DOMAIN db[t].kinds = 1 .. Len(db[t].kinds) /\ Len(db[t].kinds) \in Nat
    BY Known DEF Inv
  <2>2. Rows \subseteq Seq(Values)
    BY <2>1
  <2> QED
    BY <1>6, <2>2
<1>9. from + Len(sample) <= Len(source)
  BY <1>2, <1>3, <1>6
<1> HIDE DEF sample
<1>10. /\ new \in Jobs /\ new.at = "compare" /\ new.sample = sample /\ new.from = from
       /\ new.how = job[t].how /\ new.rows = job[t].rows
  BY <1>3, <1>8, Before DEF Jobs, Steps, TargetSteps
<1> HIDE DEF new
<1>11. JobInv(db[t], new, f, report[t])
  BY <1>2, <1>5, <1>6, <1>7, <1>9, <1>10 DEF JobInv, Early
<1>12. job[t].at \in SourceSteps \cup TargetSteps
  BY <1>1 DEF SourceSteps
<1> QED
  BY <1>1, <1>4, <1>5, <1>10, <1>11, <1>12, AnswerKeeps

\* A comparison of what was read in full, and with TiDB in full.
LEMMA MatchesVerified ==
  ASSUME Inv, NEW t \in Tables, job[t].at = "compare",
         faults[t] \cap {"count", "cut"} = {}, Matches(t, db[t].target)
  PROVE  IsVerified(db[t], job[t])
<1> DEFINE kinds  == db[t].kinds
           Rows   == [DOMAIN kinds -> Values]
           rows   == job[t].sample
           source == db[t].source
           target == db[t].target
<1>1. /\ kinds \in Seq(Kinds) /\ Len(kinds) <= MaxColumns
      /\ source \in Seq(Rows) /\ target \in Seq(Rows)
  BY Known DEF Inv
<1>2. /\ rows \in Seq(Rows) /\ Len(source) = Len(target)
      /\ job[t].from \in Nat /\ job[t].from + Len(rows) <= Len(target)
      /\ job[t].how # "sample" => rows = source
  BY Before DEF JobInv, Jobs
<1>3. \/ job[t].how = "hash_group" /\ HashGroupMatches(kinds, rows, target)
      \/ job[t].how = "aggregate" /\ AggregateMatches(kinds, rows, target)
      \/ job[t].how = "bucket" /\ BucketCompareMatches(kinds, rows, target)
      \/ job[t].how = "sample" /\ SampleMatches(kinds, job[t].pk, job[t].from, rows, target)
  BY DEF Matches
<1> HIDE DEF kinds, Rows, rows, source, target
<1>4. Found(kinds, rows, target)
  <2>1. CASE HashGroupMatches(kinds, rows, target)
    BY <1>1, <1>2, <2>1, HashGroupSound
  <2>2. CASE AggregateMatches(kinds, rows, target)
    BY <1>1, <1>2, <2>2, AggregateSound
  <2>3. CASE BucketCompareMatches(kinds, rows, target)
    <3>1. rows \in Seq([DOMAIN kinds -> Values]) /\ target \in Seq([DOMAIN kinds -> Values])
      BY <1>1, <1>2 DEF Rows
    <3> QED
      BY <1>1, <2>3, <3>1, BucketSound
  <2>4. CASE SampleMatches(kinds, job[t].pk, job[t].from, rows, target)
    <3> DEFINE keyCols == KeyColumns(kinds, job[t].pk, rows)
    <3>1. KeyedMatches(kinds, keyCols, rows, target) \/ PositionsMatch(kinds, job[t].from, rows, target)
      BY <2>4 DEF SampleMatches
    <3> HIDE DEF keyCols
    <3> QED
      BY <1>1, <1>2, <3>1, KeyedSound, PositionsSound
  <2> QED
    BY <1>3, <2>1, <2>2, <2>3, <2>4
<1> QED
  BY <1>2, <1>4 DEF IsVerified, kinds, rows, source, target

LEMMA CompareKeeps ==
  ASSUME Inv, NEW t \in Tables, Compare(t)
  PROVE  Inv'
<1> DEFINE new(status) == [job[t] EXCEPT !.at = "report", !.status = status]
<1>1. /\ job[t].at = "compare" /\ onSource' = onSource
      /\ UNCHANGED <<fixed, launched, sem, onTarget, report, result>>
  BY DEF Compare, TargetAnswers
<1>2. PICK status \in {"pass", "fail"}, f \in SUBSET FaultKinds :
        /\ job' = [job EXCEPT ![t] = new(status)] /\ faults' = [faults EXCEPT ![t] = f]
        /\ status = "pass" /\ f \cap {"count", "cut"} = {} =>
             f = faults[t] /\ Matches(t, db[t].target)
  <2>1. CASE Verdict(t, db[t].target) /\ faults' = faults
    BY <2>1, Before DEF Verdict, Ends, Becomes
  <2>2. CASE Ends(t, "fail") /\ Fault(t, "later")
    <3>1. /\ job' = [job EXCEPT ![t] = new("fail")]
          /\ faults' = [faults EXCEPT ![t] = faults[t] \cup {"later"}]
      BY <2>2 DEF Ends, Becomes, Fault
    <3>2. faults[t] \cup {"later"} \in SUBSET FaultKinds
      BY Before DEF FaultKinds
    <3> QED
      BY <3>1, <3>2
  <2>3. ASSUME NEW target, Verdict(t, target), Fault(t, "cut")
        PROVE  \E status \in {"pass", "fail"}, f \in SUBSET FaultKinds :
                 /\ job' = [job EXCEPT ![t] = new(status)] /\ faults' = [faults EXCEPT ![t] = f]
                 /\ "cut" \in f
    <3>1. \E status \in {"pass", "fail"} : job' = [job EXCEPT ![t] = new(status)]
      BY <2>3 DEF Verdict, Ends, Becomes
    <3>2. faults' = [faults EXCEPT ![t] = faults[t] \cup {"cut"}]
      BY <2>3 DEF Fault
    <3>3. faults[t] \cup {"cut"} \in SUBSET FaultKinds
      BY Before DEF FaultKinds
    <3> HIDE DEF new
    <3> QED
      BY <3>1, <3>2, <3>3
  <2>4. \/ Verdict(t, db[t].target) /\ faults' = faults
        \/ \E target : Verdict(t, target) /\ Fault(t, "cut")
        \/ Ends(t, "fail") /\ Fault(t, "later")
    BY DEF Compare
  <2> HIDE DEF new
  <2> QED
    BY <2>1, <2>2, <2>3, <2>4
<1>3. /\ new(status) \in Jobs /\ new(status).at = "report" /\ new(status).status = status
      /\ new(status).sample = job[t].sample /\ new(status).how = job[t].how
  BY Before DEF Jobs, Steps, Statuses
<1> HIDE DEF new
<1>4. status = "pass" /\ f \cap {"count", "cut"} = {} => IsVerified(db[t], new(status))
  <2> SUFFICES ASSUME status = "pass", f \cap {"count", "cut"} = {}
               PROVE  IsVerified(db[t], new(status))
    OBVIOUS
  <2>1. IsVerified(db[t], job[t])
    BY <1>1, <1>2, MatchesVerified
  <2> QED
    BY <1>3, <2>1 DEF IsVerified
<1>5. JobInv(db[t], new(status), f, report[t])
  BY <1>3, <1>4 DEF JobInv, Early
<1>6. job[t].at \in SourceSteps \cup TargetSteps /\ job[t].at \in TargetSteps
  BY <1>1 DEF TargetSteps
<1> QED
  BY <1>1, <1>2, <1>3, <1>5, <1>6, AnswerKeeps

LEMMA ChecksumSourceKeeps ==
  ASSUME Inv, NEW t \in Tables, ChecksumSource(t)
  PROVE  Inv'
<1> DEFINE new == [job[t] EXCEPT !.at = "checksum target"]
<1>1. /\ job[t].at = "checksum source" /\ onSource' = onSource \ {t}
      /\ UNCHANGED <<fixed, launched, sem, onTarget, report, result>>
      /\ job' = [job EXCEPT ![t] = new] /\ faults' = faults
  BY DEF ChecksumSource, SourceAnswers, Becomes
<1>2. new \in Jobs /\ new.at = "checksum target" /\ new.how = "sample" /\ new.sample = <<>>
  BY <1>1, Before DEF Jobs, Steps, TargetSteps, JobInv
<1>3. JobInv(db[t], new, faults[t], report[t])
  BY <1>2 DEF JobInv, Early
<1>4. job[t].at \in SourceSteps \cup TargetSteps
  BY <1>1 DEF SourceSteps
<1> HIDE DEF new
<1> QED
  BY <1>1, <1>2, <1>3, <1>4, Before, AnswerKeeps

LEMMA ChecksumTargetKeeps ==
  ASSUME Inv, NEW t \in Tables, ChecksumTarget(t)
  PROVE  Inv'
<1> DEFINE new == [job[t] EXCEPT !.at = "report", !.status = "warn"]
<1>1. /\ job[t].at = "checksum target" /\ onSource' = onSource
      /\ UNCHANGED <<fixed, launched, sem, onTarget, report, result>>
      /\ job' = [job EXCEPT ![t] = new] /\ faults' = faults
  BY DEF ChecksumTarget, TargetAnswers, Ends, Becomes
<1>2. new \in Jobs /\ new.at = "report" /\ new.status = "warn"
  BY Before DEF Jobs, Steps, Statuses
<1>3. JobInv(db[t], new, faults[t], report[t])
  BY <1>2 DEF JobInv, Early
<1>4. job[t].at \in SourceSteps \cup TargetSteps /\ job[t].at \in TargetSteps
  BY <1>1 DEF TargetSteps
<1> HIDE DEF new
<1> QED
  BY <1>1, <1>2, <1>3, <1>4, Before, AnswerKeeps

LEMMA ReportKeeps ==
  ASSUME Inv, NEW t \in Tables, Report(t)
  PROVE  Inv'
<1> DEFINE new == [job[t] EXCEPT !.at = "done"]
<1>1. /\ job[t].at = "report" /\ report' = [report EXCEPT ![t] = job[t].status]
      /\ onTarget' = onTarget \ {t} /\ sem' = sem - 1
      /\ order' = order /\ db' = db /\ mode' = mode
      /\ launched' = launched /\ onSource' = onSource /\ result' = result /\ faults' = faults
  BY DEF Report, fixed
<1>2. job \in [Tables -> Jobs] /\ report \in [Tables -> Statuses \cup {"none"}]
      /\ job' = [job EXCEPT ![t] = new]
  BY DEF Inv, Shapes, Report
<1>3. new \in Jobs /\ new.at = "done" /\ new.status = job[t].status /\ job[t].status \in Statuses
      /\ new.how = job[t].how /\ new.sample = job[t].sample
  BY <1>2 DEF Jobs, Steps
<1>4. JobInv(db[t], new, faults[t], job[t].status)
  <2>1. job[t].status = "pass" /\ faults[t] \cap {"count", "cut"} = {} => IsVerified(db[t], job[t])
    BY <1>1, Before DEF JobInv
  <2> HIDE DEF new
  <2> QED
    BY <1>3, <2>1 DEF JobInv, IsVerified, Early
<1> HIDE DEF new
<1>5. /\ job'[t] = new /\ report'[t] = job[t].status
      /\ \A u \in Tables \ {t} : job'[u] = job[u] /\ report'[u] = report[u]
  BY <1>1, <1>2
<1>6. Shapes'
  BY <1>1, <1>2, <1>3 DEF Inv, Shapes
<1>7. ActiveTables' = ActiveTables \ {t} /\ t \in ActiveTables
  BY <1>1, <1>3, <1>5 DEF ActiveTables, Active
<1>8. Slots'
  <2>1. IsFiniteSet(ActiveTables) /\ Cardinality(ActiveTables) \in Nat
    BY FiniteTables DEF ActiveTables
  <2>2. Cardinality(ActiveTables \ {t}) = Cardinality(ActiveTables) - 1
    BY <1>7, <2>1, FS_RemoveElement
  <2> QED
    BY <1>1, <1>7, <2>1, <2>2, ValidationAssumption DEF Inv, Slots
<1>9. Pools'
  <2>1. t \notin onSource
    BY <1>1, Before DEF SourceSteps
  <2>2. onSource' \subseteq {u \in Tables : job'[u].at \in SourceSteps}
    BY <1>1, <1>5, <2>1 DEF Inv, Pools
  <2>3. onTarget' \subseteq ActiveTables'
    BY <1>1, <1>7 DEF Inv, Pools
  <2>4. Cardinality(onTarget \ {t}) <= Cardinality(onTarget) /\ Cardinality(onTarget \ {t}) \in Nat
    <3>1. IsFiniteSet(onTarget) /\ onTarget \ {t} \in SUBSET onTarget /\ onTarget \ {t} \in SUBSET Tables
      BY Before, FiniteTables
    <3> QED
      BY <3>1, FiniteTables, FS_Subset
  <2>5. Cardinality(onTarget') <= TargetPool
    <3>1. Cardinality(onTarget) \in Nat /\ Cardinality(onTarget) <= TargetPool /\ TargetPool \in Nat
      BY Before, ValidationAssumption
    <3> QED
      BY <1>1, <2>4, <3>1
  <2> QED
    BY <1>1, <2>2, <2>3, <2>5, Before DEF Pools
<1>10. Static'
  BY <1>1 DEF Inv, Static
<1>11. NotYet'
  <2> SUFFICES ASSUME NEW i \in DOMAIN order, i > launched
               PROVE  job'[order[i]].at = "idle"
    BY <1>1 DEF NotYet
  <2>1. job[order[i]].at = "idle" /\ order[i] \in Tables
    BY DEF Inv, NotYet, Static
  <2> QED
    BY <1>1, <1>5, <2>1
<1>12. JobsInv'
  <2> SUFFICES ASSUME NEW u \in Tables
               PROVE  JobInv(db[u], job[u], faults[u], report[u])'
    BY DEF JobsInv
  <2>1. JobInv(db[u], job'[u], faults[u], report'[u])
    BY <1>4, <1>5 DEF Inv, JobsInv
  <2> QED
    BY <1>1, <2>1 DEF JobInv, IsVerified
<1>13. Returned'
  <2> SUFFICES ASSUME result # "none", NEW u \in Range(order)
               PROVE  job'[u].at = "done" /\ (result = "pass" => report'[u] \notin {"fail", "warn"})
    BY <1>1 DEF Returned
  <2>1. job[u].at = "done" /\ (result = "pass" => report[u] \notin {"fail", "warn"}) /\ u \in Tables
    BY DEF Inv, Returned, Static, Range
  <2> QED
    BY <1>1, <1>5, <2>1
<1> QED
  BY <1>6, <1>8, <1>9, <1>10, <1>11, <1>12, <1>13 DEF Inv

-----------------------------------------------------------------------------
(***************************************************************************)
(* The loop of Run.                                                        *)
(***************************************************************************)
LEMMA LaunchKeeps ==
  ASSUME Inv, Launch
  PROVE  Inv'
<1> DEFINE t   == order[launched + 1]
           new == [job[t] EXCEPT !.at = "connect"]
<1>1. /\ launched < Len(order) /\ sem < Parallel
      /\ launched' = launched + 1 /\ sem' = sem + 1
      /\ order' = order /\ db' = db /\ mode' = mode
      /\ onSource' = onSource /\ onTarget' = onTarget /\ report' = report
      /\ result' = result /\ faults' = faults
  BY DEF Launch, fixed
<1>2. order \in Seq(Tables) /\ Len(order) \in Nat /\ launched \in 0 .. Len(order)
      /\ DOMAIN order = 1 .. Len(order)
  BY DEF Inv, Static, Shapes
<1>3. launched + 1 \in DOMAIN order /\ t \in Tables /\ t \in Range(order)
  BY <1>1, <1>2 DEF Range
<1>4. job[t].at = "idle"
  BY <1>2, <1>3 DEF Inv, NotYet
<1>5. job \in [Tables -> Jobs] /\ job' = [job EXCEPT ![t] = new]
  BY <1>3 DEF Inv, Shapes, Launch
<1>6. new \in Jobs /\ new.at = "connect"
  BY <1>3, <1>5 DEF Jobs, Steps
<1>7. JobInv(db[t], new, faults[t], report[t])
  <2>1. job[t] \in Jobs /\ JobInv(db[t], job[t], faults[t], report[t])
    BY <1>3, <1>5 DEF Inv, JobsInv
  <2> QED
    BY <1>4, <2>1 DEF JobInv, Jobs, Early
<1> HIDE DEF new
<1>8. job'[t] = new /\ \A u \in Tables \ {t} : job'[u] = job[u]
  BY <1>3, <1>5
<1>9. Shapes'
  <2>1. launched' \in 0 .. Len(order')
    BY <1>1, <1>2
  <2>2. job' \in [Tables -> Jobs]
    BY <1>5, <1>6
  <2> QED
    BY <1>1, <2>1, <2>2 DEF Inv, Shapes
<1>10. ActiveTables' = ActiveTables \cup {t} /\ t \notin ActiveTables
  BY <1>3, <1>4, <1>6, <1>8 DEF ActiveTables, Active
<1>11. Slots'
  <2>1. IsFiniteSet(ActiveTables) /\ Cardinality(ActiveTables) \in Nat
    BY FiniteTables DEF ActiveTables
  <2>2. Cardinality(ActiveTables \cup {t}) = Cardinality(ActiveTables) + 1
    BY <1>10, <2>1, FS_AddElement
  <2> QED
    BY <1>1, <1>10, <2>1, <2>2, ValidationAssumption DEF Inv, Slots
<1>12. Pools'
  <2>1. t \notin onSource
    BY <1>3, <1>4, Before DEF SourceSteps
  <2>2. onSource' \subseteq {u \in Tables : job'[u].at \in SourceSteps}
    BY <1>1, <1>8, <2>1 DEF Inv, Pools
  <2> QED
    BY <1>1, <1>10, <2>2 DEF Inv, Pools
<1>13. Static'
  BY <1>1 DEF Inv, Static
<1>14. NotYet'
  <2> SUFFICES ASSUME NEW i \in DOMAIN order, i > launched + 1
               PROVE  job'[order[i]].at = "idle"
    BY <1>1 DEF NotYet
  <2>1. i > launched /\ i # launched + 1
    BY <1>2
  <2>2. job[order[i]].at = "idle" /\ order[i] \in Tables
    BY <2>1 DEF Inv, NotYet, Static
  <2>3. order[i] # t
    BY <1>3, <2>1 DEF Inv, Static
  <2> QED
    BY <1>8, <2>2, <2>3
<1>15. JobsInv'
  <2> SUFFICES ASSUME NEW u \in Tables
               PROVE  JobInv(db[u], job[u], faults[u], report[u])'
    BY DEF JobsInv
  <2>1. JobInv(db[u], job'[u], faults[u], report[u])
    BY <1>7, <1>8 DEF Inv, JobsInv
  <2> QED
    BY <1>1, <2>1 DEF JobInv, IsVerified
<1>16. Returned'
  <2>1. result = "none"
    BY <1>3, <1>4 DEF Inv, Returned
  <2> QED
    BY <1>1, <2>1 DEF Returned
<1> QED
  BY <1>9, <1>11, <1>12, <1>13, <1>14, <1>15, <1>16 DEF Inv

LEMMA RunReturnsKeeps ==
  ASSUME Inv, RunReturns
  PROVE  Inv'
<1>1. /\ \A t \in Range(order) : job[t].at = "done"
      /\ result' = OverallStatus
      /\ order' = order /\ db' = db /\ mode' = mode
      /\ launched' = launched /\ sem' = sem /\ job' = job /\ onSource' = onSource
      /\ onTarget' = onTarget /\ report' = report /\ faults' = faults
  BY DEF RunReturns, fixed
<1>2. OverallStatus \in Statuses
  BY DEF OverallStatus, Statuses
<1>3. OverallStatus = "pass" => \A t \in Range(order) : report[t] \notin {"fail", "warn"}
  BY DEF OverallStatus
<1>4. Shapes'
  BY <1>1, <1>2 DEF Inv, Shapes
<1>5. Slots' /\ Pools'
  BY <1>1 DEF Inv, Slots, Pools, ActiveTables, Active
<1>6. Static' /\ NotYet'
  BY <1>1 DEF Inv, Static, NotYet
<1>7. JobsInv'
  BY <1>1 DEF Inv, JobsInv, JobInv, IsVerified
<1>8. Returned'
  BY <1>1, <1>3 DEF Returned
<1> QED
  BY <1>4, <1>5, <1>6, <1>7, <1>8 DEF Inv

-----------------------------------------------------------------------------
LEMMA InitInv ==
  ASSUME Init
  PROVE  Inv
<1>1. PICK input \in Inputs : order = input.order /\ db = input.db
  BY DEF Init
<1>2. /\ launched = 0 /\ sem = 0 /\ job = [t \in Tables |-> NewJob]
      /\ onSource = {} /\ onTarget = {} /\ report = [t \in Tables |-> "none"]
      /\ result = "none" /\ faults = [t \in Tables |-> {}]
  BY DEF Init
<1>3. Static
  BY <1>1, ValidationAssumption DEF Static
<1>4. NewJob \in Jobs
  <2>1. <<>> \in Seq(Nat) /\ <<>> \in Seq(Seq(Values))
    OBVIOUS
  <2> QED
    BY <2>1 DEF NewJob, Jobs, Steps, Statuses, Comparisons
<1>5. Shapes
  <2>1. Len(order) \in Nat
    BY <1>3 DEF Static
  <2> QED
    BY <1>2, <1>4, <2>1 DEF Shapes
<1>6. ActiveTables = {}
  BY <1>2 DEF ActiveTables, Active, NewJob
<1>7. Slots
  BY <1>2, <1>6, FS_EmptySet, ValidationAssumption DEF Slots
<1>8. Pools
  BY <1>2, FS_EmptySet, ValidationAssumption DEF Pools
<1>9. NotYet
  BY <1>2, <1>3 DEF NotYet, Static, NewJob
<1>10. JobsInv
  BY <1>2 DEF JobsInv, JobInv, NewJob, Early
<1>11. Returned
  BY <1>2 DEF Returned
<1> QED
  BY <1>3, <1>5, <1>7, <1>8, <1>9, <1>10, <1>11 DEF Inv

LEMMA NextInv ==
  ASSUME Inv, [Next]_vars
  PROVE  Inv'
<1>1. CASE Launch
  BY <1>1, LaunchKeeps
<1>2. CASE RunReturns
  BY <1>2, RunReturnsKeeps
<1>3. ASSUME NEW t \in Tables, TableStep(t)
      PROVE  Inv'
  <2>1. CASE SourceFails(t, "read source", "fail") \/ SourceFails(t, "checksum source", "warn")
    BY <2>1, SourceFailsKeeps DEF SourceSteps
  <2> QED
    BY <1>3, <2>1, ConnectKeeps, ConnectFailsKeeps, QuerySourceKeeps, CountSourceKeeps,
       CountTargetKeeps, DetectKeyKeeps, ReadSourceKeeps, CompareKeeps, ChecksumSourceKeeps,
       ChecksumTargetKeeps, ReportKeeps DEF TableStep
<1>4. CASE UNCHANGED vars
  <2>1. /\ order' = order /\ db' = db /\ mode' = mode
        /\ launched' = launched /\ sem' = sem /\ job' = job /\ onSource' = onSource
        /\ onTarget' = onTarget /\ report' = report /\ result' = result /\ faults' = faults
    BY <1>4 DEF vars
  <2>2. Shapes' /\ Slots' /\ Pools'
    BY <2>1 DEF Inv, Shapes, Slots, Pools, ActiveTables, Active
  <2>3. Static' /\ NotYet' /\ Returned'
    BY <2>1 DEF Inv, Static, NotYet, Returned
  <2>4. JobsInv'
    BY <2>1 DEF Inv, JobsInv, JobInv, IsVerified
  <2> QED
    BY <2>2, <2>3, <2>4 DEF Inv
<1> QED
  BY <1>1, <1>2, <1>3, <1>4 DEF Next

LEMMA InvPassIsSound ==
  ASSUME Inv
  PROVE  PassIsSound
<1> SUFFICES ASSUME result = "pass", NEW t \in Range(order), faults[t] \cap {"count", "cut"} = {}
             PROVE  Verified(t)
  BY DEF PassIsSound
<1>1. t \in Tables /\ job[t].at = "done" /\ report[t] \notin {"fail", "warn"}
  BY DEF Inv, Returned, Static, Range
<1>2. job[t] \in Jobs /\ JobInv(db[t], job[t], faults[t], report[t])
  BY <1>1, Before
<1>3. job[t].status = "pass"
  BY <1>1, <1>2 DEF JobInv, Jobs, Statuses
<1>4. IsVerified(db[t], job[t])
  BY <1>1, <1>2, <1>3 DEF JobInv
<1> QED
  BY <1>4 DEF IsVerified, Verified

-----------------------------------------------------------------------------
(***************************************************************************)
(* No false alarm.                                                         *)
(***************************************************************************)
\* MustPass, of the table d and the goroutine j.
IsPromised(d, j) ==
  \/ mode \in {"quick", "checksum"} /\ IsCopy(d.kinds, d.source, d.target)
  \/ /\ mode = "sample"
     /\ j.how = "hash_group" \/ (j.how = "sample" /\ d.pk # <<>>)
     /\ IsCopy(d.kinds, d.source, d.target)
  \/ mode = "sample" /\ j.how # "sample" /\ IsPlainCopy(d.kinds, d.source, d.target)

\* While nothing went wrong, a goroutine j has the primary key of its table d,
\* compares rows that lie side by side in PostgreSQL, and ends with a failure
\* only where none was ruled out.
CopyInv(d, j, f, r) ==
  /\ r # "none" => j.at = "done"
  /\ f = {} =>
       /\ j.at \in {"read source", "compare"} => j.pk = d.pk
       /\ j.at = "compare" =>
            j.sample = SubSeq(d.source, j.from + 1, j.from + Len(j.sample))
       /\ j.at \in {"report", "done"} /\ j.status = "fail" => ~IsPromised(d, j)

CopiesInv == \A t \in Tables : CopyInv(db[t], job[t], faults[t], report[t])

\* The comparison promised to pass does: nothing is ruled out falsely.
LEMMA PromisedMatches ==
  ASSUME Inv, CopiesInv, NEW t \in Tables, job[t].at = "compare", faults[t] = {},
         IsPromised(db[t], job[t])
  PROVE  Matches(t, db[t].target)
<1> DEFINE kinds  == db[t].kinds
           Rows   == [DOMAIN kinds -> Values]
           rows   == job[t].sample
           source == db[t].source
           target == db[t].target
           pk     == job[t].pk
           from   == job[t].from
<1>1. /\ kinds \in Seq(Kinds) /\ source \in Seq(Rows) /\ target \in Seq(Rows)
      /\ db[t].pk \in Seq(DOMAIN kinds) /\ (db[t].pk # <<>> => IsKey(kinds, db[t].pk, source))
  BY DEF Inv, Static, IsTable
<1>2. /\ rows \in Seq(Rows) /\ from \in Nat /\ from + Len(rows) <= Len(source)
      /\ job[t].how # "sample" => rows = source
      /\ mode = "sample" /\ job[t].how \in Comparisons
  BY Before DEF JobInv, Jobs
<1>3. pk = db[t].pk /\ rows = SubSeq(source, from + 1, from + Len(rows))
  BY DEF CopiesInv, CopyInv
<1>4. \/ job[t].how = "hash_group" \/ (job[t].how = "sample" /\ pk # <<>>)
      \/ job[t].how # "sample" /\ IsPlainCopy(kinds, source, target)
  BY <1>2, <1>3 DEF IsPromised
<1>5. IsCopy(kinds, source, target)
  BY <1>2, PlainCopyIsCopy DEF IsPromised
<1> HIDE DEF kinds, Rows, rows, source, target, pk, from
<1>6. CASE job[t].how = "hash_group"
  <2>1. HashGroupMatches(kinds, rows, target)
    BY <1>1, <1>2, <1>5, <1>6, CopyMatchesHashGroup
  <2> QED
    BY <1>6, <2>1 DEF Matches, kinds, rows, target
<1>7. CASE job[t].how = "sample" /\ pk # <<>>
  <2>1. Len(rows) \in Nat /\ Len(source) \in Nat /\ DOMAIN rows = 1 .. Len(rows)
    BY <1>1, <1>2
  <2>2. \A i \in DOMAIN rows : rows[i] = source[from + i]
    <3> SUFFICES ASSUME NEW i \in 1 .. Len(rows) PROVE rows[i] = source[from + i]
      BY <2>1
    <3>1. SubSeq(source, from + 1, from + Len(rows))[i] = source[from + 1 + i - 1]
      BY <1>1, <1>2, <2>1
    <3> QED
      BY <1>2, <1>3, <2>1, <3>1
  <2>3. pk \in Seq(DOMAIN kinds) /\ pk # <<>> /\ IsKey(kinds, pk, source)
    BY <1>1, <1>3, <1>7
  <2>4. source \in Seq([DOMAIN kinds -> Values]) /\ target \in Seq([DOMAIN kinds -> Values])
        /\ rows \in Seq([DOMAIN kinds -> Values])
    BY <1>1, <1>2 DEF Rows
  <2>5. SampleMatches(kinds, pk, from, rows, target)
    BY <1>1, <1>2, <1>5, <2>2, <2>3, <2>4, CopyMatchesSample
  <2> QED
    BY <1>7, <2>5 DEF Matches, kinds, rows, target, pk, from
<1>8. CASE job[t].how \in {"aggregate", "bucket"} /\ IsPlainCopy(kinds, source, target)
  <2>1. rows = source
    BY <1>2, <1>8
  <2>2. AggregateMatches(kinds, rows, target) /\ BucketCompareMatches(kinds, rows, target)
    BY <1>1, <1>8, <2>1, CopyMatchesAggregate, CopyMatchesBuckets
  <2> QED
    BY <1>8, <2>2 DEF Matches, kinds, rows, target
<1> QED
  BY <1>2, <1>4, <1>6, <1>7, <1>8 DEF Comparisons

\* A step of the goroutine of t.
LEMMA CopyKeeps ==
  ASSUME Inv, CopiesInv, NEW t \in Tables, NEW new, NEW f,
         job' = [job EXCEPT ![t] = new], faults' = [faults EXCEPT ![t] = f],
         db' = db, mode' = mode, \A u \in Tables \ {t} : report'[u] = report[u],
         CopyInv(db[t], new, f, report'[t])
  PROVE  CopiesInv'
<1>1. DOMAIN job = Tables /\ DOMAIN faults = Tables
  BY DEF Inv, Shapes
<1> SUFFICES ASSUME NEW u \in Tables PROVE CopyInv(db[u], job[u], faults[u], report[u])'
  BY DEF CopiesInv
<1>2. CopyInv(db[u], job'[u], faults'[u], report'[u])
  BY <1>1 DEF CopiesInv
<1>3. IsPromised(db[u], job'[u]) <=> IsPromised(db[u], job[u])'
  BY DEF IsPromised
<1> QED
  BY <1>2, <1>3 DEF CopyInv

\* A step with a fault, and one that stays between the start and the report.
LEMMA CopyFaults ==
  ASSUME Inv, CopiesInv, NEW t \in Tables, NEW new, NEW what,
         job' = [job EXCEPT ![t] = new], Fault(t, what), job[t].at # "done",
         db' = db, mode' = mode, report' = report
  PROVE  CopiesInv'
<1>1. CopyInv(db[t], new, faults[t] \cup {what}, report[t])
  BY DEF CopiesInv, CopyInv
<1> QED
  BY <1>1, CopyKeeps DEF Fault

LEMMA CopyGoesOn ==
  ASSUME Inv, CopiesInv, NEW t \in Tables, NEW new,
         job' = [job EXCEPT ![t] = new], faults' = faults, job[t].at # "done",
         new.at \notin {"read source", "compare", "report", "done"} \/ (new.at = "report" /\ new.status # "fail"),
         db' = db, mode' = mode, report' = report
  PROVE  CopiesInv'
<1>1. CopyInv(db[t], new, faults[t], report[t])
  BY DEF CopiesInv, CopyInv
<1> QED
  BY <1>1, Before, CopyKeeps

\* The counts of a faithful copy agree.
LEMMA CountTargetCopies ==
  ASSUME Inv, CopiesInv, NEW t \in Tables, CountTarget(t)
  PROVE  CopiesInv'
<1> DEFINE n    == Len(db[t].source)
           diff == n - Len(db[t].target)
           base == [job[t] EXCEPT !.rows = n, !.diff = diff, !.status = IF diff # 0 THEN "fail" ELSE @]
           new  == AfterCounts(base)
<1>1. /\ job[t].at = "count target" /\ db' = db /\ mode' = mode /\ report' = report
      /\ (job' = [job EXCEPT ![t] = new] /\ faults' = faults) \/ CountFails(t)
  BY DEF CountTarget, TargetAnswers, Becomes, fixed
<1>2. /\ job[t] \in Jobs /\ job[t].status = "pass" /\ job[t].how = "sample"
  BY <1>1, Before DEF JobInv, Early
<1>3. CASE job' = [job EXCEPT ![t] = new] /\ faults' = faults
  <2>1. n \in Nat /\ Len(db[t].target) \in Nat /\ diff \in Int
    BY Known DEF Inv
  <2>2. diff # 0 => ~IsCopy(db[t].kinds, db[t].source, db[t].target)
    BY <2>1 DEF IsCopy
  <2> HIDE DEF n, diff
  <2>3. /\ base \in Jobs /\ base.diff = diff /\ base.how = "sample"
        /\ base.status = IF diff # 0 THEN "fail" ELSE "pass"
    BY <1>2, <2>1 DEF Jobs, Statuses
  <2> HIDE DEF base
  <2>4. \/ new = [base EXCEPT !.at = "report"]
        \/ new = [base EXCEPT !.at = "checksum source"]
        \/ new = [base EXCEPT !.at = "report", !.status = "pass"]
        \/ new = [base EXCEPT !.at = "detect key"]
    BY DEF AfterCounts
  <2> HIDE DEF new
  <2>5. /\ new.at \in {"report", "checksum source", "detect key"} /\ new.how = "sample"
        /\ new.status = "fail" => diff # 0
    BY <2>3, <2>4 DEF Jobs
  <2>6. CopyInv(db[t], new, faults[t], report[t])
    <3>1. report[t] = "none"
      BY <1>1 DEF CopiesInv, CopyInv
    <3> QED
      BY <2>2, <2>5, <3>1 DEF CopyInv, IsPromised
  <2> QED
    BY <1>1, <1>3, <2>6, Before, CopyKeeps
<1>4. CASE CountFails(t)
  BY <1>1, <1>4, CopyFaults DEF CountFails, Becomes
<1> QED
  BY <1>1, <1>3, <1>4

LEMMA DetectKeyCopies ==
  ASSUME Inv, CopiesInv, NEW t \in Tables, DetectKey(t)
  PROVE  CopiesInv'
<1>1. /\ job[t].at = "detect key" /\ db' = db /\ mode' = mode /\ report' = report
  BY DEF DetectKey, SourceAnswers, fixed
<1>2. CASE Detected(t, db[t].pk, db[t].unique) /\ faults' = faults
  <2> DEFINE how == Comparison(db[t].pk # <<>> \/ db[t].unique, job[t].rows)
             new == [job[t] EXCEPT !.at = "read source", !.pk = db[t].pk, !.how = how]
  <2>1. job' = [job EXCEPT ![t] = new]
    BY <1>2 DEF Detected, Becomes
  <2> HIDE DEF how
  <2>2. job[t] \in Jobs
    BY Before
  <2>3. new.at = "read source" /\ new.pk = db[t].pk
    BY <2>2 DEF Jobs
  <2> HIDE DEF new
  <2>4. CopyInv(db[t], new, faults[t], report[t])
    BY <1>1, <2>3 DEF CopiesInv, CopyInv
  <2> QED
    BY <1>1, <1>2, <2>1, <2>4, Before, CopyKeeps
<1>3. CASE Fault(t, "key") /\ \E pk, unique : Detected(t, pk, unique)
  BY <1>1, <1>3, CopyFaults DEF Detected, Becomes
<1> QED
  BY <1>2, <1>3 DEF DetectKey

LEMMA ReadSourceCopies ==
  ASSUME Inv, CopiesInv, NEW t \in Tables, ReadSource(t)
  PROVE  CopiesInv'
<1> DEFINE source == db[t].source
<1>1. /\ job[t].at = "read source" /\ db' = db /\ mode' = mode /\ report' = report
  BY DEF ReadSource, SourceAnswers, fixed
<1>2. /\ job[t] \in Jobs /\ job[t].rows = Len(source) /\ Len(source) \in Nat
      /\ source \in Seq([DOMAIN db[t].kinds -> Values])
  BY <1>1, Before, Known DEF JobInv, Inv
<1>3. PICK w \in Windows(t) :
        \/ SourceRead(t, w.from, w.size) /\ faults' = faults
        \/ Fault(t, "cut") /\ \E n \in 0 .. w.size - 1 : SourceRead(t, w.from, n)
  BY DEF ReadSource
<1>4. CASE SourceRead(t, w.from, w.size) /\ faults' = faults
  <2>1. w.from \in Nat /\ w.size \in Nat /\ w.from + w.size <= Len(source)
    <3>1. CASE job[t].how = "sample"
      BY <1>2, <3>1, ValidationAssumption DEF Windows
    <3>2. CASE job[t].how # "sample"
      BY <1>2, <3>2 DEF Windows
    <3> QED
      BY <3>1, <3>2
  <2> DEFINE sample == SubSeq(source, w.from + 1, w.from + w.size)
             new == [job[t] EXCEPT !.at = "compare", !.from = w.from, !.sample = sample]
  <2>2. Len(sample) = w.size
    BY <1>2, <2>1
  <2>3. job' = [job EXCEPT ![t] = new]
    BY <1>4 DEF SourceRead, Becomes
  <2>4. sample = SubSeq(source, w.from + 1, w.from + Len(sample))
    BY <2>2
  <2> HIDE DEF sample
  <2>5. new.at = "compare" /\ new.from = w.from /\ new.sample = sample /\ new.pk = job[t].pk
    BY <1>2 DEF Jobs
  <2> HIDE DEF new
  <2>6. CopyInv(db[t], new, faults[t], report[t])
    BY <1>1, <2>4, <2>5 DEF CopiesInv, CopyInv
  <2> QED
    BY <1>1, <1>4, <2>3, <2>6, Before, CopyKeeps
<1>5. CASE Fault(t, "cut") /\ \E n \in 0 .. w.size - 1 : SourceRead(t, w.from, n)
  BY <1>1, <1>5, CopyFaults DEF SourceRead, Becomes
<1> QED
  BY <1>3, <1>4, <1>5

LEMMA CompareCopies ==
  ASSUME Inv, CopiesInv, NEW t \in Tables, Compare(t)
  PROVE  CopiesInv'
<1>1. /\ job[t].at = "compare" /\ db' = db /\ mode' = mode /\ report' = report
  BY DEF Compare, TargetAnswers, fixed
<1>2. CASE Verdict(t, db[t].target) /\ faults' = faults
  <2> DEFINE status == IF Matches(t, db[t].target) THEN "pass" ELSE "fail"
             new == [job[t] EXCEPT !.at = "report", !.status = status]
  <2>1. job' = [job EXCEPT ![t] = new]
    BY <1>2 DEF Verdict, Ends, Becomes
  <2>2. job[t] \in Jobs
    BY Before
  <2>3. status = "fail" /\ faults[t] = {} => ~IsPromised(db[t], job[t])
    BY <1>1, PromisedMatches
  <2> HIDE DEF status
  <2>4. new.at = "report" /\ new.status = status /\ new.how = job[t].how
    BY <2>2 DEF Jobs
  <2> HIDE DEF new
  <2>5. CopyInv(db[t], new, faults[t], report[t])
    BY <1>1, <2>3, <2>4 DEF CopiesInv, CopyInv, IsPromised
  <2> QED
    BY <1>1, <1>2, <2>1, <2>5, Before, CopyKeeps
<1>3. CASE (\E target : Verdict(t, target) /\ Fault(t, "cut")) \/ (Ends(t, "fail") /\ Fault(t, "later"))
  BY <1>1, <1>3, CopyFaults DEF Verdict, Ends, Becomes
<1> QED
  BY <1>2, <1>3 DEF Compare

LEMMA CopyStep ==
  ASSUME Inv, CopiesInv, NEW t \in Tables, TableStep(t)
  PROVE  CopiesInv'
<1>0. job[t] \in Jobs /\ db' = db /\ mode' = mode
  BY Before DEF TableStep, Connect, ConnectFails, QuerySource, CountSource, CountTarget, DetectKey, ReadSource,
     SourceFails, Compare, ChecksumSource, ChecksumTarget, Report, SourceAnswers, TargetAnswers, fixed
<1>1. CASE Connect(t)
  <2>1. CASE mode \in {"quick", "sample", "checksum"}
    <3> DEFINE new == [job[t] EXCEPT !.at = "count source"]
    <3>1. /\ job[t].at = "connect" /\ report' = report /\ faults' = faults
          /\ job' = [job EXCEPT ![t] = new]
      BY <1>1, <2>1 DEF Connect, Becomes
    <3>2. new.at = "count source"
      BY <1>0 DEF Jobs
    <3> HIDE DEF new
    <3> QED
      BY <1>0, <3>1, <3>2, CopyGoesOn
  <2>2. CASE mode \notin {"quick", "sample", "checksum"}
    <3> DEFINE new == [job[t] EXCEPT !.at = "report", !.status = "fail"]
    <3>1. /\ job[t].at = "connect" /\ report' = report /\ faults' = faults
          /\ job' = [job EXCEPT ![t] = new]
      BY <1>1, <2>2 DEF Connect, Becomes, Ends
    <3>2. new.at = "report"
      BY <1>0 DEF Jobs
    <3> HIDE DEF new
    <3>3. CopyInv(db[t], new, faults[t], report[t])
      BY <2>2, <3>1, <3>2 DEF CopiesInv, CopyInv, IsPromised
    <3> QED
      BY <1>0, <3>1, <3>3, Before, CopyKeeps
  <2> QED
    BY <2>1, <2>2
<1>2. CASE ConnectFails(t)
  BY <1>0, <1>2, CopyFaults DEF ConnectFails, Ends, Becomes
<1>3. CASE QuerySource(t)
  BY <1>0, <1>3 DEF QuerySource, CopiesInv, CopyInv, IsPromised
<1>4. CASE CountSource(t)
  <2> DEFINE new == [job[t] EXCEPT !.at = "count target"]
  <2>1. /\ job[t].at = "count source" /\ report' = report
        /\ (job' = [job EXCEPT ![t] = new] /\ faults' = faults) \/ CountFails(t)
    BY <1>4 DEF CountSource, SourceAnswers, Becomes
  <2>2. CASE job' = [job EXCEPT ![t] = new] /\ faults' = faults
    <3>1. new.at = "count target"
      BY <1>0 DEF Jobs
    <3> HIDE DEF new
    <3> QED
      BY <1>0, <2>1, <2>2, <3>1, CopyGoesOn
  <2>3. CASE CountFails(t)
    BY <1>0, <2>1, <2>3, CopyFaults DEF CountFails, Becomes
  <2> QED
    BY <2>1, <2>2, <2>3
<1>5. CASE ChecksumSource(t) \/ ChecksumTarget(t)
  <2>1. \E new : /\ job[t].at # "done" /\ report' = report /\ faults' = faults
                 /\ job' = [job EXCEPT ![t] = new]
                 /\ new.at = "checksum target" \/ (new.at = "report" /\ new.status # "fail")
    <3>1. CASE ChecksumSource(t)
      <4> DEFINE new == [job[t] EXCEPT !.at = "checksum target"]
      <4>1. new.at = "checksum target"
        BY <1>0 DEF Jobs
      <4>2. /\ job[t].at = "checksum source" /\ report' = report /\ faults' = faults
            /\ job' = [job EXCEPT ![t] = new]
        BY <3>1 DEF ChecksumSource, SourceAnswers, Becomes
      <4> HIDE DEF new
      <4> QED
        BY <4>1, <4>2
    <3>2. CASE ChecksumTarget(t)
      <4> DEFINE new == [job[t] EXCEPT !.at = "report", !.status = "warn"]
      <4>1. new.at = "report" /\ new.status = "warn"
        BY <1>0 DEF Jobs
      <4>2. /\ job[t].at = "checksum target" /\ report' = report /\ faults' = faults
            /\ job' = [job EXCEPT ![t] = new]
        BY <3>2 DEF ChecksumTarget, TargetAnswers, Ends, Becomes
      <4> HIDE DEF new
      <4> QED
        BY <4>1, <4>2
    <3> QED
      BY <1>5, <3>1, <3>2
  <2> QED
    BY <1>0, <2>1, CopyGoesOn
<1>6. CASE SourceFails(t, "read source", "fail") \/ SourceFails(t, "checksum source", "warn")
  BY <1>0, <1>6, CopyFaults DEF SourceFails, SourceAnswers, Ends, Becomes
<1>7. CASE Report(t)
  <2> DEFINE new == [job[t] EXCEPT !.at = "done"]
  <2>1. /\ job[t].at = "report" /\ report' = [report EXCEPT ![t] = job[t].status] /\ faults' = faults
    BY <1>7 DEF Report
  <2>2. job' = [job EXCEPT ![t] = new]
    BY <1>7 DEF Report, Inv, Shapes
  <2>3. new.at = "done" /\ new.status = job[t].status /\ new.how = job[t].how
    BY <1>0 DEF Jobs
  <2> HIDE DEF new
  <2>4. CopyInv(db[t], new, faults[t], report'[t])
    BY <2>1, <2>3 DEF CopiesInv, CopyInv, IsPromised
  <2>5. \A u \in Tables \ {t} : report'[u] = report[u]
    BY <2>1 DEF Inv, Shapes
  <2> QED
    BY <1>0, <2>1, <2>2, <2>4, <2>5, Before, CopyKeeps
<1> QED
  BY <1>1, <1>2, <1>3, <1>4, <1>5, <1>6, <1>7, CountTargetCopies, DetectKeyCopies,
     ReadSourceCopies, CompareCopies DEF TableStep

LEMMA CopiesNext ==
  ASSUME Inv, CopiesInv, [Next]_vars
  PROVE  CopiesInv'
<1>1. CASE Launch
  <2> DEFINE t   == order[launched + 1]
             new == [job[t] EXCEPT !.at = "connect"]
  <2>1. /\ launched < Len(order) /\ db' = db /\ mode' = mode /\ report' = report /\ faults' = faults
    BY <1>1 DEF Launch, fixed
  <2>2. launched + 1 \in DOMAIN order /\ t \in Tables
    <3>1. order \in Seq(Tables) /\ launched \in 0 .. Len(order) /\ Len(order) \in Nat
      BY DEF Inv, Static, Shapes
    <3> QED
      BY <2>1, <3>1
  <2>3. job[t].at = "idle" /\ job[t] \in Jobs
    <3>1. launched + 1 > launched
      BY DEF Inv, Shapes
    <3> QED
      BY <2>2, <3>1, Before DEF Inv, NotYet
  <2>4. job' = [job EXCEPT ![t] = new]
    BY <1>1, <2>2 DEF Launch, Inv, Shapes
  <2>5. new.at = "connect"
    BY <2>3 DEF Jobs
  <2> HIDE DEF new, t
  <2> QED
    BY <2>1, <2>2, <2>3, <2>4, <2>5, CopyGoesOn
<1>2. CASE RunReturns \/ UNCHANGED vars
  <2>1. db' = db /\ mode' = mode /\ job' = job /\ faults' = faults /\ report' = report
    BY <1>2 DEF RunReturns, vars, fixed
  <2> QED
    BY <2>1 DEF CopiesInv, CopyInv, IsPromised
<1>3. CASE \E t \in Tables : TableStep(t)
  BY <1>3, CopyStep
<1> QED
  BY <1>1, <1>2, <1>3 DEF Next

LEMMA CopiesInit ==
  ASSUME Init
  PROVE  CopiesInv
BY DEF Init, CopiesInv, CopyInv, NewJob

-----------------------------------------------------------------------------
(***************************************************************************)
(* The theorems.                                                           *)
(***************************************************************************)
\* Run's goroutines never exceed migration.parallel nor the pools, and their
\* locals keep their types, whatever is validated.
THEOREM TypeCorrect == Spec => []TypeOK
<1>1. Init => Inv
  BY InitInv
<1>2. Inv /\ [Next]_vars => Inv'
  BY NextInv
<1>3. Inv => TypeOK
  BY InvTypeOK
<1> QED
  BY <1>1, <1>2, <1>3, PTL DEF Spec

\* A PASS of Validator.Run was earned by every table: what was read of it is in
\* TiDB, unless a count failed or a result set ended early unnoticed.
THEOREM PassSound == Spec => []PassIsSound
<1>1. Init => Inv
  BY InitInv
<1>2. Inv /\ [Next]_vars => Inv'
  BY NextInv
<1>3. Inv => PassIsSound
  BY InvPassIsSound
<1> QED
  BY <1>1, <1>2, <1>3, PTL DEF Spec

\* Validator.Run gives no false alarm: where nothing went wrong, a faithful copy
\* is not reported by the counts, by hash_group and by sampling with a primary
\* key, whatever window is drawn, nor a plain one by aggregate and bucket.
THEOREM CopiesPass == Spec => []CopyPasses
<1>1. Init => Inv /\ CopiesInv
  BY InitInv, CopiesInit
<1>2. Inv /\ CopiesInv /\ [Next]_vars => Inv' /\ CopiesInv'
  BY NextInv, CopiesNext
<1>3. Inv /\ CopiesInv => CopyPasses
  <2> SUFFICES ASSUME Inv, CopiesInv, NEW t \in Tables, faults[t] = {}, MustPass(t), report[t] = "fail"
               PROVE  FALSE
    BY DEF CopyPasses
  <2>1. job[t].at = "done" /\ job[t].status = "fail"
    BY Before DEF CopiesInv, CopyInv, JobInv
  <2>2. IsPromised(db[t], job[t])
    BY DEF MustPass, IsPromised
  <2> QED
    BY <2>1, <2>2 DEF CopiesInv, CopyInv
<1> QED
  BY <1>1, <1>2, <1>3, PTL DEF Spec

=============================================================================
