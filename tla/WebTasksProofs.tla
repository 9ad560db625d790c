---------------------------- MODULE WebTasksProofs ----------------------------
(***************************************************************************)
(* Proofs about WebTasks.  RunningIsServed and NoStaleCore hold of every   *)
(* overlap of requests and runs; OneRun, CancelReaches, CompletedIsWhole   *)
(* and CheckpointKept of tasks whose requests stayed calm, and rest on the *)
(* inductive invariant IInv.                                               *)
(***************************************************************************)
EXTENDS WebTasks, TLAPS

USE DEF taskVars, requestVars, runVars, pollVars, vars

LEMMA AnyTaskIsTask == AnyTask \in Tasks
  BY WebTasksAssumption DEF AnyTask

\* Counting below a bound.
LEMMA NextInRange ==
  ASSUME NEW b \in Nat, NEW n \in 0 .. b, n < b PROVE n + 1 \in 0 .. b
  OBVIOUS

\* Type correctness.
LEMMA TypeInit == Init => TypeOK
  BY WebTasksAssumption, AnyTaskIsTask
     DEF Init, TypeOK, Status, RequestStep, RunStep, Outcomes, Runs, None

LEMMA TypeStep == TypeOK /\ [Next]_vars => TypeOK'
<1> SUFFICES ASSUME TypeOK, [Next]_vars PROVE TypeOK'
  OBVIOUS
<1>0. 0 \in 0 .. Work /\ Work \in Nat /\ MaxBoots \in Nat
  BY WebTasksAssumption
<1> USE WebTasksAssumption, AnyTaskIsTask
    DEF TypeOK, Update, Goes, Begin, Moves, Status, RequestStep, RunStep, Outcomes, Outcome, None
<1>1. ASSUME NEW t \in Tasks, Create(t) PROVE TypeOK'
  BY <1>1 DEF Create
<1>2. ASSUME NEW c \in Requests, NEW t \in Tasks, StartReads(c, t) PROVE TypeOK'
  BY <1>2 DEF StartReads
<1>3. ASSUME NEW c \in Requests, NEW t \in Tasks, ResumeReads(c, t) PROVE TypeOK'
  BY <1>3 DEF ResumeReads
<1>4. ASSUME NEW c \in Requests, NEW t \in Tasks, PauseReads(c, t) PROVE TypeOK'
  BY <1>4 DEF PauseReads
<1>5. ASSUME NEW c \in Requests, NEW t \in Tasks, CancelFires(c, t) PROVE TypeOK'
  BY <1>5 DEF CancelFires
<1>6. ASSUME NEW c \in Requests, NEW t \in Tasks, DeleteReads(c, t) PROVE TypeOK'
  BY <1>6 DEF DeleteReads
<1>7. ASSUME NEW c \in Requests, StartMarks(c) PROVE TypeOK'
  BY <1>7 DEF StartMarks
<1>8. ASSUME NEW c \in Requests, StartResets(c) PROVE TypeOK'
  <2>1. progress' \in [Tasks -> 0 .. Work]
    BY <1>0, <1>8 DEF StartResets
  <2> QED
    BY <1>8, <2>1 DEF StartResets
<1>9. ASSUME NEW c \in Requests, StartClears(c) PROVE TypeOK'
  <2>1. checkpoint' \in [Tasks -> 0 .. Work]
    BY <1>0, <1>9 DEF StartClears
  <2> QED
    BY <1>9, <2>1 DEF StartClears
<1>10. ASSUME NEW c \in Requests, ResumeMarks(c) PROVE TypeOK'
  BY <1>10 DEF ResumeMarks
<1>11. ASSUME NEW c \in Requests, NEW k \in Runs, Launch(c, k) PROVE TypeOK'
  BY <1>11 DEF Launch
<1>12. ASSUME NEW c \in Requests, PauseWrites(c) PROVE TypeOK'
  BY <1>12 DEF PauseWrites
<1>13. ASSUME NEW c \in Requests, CancelWrites(c) PROVE TypeOK'
  BY <1>13 DEF CancelWrites
<1>14. ASSUME NEW c \in Requests, DeleteRemoves(c) PROVE TypeOK'
  BY <1>14 DEF DeleteRemoves
<1>15. ASSUME NEW k \in Runs, RunOpens(k) PROVE TypeOK'
  BY <1>15 DEF RunOpens
<1>16. ASSUME NEW k \in Runs, RunWorks(k) PROVE TypeOK'
  <2>0. count[k] \in 0 .. Work /\ count[k] < Work
    BY <1>16 DEF RunWorks
  <2>1. count[k] + 1 \in 0 .. Work
    BY <2>0, NextInRange, <1>0, Zenon
  <2>2. count' \in [Runs -> 0 .. Work] /\ count'[k] \in 0 .. Work
    BY <1>16, <2>1 DEF RunWorks
  <2>3. checkpoint' \in [Tasks -> 0 .. Work]
    BY <1>16, <2>2 DEF RunWorks
  <2> QED
    BY <1>16, <2>2, <2>3 DEF RunWorks
<1>17. ASSUME NEW k \in Runs, RunReturns(k) PROVE TypeOK'
  BY <1>17 DEF RunReturns
<1>18. ASSUME NEW k \in Runs, RunJudges(k) PROVE TypeOK'
  BY <1>18 DEF RunJudges
<1>19. ASSUME NEW k \in Runs, RunSyncs(k) PROVE TypeOK'
  BY <1>19 DEF RunSyncs
<1>20. ASSUME NEW k \in Runs, RunFinishes(k) PROVE TypeOK'
  BY <1>20 DEF RunFinishes
<1>21. ASSUME NEW k \in Runs, RunCleans(k) PROVE TypeOK'
  <2>1. count' \in [Runs -> 0 .. Work]
    BY <1>0, <1>21 DEF RunCleans
  <2> QED
    BY <1>21, <2>1 DEF RunCleans
<1>22. ASSUME NEW k \in Runs, PollReads(k) PROVE TypeOK'
  BY <1>22 DEF PollReads
<1>23. ASSUME NEW k \in Runs, PollWrites(k) PROVE TypeOK'
  <2>1. sample' \in [Runs -> 0 .. Work]
    BY <1>0, <1>23 DEF PollWrites
  <2> QED
    BY <1>23, <2>1 DEF PollWrites
<1>24. ASSUME NEW k \in Runs, PollStops(k) PROVE TypeOK'
  BY <1>24 DEF PollStops
<1>25. CASE Restart
  <2>1. count' \in [Runs -> 0 .. Work] /\ sample' \in [Runs -> 0 .. Work]
    BY <1>0, <1>25 DEF Restart
  <2>2. boots' \in 0 .. MaxBoots
    <3>1. boots \in 0 .. MaxBoots /\ boots < MaxBoots /\ boots' = boots + 1
      BY <1>25, Zenon DEF Restart
    <3> QED
      BY <3>1, NextInRange, <1>0, Zenon
  <2>3. step' \in [Runs -> RunStep] /\ poll' \in [Runs -> {"off", "select", "write"}]
    BY <1>25 DEF Restart, Live
  <2> QED
    <3>1. at' \in [Requests -> RequestStep] /\ on' \in [Requests -> Tasks]
      BY <1>25 DEF Restart
    <3>2. cancelFn' \in [Tasks -> Runs \cup {None}] /\ cancelled' \subseteq Runs /\ tee' \subseteq Runs
      BY <1>25 DEF Restart
    <3> QED
      BY <1>25, <2>1, <2>2, <2>3, <3>1, <3>2 DEF Restart
<1>26. CASE UNCHANGED vars
  BY <1>26
<1> QED
  BY <1>1, <1>2, <1>3, <1>4, <1>5, <1>6, <1>7, <1>8, <1>9, <1>10, <1>11, <1>12, <1>13, <1>14, <1>15, <1>16, <1>17, <1>18, <1>19, <1>20, <1>21, <1>22, <1>23, <1>24, <1>25, <1>26 DEF Next, Arrives, Serves, RunStepOf, PollStep

RequestsKept == \A c \in Requests : at[c] \in Marked => at'[c] \in Marked /\ on'[c] = on[c]
RunsKept     == \A k \in Runs : Unwritten(k) => Unwritten(k)' /\ of'[k] = of[k]
RowsKept     == \A t \in Tasks : row'[t] = "running" => row[t] = "running"

\* A step that keeps the marked requests, the runs and the rows keeps
\* RunningIsServed; so does one that marks a row and its request, one that
\* replaces a request by its run, and one that ends a run with its row.
LEMMA StillServed ==
  ASSUME RunningIsServed, RequestsKept, RunsKept, RowsKept, boots' = boots
  PROVE  RunningIsServed'
  BY Zenon DEF RunningIsServed, RequestsKept, RunsKept, RowsKept

LEMMA ServedByRequest ==
  ASSUME RunningIsServed, RequestsKept, RunsKept, boots' = boots,
         NEW c \in Requests, at'[c] \in Marked, on'[c] = on[c],
         \A t \in Tasks : row'[t] = "running" => row[t] = "running" \/ t = on[c]
  PROVE  RunningIsServed'
  BY Zenon DEF RunningIsServed, RequestsKept, RunsKept

LEMMA ServedByRun ==
  ASSUME RunningIsServed, RunsKept, boots' = boots, row' = row,
         NEW c \in Requests, NEW k \in Runs, Unwritten(k)', of'[k] = on[c],
         \A d \in Requests : at[d] \in Marked => d = c \/ (at'[d] \in Marked /\ on'[d] = on[d])
  PROVE  RunningIsServed'
  BY Zenon DEF RunningIsServed, RunsKept

LEMMA ServedWithout ==
  ASSUME RunningIsServed, RequestsKept, boots' = boots, NEW k \in Runs,
         \A j \in Runs : Unwritten(j) => j = k \/ (Unwritten(j)' /\ of'[j] = of[j]),
         \A t \in Tasks : row'[t] = "running" => row[t] = "running" /\ t # of[k]
  PROVE  RunningIsServed'
<1> SUFFICES ASSUME boots' = 0, NEW t \in Tasks, row'[t] = "running"
             PROVE  \/ \E c \in Requests : on'[c] = t /\ at'[c] \in Marked
                    \/ \E j \in Runs : of'[j] = t /\ Unwritten(j)'
  BY Zenon DEF RunningIsServed
<1>1. row[t] = "running" /\ t # of[k]
  OBVIOUS
<1>2. CASE \E c \in Requests : on[c] = t /\ at[c] \in Marked
  BY <1>2, Zenon DEF RequestsKept
<1>3. CASE \E j \in Runs : of[j] = t /\ Unwritten(j)
  <2> PICK j \in Runs : of[j] = t /\ Unwritten(j)
    BY <1>3
  <2>1. j # k
    BY <1>1
  <2> QED
    BY <2>1
<1> QED
  BY <1>1, <1>2, <1>3, Zenon DEF RunningIsServed

LEMMA RestartCounted == TypeOK /\ Restart => boots' # 0
<1> SUFFICES ASSUME TypeOK, Restart PROVE boots' # 0
  OBVIOUS
<1>1. boots \in 0 .. MaxBoots /\ boots' = boots + 1
  BY Zenon DEF TypeOK, Restart
<1> QED
  BY <1>1

LEMMA ServedStep == TypeOK /\ RunningIsServed /\ [Next]_vars => RunningIsServed'
<1> SUFFICES ASSUME TypeOK, RunningIsServed, [Next]_vars PROVE RunningIsServed'
  OBVIOUS
<1> USE DEF TypeOK, Marked, Unwritten, Live, Exists, Update, Goes, Begin, Moves, Outcomes
<1>1. ASSUME NEW t \in Tasks, Create(t) PROVE RunningIsServed'
  <2>1. RequestsKept /\ RunsKept /\ RowsKept /\ boots' = boots
    BY <1>1 DEF Create, RequestsKept, RunsKept, RowsKept
  <2> QED
    BY <2>1, StillServed, Zenon
<1>2. ASSUME NEW c \in Requests, NEW t \in Tasks, StartReads(c, t) PROVE RunningIsServed'
  <2>1. RequestsKept /\ RunsKept /\ RowsKept /\ boots' = boots
    BY <1>2 DEF StartReads, RequestsKept, RunsKept, RowsKept
  <2> QED
    BY <2>1, StillServed, Zenon
<1>3. ASSUME NEW c \in Requests, NEW t \in Tasks, ResumeReads(c, t) PROVE RunningIsServed'
  <2>1. RequestsKept /\ RunsKept /\ RowsKept /\ boots' = boots
    BY <1>3 DEF ResumeReads, RequestsKept, RunsKept, RowsKept
  <2> QED
    BY <2>1, StillServed, Zenon
<1>4. ASSUME NEW c \in Requests, NEW t \in Tasks, PauseReads(c, t) PROVE RunningIsServed'
  <2>1. RequestsKept /\ RunsKept /\ RowsKept /\ boots' = boots
    BY <1>4 DEF PauseReads, RequestsKept, RunsKept, RowsKept
  <2> QED
    BY <2>1, StillServed, Zenon
<1>5. ASSUME NEW c \in Requests, NEW t \in Tasks, CancelFires(c, t) PROVE RunningIsServed'
  <2>1. RequestsKept /\ RunsKept /\ RowsKept /\ boots' = boots
    BY <1>5 DEF CancelFires, RequestsKept, RunsKept, RowsKept
  <2> QED
    BY <2>1, StillServed, Zenon
<1>6. ASSUME NEW c \in Requests, NEW t \in Tasks, DeleteReads(c, t) PROVE RunningIsServed'
  <2>1. RequestsKept /\ RunsKept /\ RowsKept /\ boots' = boots
    BY <1>6 DEF DeleteReads, RequestsKept, RunsKept, RowsKept
  <2> QED
    BY <2>1, StillServed, Zenon
<1>7. ASSUME NEW c \in Requests, StartMarks(c) PROVE RunningIsServed'
  <2>1. at'[c] \in Marked /\ on'[c] = on[c]
    BY <1>7 DEF StartMarks
  <2>2. RequestsKept /\ RunsKept /\ boots' = boots
    BY <1>7 DEF StartMarks, RequestsKept, RunsKept
  <2>3. \A t \in Tasks : row'[t] = "running" => row[t] = "running" \/ t = on[c]
    BY <1>7 DEF StartMarks
  <2> QED
    BY <2>1, <2>2, <2>3, ServedByRequest, Zenon
<1>8. ASSUME NEW c \in Requests, StartResets(c) PROVE RunningIsServed'
  <2>1. RequestsKept /\ RunsKept /\ RowsKept /\ boots' = boots
    BY <1>8 DEF StartResets, RequestsKept, RunsKept, RowsKept
  <2> QED
    BY <2>1, StillServed, Zenon
<1>9. ASSUME NEW c \in Requests, StartClears(c) PROVE RunningIsServed'
  <2>1. RequestsKept /\ RunsKept /\ RowsKept /\ boots' = boots
    BY <1>9 DEF StartClears, RequestsKept, RunsKept, RowsKept
  <2> QED
    BY <2>1, StillServed, Zenon
<1>10. ASSUME NEW c \in Requests, ResumeMarks(c) PROVE RunningIsServed'
  <2>1. at'[c] \in Marked /\ on'[c] = on[c]
    BY <1>10 DEF ResumeMarks
  <2>2. RequestsKept /\ RunsKept /\ boots' = boots
    BY <1>10 DEF ResumeMarks, RequestsKept, RunsKept
  <2>3. \A t \in Tasks : row'[t] = "running" => row[t] = "running" \/ t = on[c]
    BY <1>10 DEF ResumeMarks
  <2> QED
    BY <2>1, <2>2, <2>3, ServedByRequest, Zenon
<1>11. ASSUME NEW c \in Requests, NEW k \in Runs, Launch(c, k) PROVE RunningIsServed'
  <2>1. Unwritten(k)' /\ of'[k] = on[c] /\ boots' = boots /\ row' = row
    BY <1>11 DEF Launch
  <2>2. \A d \in Requests : at[d] \in Marked => d = c \/ (at'[d] \in Marked /\ on'[d] = on[d])
    BY <1>11 DEF Launch
  <2>3. RunsKept
    BY <1>11 DEF Launch, RunsKept
  <2> QED
    BY <2>1, <2>2, <2>3, ServedByRun, Zenon
<1>12. ASSUME NEW c \in Requests, PauseWrites(c) PROVE RunningIsServed'
  <2>1. RequestsKept /\ RunsKept /\ RowsKept /\ boots' = boots
    BY <1>12 DEF PauseWrites, RequestsKept, RunsKept, RowsKept
  <2> QED
    BY <2>1, StillServed, Zenon
<1>13. ASSUME NEW c \in Requests, CancelWrites(c) PROVE RunningIsServed'
  <2>1. RequestsKept /\ RunsKept /\ RowsKept /\ boots' = boots
    BY <1>13 DEF CancelWrites, RequestsKept, RunsKept, RowsKept
  <2> QED
    BY <2>1, StillServed, Zenon
<1>14. ASSUME NEW c \in Requests, DeleteRemoves(c) PROVE RunningIsServed'
  <2>1. RequestsKept /\ RunsKept /\ RowsKept /\ boots' = boots
    BY <1>14 DEF DeleteRemoves, RequestsKept, RunsKept, RowsKept
  <2> QED
    BY <2>1, StillServed, Zenon
<1>15. ASSUME NEW k \in Runs, RunOpens(k) PROVE RunningIsServed'
  <2>1. RequestsKept /\ RunsKept /\ RowsKept /\ boots' = boots
    BY <1>15 DEF RunOpens, RequestsKept, RunsKept, RowsKept
  <2> QED
    BY <2>1, StillServed, Zenon
<1>16. ASSUME NEW k \in Runs, RunWorks(k) PROVE RunningIsServed'
  <2>1. RequestsKept /\ RunsKept /\ RowsKept /\ boots' = boots
    BY <1>16 DEF RunWorks, RequestsKept, RunsKept, RowsKept
  <2> QED
    BY <2>1, StillServed, Zenon
<1>17. ASSUME NEW k \in Runs, RunReturns(k) PROVE RunningIsServed'
  <2>1. RequestsKept /\ RunsKept /\ RowsKept /\ boots' = boots
    BY <1>17 DEF RunReturns, RequestsKept, RunsKept, RowsKept
  <2> QED
    BY <2>1, StillServed, Zenon
<1>18. ASSUME NEW k \in Runs, RunJudges(k) PROVE RunningIsServed'
  <2>1. RequestsKept /\ RunsKept /\ RowsKept /\ boots' = boots
    BY <1>18 DEF RunJudges, RequestsKept, RunsKept, RowsKept, Outcome
  <2> QED
    BY <2>1, StillServed, Zenon
<1>19. ASSUME NEW k \in Runs, RunSyncs(k) PROVE RunningIsServed'
  <2>1. RequestsKept /\ RunsKept /\ RowsKept /\ boots' = boots
    BY <1>19 DEF RunSyncs, RequestsKept, RunsKept, RowsKept
  <2> QED
    BY <2>1, StillServed, Zenon
<1>20. ASSUME NEW k \in Runs, RunFinishes(k) PROVE RunningIsServed'
  <2>1. RequestsKept /\ boots' = boots
    BY <1>20 DEF RunFinishes, RequestsKept
  <2>2. \A j \in Runs : Unwritten(j) => j = k \/ (Unwritten(j)' /\ of'[j] = of[j])
    BY <1>20 DEF RunFinishes
  <2>3. \A t \in Tasks : row'[t] = "running" => row[t] = "running" /\ t # of[k]
    BY <1>20 DEF RunFinishes
  <2> QED
    BY <2>1, <2>2, <2>3, ServedWithout, Zenon
<1>21. ASSUME NEW k \in Runs, RunCleans(k) PROVE RunningIsServed'
  <2>1. RequestsKept /\ RunsKept /\ RowsKept /\ boots' = boots
    BY <1>21 DEF RunCleans, RequestsKept, RunsKept, RowsKept
  <2> QED
    BY <2>1, StillServed, Zenon
<1>22. ASSUME NEW k \in Runs, PollReads(k) PROVE RunningIsServed'
  <2>1. RequestsKept /\ RunsKept /\ RowsKept /\ boots' = boots
    BY <1>22 DEF PollReads, RequestsKept, RunsKept, RowsKept
  <2> QED
    BY <2>1, StillServed, Zenon
<1>23. ASSUME NEW k \in Runs, PollWrites(k) PROVE RunningIsServed'
  <2>1. RequestsKept /\ RunsKept /\ RowsKept /\ boots' = boots
    BY <1>23 DEF PollWrites, RequestsKept, RunsKept, RowsKept
  <2> QED
    BY <2>1, StillServed, Zenon
<1>24. ASSUME NEW k \in Runs, PollStops(k) PROVE RunningIsServed'
  <2>1. RequestsKept /\ RunsKept /\ RowsKept /\ boots' = boots
    BY <1>24 DEF PollStops, RequestsKept, RunsKept, RowsKept
  <2> QED
    BY <2>1, StillServed, Zenon
<1>25. CASE Restart
  BY <1>25, RestartCounted DEF Restart, RunningIsServed
<1>26. CASE UNCHANGED vars
  <2>1. RequestsKept /\ RunsKept /\ RowsKept /\ boots' = boots
    BY <1>26 DEF RequestsKept, RunsKept, RowsKept
  <2> QED
    BY <2>1, StillServed, Zenon
<1> QED
  BY <1>1, <1>2, <1>3, <1>4, <1>5, <1>6, <1>7, <1>8, <1>9, <1>10, <1>11, <1>12, <1>13, <1>14, <1>15, <1>16, <1>17, <1>18, <1>19, <1>20, <1>21, <1>22, <1>23, <1>24, <1>25, <1>26 DEF Next, Arrives, Serves, RunStepOf, PollStep

---------------------------------------------------------------------------
\* The invariants that one run, the reach of a cancel and the truth of
\* completed rest on.  All speak of tasks whose requests stayed calm.

\* One request at a time.
SoleRequest ==
  \A t \in calm : \A c, d \in Requests :
    at[c] # "idle" /\ on[c] = t /\ at[d] # "idle" /\ on[d] = t => c = d

\* Nothing runs while a launch is being prepared.
NoRunYet ==
  \A t \in calm : \A c \in Requests :
    at[c] \in ToLaunch /\ on[c] = t => \A k \in Runs : Live(k) => of[k] # t

\* A live run is cancelled already or its function is the stored one.
Reachable ==
  \A t \in calm : \A k \in Runs : Live(k) /\ of[k] = t => k \in cancelled \/ cancelFn[t] = k

\* Between the two steps of a Cancel, the live runs are cancelled.
Fired ==
  \A t \in calm : \A c \in Requests : at[c] = "cancel: write" /\ on[c] = t =>
    \A k \in Runs : Live(k) /\ of[k] = t => k \in cancelled

\* A marked row is not closed before the launch.
MarkedIsOpen ==
  \A t \in calm : \A c \in Requests :
    at[c] \in Marked /\ on[c] = t => row[t] \notin {"cancelled", "completed"}

\* Only a cancelled run writes cancelled.
Judged == \A k \in Runs : step[k] = "cancelled" => k \in cancelled

\* What a run has in memory is what its task's checkpoint has.
Saved ==
  \A k \in Runs : of[k] \in calm =>
    /\ step[k] = "copying" => count[k] = checkpoint[of[k]]
    /\ step[k] \in {"returned", "syncing", "completed"} => checkpoint[of[k]] = Work

\* A completed row has its whole work saved and at most a run that cleans up.
Whole ==
  \A t \in calm : row[t] = "completed" =>
    checkpoint[t] = Work /\ \A k \in Runs : Live(k) /\ of[k] = t => step[k] = "cleaning"

\* What a launch does, in the terms of the invariants.
LaunchEffect(c, k) ==
         /\ at[c] \in {"start: go", "resume: go"} /\ at'[c] = "idle"
         /\ \A d \in Requests : d # c => at'[d] = at[d] /\ on'[d] = on[d]
         /\ step[k] = "unused" /\ step'[k] = "launched" /\ of'[k] = on[c] /\ on[c] \in Tasks
         /\ \A j \in Runs : j # k => step'[j] = step[j] /\ of'[j] = of[j]
         /\ cancelFn' = [cancelFn EXCEPT ![on[c]] = k]
         /\ UNCHANGED <<row, checkpoint, calm, cancelled, count>>
LEMMA LaunchFacts ==
  ASSUME TypeOK, NEW c \in Requests, NEW k \in Runs, Launch(c, k) PROVE LaunchEffect(c, k)
<1> USE DEF TypeOK
<1> PICK from \in {"start: go", "resume: go"} : Goes(c, from, "idle")
  BY DEF Launch
<1>1. /\ at[c] \in {"start: go", "resume: go"} /\ at'[c] = "idle" /\ UNCHANGED calm
      /\ \A d \in Requests : d # c => at'[d] = at[d] /\ on'[d] = on[d]
  BY DEF Goes
<1> QED
  BY <1>1 DEF Launch, LaunchEffect

\* Every other step leaves the live runs among those there were.
RunsShrink == \A k \in Runs : Live(k)' => Live(k) /\ of'[k] = of[k]

\* Each conjunct is kept by every step, one step of the proof per action.
LEMMA SoleStep == TypeOK /\ SoleRequest /\ [Next]_vars => SoleRequest'
<1> SUFFICES ASSUME TypeOK, SoleRequest, [Next]_vars PROVE SoleRequest'
  OBVIOUS
<1>t. at \in [Requests -> RequestStep] /\ on \in [Requests -> Tasks]
  BY Zenon DEF TypeOK
<1> USE DEF SoleRequest, Begin, Goes
<1>1. ASSUME NEW t \in Tasks, Create(t) PROVE SoleRequest'
  BY <1>t, <1>1 DEF Create
<1>2. ASSUME NEW c \in Requests, NEW t \in Tasks, StartReads(c, t) PROVE SoleRequest'
  BY <1>t, <1>2 DEF StartReads
<1>3. ASSUME NEW c \in Requests, NEW t \in Tasks, ResumeReads(c, t) PROVE SoleRequest'
  BY <1>t, <1>3 DEF ResumeReads
<1>4. ASSUME NEW c \in Requests, NEW t \in Tasks, PauseReads(c, t) PROVE SoleRequest'
  BY <1>t, <1>4 DEF PauseReads
<1>5. ASSUME NEW c \in Requests, NEW t \in Tasks, CancelFires(c, t) PROVE SoleRequest'
  BY <1>t, <1>5 DEF CancelFires
<1>6. ASSUME NEW c \in Requests, NEW t \in Tasks, DeleteReads(c, t) PROVE SoleRequest'
  BY <1>t, <1>6 DEF DeleteReads
<1>7. ASSUME NEW c \in Requests, StartMarks(c) PROVE SoleRequest'
  BY <1>t, <1>7 DEF StartMarks
<1>8. ASSUME NEW c \in Requests, StartResets(c) PROVE SoleRequest'
  BY <1>t, <1>8 DEF StartResets
<1>9. ASSUME NEW c \in Requests, StartClears(c) PROVE SoleRequest'
  BY <1>t, <1>9 DEF StartClears
<1>10. ASSUME NEW c \in Requests, ResumeMarks(c) PROVE SoleRequest'
  BY <1>t, <1>10 DEF ResumeMarks
<1>11. ASSUME NEW c \in Requests, NEW k \in Runs, Launch(c, k) PROVE SoleRequest'
  <2>1. LaunchEffect(c, k)
    BY <1>11, LaunchFacts
  <2>2. \A d \in Requests : at'[d] # "idle" => at'[d] = at[d] /\ on'[d] = on[d]
    BY <2>1 DEF LaunchEffect
  <2>3. calm' = calm
    BY <2>1 DEF LaunchEffect
  <2> QED
    BY <2>2, <2>3 DEF SoleRequest
<1>12. ASSUME NEW c \in Requests, PauseWrites(c) PROVE SoleRequest'
  BY <1>t, <1>12 DEF PauseWrites
<1>13. ASSUME NEW c \in Requests, CancelWrites(c) PROVE SoleRequest'
  BY <1>t, <1>13 DEF CancelWrites
<1>14. ASSUME NEW c \in Requests, DeleteRemoves(c) PROVE SoleRequest'
  BY <1>t, <1>14 DEF DeleteRemoves
<1>15. ASSUME NEW k \in Runs, RunOpens(k) PROVE SoleRequest'
  BY <1>t, <1>15 DEF RunOpens
<1>16. ASSUME NEW k \in Runs, RunWorks(k) PROVE SoleRequest'
  BY <1>t, <1>16 DEF RunWorks
<1>17. ASSUME NEW k \in Runs, RunReturns(k) PROVE SoleRequest'
  BY <1>t, <1>17 DEF RunReturns
<1>18. ASSUME NEW k \in Runs, RunJudges(k) PROVE SoleRequest'
  BY <1>t, <1>18 DEF RunJudges
<1>19. ASSUME NEW k \in Runs, RunSyncs(k) PROVE SoleRequest'
  BY <1>t, <1>19 DEF RunSyncs
<1>20. ASSUME NEW k \in Runs, RunFinishes(k) PROVE SoleRequest'
  BY <1>t, <1>20 DEF RunFinishes
<1>21. ASSUME NEW k \in Runs, RunCleans(k) PROVE SoleRequest'
  BY <1>t, <1>21 DEF RunCleans
<1>22. ASSUME NEW k \in Runs, PollReads(k) PROVE SoleRequest'
  BY <1>t, <1>22 DEF PollReads
<1>23. ASSUME NEW k \in Runs, PollWrites(k) PROVE SoleRequest'
  BY <1>t, <1>23 DEF PollWrites
<1>24. ASSUME NEW k \in Runs, PollStops(k) PROVE SoleRequest'
  BY <1>t, <1>24 DEF PollStops
<1>25. CASE Restart
  BY <1>t, <1>25 DEF Restart
<1>26. CASE UNCHANGED vars
  BY <1>t, <1>26
<1> QED
  BY <1>1, <1>2, <1>3, <1>4, <1>5, <1>6, <1>7, <1>8, <1>9, <1>10, <1>11, <1>12, <1>13, <1>14, <1>15, <1>16, <1>17, <1>18, <1>19, <1>20, <1>21, <1>22, <1>23, <1>24, <1>25, <1>26 DEF Next, Arrives, Serves, RunStepOf, PollStep

\* Of all steps, only a launch adds a live run.
NoNewRun   == RunsShrink /\ calm' \subseteq calm
SomeLaunch == \E c \in Requests, k \in Runs : Launch(c, k)

LEMMA OnlyLaunch == TypeOK /\ [Next]_vars => NoNewRun \/ SomeLaunch
<1> SUFFICES ASSUME TypeOK, [Next]_vars PROVE NoNewRun \/ SomeLaunch
  OBVIOUS
<1>t. /\ step \in [Runs -> RunStep] /\ of \in [Runs -> Tasks]
      /\ at \in [Requests -> RequestStep] /\ on \in [Requests -> Tasks]
      /\ cancelFn \in [Tasks -> Runs \cup {None}] /\ row \in [Tasks -> Status]
      /\ count \in [Runs -> 0 .. Work] /\ checkpoint \in [Tasks -> 0 .. Work]
  BY Zenon DEF TypeOK
<1>s. calm \subseteq Tasks
  BY Zenon DEF TypeOK
<1> USE DEF NoNewRun, SomeLaunch, RunsShrink, Begin, Goes, Moves, Live, Outcomes
<1>1. ASSUME NEW t \in Tasks, Create(t) PROVE NoNewRun \/ SomeLaunch
  BY <1>t, <1>1 DEF Create
<1>2. ASSUME NEW c \in Requests, NEW t \in Tasks, StartReads(c, t) PROVE NoNewRun \/ SomeLaunch
  BY <1>t, <1>2 DEF StartReads
<1>3. ASSUME NEW c \in Requests, NEW t \in Tasks, ResumeReads(c, t) PROVE NoNewRun \/ SomeLaunch
  BY <1>t, <1>3 DEF ResumeReads
<1>4. ASSUME NEW c \in Requests, NEW t \in Tasks, PauseReads(c, t) PROVE NoNewRun \/ SomeLaunch
  BY <1>t, <1>4 DEF PauseReads
<1>5. ASSUME NEW c \in Requests, NEW t \in Tasks, CancelFires(c, t) PROVE NoNewRun \/ SomeLaunch
  BY <1>t, <1>5 DEF CancelFires
<1>6. ASSUME NEW c \in Requests, NEW t \in Tasks, DeleteReads(c, t) PROVE NoNewRun \/ SomeLaunch
  BY <1>t, <1>6 DEF DeleteReads
<1>7. ASSUME NEW c \in Requests, StartMarks(c) PROVE NoNewRun \/ SomeLaunch
  BY <1>t, <1>7 DEF StartMarks
<1>8. ASSUME NEW c \in Requests, StartResets(c) PROVE NoNewRun \/ SomeLaunch
  BY <1>t, <1>8 DEF StartResets
<1>9. ASSUME NEW c \in Requests, StartClears(c) PROVE NoNewRun \/ SomeLaunch
  BY <1>t, <1>9 DEF StartClears
<1>10. ASSUME NEW c \in Requests, ResumeMarks(c) PROVE NoNewRun \/ SomeLaunch
  BY <1>t, <1>10 DEF ResumeMarks
<1>11. ASSUME NEW c \in Requests, NEW k \in Runs, Launch(c, k) PROVE NoNewRun \/ SomeLaunch
  BY <1>11
<1>12. ASSUME NEW c \in Requests, PauseWrites(c) PROVE NoNewRun \/ SomeLaunch
  BY <1>t, <1>12 DEF PauseWrites
<1>13. ASSUME NEW c \in Requests, CancelWrites(c) PROVE NoNewRun \/ SomeLaunch
  BY <1>t, <1>13 DEF CancelWrites
<1>14. ASSUME NEW c \in Requests, DeleteRemoves(c) PROVE NoNewRun \/ SomeLaunch
  BY <1>t, <1>14 DEF DeleteRemoves
<1>15. ASSUME NEW k \in Runs, RunOpens(k) PROVE NoNewRun \/ SomeLaunch
  BY <1>t, <1>15 DEF RunOpens
<1>16. ASSUME NEW k \in Runs, RunWorks(k) PROVE NoNewRun \/ SomeLaunch
  BY <1>t, <1>16 DEF RunWorks
<1>17. ASSUME NEW k \in Runs, RunReturns(k) PROVE NoNewRun \/ SomeLaunch
  BY <1>t, <1>17 DEF RunReturns
<1>18. ASSUME NEW k \in Runs, RunJudges(k) PROVE NoNewRun \/ SomeLaunch
  BY <1>t, <1>18 DEF RunJudges
<1>19. ASSUME NEW k \in Runs, RunSyncs(k) PROVE NoNewRun \/ SomeLaunch
  BY <1>t, <1>19 DEF RunSyncs
<1>20. ASSUME NEW k \in Runs, RunFinishes(k) PROVE NoNewRun \/ SomeLaunch
  BY <1>t, <1>20 DEF RunFinishes
<1>21. ASSUME NEW k \in Runs, RunCleans(k) PROVE NoNewRun \/ SomeLaunch
  BY <1>t, <1>21 DEF RunCleans
<1>22. ASSUME NEW k \in Runs, PollReads(k) PROVE NoNewRun \/ SomeLaunch
  BY <1>t, <1>22 DEF PollReads
<1>23. ASSUME NEW k \in Runs, PollWrites(k) PROVE NoNewRun \/ SomeLaunch
  BY <1>t, <1>23 DEF PollWrites
<1>24. ASSUME NEW k \in Runs, PollStops(k) PROVE NoNewRun \/ SomeLaunch
  BY <1>t, <1>24 DEF PollStops
<1>25. CASE Restart
  BY <1>t, <1>25 DEF Restart
<1>26. CASE UNCHANGED vars
  BY <1>t, <1>26
<1> QED
  BY <1>1, <1>2, <1>3, <1>4, <1>5, <1>6, <1>7, <1>8, <1>9, <1>10, <1>11, <1>12, <1>13, <1>14, <1>15, <1>16, <1>17, <1>18, <1>19, <1>20, <1>21, <1>22, <1>23, <1>24, <1>25, <1>26 DEF Next, Arrives, Serves, RunStepOf, PollStep

\* A launch in preparation excludes another one by SoleRequest.
LEMMA NoRunYetStep == TypeOK /\ SoleRequest /\ NoRunYet /\ [Next]_vars => NoRunYet'
<1> SUFFICES ASSUME TypeOK, SoleRequest, NoRunYet, [Next]_vars PROVE NoRunYet'
  OBVIOUS
<1>t. /\ step \in [Runs -> RunStep] /\ of \in [Runs -> Tasks]
      /\ at \in [Requests -> RequestStep] /\ on \in [Requests -> Tasks]
      /\ cancelFn \in [Tasks -> Runs \cup {None}] /\ row \in [Tasks -> Status]
      /\ count \in [Runs -> 0 .. Work] /\ checkpoint \in [Tasks -> 0 .. Work]
  BY Zenon DEF TypeOK
<1>s. calm \subseteq Tasks
  BY Zenon DEF TypeOK
<1> USE DEF SoleRequest, NoRunYet, Begin, Goes, Moves, Live, ToLaunch, Outcomes
<1>1. ASSUME NEW t \in Tasks, Create(t) PROVE NoRunYet'
  BY <1>t, <1>1 DEF Create
<1>2. ASSUME NEW c \in Requests, NEW t \in Tasks, StartReads(c, t) PROVE NoRunYet'
  BY <1>t, <1>2 DEF StartReads
<1>3. ASSUME NEW c \in Requests, NEW t \in Tasks, ResumeReads(c, t) PROVE NoRunYet'
  BY <1>t, <1>3 DEF ResumeReads
<1>4. ASSUME NEW c \in Requests, NEW t \in Tasks, PauseReads(c, t) PROVE NoRunYet'
  BY <1>t, <1>4 DEF PauseReads
<1>5. ASSUME NEW c \in Requests, NEW t \in Tasks, CancelFires(c, t) PROVE NoRunYet'
  BY <1>t, <1>5 DEF CancelFires
<1>6. ASSUME NEW c \in Requests, NEW t \in Tasks, DeleteReads(c, t) PROVE NoRunYet'
  BY <1>t, <1>6 DEF DeleteReads
<1>7. ASSUME NEW c \in Requests, StartMarks(c) PROVE NoRunYet'
  BY <1>t, <1>7 DEF StartMarks
<1>8. ASSUME NEW c \in Requests, StartResets(c) PROVE NoRunYet'
  BY <1>t, <1>8 DEF StartResets
<1>9. ASSUME NEW c \in Requests, StartClears(c) PROVE NoRunYet'
  BY <1>t, <1>9 DEF StartClears
<1>10. ASSUME NEW c \in Requests, ResumeMarks(c) PROVE NoRunYet'
  BY <1>t, <1>10 DEF ResumeMarks
<1>11. ASSUME NEW c \in Requests, NEW k \in Runs, Launch(c, k) PROVE NoRunYet'
  <2>1. LaunchEffect(c, k)
    BY <1>11, LaunchFacts
  <2> SUFFICES ASSUME NEW t \in calm', NEW d \in Requests, at'[d] \in ToLaunch, on'[d] = t,
                      NEW j \in Runs, Live(j)', of'[j] = t
               PROVE  FALSE
    OBVIOUS
  <2>2. d # c /\ at[d] \in ToLaunch /\ on[d] = t /\ t \in calm
    BY <2>1 DEF LaunchEffect
  <2>3. j # k
    <3> SUFFICES ASSUME j = k PROVE FALSE
      OBVIOUS
    <3>1. at[c] # "idle" /\ on[c] = t
      BY <2>1 DEF LaunchEffect
    <3>2. at[d] # "idle"
      BY <2>2
    <3> QED
      BY <3>1, <3>2, <2>2, Zenon DEF SoleRequest
  <2>4. Live(j) /\ of[j] = t
    BY <2>1, <2>3 DEF LaunchEffect
  <2> QED
    BY <2>2, <2>4
<1>12. ASSUME NEW c \in Requests, PauseWrites(c) PROVE NoRunYet'
  BY <1>t, <1>12 DEF PauseWrites
<1>13. ASSUME NEW c \in Requests, CancelWrites(c) PROVE NoRunYet'
  BY <1>t, <1>13 DEF CancelWrites
<1>14. ASSUME NEW c \in Requests, DeleteRemoves(c) PROVE NoRunYet'
  BY <1>t, <1>14 DEF DeleteRemoves
<1>15. ASSUME NEW k \in Runs, RunOpens(k) PROVE NoRunYet'
  BY <1>t, <1>15 DEF RunOpens
<1>16. ASSUME NEW k \in Runs, RunWorks(k) PROVE NoRunYet'
  BY <1>t, <1>16 DEF RunWorks
<1>17. ASSUME NEW k \in Runs, RunReturns(k) PROVE NoRunYet'
  BY <1>t, <1>17 DEF RunReturns
<1>18. ASSUME NEW k \in Runs, RunJudges(k) PROVE NoRunYet'
  BY <1>t, <1>18 DEF RunJudges
<1>19. ASSUME NEW k \in Runs, RunSyncs(k) PROVE NoRunYet'
  BY <1>t, <1>19 DEF RunSyncs
<1>20. ASSUME NEW k \in Runs, RunFinishes(k) PROVE NoRunYet'
  BY <1>t, <1>20 DEF RunFinishes
<1>21. ASSUME NEW k \in Runs, RunCleans(k) PROVE NoRunYet'
  BY <1>t, <1>21 DEF RunCleans
<1>22. ASSUME NEW k \in Runs, PollReads(k) PROVE NoRunYet'
  BY <1>t, <1>22 DEF PollReads
<1>23. ASSUME NEW k \in Runs, PollWrites(k) PROVE NoRunYet'
  BY <1>t, <1>23 DEF PollWrites
<1>24. ASSUME NEW k \in Runs, PollStops(k) PROVE NoRunYet'
  BY <1>t, <1>24 DEF PollStops
<1>25. CASE Restart
  BY <1>t, <1>25 DEF Restart
<1>26. CASE UNCHANGED vars
  BY <1>t, <1>26
<1> QED
  BY <1>1, <1>2, <1>3, <1>4, <1>5, <1>6, <1>7, <1>8, <1>9, <1>10, <1>11, <1>12, <1>13, <1>14, <1>15, <1>16, <1>17, <1>18, <1>19, <1>20, <1>21, <1>22, <1>23, <1>24, <1>25, <1>26 DEF Next, Arrives, Serves, RunStepOf, PollStep

\* A launch finds no live run by NoRunYet.
LEMMA OneRunStep == TypeOK /\ NoRunYet /\ OneRun /\ [Next]_vars => OneRun'
<1> SUFFICES ASSUME TypeOK, NoRunYet, OneRun, [Next]_vars PROVE OneRun'
  OBVIOUS
<1>1. CASE RunsShrink /\ calm' \subseteq calm
  BY <1>1 DEF OneRun, RunsShrink
<1>2. ASSUME NEW c \in Requests, NEW k \in Runs, Launch(c, k) PROVE OneRun'
  <2>1. LaunchEffect(c, k)
    BY <1>2, LaunchFacts
  <2> QED
    <3> SUFFICES ASSUME NEW t \in calm', NEW i \in Runs, NEW j \in Runs, Live(i)', Live(j)',
                        of'[i] = t, of'[j] = t, i # j
                 PROVE  FALSE
      BY DEF OneRun
    <3>1. t \in calm /\ at[c] \in ToLaunch
      BY <2>1 DEF LaunchEffect, ToLaunch
    <3>2. \A l \in Runs : l # k /\ Live(l)' => Live(l) /\ of'[l] = of[l]
      BY <2>1 DEF LaunchEffect, Live
    <3>3. \A l \in Runs : l # k /\ Live(l)' /\ of'[l] = t => on[c] # t
      BY <3>1, <3>2, Zenon DEF NoRunYet
    <3>4. i # k /\ j # k
      BY <2>1, <3>3 DEF LaunchEffect
    <3> QED
      BY <3>1, <3>2, <3>4 DEF OneRun
<1> QED
  BY <1>1, <1>2, OnlyLaunch DEF NoNewRun, SomeLaunch

\* A step writes s into the row of u, or into none.
RowsOnly(u, s) == \A v \in Tasks : row'[v] = row[v] \/ (v = u /\ row'[v] = s)
\* No request comes to be marked.
MarksShrink ==
  /\ calm' \subseteq calm
  /\ \A d \in Requests : at'[d] \in Marked => at[d] \in Marked /\ on'[d] = on[d]
\* A row keeps its status or gets one of a task that is not closed.
RowsOpen == \A v \in Tasks : row'[v] = row[v] \/ row'[v] \notin {"cancelled", "completed"}

\* What suffices for MarkedIsOpen.
LEMMA OpenKept ==
  ASSUME calm \subseteq Tasks, MarkedIsOpen, MarksShrink, RowsOpen PROVE MarkedIsOpen'
<1> SUFFICES ASSUME NEW t \in calm', NEW c \in Requests, at'[c] \in Marked, on'[c] = t
             PROVE  row'[t] \notin {"cancelled", "completed"}
  BY Zenon DEF MarkedIsOpen
<1>1. t \in calm /\ t \in Tasks /\ at[c] \in Marked /\ on[c] = t
  BY DEF MarksShrink
<1> QED
  BY <1>1 DEF MarkedIsOpen, RowsOpen

\* What suffices for CancelReaches.
LEMMA CancelKept ==
  ASSUME calm \subseteq Tasks, CancelReaches, RunsShrink, calm' \subseteq calm, cancelled \subseteq cancelled',
         \A v \in Tasks : row'[v] = "cancelled" =>
           \/ row[v] = "cancelled"
           \/ v \in calm => \A j \in Runs : Live(j) /\ of[j] = v => j \in cancelled
  PROVE  CancelReaches'
<1> SUFFICES ASSUME NEW t \in calm', row'[t] = "cancelled", NEW k \in Runs, Live(k)', of'[k] = t
             PROVE  k \in cancelled'
  BY Zenon DEF CancelReaches
<1>1. t \in calm /\ t \in Tasks
  OBVIOUS
<1>2. Live(k) /\ of[k] = t
  BY DEF RunsShrink
<1> QED
  BY <1>1, <1>2 DEF CancelReaches

\* runMigration asks the context before it decides.
LEMMA JudgedStep == TypeOK /\ Judged /\ [Next]_vars => Judged'
<1> SUFFICES ASSUME TypeOK, Judged, [Next]_vars PROVE Judged'
  OBVIOUS
<1>t. /\ step \in [Runs -> RunStep] /\ of \in [Runs -> Tasks]
      /\ at \in [Requests -> RequestStep] /\ on \in [Requests -> Tasks]
      /\ cancelFn \in [Tasks -> Runs \cup {None}] /\ row \in [Tasks -> Status]
      /\ count \in [Runs -> 0 .. Work] /\ checkpoint \in [Tasks -> 0 .. Work]
  BY Zenon DEF TypeOK
<1>s. calm \subseteq Tasks
  BY Zenon DEF TypeOK
<1> USE DEF Judged, Begin, Goes, Moves, Live, ToLaunch, Marked, Outcomes, Outcome, Update, Exists
<1>1. ASSUME NEW t \in Tasks, Create(t) PROVE Judged'
  BY <1>t, <1>1 DEF Create
<1>2. ASSUME NEW c \in Requests, NEW t \in Tasks, StartReads(c, t) PROVE Judged'
  BY <1>t, <1>2 DEF StartReads
<1>3. ASSUME NEW c \in Requests, NEW t \in Tasks, ResumeReads(c, t) PROVE Judged'
  BY <1>t, <1>3 DEF ResumeReads
<1>4. ASSUME NEW c \in Requests, NEW t \in Tasks, PauseReads(c, t) PROVE Judged'
  BY <1>t, <1>4 DEF PauseReads
<1>5. ASSUME NEW c \in Requests, NEW t \in Tasks, CancelFires(c, t) PROVE Judged'
  BY <1>t, <1>5 DEF CancelFires
<1>6. ASSUME NEW c \in Requests, NEW t \in Tasks, DeleteReads(c, t) PROVE Judged'
  BY <1>t, <1>6 DEF DeleteReads
<1>7. ASSUME NEW c \in Requests, StartMarks(c) PROVE Judged'
  BY <1>t, <1>7 DEF StartMarks
<1>8. ASSUME NEW c \in Requests, StartResets(c) PROVE Judged'
  BY <1>t, <1>8 DEF StartResets
<1>9. ASSUME NEW c \in Requests, StartClears(c) PROVE Judged'
  BY <1>t, <1>9 DEF StartClears
<1>10. ASSUME NEW c \in Requests, ResumeMarks(c) PROVE Judged'
  BY <1>t, <1>10 DEF ResumeMarks
<1>11. ASSUME NEW c \in Requests, NEW k \in Runs, Launch(c, k) PROVE Judged'
  <2>1. LaunchEffect(c, k)
    BY <1>11, LaunchFacts
  <2> QED
    BY <1>t, <2>1 DEF LaunchEffect
<1>12. ASSUME NEW c \in Requests, PauseWrites(c) PROVE Judged'
  BY <1>t, <1>12 DEF PauseWrites
<1>13. ASSUME NEW c \in Requests, CancelWrites(c) PROVE Judged'
  BY <1>t, <1>13 DEF CancelWrites
<1>14. ASSUME NEW c \in Requests, DeleteRemoves(c) PROVE Judged'
  BY <1>t, <1>14 DEF DeleteRemoves
<1>15. ASSUME NEW k \in Runs, RunOpens(k) PROVE Judged'
  BY <1>t, <1>15 DEF RunOpens
<1>16. ASSUME NEW k \in Runs, RunWorks(k) PROVE Judged'
  BY <1>t, <1>16 DEF RunWorks
<1>17. ASSUME NEW k \in Runs, RunReturns(k) PROVE Judged'
  BY <1>t, <1>17 DEF RunReturns
<1>18. ASSUME NEW k \in Runs, RunJudges(k) PROVE Judged'
  BY <1>t, <1>18 DEF RunJudges
<1>19. ASSUME NEW k \in Runs, RunSyncs(k) PROVE Judged'
  BY <1>t, <1>19 DEF RunSyncs
<1>20. ASSUME NEW k \in Runs, RunFinishes(k) PROVE Judged'
  BY <1>t, <1>20 DEF RunFinishes
<1>21. ASSUME NEW k \in Runs, RunCleans(k) PROVE Judged'
  BY <1>t, <1>21 DEF RunCleans
<1>22. ASSUME NEW k \in Runs, PollReads(k) PROVE Judged'
  BY <1>t, <1>22 DEF PollReads
<1>23. ASSUME NEW k \in Runs, PollWrites(k) PROVE Judged'
  BY <1>t, <1>23 DEF PollWrites
<1>24. ASSUME NEW k \in Runs, PollStops(k) PROVE Judged'
  BY <1>t, <1>24 DEF PollStops
<1>25. CASE Restart
  BY <1>t, <1>25 DEF Restart
<1>26. CASE UNCHANGED vars
  BY <1>t, <1>26
<1> QED
  BY <1>1, <1>2, <1>3, <1>4, <1>5, <1>6, <1>7, <1>8, <1>9, <1>10, <1>11, <1>12, <1>13, <1>14, <1>15, <1>16, <1>17, <1>18, <1>19, <1>20, <1>21, <1>22, <1>23, <1>24, <1>25, <1>26 DEF Next, Arrives, Serves, RunStepOf, PollStep

\* A launch replaces the stored function when no run is live.
LEMMA ReachableStep == TypeOK /\ NoRunYet /\ Reachable /\ [Next]_vars => Reachable'
<1> SUFFICES ASSUME TypeOK, NoRunYet, Reachable, [Next]_vars PROVE Reachable'
  OBVIOUS
<1>t. /\ step \in [Runs -> RunStep] /\ of \in [Runs -> Tasks]
      /\ at \in [Requests -> RequestStep] /\ on \in [Requests -> Tasks]
      /\ cancelFn \in [Tasks -> Runs \cup {None}] /\ row \in [Tasks -> Status]
      /\ count \in [Runs -> 0 .. Work] /\ checkpoint \in [Tasks -> 0 .. Work]
  BY Zenon DEF TypeOK
<1>s. calm \subseteq Tasks
  BY Zenon DEF TypeOK
<1> USE DEF Reachable, NoRunYet, Begin, Goes, Moves, Live, ToLaunch, Marked, Outcomes, Outcome, Update, Exists
<1>1. ASSUME NEW t \in Tasks, Create(t) PROVE Reachable'
  BY <1>t, <1>1 DEF Create
<1>2. ASSUME NEW c \in Requests, NEW t \in Tasks, StartReads(c, t) PROVE Reachable'
  BY <1>t, <1>2 DEF StartReads
<1>3. ASSUME NEW c \in Requests, NEW t \in Tasks, ResumeReads(c, t) PROVE Reachable'
  BY <1>t, <1>3 DEF ResumeReads
<1>4. ASSUME NEW c \in Requests, NEW t \in Tasks, PauseReads(c, t) PROVE Reachable'
  BY <1>t, <1>4 DEF PauseReads
<1>5. ASSUME NEW c \in Requests, NEW t \in Tasks, CancelFires(c, t) PROVE Reachable'
  <2>1. /\ RunsShrink /\ calm' \subseteq calm /\ cancelFn' = [cancelFn EXCEPT ![t] = None]
        /\ cancelled' = cancelled \cup {k \in Runs : cancelFn[t] = k /\ Live(k)}
    BY <1>5 DEF CancelFires, RunsShrink
  <2> SUFFICES ASSUME NEW u \in calm', NEW j \in Runs, Live(j)', of'[j] = u
               PROVE  j \in cancelled' \/ cancelFn'[u] = j
    OBVIOUS
  <2>2. Live(j) /\ of[j] = u /\ u \in calm
    BY <2>1 DEF RunsShrink
  <2>3. j \in cancelled \/ cancelFn[u] = j
    BY <2>2
  <2>4. u \in Tasks
    BY <1>s, <2>2
  <2> QED
    BY <1>t, <2>1, <2>2, <2>3, <2>4
<1>6. ASSUME NEW c \in Requests, NEW t \in Tasks, DeleteReads(c, t) PROVE Reachable'
  BY <1>t, <1>6 DEF DeleteReads
<1>7. ASSUME NEW c \in Requests, StartMarks(c) PROVE Reachable'
  BY <1>t, <1>7 DEF StartMarks
<1>8. ASSUME NEW c \in Requests, StartResets(c) PROVE Reachable'
  BY <1>t, <1>8 DEF StartResets
<1>9. ASSUME NEW c \in Requests, StartClears(c) PROVE Reachable'
  BY <1>t, <1>9 DEF StartClears
<1>10. ASSUME NEW c \in Requests, ResumeMarks(c) PROVE Reachable'
  BY <1>t, <1>10 DEF ResumeMarks
<1>11. ASSUME NEW c \in Requests, NEW k \in Runs, Launch(c, k) PROVE Reachable'
  <2>1. LaunchEffect(c, k)
    BY <1>11, LaunchFacts
  <2> SUFFICES ASSUME NEW t \in calm', NEW j \in Runs, Live(j)', of'[j] = t
               PROVE  j \in cancelled' \/ cancelFn'[t] = j
    OBVIOUS
  <2>2. CASE j = k
    <3>1. of'[k] = on[c] /\ on[c] \in Tasks /\ cancelFn' = [cancelFn EXCEPT ![on[c]] = k]
      BY <2>1 DEF LaunchEffect
    <3> QED
      BY <1>t, <2>2, <3>1
  <2>3. CASE j # k
    <3>1. Live(j) /\ of[j] = t /\ t \in calm
      BY <2>1, <2>3 DEF LaunchEffect
    <3>2. at[c] \in ToLaunch
      BY <2>1 DEF LaunchEffect
    <3>3. t # on[c]
      BY <3>1, <3>2
    <3>4. cancelFn' = [cancelFn EXCEPT ![on[c]] = k] /\ cancelled' = cancelled /\ calm \subseteq Tasks
      BY <1>s, <2>1 DEF LaunchEffect
    <3>5. j \in cancelled \/ cancelFn[t] = j
      BY <3>1
    <3> QED
      BY <1>t, <3>1, <3>3, <3>4, <3>5
  <2> QED
    BY <2>2, <2>3
<1>12. ASSUME NEW c \in Requests, PauseWrites(c) PROVE Reachable'
  BY <1>t, <1>12 DEF PauseWrites
<1>13. ASSUME NEW c \in Requests, CancelWrites(c) PROVE Reachable'
  BY <1>t, <1>13 DEF CancelWrites
<1>14. ASSUME NEW c \in Requests, DeleteRemoves(c) PROVE Reachable'
  BY <1>t, <1>14 DEF DeleteRemoves
<1>15. ASSUME NEW k \in Runs, RunOpens(k) PROVE Reachable'
  BY <1>t, <1>15 DEF RunOpens
<1>16. ASSUME NEW k \in Runs, RunWorks(k) PROVE Reachable'
  BY <1>t, <1>16 DEF RunWorks
<1>17. ASSUME NEW k \in Runs, RunReturns(k) PROVE Reachable'
  BY <1>t, <1>17 DEF RunReturns
<1>18. ASSUME NEW k \in Runs, RunJudges(k) PROVE Reachable'
  BY <1>t, <1>18 DEF RunJudges
<1>19. ASSUME NEW k \in Runs, RunSyncs(k) PROVE Reachable'
  BY <1>t, <1>19 DEF RunSyncs
<1>20. ASSUME NEW k \in Runs, RunFinishes(k) PROVE Reachable'
  BY <1>t, <1>20 DEF RunFinishes
<1>21. ASSUME NEW k \in Runs, RunCleans(k) PROVE Reachable'
  BY <1>t, <1>21 DEF RunCleans
<1>22. ASSUME NEW k \in Runs, PollReads(k) PROVE Reachable'
  BY <1>t, <1>22 DEF PollReads
<1>23. ASSUME NEW k \in Runs, PollWrites(k) PROVE Reachable'
  BY <1>t, <1>23 DEF PollWrites
<1>24. ASSUME NEW k \in Runs, PollStops(k) PROVE Reachable'
  BY <1>t, <1>24 DEF PollStops
<1>25. CASE Restart
  BY <1>t, <1>25 DEF Restart
<1>26. CASE UNCHANGED vars
  BY <1>t, <1>26
<1> QED
  BY <1>1, <1>2, <1>3, <1>4, <1>5, <1>6, <1>7, <1>8, <1>9, <1>10, <1>11, <1>12, <1>13, <1>14, <1>15, <1>16, <1>17, <1>18, <1>19, <1>20, <1>21, <1>22, <1>23, <1>24, <1>25, <1>26 DEF Next, Arrives, Serves, RunStepOf, PollStep

\* A Cancel in progress excludes a launch.
LEMMA FiredStep == TypeOK /\ SoleRequest /\ Reachable /\ Fired /\ [Next]_vars => Fired'
<1> SUFFICES ASSUME TypeOK, SoleRequest, Reachable, Fired, [Next]_vars PROVE Fired'
  OBVIOUS
<1>t. /\ step \in [Runs -> RunStep] /\ of \in [Runs -> Tasks]
      /\ at \in [Requests -> RequestStep] /\ on \in [Requests -> Tasks]
      /\ cancelFn \in [Tasks -> Runs \cup {None}] /\ row \in [Tasks -> Status]
      /\ count \in [Runs -> 0 .. Work] /\ checkpoint \in [Tasks -> 0 .. Work]
  BY Zenon DEF TypeOK
<1>s. calm \subseteq Tasks
  BY Zenon DEF TypeOK
<1> USE DEF Fired, SoleRequest, Reachable, Begin, Goes, Moves, Live, ToLaunch, Marked, Outcomes, Outcome, Update, Exists
<1>1. ASSUME NEW t \in Tasks, Create(t) PROVE Fired'
  BY <1>t, <1>1 DEF Create
<1>2. ASSUME NEW c \in Requests, NEW t \in Tasks, StartReads(c, t) PROVE Fired'
  BY <1>t, <1>2 DEF StartReads
<1>3. ASSUME NEW c \in Requests, NEW t \in Tasks, ResumeReads(c, t) PROVE Fired'
  BY <1>t, <1>3 DEF ResumeReads
<1>4. ASSUME NEW c \in Requests, NEW t \in Tasks, PauseReads(c, t) PROVE Fired'
  BY <1>t, <1>4 DEF PauseReads
<1>5. ASSUME NEW c \in Requests, NEW t \in Tasks, CancelFires(c, t) PROVE Fired'
  BY <1>t, <1>5 DEF CancelFires
<1>6. ASSUME NEW c \in Requests, NEW t \in Tasks, DeleteReads(c, t) PROVE Fired'
  BY <1>t, <1>6 DEF DeleteReads
<1>7. ASSUME NEW c \in Requests, StartMarks(c) PROVE Fired'
  BY <1>t, <1>7 DEF StartMarks
<1>8. ASSUME NEW c \in Requests, StartResets(c) PROVE Fired'
  BY <1>t, <1>8 DEF StartResets
<1>9. ASSUME NEW c \in Requests, StartClears(c) PROVE Fired'
  BY <1>t, <1>9 DEF StartClears
<1>10. ASSUME NEW c \in Requests, ResumeMarks(c) PROVE Fired'
  BY <1>t, <1>10 DEF ResumeMarks
<1>11. ASSUME NEW c \in Requests, NEW k \in Runs, Launch(c, k) PROVE Fired'
  <2>1. LaunchEffect(c, k)
    BY <1>11, LaunchFacts
  <2> SUFFICES ASSUME NEW t \in calm', NEW d \in Requests, at'[d] = "cancel: write", on'[d] = t,
                      NEW j \in Runs, Live(j)', of'[j] = t
               PROVE  j \in cancelled'
    OBVIOUS
  <2>2. d # c /\ at[d] = "cancel: write" /\ on[d] = t /\ t \in calm
    BY <2>1 DEF LaunchEffect
  <2>3. at[c] # "idle" /\ at[d] # "idle"
    BY <2>1, <2>2 DEF LaunchEffect
  <2>4. on[c] # t
    BY <2>2, <2>3, Zenon DEF SoleRequest
  <2>5. Live(j) /\ of[j] = t
    BY <2>1, <2>4 DEF LaunchEffect
  <2> QED
    BY <2>1, <2>2, <2>5 DEF LaunchEffect
<1>12. ASSUME NEW c \in Requests, PauseWrites(c) PROVE Fired'
  BY <1>t, <1>12 DEF PauseWrites
<1>13. ASSUME NEW c \in Requests, CancelWrites(c) PROVE Fired'
  BY <1>t, <1>13 DEF CancelWrites
<1>14. ASSUME NEW c \in Requests, DeleteRemoves(c) PROVE Fired'
  BY <1>t, <1>14 DEF DeleteRemoves
<1>15. ASSUME NEW k \in Runs, RunOpens(k) PROVE Fired'
  BY <1>t, <1>15 DEF RunOpens
<1>16. ASSUME NEW k \in Runs, RunWorks(k) PROVE Fired'
  BY <1>t, <1>16 DEF RunWorks
<1>17. ASSUME NEW k \in Runs, RunReturns(k) PROVE Fired'
  BY <1>t, <1>17 DEF RunReturns
<1>18. ASSUME NEW k \in Runs, RunJudges(k) PROVE Fired'
  BY <1>t, <1>18 DEF RunJudges
<1>19. ASSUME NEW k \in Runs, RunSyncs(k) PROVE Fired'
  BY <1>t, <1>19 DEF RunSyncs
<1>20. ASSUME NEW k \in Runs, RunFinishes(k) PROVE Fired'
  BY <1>t, <1>20 DEF RunFinishes
<1>21. ASSUME NEW k \in Runs, RunCleans(k) PROVE Fired'
  BY <1>t, <1>21 DEF RunCleans
<1>22. ASSUME NEW k \in Runs, PollReads(k) PROVE Fired'
  BY <1>t, <1>22 DEF PollReads
<1>23. ASSUME NEW k \in Runs, PollWrites(k) PROVE Fired'
  BY <1>t, <1>23 DEF PollWrites
<1>24. ASSUME NEW k \in Runs, PollStops(k) PROVE Fired'
  BY <1>t, <1>24 DEF PollStops
<1>25. CASE Restart
  BY <1>t, <1>25 DEF Restart
<1>26. CASE UNCHANGED vars
  BY <1>t, <1>26
<1> QED
  BY <1>1, <1>2, <1>3, <1>4, <1>5, <1>6, <1>7, <1>8, <1>9, <1>10, <1>11, <1>12, <1>13, <1>14, <1>15, <1>16, <1>17, <1>18, <1>19, <1>20, <1>21, <1>22, <1>23, <1>24, <1>25, <1>26 DEF Next, Arrives, Serves, RunStepOf, PollStep

\* Only a live run and a Cancel close a row, and a marked row has neither.
LEMMA OpenStep == TypeOK /\ SoleRequest /\ NoRunYet /\ MarkedIsOpen /\ [Next]_vars => MarkedIsOpen'
<1> SUFFICES ASSUME TypeOK, SoleRequest, NoRunYet, MarkedIsOpen, [Next]_vars PROVE MarkedIsOpen'
  OBVIOUS
<1>t. /\ step \in [Runs -> RunStep] /\ of \in [Runs -> Tasks]
      /\ at \in [Requests -> RequestStep] /\ on \in [Requests -> Tasks]
      /\ cancelFn \in [Tasks -> Runs \cup {None}] /\ row \in [Tasks -> Status]
      /\ count \in [Runs -> 0 .. Work] /\ checkpoint \in [Tasks -> 0 .. Work]
  BY Zenon DEF TypeOK
<1>s. calm \subseteq Tasks
  BY Zenon DEF TypeOK
<1> USE DEF MarkedIsOpen, SoleRequest, NoRunYet, Begin, Goes, Moves, Live, ToLaunch, Marked, Outcomes, Outcome, Update, Exists
<1>1. ASSUME NEW t \in Tasks, Create(t) PROVE MarkedIsOpen'
  <2>1. RowsOpen
    BY <1>t, <1>1 DEF Create, RowsOpen
  <2>2. MarksShrink
    BY <1>t, <1>1 DEF Create, MarksShrink
  <2> QED
    BY <1>s, <2>1, <2>2, OpenKept, Zenon
<1>2. ASSUME NEW c \in Requests, NEW t \in Tasks, StartReads(c, t) PROVE MarkedIsOpen'
  BY <1>t, <1>2 DEF StartReads
<1>3. ASSUME NEW c \in Requests, NEW t \in Tasks, ResumeReads(c, t) PROVE MarkedIsOpen'
  BY <1>t, <1>3 DEF ResumeReads
<1>4. ASSUME NEW c \in Requests, NEW t \in Tasks, PauseReads(c, t) PROVE MarkedIsOpen'
  BY <1>t, <1>4 DEF PauseReads
<1>5. ASSUME NEW c \in Requests, NEW t \in Tasks, CancelFires(c, t) PROVE MarkedIsOpen'
  BY <1>t, <1>5 DEF CancelFires
<1>6. ASSUME NEW c \in Requests, NEW t \in Tasks, DeleteReads(c, t) PROVE MarkedIsOpen'
  BY <1>t, <1>6 DEF DeleteReads
<1>7. ASSUME NEW c \in Requests, StartMarks(c) PROVE MarkedIsOpen'
  <2>1. row'[on[c]] \notin {"cancelled", "completed"}
    BY <1>t, <1>7 DEF StartMarks
  <2>2. RowsOnly(on[c], "running")
    BY <1>t, <1>7 DEF StartMarks, RowsOnly
  <2>3. on' = on /\ calm' = calm /\ \A d \in Requests : d # c => at'[d] = at[d]
    BY <1>t, <1>7 DEF StartMarks
  <2> SUFFICES ASSUME NEW t \in calm', NEW d \in Requests, at'[d] \in Marked, on'[d] = t
               PROVE  row'[t] \notin {"cancelled", "completed"}
    OBVIOUS
  <2>4. CASE d = c
    BY <2>1, <2>3, <2>4
  <2>5. CASE d # c
    BY <1>t, <2>2, <2>3, <2>5 DEF RowsOnly
  <2> QED
    BY <2>4, <2>5
<1>8. ASSUME NEW c \in Requests, StartResets(c) PROVE MarkedIsOpen'
  <2>1. MarksShrink /\ row' = row
    BY <1>t, <1>8 DEF StartResets, MarksShrink
  <2> QED
    BY <2>1 DEF MarksShrink
<1>9. ASSUME NEW c \in Requests, StartClears(c) PROVE MarkedIsOpen'
  <2>1. MarksShrink /\ row' = row
    BY <1>t, <1>9 DEF StartClears, MarksShrink
  <2> QED
    BY <2>1 DEF MarksShrink
<1>10. ASSUME NEW c \in Requests, ResumeMarks(c) PROVE MarkedIsOpen'
  <2>1. row'[on[c]] \notin {"cancelled", "completed"}
    BY <1>t, <1>10 DEF ResumeMarks
  <2>2. RowsOnly(on[c], "running")
    BY <1>t, <1>10 DEF ResumeMarks, RowsOnly
  <2>3. on' = on /\ calm' = calm /\ \A d \in Requests : d # c => at'[d] = at[d]
    BY <1>t, <1>10 DEF ResumeMarks
  <2> SUFFICES ASSUME NEW t \in calm', NEW d \in Requests, at'[d] \in Marked, on'[d] = t
               PROVE  row'[t] \notin {"cancelled", "completed"}
    OBVIOUS
  <2>4. CASE d = c
    BY <2>1, <2>3, <2>4
  <2>5. CASE d # c
    BY <1>t, <2>2, <2>3, <2>5 DEF RowsOnly
  <2> QED
    BY <2>4, <2>5
<1>11. ASSUME NEW c \in Requests, NEW k \in Runs, Launch(c, k) PROVE MarkedIsOpen'
  <2>1. LaunchEffect(c, k)
    BY <1>11, LaunchFacts
  <2>2. MarksShrink /\ row' = row
    BY <2>1 DEF LaunchEffect, MarksShrink
  <2> QED
    BY <2>2 DEF MarksShrink
<1>12. ASSUME NEW c \in Requests, PauseWrites(c) PROVE MarkedIsOpen'
  <2>1. RowsOpen
    BY <1>t, <1>12 DEF PauseWrites, RowsOpen
  <2>2. MarksShrink
    BY <1>t, <1>12 DEF PauseWrites, MarksShrink
  <2> QED
    BY <1>s, <2>1, <2>2, OpenKept, Zenon
<1>13. ASSUME NEW c \in Requests, CancelWrites(c) PROVE MarkedIsOpen'
  <2>1. RowsOnly(on[c], "cancelled") /\ at[c] = "cancel: write"
    BY <1>t, <1>13 DEF CancelWrites, RowsOnly
  <2>2. MarksShrink
    BY <1>t, <1>13 DEF CancelWrites, MarksShrink
  <2> SUFFICES ASSUME NEW t \in calm', NEW d \in Requests, at'[d] \in Marked, on'[d] = t
               PROVE  row'[t] \notin {"cancelled", "completed"}
    OBVIOUS
  <2>3. at[d] \in Marked /\ on[d] = t /\ t \in calm /\ t \in Tasks
    BY <1>t, <2>2 DEF MarksShrink
  <2>4. on[c] # t
    BY <2>1, <2>3
  <2> QED
    BY <2>1, <2>3, <2>4 DEF RowsOnly
<1>14. ASSUME NEW c \in Requests, DeleteRemoves(c) PROVE MarkedIsOpen'
  <2>1. RowsOpen
    BY <1>t, <1>14 DEF DeleteRemoves, RowsOpen
  <2>2. MarksShrink
    BY <1>t, <1>14 DEF DeleteRemoves, MarksShrink
  <2> QED
    BY <1>s, <2>1, <2>2, OpenKept, Zenon
<1>15. ASSUME NEW k \in Runs, RunOpens(k) PROVE MarkedIsOpen'
  BY <1>t, <1>15 DEF RunOpens
<1>16. ASSUME NEW k \in Runs, RunWorks(k) PROVE MarkedIsOpen'
  BY <1>t, <1>16 DEF RunWorks
<1>17. ASSUME NEW k \in Runs, RunReturns(k) PROVE MarkedIsOpen'
  BY <1>t, <1>17 DEF RunReturns
<1>18. ASSUME NEW k \in Runs, RunJudges(k) PROVE MarkedIsOpen'
  BY <1>t, <1>18 DEF RunJudges
<1>19. ASSUME NEW k \in Runs, RunSyncs(k) PROVE MarkedIsOpen'
  BY <1>t, <1>19 DEF RunSyncs
<1>20. ASSUME NEW k \in Runs, RunFinishes(k) PROVE MarkedIsOpen'
  <2>1. RowsOnly(of[k], step[k]) /\ Live(k)
    BY <1>t, <1>20 DEF RunFinishes, RowsOnly
  <2>2. MarksShrink
    BY <1>t, <1>20 DEF RunFinishes, MarksShrink
  <2> SUFFICES ASSUME NEW t \in calm', NEW d \in Requests, at'[d] \in Marked, on'[d] = t
               PROVE  row'[t] \notin {"cancelled", "completed"}
    OBVIOUS
  <2>3. at[d] \in Marked /\ on[d] = t /\ t \in calm /\ t \in Tasks
    BY <1>t, <2>2 DEF MarksShrink
  <2>4. of[k] # t
    BY <2>1, <2>3
  <2> QED
    BY <2>1, <2>3, <2>4 DEF RowsOnly
<1>21. ASSUME NEW k \in Runs, RunCleans(k) PROVE MarkedIsOpen'
  BY <1>t, <1>21 DEF RunCleans
<1>22. ASSUME NEW k \in Runs, PollReads(k) PROVE MarkedIsOpen'
  BY <1>t, <1>22 DEF PollReads
<1>23. ASSUME NEW k \in Runs, PollWrites(k) PROVE MarkedIsOpen'
  BY <1>t, <1>23 DEF PollWrites
<1>24. ASSUME NEW k \in Runs, PollStops(k) PROVE MarkedIsOpen'
  BY <1>t, <1>24 DEF PollStops
<1>25. CASE Restart
  BY <1>t, <1>25 DEF Restart
<1>26. CASE UNCHANGED vars
  BY <1>t, <1>26
<1> QED
  BY <1>1, <1>2, <1>3, <1>4, <1>5, <1>6, <1>7, <1>8, <1>9, <1>10, <1>11, <1>12, <1>13, <1>14, <1>15, <1>16, <1>17, <1>18, <1>19, <1>20, <1>21, <1>22, <1>23, <1>24, <1>25, <1>26 DEF Next, Arrives, Serves, RunStepOf, PollStep

\* A row becomes cancelled by a Cancel that has fired or by a run that was cancelled.
LEMMA CancelReachesStep == TypeOK /\ Judged /\ OneRun /\ NoRunYet /\ Fired /\ MarkedIsOpen /\ CancelReaches /\ [Next]_vars => CancelReaches'
<1> SUFFICES ASSUME TypeOK, Judged, OneRun, NoRunYet, Fired, MarkedIsOpen, CancelReaches, [Next]_vars PROVE CancelReaches'
  OBVIOUS
<1>t. /\ step \in [Runs -> RunStep] /\ of \in [Runs -> Tasks]
      /\ at \in [Requests -> RequestStep] /\ on \in [Requests -> Tasks]
      /\ cancelFn \in [Tasks -> Runs \cup {None}] /\ row \in [Tasks -> Status]
      /\ count \in [Runs -> 0 .. Work] /\ checkpoint \in [Tasks -> 0 .. Work]
  BY Zenon DEF TypeOK
<1>s. calm \subseteq Tasks
  BY Zenon DEF TypeOK
<1> USE DEF CancelReaches, Judged, OneRun, NoRunYet, Fired, MarkedIsOpen, Begin, Goes, Moves, Live, ToLaunch, Marked, Outcomes, Outcome, Update, Exists
<1>1. ASSUME NEW t \in Tasks, Create(t) PROVE CancelReaches'
  <2>1. \A v \in Tasks : row'[v] = "cancelled" => row[v] = "cancelled"
    BY <1>t, <1>1 DEF Create
  <2>2. RunsShrink /\ calm' \subseteq calm /\ cancelled \subseteq cancelled'
    BY <1>t, <1>1 DEF Create, RunsShrink
  <2> QED
    BY <1>s, <2>1, <2>2, CancelKept, Zenon
<1>2. ASSUME NEW c \in Requests, NEW t \in Tasks, StartReads(c, t) PROVE CancelReaches'
  BY <1>t, <1>2 DEF StartReads
<1>3. ASSUME NEW c \in Requests, NEW t \in Tasks, ResumeReads(c, t) PROVE CancelReaches'
  BY <1>t, <1>3 DEF ResumeReads
<1>4. ASSUME NEW c \in Requests, NEW t \in Tasks, PauseReads(c, t) PROVE CancelReaches'
  BY <1>t, <1>4 DEF PauseReads
<1>5. ASSUME NEW c \in Requests, NEW t \in Tasks, CancelFires(c, t) PROVE CancelReaches'
  BY <1>t, <1>5 DEF CancelFires
<1>6. ASSUME NEW c \in Requests, NEW t \in Tasks, DeleteReads(c, t) PROVE CancelReaches'
  BY <1>t, <1>6 DEF DeleteReads
<1>7. ASSUME NEW c \in Requests, StartMarks(c) PROVE CancelReaches'
  <2>1. \A v \in Tasks : row'[v] = "cancelled" => row[v] = "cancelled"
    BY <1>t, <1>7 DEF StartMarks
  <2>2. RunsShrink /\ calm' \subseteq calm /\ cancelled \subseteq cancelled'
    BY <1>t, <1>7 DEF StartMarks, RunsShrink
  <2> QED
    BY <1>s, <2>1, <2>2, CancelKept, Zenon
<1>8. ASSUME NEW c \in Requests, StartResets(c) PROVE CancelReaches'
  BY <1>t, <1>8 DEF StartResets
<1>9. ASSUME NEW c \in Requests, StartClears(c) PROVE CancelReaches'
  BY <1>t, <1>9 DEF StartClears
<1>10. ASSUME NEW c \in Requests, ResumeMarks(c) PROVE CancelReaches'
  <2>1. \A v \in Tasks : row'[v] = "cancelled" => row[v] = "cancelled"
    BY <1>t, <1>10 DEF ResumeMarks
  <2>2. RunsShrink /\ calm' \subseteq calm /\ cancelled \subseteq cancelled'
    BY <1>t, <1>10 DEF ResumeMarks, RunsShrink
  <2> QED
    BY <1>s, <2>1, <2>2, CancelKept, Zenon
<1>11. ASSUME NEW c \in Requests, NEW k \in Runs, Launch(c, k) PROVE CancelReaches'
  <2>1. LaunchEffect(c, k)
    BY <1>11, LaunchFacts
  <2> SUFFICES ASSUME NEW t \in calm', row'[t] = "cancelled", NEW j \in Runs, Live(j)', of'[j] = t
               PROVE  j \in cancelled'
    OBVIOUS
  <2>2. t \in calm /\ row[t] = "cancelled"
    BY <2>1 DEF LaunchEffect
  <2>3. at[c] \in Marked
    BY <2>1 DEF LaunchEffect
  <2>4. on[c] # t
    BY <2>2, <2>3
  <2>5. Live(j) /\ of[j] = t
    BY <2>1, <2>4 DEF LaunchEffect
  <2> QED
    BY <2>1, <2>2, <2>5 DEF LaunchEffect
<1>12. ASSUME NEW c \in Requests, PauseWrites(c) PROVE CancelReaches'
  <2>1. \A v \in Tasks : row'[v] = "cancelled" => row[v] = "cancelled"
    BY <1>t, <1>12 DEF PauseWrites
  <2>2. RunsShrink /\ calm' \subseteq calm /\ cancelled \subseteq cancelled'
    BY <1>t, <1>12 DEF PauseWrites, RunsShrink
  <2> QED
    BY <1>s, <2>1, <2>2, CancelKept, Zenon
<1>13. ASSUME NEW c \in Requests, CancelWrites(c) PROVE CancelReaches'
  <2>1. RowsOnly(on[c], "cancelled") /\ at[c] = "cancel: write"
    BY <1>t, <1>13 DEF CancelWrites, RowsOnly
  <2>2. RunsShrink /\ calm' \subseteq calm /\ cancelled \subseteq cancelled'
    BY <1>t, <1>13 DEF CancelWrites, RunsShrink
  <2>3. on[c] \in calm => \A j \in Runs : Live(j) /\ of[j] = on[c] => j \in cancelled
    BY <2>1
  <2>4. \A v \in Tasks : row'[v] = "cancelled" => row[v] = "cancelled" \/ v = on[c]
    BY <2>1 DEF RowsOnly
  <2> QED
    BY <1>s, <2>2, <2>3, <2>4, CancelKept, Zenon
<1>14. ASSUME NEW c \in Requests, DeleteRemoves(c) PROVE CancelReaches'
  <2>1. \A v \in Tasks : row'[v] = "cancelled" => row[v] = "cancelled"
    BY <1>t, <1>14 DEF DeleteRemoves
  <2>2. RunsShrink /\ calm' \subseteq calm /\ cancelled \subseteq cancelled'
    BY <1>t, <1>14 DEF DeleteRemoves, RunsShrink
  <2> QED
    BY <1>s, <2>1, <2>2, CancelKept, Zenon
<1>15. ASSUME NEW k \in Runs, RunOpens(k) PROVE CancelReaches'
  BY <1>t, <1>15 DEF RunOpens
<1>16. ASSUME NEW k \in Runs, RunWorks(k) PROVE CancelReaches'
  BY <1>t, <1>16 DEF RunWorks
<1>17. ASSUME NEW k \in Runs, RunReturns(k) PROVE CancelReaches'
  BY <1>t, <1>17 DEF RunReturns
<1>18. ASSUME NEW k \in Runs, RunJudges(k) PROVE CancelReaches'
  BY <1>t, <1>18 DEF RunJudges
<1>19. ASSUME NEW k \in Runs, RunSyncs(k) PROVE CancelReaches'
  BY <1>t, <1>19 DEF RunSyncs
<1>20. ASSUME NEW k \in Runs, RunFinishes(k) PROVE CancelReaches'
  <2>1. RowsOnly(of[k], step[k]) /\ Live(k)
    BY <1>t, <1>20 DEF RunFinishes, RowsOnly
  <2>2. RunsShrink /\ calm' \subseteq calm /\ cancelled \subseteq cancelled'
    BY <1>t, <1>20 DEF RunFinishes, RunsShrink
  <2>3. \A j \in Runs : of[k] \in calm /\ Live(j) /\ of[j] = of[k] => j = k
    BY <2>1
  <2>4. step[k] = "cancelled" => k \in cancelled
    OBVIOUS
  <2>5. \A v \in Tasks : row'[v] = "cancelled" => row[v] = "cancelled" \/ (v = of[k] /\ step[k] = "cancelled")
    BY <2>1 DEF RowsOnly
  <2>6. of[k] \in calm /\ step[k] = "cancelled" => \A j \in Runs : Live(j) /\ of[j] = of[k] => j \in cancelled
    BY <2>3, <2>4
  <2> QED
    BY <1>s, <2>2, <2>5, <2>6, CancelKept, Zenon
<1>21. ASSUME NEW k \in Runs, RunCleans(k) PROVE CancelReaches'
  BY <1>t, <1>21 DEF RunCleans
<1>22. ASSUME NEW k \in Runs, PollReads(k) PROVE CancelReaches'
  BY <1>t, <1>22 DEF PollReads
<1>23. ASSUME NEW k \in Runs, PollWrites(k) PROVE CancelReaches'
  BY <1>t, <1>23 DEF PollWrites
<1>24. ASSUME NEW k \in Runs, PollStops(k) PROVE CancelReaches'
  BY <1>t, <1>24 DEF PollStops
<1>25. CASE Restart
  BY <1>t, <1>25 DEF Restart
<1>26. CASE UNCHANGED vars
  BY <1>t, <1>26
<1> QED
  BY <1>1, <1>2, <1>3, <1>4, <1>5, <1>6, <1>7, <1>8, <1>9, <1>10, <1>11, <1>12, <1>13, <1>14, <1>15, <1>16, <1>17, <1>18, <1>19, <1>20, <1>21, <1>22, <1>23, <1>24, <1>25, <1>26 DEF Next, Arrives, Serves, RunStepOf, PollStep
\* Without a second run nobody else writes the checkpoint.
LEMMA SavedStep == TypeOK /\ OneRun /\ NoRunYet /\ Saved /\ [Next]_vars => Saved'
<1> SUFFICES ASSUME TypeOK, OneRun, NoRunYet, Saved, [Next]_vars PROVE Saved'
  OBVIOUS
<1>t. /\ step \in [Runs -> RunStep] /\ of \in [Runs -> Tasks]
      /\ at \in [Requests -> RequestStep] /\ on \in [Requests -> Tasks]
      /\ cancelFn \in [Tasks -> Runs \cup {None}] /\ row \in [Tasks -> Status]
      /\ count \in [Runs -> 0 .. Work] /\ checkpoint \in [Tasks -> 0 .. Work]
  BY Zenon DEF TypeOK
<1>s. calm \subseteq Tasks
  BY Zenon DEF TypeOK
<1> USE DEF Saved, OneRun, NoRunYet, Begin, Goes, Moves, Live, ToLaunch, Marked, Outcomes, Outcome, Update, Exists
<1>1. ASSUME NEW t \in Tasks, Create(t) PROVE Saved'
  BY <1>t, <1>1 DEF Create
<1>2. ASSUME NEW c \in Requests, NEW t \in Tasks, StartReads(c, t) PROVE Saved'
  BY <1>t, <1>2 DEF StartReads
<1>3. ASSUME NEW c \in Requests, NEW t \in Tasks, ResumeReads(c, t) PROVE Saved'
  BY <1>t, <1>3 DEF ResumeReads
<1>4. ASSUME NEW c \in Requests, NEW t \in Tasks, PauseReads(c, t) PROVE Saved'
  BY <1>t, <1>4 DEF PauseReads
<1>5. ASSUME NEW c \in Requests, NEW t \in Tasks, CancelFires(c, t) PROVE Saved'
  BY <1>t, <1>5 DEF CancelFires
<1>6. ASSUME NEW c \in Requests, NEW t \in Tasks, DeleteReads(c, t) PROVE Saved'
  BY <1>t, <1>6 DEF DeleteReads
<1>7. ASSUME NEW c \in Requests, StartMarks(c) PROVE Saved'
  BY <1>t, <1>7 DEF StartMarks
<1>8. ASSUME NEW c \in Requests, StartResets(c) PROVE Saved'
  BY <1>t, <1>8 DEF StartResets
<1>9. ASSUME NEW c \in Requests, StartClears(c) PROVE Saved'
  BY <1>t, <1>9 DEF StartClears
<1>10. ASSUME NEW c \in Requests, ResumeMarks(c) PROVE Saved'
  BY <1>t, <1>10 DEF ResumeMarks
<1>11. ASSUME NEW c \in Requests, NEW k \in Runs, Launch(c, k) PROVE Saved'
  <2>1. LaunchEffect(c, k)
    BY <1>11, LaunchFacts
  <2> QED
    BY <1>t, <2>1 DEF LaunchEffect
<1>12. ASSUME NEW c \in Requests, PauseWrites(c) PROVE Saved'
  BY <1>t, <1>12 DEF PauseWrites
<1>13. ASSUME NEW c \in Requests, CancelWrites(c) PROVE Saved'
  BY <1>t, <1>13 DEF CancelWrites
<1>14. ASSUME NEW c \in Requests, DeleteRemoves(c) PROVE Saved'
  BY <1>t, <1>14 DEF DeleteRemoves
<1>15. ASSUME NEW k \in Runs, RunOpens(k) PROVE Saved'
  BY <1>t, <1>15 DEF RunOpens
<1>16. ASSUME NEW k \in Runs, RunWorks(k) PROVE Saved'
  <2>1. /\ step[k] = "copying" /\ checkpoint' = [checkpoint EXCEPT ![of[k]] = count'[k]]
        /\ count' = [count EXCEPT ![k] = count[k] + 1] /\ UNCHANGED <<step, of, calm>>
    BY <1>16 DEF RunWorks
  <2>2. count'[k] = checkpoint'[of[k]]
    BY <1>t, <2>1
  <2> SUFFICES ASSUME NEW j \in Runs, of'[j] \in calm'
               PROVE  /\ step'[j] = "copying" => count'[j] = checkpoint'[of'[j]]
                      /\ step'[j] \in {"returned", "syncing", "completed"} => checkpoint'[of'[j]] = Work
    OBVIOUS
  <2>3. CASE j = k
    BY <2>1, <2>2, <2>3
  <2>4. CASE j # k /\ of[j] = of[k]
    <3>1. step[j] \in {"unused", "over"}
      BY <2>1, <2>4
    <3> QED
      BY <2>1, <3>1
  <2>5. CASE j # k /\ of[j] # of[k]
    <3>1. checkpoint'[of[j]] = checkpoint[of[j]] /\ count'[j] = count[j]
      BY <1>t, <2>1, <2>5
    <3> QED
      BY <2>1, <3>1
  <2> QED
    BY <2>3, <2>4, <2>5
<1>17. ASSUME NEW k \in Runs, RunReturns(k) PROVE Saved'
  BY <1>t, <1>17 DEF RunReturns
<1>18. ASSUME NEW k \in Runs, RunJudges(k) PROVE Saved'
  BY <1>t, <1>18 DEF RunJudges
<1>19. ASSUME NEW k \in Runs, RunSyncs(k) PROVE Saved'
  BY <1>t, <1>19 DEF RunSyncs
<1>20. ASSUME NEW k \in Runs, RunFinishes(k) PROVE Saved'
  BY <1>t, <1>20 DEF RunFinishes
<1>21. ASSUME NEW k \in Runs, RunCleans(k) PROVE Saved'
  BY <1>t, <1>21 DEF RunCleans
<1>22. ASSUME NEW k \in Runs, PollReads(k) PROVE Saved'
  BY <1>t, <1>22 DEF PollReads
<1>23. ASSUME NEW k \in Runs, PollWrites(k) PROVE Saved'
  BY <1>t, <1>23 DEF PollWrites
<1>24. ASSUME NEW k \in Runs, PollStops(k) PROVE Saved'
  BY <1>t, <1>24 DEF PollStops
<1>25. CASE Restart
  BY <1>t, <1>25 DEF Restart
<1>26. CASE UNCHANGED vars
  BY <1>t, <1>26
<1> QED
  BY <1>1, <1>2, <1>3, <1>4, <1>5, <1>6, <1>7, <1>8, <1>9, <1>10, <1>11, <1>12, <1>13, <1>14, <1>15, <1>16, <1>17, <1>18, <1>19, <1>20, <1>21, <1>22, <1>23, <1>24, <1>25, <1>26 DEF Next, Arrives, Serves, RunStepOf, PollStep

\* No run starts, and one that is about to end does nothing else.
RunsCalm ==
  \A k \in Runs : Live(k)' =>
    Live(k) /\ of'[k] = of[k] /\ (step[k] = "cleaning" => step'[k] = "cleaning")

\* What suffices for Whole.
LEMMA WholeKept ==
  ASSUME calm \subseteq Tasks, Whole, RunsCalm, calm' \subseteq calm,
         \A v \in Tasks : row'[v] = "completed" => row[v] = "completed",
         \A v \in calm : row[v] = "completed" => checkpoint'[v] = checkpoint[v]
  PROVE  Whole'
<1> SUFFICES ASSUME NEW t \in calm', row'[t] = "completed"
             PROVE  /\ checkpoint'[t] = Work
                    /\ \A k \in Runs : Live(k)' /\ of'[k] = t => step'[k] = "cleaning"
  BY Zenon DEF Whole
<1>1. t \in calm /\ t \in Tasks /\ row[t] = "completed"
  OBVIOUS
<1>2. checkpoint'[t] = Work
  BY <1>1 DEF Whole
<1>3. \A k \in Runs : Live(k)' /\ of'[k] = t => step'[k] = "cleaning"
  BY <1>1 DEF Whole, RunsCalm
<1> QED
  BY <1>2, <1>3

\* A row becomes completed by a run whose work is saved.
LEMMA WholeStep == TypeOK /\ Saved /\ OneRun /\ MarkedIsOpen /\ Whole /\ [Next]_vars => Whole'
<1> SUFFICES ASSUME TypeOK, Saved, OneRun, MarkedIsOpen, Whole, [Next]_vars PROVE Whole'
  OBVIOUS
<1>t. /\ step \in [Runs -> RunStep] /\ of \in [Runs -> Tasks]
      /\ at \in [Requests -> RequestStep] /\ on \in [Requests -> Tasks]
      /\ cancelFn \in [Tasks -> Runs \cup {None}] /\ row \in [Tasks -> Status]
      /\ count \in [Runs -> 0 .. Work] /\ checkpoint \in [Tasks -> 0 .. Work]
  BY Zenon DEF TypeOK
<1>s. calm \subseteq Tasks
  BY Zenon DEF TypeOK
<1> USE DEF Begin, Goes, Moves, Live, ToLaunch, Marked, Outcomes, Outcome, Update, Exists
<1>1. ASSUME NEW t \in Tasks, Create(t) PROVE Whole'
  <2>1. RunsCalm
    BY <1>t, <1>1 DEF Create, RunsCalm
  <2>2. calm' \subseteq calm /\ \A v \in Tasks : row'[v] = "completed" => row[v] = "completed"
    BY <1>t, <1>1 DEF Create
  <2>3. \A v \in calm : row[v] = "completed" => checkpoint'[v] = checkpoint[v]
    BY <1>1 DEF Create
  <2> QED
    BY <1>s, <2>1, <2>2, <2>3, WholeKept, Zenon
<1>2. ASSUME NEW c \in Requests, NEW t \in Tasks, StartReads(c, t) PROVE Whole'
  <2>1. RunsCalm
    BY <1>t, <1>2 DEF StartReads, RunsCalm
  <2>2. calm' \subseteq calm /\ \A v \in Tasks : row'[v] = "completed" => row[v] = "completed"
    BY <1>t, <1>2 DEF StartReads
  <2>3. \A v \in calm : row[v] = "completed" => checkpoint'[v] = checkpoint[v]
    BY <1>2 DEF StartReads
  <2> QED
    BY <1>s, <2>1, <2>2, <2>3, WholeKept, Zenon
<1>3. ASSUME NEW c \in Requests, NEW t \in Tasks, ResumeReads(c, t) PROVE Whole'
  <2>1. RunsCalm
    BY <1>t, <1>3 DEF ResumeReads, RunsCalm
  <2>2. calm' \subseteq calm /\ \A v \in Tasks : row'[v] = "completed" => row[v] = "completed"
    BY <1>t, <1>3 DEF ResumeReads
  <2>3. \A v \in calm : row[v] = "completed" => checkpoint'[v] = checkpoint[v]
    BY <1>3 DEF ResumeReads
  <2> QED
    BY <1>s, <2>1, <2>2, <2>3, WholeKept, Zenon
<1>4. ASSUME NEW c \in Requests, NEW t \in Tasks, PauseReads(c, t) PROVE Whole'
  <2>1. RunsCalm
    BY <1>t, <1>4 DEF PauseReads, RunsCalm
  <2>2. calm' \subseteq calm /\ \A v \in Tasks : row'[v] = "completed" => row[v] = "completed"
    BY <1>t, <1>4 DEF PauseReads
  <2>3. \A v \in calm : row[v] = "completed" => checkpoint'[v] = checkpoint[v]
    BY <1>4 DEF PauseReads
  <2> QED
    BY <1>s, <2>1, <2>2, <2>3, WholeKept, Zenon
<1>5. ASSUME NEW c \in Requests, NEW t \in Tasks, CancelFires(c, t) PROVE Whole'
  <2>1. RunsCalm
    BY <1>t, <1>5 DEF CancelFires, RunsCalm
  <2>2. calm' \subseteq calm /\ \A v \in Tasks : row'[v] = "completed" => row[v] = "completed"
    BY <1>t, <1>5 DEF CancelFires
  <2>3. \A v \in calm : row[v] = "completed" => checkpoint'[v] = checkpoint[v]
    BY <1>5 DEF CancelFires
  <2> QED
    BY <1>s, <2>1, <2>2, <2>3, WholeKept, Zenon
<1>6. ASSUME NEW c \in Requests, NEW t \in Tasks, DeleteReads(c, t) PROVE Whole'
  <2>1. RunsCalm
    BY <1>t, <1>6 DEF DeleteReads, RunsCalm
  <2>2. calm' \subseteq calm /\ \A v \in Tasks : row'[v] = "completed" => row[v] = "completed"
    BY <1>t, <1>6 DEF DeleteReads
  <2>3. \A v \in calm : row[v] = "completed" => checkpoint'[v] = checkpoint[v]
    BY <1>6 DEF DeleteReads
  <2> QED
    BY <1>s, <2>1, <2>2, <2>3, WholeKept, Zenon
<1>7. ASSUME NEW c \in Requests, StartMarks(c) PROVE Whole'
  <2>1. RunsCalm
    BY <1>t, <1>7 DEF StartMarks, RunsCalm
  <2>2. calm' \subseteq calm /\ \A v \in Tasks : row'[v] = "completed" => row[v] = "completed"
    BY <1>t, <1>7 DEF StartMarks
  <2>3. \A v \in calm : row[v] = "completed" => checkpoint'[v] = checkpoint[v]
    BY <1>7 DEF StartMarks
  <2> QED
    BY <1>s, <2>1, <2>2, <2>3, WholeKept, Zenon
<1>8. ASSUME NEW c \in Requests, StartResets(c) PROVE Whole'
  <2>1. RunsCalm
    BY <1>t, <1>8 DEF StartResets, RunsCalm
  <2>2. calm' \subseteq calm /\ \A v \in Tasks : row'[v] = "completed" => row[v] = "completed"
    BY <1>t, <1>8 DEF StartResets
  <2>3. \A v \in calm : row[v] = "completed" => checkpoint'[v] = checkpoint[v]
    BY <1>8 DEF StartResets
  <2> QED
    BY <1>s, <2>1, <2>2, <2>3, WholeKept, Zenon
<1>9. ASSUME NEW c \in Requests, StartClears(c) PROVE Whole'
  <2>1. RunsCalm
    BY <1>t, <1>9 DEF StartClears, RunsCalm
  <2>2. calm' \subseteq calm /\ \A v \in Tasks : row'[v] = "completed" => row[v] = "completed"
    BY <1>t, <1>9 DEF StartClears
  <2>3. \A v \in calm : row[v] = "completed" => checkpoint'[v] = checkpoint[v]
    <3>1. at[c] \in Marked /\ checkpoint' = [checkpoint EXCEPT ![on[c]] = 0]
      BY <1>9 DEF StartClears
    <3> QED
      BY <1>s, <1>t, <3>1 DEF MarkedIsOpen
  <2> QED
    BY <1>s, <2>1, <2>2, <2>3, WholeKept, Zenon
<1>10. ASSUME NEW c \in Requests, ResumeMarks(c) PROVE Whole'
  <2>1. RunsCalm
    BY <1>t, <1>10 DEF ResumeMarks, RunsCalm
  <2>2. calm' \subseteq calm /\ \A v \in Tasks : row'[v] = "completed" => row[v] = "completed"
    BY <1>t, <1>10 DEF ResumeMarks
  <2>3. \A v \in calm : row[v] = "completed" => checkpoint'[v] = checkpoint[v]
    BY <1>10 DEF ResumeMarks
  <2> QED
    BY <1>s, <2>1, <2>2, <2>3, WholeKept, Zenon
<1>11. ASSUME NEW c \in Requests, NEW k \in Runs, Launch(c, k) PROVE Whole'
  <2>1. LaunchEffect(c, k)
    BY <1>11, LaunchFacts
  <2> SUFFICES ASSUME NEW t \in calm', row'[t] = "completed"
               PROVE  /\ checkpoint'[t] = Work
                      /\ \A j \in Runs : Live(j)' /\ of'[j] = t => step'[j] = "cleaning"
    BY Zenon DEF Whole
  <2>2. t \in calm /\ row[t] = "completed" /\ checkpoint' = checkpoint /\ at[c] \in Marked
    BY <2>1 DEF LaunchEffect
  <2>3. on[c] # t
    BY <2>2 DEF MarkedIsOpen
  <2>4. \A j \in Runs : Live(j)' /\ of'[j] = t => Live(j) /\ of[j] = t /\ step'[j] = step[j]
    BY <2>1, <2>3 DEF LaunchEffect
  <2> QED
    BY <2>2, <2>4 DEF Whole
<1>12. ASSUME NEW c \in Requests, PauseWrites(c) PROVE Whole'
  <2>1. RunsCalm
    BY <1>t, <1>12 DEF PauseWrites, RunsCalm
  <2>2. calm' \subseteq calm /\ \A v \in Tasks : row'[v] = "completed" => row[v] = "completed"
    BY <1>t, <1>12 DEF PauseWrites
  <2>3. \A v \in calm : row[v] = "completed" => checkpoint'[v] = checkpoint[v]
    BY <1>12 DEF PauseWrites
  <2> QED
    BY <1>s, <2>1, <2>2, <2>3, WholeKept, Zenon
<1>13. ASSUME NEW c \in Requests, CancelWrites(c) PROVE Whole'
  <2>1. RunsCalm
    BY <1>t, <1>13 DEF CancelWrites, RunsCalm
  <2>2. calm' \subseteq calm /\ \A v \in Tasks : row'[v] = "completed" => row[v] = "completed"
    BY <1>t, <1>13 DEF CancelWrites
  <2>3. \A v \in calm : row[v] = "completed" => checkpoint'[v] = checkpoint[v]
    BY <1>13 DEF CancelWrites
  <2> QED
    BY <1>s, <2>1, <2>2, <2>3, WholeKept, Zenon
<1>14. ASSUME NEW c \in Requests, DeleteRemoves(c) PROVE Whole'
  <2>1. RunsCalm
    BY <1>t, <1>14 DEF DeleteRemoves, RunsCalm
  <2>2. calm' \subseteq calm /\ \A v \in Tasks : row'[v] = "completed" => row[v] = "completed"
    BY <1>t, <1>14 DEF DeleteRemoves
  <2>3. \A v \in calm : row[v] = "completed" => checkpoint'[v] = checkpoint[v]
    BY <1>14 DEF DeleteRemoves
  <2> QED
    BY <1>s, <2>1, <2>2, <2>3, WholeKept, Zenon
<1>15. ASSUME NEW k \in Runs, RunOpens(k) PROVE Whole'
  <2>1. RunsCalm
    BY <1>t, <1>15 DEF RunOpens, RunsCalm
  <2>2. calm' \subseteq calm /\ \A v \in Tasks : row'[v] = "completed" => row[v] = "completed"
    BY <1>t, <1>15 DEF RunOpens
  <2>3. \A v \in calm : row[v] = "completed" => checkpoint'[v] = checkpoint[v]
    BY <1>15 DEF RunOpens
  <2> QED
    BY <1>s, <2>1, <2>2, <2>3, WholeKept, Zenon
<1>16. ASSUME NEW k \in Runs, RunWorks(k) PROVE Whole'
  <2>1. RunsCalm
    BY <1>t, <1>16 DEF RunWorks, RunsCalm
  <2>2. calm' \subseteq calm /\ \A v \in Tasks : row'[v] = "completed" => row[v] = "completed"
    BY <1>t, <1>16 DEF RunWorks
  <2>3. \A v \in calm : row[v] = "completed" => checkpoint'[v] = checkpoint[v]
    <3>1. step[k] = "copying" /\ checkpoint' = [checkpoint EXCEPT ![of[k]] = count'[k]]
      BY <1>16 DEF RunWorks
    <3> QED
      BY <1>s, <1>t, <3>1 DEF Whole, Live
  <2> QED
    BY <1>s, <2>1, <2>2, <2>3, WholeKept, Zenon
<1>17. ASSUME NEW k \in Runs, RunReturns(k) PROVE Whole'
  <2>1. RunsCalm
    BY <1>t, <1>17 DEF RunReturns, RunsCalm
  <2>2. calm' \subseteq calm /\ \A v \in Tasks : row'[v] = "completed" => row[v] = "completed"
    BY <1>t, <1>17 DEF RunReturns
  <2>3. \A v \in calm : row[v] = "completed" => checkpoint'[v] = checkpoint[v]
    BY <1>17 DEF RunReturns
  <2> QED
    BY <1>s, <2>1, <2>2, <2>3, WholeKept, Zenon
<1>18. ASSUME NEW k \in Runs, RunJudges(k) PROVE Whole'
  <2>1. RunsCalm
    BY <1>t, <1>18 DEF RunJudges, RunsCalm
  <2>2. calm' \subseteq calm /\ \A v \in Tasks : row'[v] = "completed" => row[v] = "completed"
    BY <1>t, <1>18 DEF RunJudges
  <2>3. \A v \in calm : row[v] = "completed" => checkpoint'[v] = checkpoint[v]
    BY <1>18 DEF RunJudges
  <2> QED
    BY <1>s, <2>1, <2>2, <2>3, WholeKept, Zenon
<1>19. ASSUME NEW k \in Runs, RunSyncs(k) PROVE Whole'
  <2>1. RunsCalm
    BY <1>t, <1>19 DEF RunSyncs, RunsCalm
  <2>2. calm' \subseteq calm /\ \A v \in Tasks : row'[v] = "completed" => row[v] = "completed"
    BY <1>t, <1>19 DEF RunSyncs
  <2>3. \A v \in calm : row[v] = "completed" => checkpoint'[v] = checkpoint[v]
    BY <1>19 DEF RunSyncs
  <2> QED
    BY <1>s, <2>1, <2>2, <2>3, WholeKept, Zenon
<1>20. ASSUME NEW k \in Runs, RunFinishes(k) PROVE Whole'
  <2>1. /\ RowsOnly(of[k], step[k]) /\ step[k] \in Outcomes /\ Live(k)
        /\ step' = [step EXCEPT ![k] = "cleaning"] /\ UNCHANGED <<of, checkpoint, calm>>
    BY <1>t, <1>20 DEF RunFinishes, RowsOnly
  <2> SUFFICES ASSUME NEW t \in calm', row'[t] = "completed"
               PROVE  /\ checkpoint'[t] = Work
                      /\ \A j \in Runs : Live(j)' /\ of'[j] = t => step'[j] = "cleaning"
    BY Zenon DEF Whole
  <2>2. t \in calm /\ t \in Tasks
    BY <1>s, <2>1
  <2>3. CASE row[t] = "completed"
    <3>1. \A j \in Runs : Live(j)' => Live(j)
      BY <1>t, <2>1
    <3>2. checkpoint[t] = Work /\ \A j \in Runs : Live(j) /\ of[j] = t => step[j] = "cleaning"
      BY <2>2, <2>3 DEF Whole
    <3> QED
      BY <1>t, <2>1, <3>1, <3>2
  <2>4. CASE row[t] # "completed"
    <3>1. t = of[k] /\ step[k] = "completed"
      BY <2>1, <2>2, <2>4 DEF RowsOnly
    <3>2. checkpoint[t] = Work
      BY <2>2, <3>1 DEF Saved
    <3>3. \A j \in Runs : j # k /\ of[j] = t => ~Live(j)
      BY <2>1, <2>2, <3>1 DEF OneRun
    <3> QED
      BY <1>t, <2>1, <3>2, <3>3
  <2> QED
    BY <2>3, <2>4
<1>21. ASSUME NEW k \in Runs, RunCleans(k) PROVE Whole'
  <2>1. RunsCalm
    BY <1>t, <1>21 DEF RunCleans, RunsCalm
  <2>2. calm' \subseteq calm /\ \A v \in Tasks : row'[v] = "completed" => row[v] = "completed"
    BY <1>t, <1>21 DEF RunCleans
  <2>3. \A v \in calm : row[v] = "completed" => checkpoint'[v] = checkpoint[v]
    BY <1>21 DEF RunCleans
  <2> QED
    BY <1>s, <2>1, <2>2, <2>3, WholeKept, Zenon
<1>22. ASSUME NEW k \in Runs, PollReads(k) PROVE Whole'
  <2>1. RunsCalm
    BY <1>t, <1>22 DEF PollReads, RunsCalm
  <2>2. calm' \subseteq calm /\ \A v \in Tasks : row'[v] = "completed" => row[v] = "completed"
    BY <1>t, <1>22 DEF PollReads
  <2>3. \A v \in calm : row[v] = "completed" => checkpoint'[v] = checkpoint[v]
    BY <1>22 DEF PollReads
  <2> QED
    BY <1>s, <2>1, <2>2, <2>3, WholeKept, Zenon
<1>23. ASSUME NEW k \in Runs, PollWrites(k) PROVE Whole'
  <2>1. RunsCalm
    BY <1>t, <1>23 DEF PollWrites, RunsCalm
  <2>2. calm' \subseteq calm /\ \A v \in Tasks : row'[v] = "completed" => row[v] = "completed"
    BY <1>t, <1>23 DEF PollWrites
  <2>3. \A v \in calm : row[v] = "completed" => checkpoint'[v] = checkpoint[v]
    BY <1>23 DEF PollWrites
  <2> QED
    BY <1>s, <2>1, <2>2, <2>3, WholeKept, Zenon
<1>24. ASSUME NEW k \in Runs, PollStops(k) PROVE Whole'
  <2>1. RunsCalm
    BY <1>t, <1>24 DEF PollStops, RunsCalm
  <2>2. calm' \subseteq calm /\ \A v \in Tasks : row'[v] = "completed" => row[v] = "completed"
    BY <1>t, <1>24 DEF PollStops
  <2>3. \A v \in calm : row[v] = "completed" => checkpoint'[v] = checkpoint[v]
    BY <1>24 DEF PollStops
  <2> QED
    BY <1>s, <2>1, <2>2, <2>3, WholeKept, Zenon
<1>25. CASE Restart
  <2>1. RunsCalm
    BY <1>t, <1>25 DEF Restart, RunsCalm
  <2>2. calm' \subseteq calm /\ \A v \in Tasks : row'[v] = "completed" => row[v] = "completed"
    BY <1>t, <1>25 DEF Restart
  <2>3. \A v \in calm : row[v] = "completed" => checkpoint'[v] = checkpoint[v]
    BY <1>25 DEF Restart
  <2> QED
    BY <1>s, <2>1, <2>2, <2>3, WholeKept, Zenon
<1>26. CASE UNCHANGED vars
  <2>1. RunsCalm
    BY <1>t, <1>26 DEF RunsCalm
  <2>2. calm' \subseteq calm /\ \A v \in Tasks : row'[v] = "completed" => row[v] = "completed"
    BY <1>t, <1>26
  <2>3. \A v \in calm : row[v] = "completed" => checkpoint'[v] = checkpoint[v]
    BY <1>26
  <2> QED
    BY <1>s, <2>1, <2>2, <2>3, WholeKept, Zenon
<1> QED
  BY <1>1, <1>2, <1>3, <1>4, <1>5, <1>6, <1>7, <1>8, <1>9, <1>10, <1>11, <1>12, <1>13, <1>14, <1>15, <1>16, <1>17, <1>18, <1>19, <1>20, <1>21, <1>22, <1>23, <1>24, <1>25, <1>26 DEF Next, Arrives, Serves, RunStepOf, PollStep
\* A run that ends leaves the logger without any core.
LEMMA NoStaleCoreStep == TypeOK /\ NoStaleCore /\ [Next]_vars => NoStaleCore'
<1> SUFFICES ASSUME TypeOK, NoStaleCore, [Next]_vars PROVE NoStaleCore'
  OBVIOUS
<1>t. /\ step \in [Runs -> RunStep] /\ of \in [Runs -> Tasks]
      /\ at \in [Requests -> RequestStep] /\ on \in [Requests -> Tasks]
      /\ cancelFn \in [Tasks -> Runs \cup {None}] /\ row \in [Tasks -> Status]
      /\ count \in [Runs -> 0 .. Work] /\ checkpoint \in [Tasks -> 0 .. Work]
  BY Zenon DEF TypeOK
<1>s. calm \subseteq Tasks
  BY Zenon DEF TypeOK
<1> USE DEF NoStaleCore, Begin, Goes, Moves, Live, ToLaunch, Marked, Outcomes, Outcome, Update, Exists
<1>1. ASSUME NEW t \in Tasks, Create(t) PROVE NoStaleCore'
  BY <1>t, <1>1 DEF Create
<1>2. ASSUME NEW c \in Requests, NEW t \in Tasks, StartReads(c, t) PROVE NoStaleCore'
  BY <1>t, <1>2 DEF StartReads
<1>3. ASSUME NEW c \in Requests, NEW t \in Tasks, ResumeReads(c, t) PROVE NoStaleCore'
  BY <1>t, <1>3 DEF ResumeReads
<1>4. ASSUME NEW c \in Requests, NEW t \in Tasks, PauseReads(c, t) PROVE NoStaleCore'
  BY <1>t, <1>4 DEF PauseReads
<1>5. ASSUME NEW c \in Requests, NEW t \in Tasks, CancelFires(c, t) PROVE NoStaleCore'
  BY <1>t, <1>5 DEF CancelFires
<1>6. ASSUME NEW c \in Requests, NEW t \in Tasks, DeleteReads(c, t) PROVE NoStaleCore'
  BY <1>t, <1>6 DEF DeleteReads
<1>7. ASSUME NEW c \in Requests, StartMarks(c) PROVE NoStaleCore'
  BY <1>t, <1>7 DEF StartMarks
<1>8. ASSUME NEW c \in Requests, StartResets(c) PROVE NoStaleCore'
  BY <1>t, <1>8 DEF StartResets
<1>9. ASSUME NEW c \in Requests, StartClears(c) PROVE NoStaleCore'
  BY <1>t, <1>9 DEF StartClears
<1>10. ASSUME NEW c \in Requests, ResumeMarks(c) PROVE NoStaleCore'
  BY <1>t, <1>10 DEF ResumeMarks
<1>11. ASSUME NEW c \in Requests, NEW k \in Runs, Launch(c, k) PROVE NoStaleCore'
  <2>1. LaunchEffect(c, k) /\ tee' = tee
    BY <1>11, LaunchFacts DEF Launch
  <2>2. k \notin tee /\ \A j \in Runs : j # k => step'[j] = step[j]
    BY <2>1 DEF LaunchEffect
  <2>3. tee \subseteq Runs
    BY Zenon DEF TypeOK
  <2> QED
    BY <2>1, <2>2, <2>3 DEF LaunchEffect
<1>12. ASSUME NEW c \in Requests, PauseWrites(c) PROVE NoStaleCore'
  BY <1>t, <1>12 DEF PauseWrites
<1>13. ASSUME NEW c \in Requests, CancelWrites(c) PROVE NoStaleCore'
  BY <1>t, <1>13 DEF CancelWrites
<1>14. ASSUME NEW c \in Requests, DeleteRemoves(c) PROVE NoStaleCore'
  BY <1>t, <1>14 DEF DeleteRemoves
<1>15. ASSUME NEW k \in Runs, RunOpens(k) PROVE NoStaleCore'
  BY <1>t, <1>15 DEF RunOpens
<1>16. ASSUME NEW k \in Runs, RunWorks(k) PROVE NoStaleCore'
  BY <1>t, <1>16 DEF RunWorks
<1>17. ASSUME NEW k \in Runs, RunReturns(k) PROVE NoStaleCore'
  <2>1. step[k] = "copying" /\ tee' = tee /\ \E s \in {"returned", "failing"} : step' = [step EXCEPT ![k] = s]
    BY <1>17 DEF RunReturns
  <2> QED
    BY <1>t, <2>1
<1>18. ASSUME NEW k \in Runs, RunJudges(k) PROVE NoStaleCore'
  BY <1>t, <1>18 DEF RunJudges
<1>19. ASSUME NEW k \in Runs, RunSyncs(k) PROVE NoStaleCore'
  BY <1>t, <1>19 DEF RunSyncs
<1>20. ASSUME NEW k \in Runs, RunFinishes(k) PROVE NoStaleCore'
  BY <1>t, <1>20 DEF RunFinishes
<1>21. ASSUME NEW k \in Runs, RunCleans(k) PROVE NoStaleCore'
  BY <1>t, <1>21 DEF RunCleans
<1>22. ASSUME NEW k \in Runs, PollReads(k) PROVE NoStaleCore'
  BY <1>t, <1>22 DEF PollReads
<1>23. ASSUME NEW k \in Runs, PollWrites(k) PROVE NoStaleCore'
  BY <1>t, <1>23 DEF PollWrites
<1>24. ASSUME NEW k \in Runs, PollStops(k) PROVE NoStaleCore'
  BY <1>t, <1>24 DEF PollStops
<1>25. CASE Restart
  BY <1>t, <1>25 DEF Restart
<1>26. CASE UNCHANGED vars
  BY <1>t, <1>26
<1> QED
  BY <1>1, <1>2, <1>3, <1>4, <1>5, <1>6, <1>7, <1>8, <1>9, <1>10, <1>11, <1>12, <1>13, <1>14, <1>15, <1>16, <1>17, <1>18, <1>19, <1>20, <1>21, <1>22, <1>23, <1>24, <1>25, <1>26 DEF Next, Arrives, Serves, RunStepOf, PollStep

---------------------------------------------------------------------------

\* The inductive invariant.
IInv ==
  /\ TypeOK /\ RunningIsServed /\ NoStaleCore
  /\ SoleRequest /\ NoRunYet /\ OneRun
  /\ Judged /\ Reachable /\ Fired /\ MarkedIsOpen /\ CancelReaches
  /\ Saved /\ Whole

LEMMA IInvInit == Init => IInv
<1> SUFFICES ASSUME Init PROVE IInv
  OBVIOUS
<1>1. TypeOK
  BY TypeInit
<1> USE DEF Init
<1>2. /\ \A c \in Requests : at[c] = "idle"
      /\ \A k \in Runs : step[k] = "unused"
      /\ \A u \in Tasks : row[u] = "none"
  OBVIOUS
<1>3. RunningIsServed /\ NoStaleCore
  BY <1>2 DEF RunningIsServed, NoStaleCore
<1>4. SoleRequest /\ NoRunYet /\ OneRun
  BY <1>2 DEF SoleRequest, NoRunYet, OneRun, ToLaunch, Live
<1>5. Judged /\ Reachable /\ Fired /\ MarkedIsOpen /\ CancelReaches
  BY <1>2 DEF Judged, Reachable, Fired, MarkedIsOpen, Marked, CancelReaches, Live
<1>6. Saved /\ Whole
  BY <1>2 DEF Saved, Whole, Live
<1> QED
  BY <1>1, <1>3, <1>4, <1>5, <1>6 DEF IInv

LEMMA IInvStep == IInv /\ [Next]_vars => IInv'
<1> SUFFICES ASSUME IInv, [Next]_vars PROVE IInv'
  OBVIOUS
<1>1. TypeOK' /\ RunningIsServed' /\ NoStaleCore'
  BY TypeStep, ServedStep, NoStaleCoreStep DEF IInv
<1>2. SoleRequest' /\ NoRunYet' /\ OneRun'
  BY SoleStep, NoRunYetStep, OneRunStep DEF IInv
<1>3. Judged' /\ Reachable' /\ Fired' /\ MarkedIsOpen' /\ CancelReaches'
  BY JudgedStep, ReachableStep, FiredStep, OpenStep, CancelReachesStep DEF IInv
<1>4. Saved' /\ Whole'
  BY SavedStep, WholeStep DEF IInv
<1> QED
  BY <1>1, <1>2, <1>3, <1>4 DEF IInv

LEMMA IInvAlways == Spec => []IInv
  BY IInvInit, IInvStep, PTL DEF Spec

\* The types of the store's rows, the requests, the runs and the pollers, for
\* any number of each.
THEOREM TypeCorrect == Spec => []TypeOK
<1>1. IInv => TypeOK
  BY DEF IInv
<1> QED
  BY <1>1, IInvAlways, PTL

\* However requests and runs overlap, until the server is restarted a row that
\* says running has a run that will still write into it, or a request that is
\* about to launch one.
THEOREM RunningServed == Spec => []RunningIsServed
<1>1. IInv => RunningIsServed
  BY DEF IInv
<1> QED
  BY <1>1, IInvAlways, PTL

\* No core of a run that has ended is left in the global logger.
THEOREM CoresRemoved == Spec => []NoStaleCore
<1>1. IInv => NoStaleCore
  BY DEF IInv
<1> QED
  BY <1>1, IInvAlways, PTL

\* While a task's requests are calm, it never has two runs.
THEOREM OneRunPerTask == Spec => []OneRun
<1>1. IInv => OneRun
  BY DEF IInv
<1> QED
  BY <1>1, IInvAlways, PTL

\* While a task's requests are calm, under the status cancelled no run of it
\* has an open context.
THEOREM CancelsReach == Spec => []CancelReaches
<1>1. IInv => CancelReaches
  BY DEF IInv
<1> QED
  BY <1>1, IInvAlways, PTL

\* While a task's requests are calm, completed means that the whole work is in
\* the checkpoint and nothing copies any more.
THEOREM CompletedWhole == Spec => []CompletedIsWhole
<1>1. IInv => CompletedIsWhole
  <2> SUFFICES ASSUME IInv PROVE CompletedIsWhole
    OBVIOUS
  <2>1. Whole
    BY DEF IInv
  <2> QED
    BY <2>1 DEF Whole, CompletedIsWhole, Live
<1> QED
  BY <1>1, IInvAlways, PTL

\* A run saves one unit more than the checkpoint has, by Saved.
LEMMA OnlyStartLowersStep == TypeOK /\ Saved /\ [Next]_vars => OnlyStartLowers
<1> SUFFICES ASSUME TypeOK, Saved, [Next]_vars PROVE OnlyStartLowers
  OBVIOUS
<1>t. /\ step \in [Runs -> RunStep] /\ of \in [Runs -> Tasks]
      /\ at \in [Requests -> RequestStep] /\ on \in [Requests -> Tasks]
      /\ cancelFn \in [Tasks -> Runs \cup {None}] /\ row \in [Tasks -> Status]
      /\ count \in [Runs -> 0 .. Work] /\ checkpoint \in [Tasks -> 0 .. Work]
  BY Zenon DEF TypeOK
<1>s. calm \subseteq Tasks
  BY Zenon DEF TypeOK
<1> USE DEF Moves
<1>c. calm' \subseteq Tasks
  BY TypeStep, Zenon DEF TypeOK
<1>d. checkpoint' = checkpoint => OnlyStartLowers
  <2> SUFFICES ASSUME checkpoint' = checkpoint, NEW u \in calm' PROVE ~ (checkpoint'[u] < checkpoint[u])
    BY DEF OnlyStartLowers
  <2>1. u \in Tasks
    BY <1>c
  <2>2. checkpoint[u] \in Int
    BY <1>t, <2>1, WebTasksAssumption
  <2> QED
    BY <2>2
<1>1. ASSUME NEW t \in Tasks, Create(t) PROVE OnlyStartLowers
  <2>1. checkpoint' = checkpoint
    BY <1>1 DEF Create
  <2> QED
    BY <1>d, <2>1
<1>2. ASSUME NEW c \in Requests, NEW t \in Tasks, StartReads(c, t) PROVE OnlyStartLowers
  <2>1. checkpoint' = checkpoint
    BY <1>2 DEF StartReads
  <2> QED
    BY <1>d, <2>1
<1>3. ASSUME NEW c \in Requests, NEW t \in Tasks, ResumeReads(c, t) PROVE OnlyStartLowers
  <2>1. checkpoint' = checkpoint
    BY <1>3 DEF ResumeReads
  <2> QED
    BY <1>d, <2>1
<1>4. ASSUME NEW c \in Requests, NEW t \in Tasks, PauseReads(c, t) PROVE OnlyStartLowers
  <2>1. checkpoint' = checkpoint
    BY <1>4 DEF PauseReads
  <2> QED
    BY <1>d, <2>1
<1>5. ASSUME NEW c \in Requests, NEW t \in Tasks, CancelFires(c, t) PROVE OnlyStartLowers
  <2>1. checkpoint' = checkpoint
    BY <1>5 DEF CancelFires
  <2> QED
    BY <1>d, <2>1
<1>6. ASSUME NEW c \in Requests, NEW t \in Tasks, DeleteReads(c, t) PROVE OnlyStartLowers
  <2>1. checkpoint' = checkpoint
    BY <1>6 DEF DeleteReads
  <2> QED
    BY <1>d, <2>1
<1>7. ASSUME NEW c \in Requests, StartMarks(c) PROVE OnlyStartLowers
  <2>1. checkpoint' = checkpoint
    BY <1>7 DEF StartMarks
  <2> QED
    BY <1>d, <2>1
<1>8. ASSUME NEW c \in Requests, StartResets(c) PROVE OnlyStartLowers
  <2>1. checkpoint' = checkpoint
    BY <1>8 DEF StartResets
  <2> QED
    BY <1>d, <2>1
<1>9. ASSUME NEW c \in Requests, StartClears(c) PROVE OnlyStartLowers
  <2>1. at[c] = "start: clear" /\ checkpoint' = [checkpoint EXCEPT ![on[c]] = 0]
    BY <1>9 DEF StartClears, Goes
  <2>2. \A u \in Tasks : u # on[c] => checkpoint'[u] = checkpoint[u]
    BY <1>t, <2>1
  <2>3. \A u \in Tasks : checkpoint[u] \in Int
    BY <1>t, WebTasksAssumption
  <2> SUFFICES ASSUME NEW u \in calm', checkpoint'[u] < checkpoint[u] PROVE on[c] = u
    BY <2>1 DEF OnlyStartLowers
  <2>4. u \in Tasks
    BY <1>c
  <2> QED
    BY <2>2, <2>3, <2>4
<1>10. ASSUME NEW c \in Requests, ResumeMarks(c) PROVE OnlyStartLowers
  <2>1. checkpoint' = checkpoint
    BY <1>10 DEF ResumeMarks
  <2> QED
    BY <1>d, <2>1
<1>11. ASSUME NEW c \in Requests, NEW k \in Runs, Launch(c, k) PROVE OnlyStartLowers
  <2>1. checkpoint' = checkpoint
    BY <1>11 DEF Launch
  <2> QED
    BY <1>d, <2>1
<1>12. ASSUME NEW c \in Requests, PauseWrites(c) PROVE OnlyStartLowers
  <2>1. checkpoint' = checkpoint
    BY <1>12 DEF PauseWrites
  <2> QED
    BY <1>d, <2>1
<1>13. ASSUME NEW c \in Requests, CancelWrites(c) PROVE OnlyStartLowers
  <2>1. checkpoint' = checkpoint
    BY <1>13 DEF CancelWrites
  <2> QED
    BY <1>d, <2>1
<1>14. ASSUME NEW c \in Requests, DeleteRemoves(c) PROVE OnlyStartLowers
  <2>1. checkpoint' = checkpoint
    BY <1>14 DEF DeleteRemoves
  <2> QED
    BY <1>d, <2>1
<1>15. ASSUME NEW k \in Runs, RunOpens(k) PROVE OnlyStartLowers
  <2>1. checkpoint' = checkpoint
    BY <1>15 DEF RunOpens
  <2> QED
    BY <1>d, <2>1
<1>16. ASSUME NEW k \in Runs, RunWorks(k) PROVE OnlyStartLowers
  <2>1. /\ step[k] = "copying" /\ checkpoint' = [checkpoint EXCEPT ![of[k]] = count'[k]]
        /\ count' = [count EXCEPT ![k] = count[k] + 1] /\ calm' = calm
    BY <1>16 DEF RunWorks
  <2>2. count[k] \in Int /\ \A u \in Tasks : checkpoint[u] \in Int
    BY <1>t, WebTasksAssumption
  <2>3. of[k] \in calm => count[k] = checkpoint[of[k]]
    BY <2>1 DEF Saved
  <2>4. count'[k] = count[k] + 1 /\ of[k] \in Tasks
    BY <1>t, <2>1
  <2>5. checkpoint'[of[k]] = count[k] + 1
    BY <1>t, <2>1, <2>4
  <2>6. \A u \in Tasks : u # of[k] => checkpoint'[u] = checkpoint[u]
    BY <1>t, <2>1
  <2> SUFFICES ASSUME NEW u \in calm' PROVE ~ (checkpoint'[u] < checkpoint[u])
    BY DEF OnlyStartLowers
  <2>7. u \in Tasks /\ u \in calm
    BY <1>c, <2>1
  <2>8. CASE u = of[k]
    <3>1. checkpoint'[u] = checkpoint[u] + 1
      BY <2>3, <2>5, <2>7, <2>8
    <3> QED
      BY <2>2, <2>7, <3>1
  <2>9. CASE u # of[k]
    BY <2>2, <2>6, <2>7, <2>9
  <2> QED
    BY <2>8, <2>9
<1>17. ASSUME NEW k \in Runs, RunReturns(k) PROVE OnlyStartLowers
  <2>1. checkpoint' = checkpoint
    BY <1>17 DEF RunReturns
  <2> QED
    BY <1>d, <2>1
<1>18. ASSUME NEW k \in Runs, RunJudges(k) PROVE OnlyStartLowers
  <2>1. checkpoint' = checkpoint
    BY <1>18 DEF RunJudges
  <2> QED
    BY <1>d, <2>1
<1>19. ASSUME NEW k \in Runs, RunSyncs(k) PROVE OnlyStartLowers
  <2>1. checkpoint' = checkpoint
    BY <1>19 DEF RunSyncs
  <2> QED
    BY <1>d, <2>1
<1>20. ASSUME NEW k \in Runs, RunFinishes(k) PROVE OnlyStartLowers
  <2>1. checkpoint' = checkpoint
    BY <1>20 DEF RunFinishes
  <2> QED
    BY <1>d, <2>1
<1>21. ASSUME NEW k \in Runs, RunCleans(k) PROVE OnlyStartLowers
  <2>1. checkpoint' = checkpoint
    BY <1>21 DEF RunCleans
  <2> QED
    BY <1>d, <2>1
<1>22. ASSUME NEW k \in Runs, PollReads(k) PROVE OnlyStartLowers
  <2>1. checkpoint' = checkpoint
    BY <1>22 DEF PollReads
  <2> QED
    BY <1>d, <2>1
<1>23. ASSUME NEW k \in Runs, PollWrites(k) PROVE OnlyStartLowers
  <2>1. checkpoint' = checkpoint
    BY <1>23 DEF PollWrites
  <2> QED
    BY <1>d, <2>1
<1>24. ASSUME NEW k \in Runs, PollStops(k) PROVE OnlyStartLowers
  <2>1. checkpoint' = checkpoint
    BY <1>24 DEF PollStops
  <2> QED
    BY <1>d, <2>1
<1>25. CASE Restart
  <2>1. checkpoint' = checkpoint
    BY <1>25 DEF Restart
  <2> QED
    BY <1>d, <2>1
<1>26. CASE UNCHANGED vars
  <2>1. checkpoint' = checkpoint
    BY <1>26
  <2> QED
    BY <1>d, <2>1
<1> QED
  BY <1>1, <1>2, <1>3, <1>4, <1>5, <1>6, <1>7, <1>8, <1>9, <1>10, <1>11, <1>12, <1>13, <1>14, <1>15, <1>16, <1>17, <1>18, <1>19, <1>20, <1>21, <1>22, <1>23, <1>24, <1>25, <1>26 DEF Next, Arrives, Serves, RunStepOf, PollStep

\* While a task's requests are calm, only the removal by a Start lowers the
\* progress that its checkpoint has.
THEOREM ProgressSurvives == Spec => CheckpointKept
<1>1. IInv /\ [Next]_vars => [OnlyStartLowers]_vars
  BY OnlyStartLowersStep DEF IInv
<1>2. Spec => [][OnlyStartLowers]_vars
  BY <1>1, IInvAlways, PTL DEF Spec
<1> QED
  BY <1>2 DEF CheckpointKept

---------------------------------------------------------------------------
\* The rows as TaskApi has them.  A deletion that is about to be carried out
\* has found its row.
Deletes(c)  == at[c] = "delete: remove"
DeleteKnown == \A c \in Requests : Deletes(c) => row[on[c]] # "none"

LEMMA UpdateIsWrite ==
  ASSUME row \in [Tasks -> Status], NEW t \in Tasks, NEW s \in Api!Statuses \ {"created"}, Update(t, s)
  PROVE  Api!RowNext \/ row' = row
<1>1. CASE Exists(t)
  <2>1. row[t] \in Api!Statuses
    BY <1>1 DEF Exists, Status, Api!Statuses
  <2>2. row' = [row EXCEPT ![t] = s]
    BY <1>1 DEF Update
  <2> QED
    BY <2>1, <2>2 DEF Api!RowNext, Api!WriteRow, Api!Exists
<1>2. CASE ~Exists(t)
  BY <1>2 DEF Update
<1> QED
  BY <1>1, <1>2

\* Each step does to the rows what one call may do.
LEMMA RowStep == TypeOK /\ DeleteKnown /\ [Next]_vars => Api!RowNext \/ row' = row
<1> SUFFICES ASSUME TypeOK, DeleteKnown, [Next]_vars PROVE Api!RowNext \/ row' = row
  OBVIOUS
<1>t. /\ row \in [Tasks -> Status] /\ on \in [Requests -> Tasks] /\ of \in [Runs -> Tasks]
  BY Zenon DEF TypeOK
<1>1. ASSUME NEW t \in Tasks, Create(t) PROVE Api!RowNext \/ row' = row
  BY <1>t, <1>1 DEF Create, Api!RowNext, Api!CreateRow
<1>2. ASSUME NEW c \in Requests, NEW t \in Tasks, StartReads(c, t) PROVE Api!RowNext \/ row' = row
  BY <1>t, <1>2 DEF StartReads
<1>3. ASSUME NEW c \in Requests, NEW t \in Tasks, ResumeReads(c, t) PROVE Api!RowNext \/ row' = row
  BY <1>t, <1>3 DEF ResumeReads
<1>4. ASSUME NEW c \in Requests, NEW t \in Tasks, PauseReads(c, t) PROVE Api!RowNext \/ row' = row
  BY <1>t, <1>4 DEF PauseReads
<1>5. ASSUME NEW c \in Requests, NEW t \in Tasks, CancelFires(c, t) PROVE Api!RowNext \/ row' = row
  BY <1>t, <1>5 DEF CancelFires
<1>6. ASSUME NEW c \in Requests, NEW t \in Tasks, DeleteReads(c, t) PROVE Api!RowNext \/ row' = row
  BY <1>t, <1>6 DEF DeleteReads
<1>7. ASSUME NEW c \in Requests, StartMarks(c) PROVE Api!RowNext \/ row' = row
  <2>1. on[c] \in Tasks /\ Update(on[c], "running")
    BY <1>t, <1>7 DEF StartMarks
  <2> QED
    BY <1>t, <2>1, UpdateIsWrite DEF Api!Statuses
<1>8. ASSUME NEW c \in Requests, StartResets(c) PROVE Api!RowNext \/ row' = row
  BY <1>t, <1>8 DEF StartResets
<1>9. ASSUME NEW c \in Requests, StartClears(c) PROVE Api!RowNext \/ row' = row
  BY <1>t, <1>9 DEF StartClears
<1>10. ASSUME NEW c \in Requests, ResumeMarks(c) PROVE Api!RowNext \/ row' = row
  <2>1. on[c] \in Tasks /\ Update(on[c], "running")
    BY <1>t, <1>10 DEF ResumeMarks
  <2> QED
    BY <1>t, <2>1, UpdateIsWrite DEF Api!Statuses
<1>11. ASSUME NEW c \in Requests, NEW k \in Runs, Launch(c, k) PROVE Api!RowNext \/ row' = row
  BY <1>t, <1>11 DEF Launch
<1>12. ASSUME NEW c \in Requests, PauseWrites(c) PROVE Api!RowNext \/ row' = row
  <2>1. on[c] \in Tasks /\ Update(on[c], "paused")
    BY <1>t, <1>12 DEF PauseWrites
  <2> QED
    BY <1>t, <2>1, UpdateIsWrite DEF Api!Statuses
<1>13. ASSUME NEW c \in Requests, CancelWrites(c) PROVE Api!RowNext \/ row' = row
  <2>1. on[c] \in Tasks /\ Update(on[c], "cancelled")
    BY <1>t, <1>13 DEF CancelWrites
  <2> QED
    BY <1>t, <2>1, UpdateIsWrite DEF Api!Statuses
<1>14. ASSUME NEW c \in Requests, DeleteRemoves(c) PROVE Api!RowNext \/ row' = row
  <2>1. on[c] \in Tasks /\ row[on[c]] # "none" /\ row' = [row EXCEPT ![on[c]] = "deleted"]
    BY <1>t, <1>14 DEF DeleteRemoves, Goes, DeleteKnown, Deletes
  <2>2. CASE row[on[c]] = "deleted"
    BY <1>t, <2>1, <2>2
  <2>3. CASE row[on[c]] # "deleted"
    <3>1. row[on[c]] \in Api!Statuses
      BY <1>t, <2>1, <2>3 DEF Status, Api!Statuses
    <3> QED
      BY <1>t, <2>1, <3>1 DEF Api!RowNext, Api!DeleteRow, Api!Exists
  <2> QED
    BY <2>2, <2>3
<1>15. ASSUME NEW k \in Runs, RunOpens(k) PROVE Api!RowNext \/ row' = row
  BY <1>t, <1>15 DEF RunOpens
<1>16. ASSUME NEW k \in Runs, RunWorks(k) PROVE Api!RowNext \/ row' = row
  BY <1>t, <1>16 DEF RunWorks
<1>17. ASSUME NEW k \in Runs, RunReturns(k) PROVE Api!RowNext \/ row' = row
  BY <1>t, <1>17 DEF RunReturns
<1>18. ASSUME NEW k \in Runs, RunJudges(k) PROVE Api!RowNext \/ row' = row
  BY <1>t, <1>18 DEF RunJudges
<1>19. ASSUME NEW k \in Runs, RunSyncs(k) PROVE Api!RowNext \/ row' = row
  BY <1>t, <1>19 DEF RunSyncs
<1>20. ASSUME NEW k \in Runs, RunFinishes(k) PROVE Api!RowNext \/ row' = row
  <2>1. of[k] \in Tasks /\ Update(of[k], step[k]) /\ step[k] \in Outcomes
    BY <1>t, <1>20 DEF RunFinishes
  <2> QED
    BY <1>t, <2>1, UpdateIsWrite DEF Api!Statuses, Outcomes
<1>21. ASSUME NEW k \in Runs, RunCleans(k) PROVE Api!RowNext \/ row' = row
  BY <1>t, <1>21 DEF RunCleans
<1>22. ASSUME NEW k \in Runs, PollReads(k) PROVE Api!RowNext \/ row' = row
  BY <1>t, <1>22 DEF PollReads
<1>23. ASSUME NEW k \in Runs, PollWrites(k) PROVE Api!RowNext \/ row' = row
  BY <1>t, <1>23 DEF PollWrites
<1>24. ASSUME NEW k \in Runs, PollStops(k) PROVE Api!RowNext \/ row' = row
  BY <1>t, <1>24 DEF PollStops
<1>25. CASE Restart
  BY <1>t, <1>25 DEF Restart
<1>26. CASE UNCHANGED vars
  BY <1>26
<1> QED
  BY <1>1, <1>2, <1>3, <1>4, <1>5, <1>6, <1>7, <1>8, <1>9, <1>10, <1>11, <1>12, <1>13, <1>14, <1>15, <1>16, <1>17, <1>18, <1>19, <1>20, <1>21, <1>22, <1>23, <1>24, <1>25, <1>26 DEF Next, Arrives, Serves, RunStepOf, PollStep

\* No row is forgotten.
LEMMA RowStays ==
  ASSUME row \in [Tasks -> Status], Api!RowNext \/ row' = row, NEW t \in Tasks, row[t] # "none"
  PROVE  row'[t] # "none"
<1>1. CASE row' = row
  BY <1>1
<1>2. CASE Api!RowNext
  BY <1>2 DEF Api!RowNext, Api!CreateRow, Api!WriteRow, Api!DeleteRow, Api!Statuses
<1> QED
  BY <1>1, <1>2

LEMMA DeletesKnown ==
  ASSUME TypeOK, DeleteKnown, [Next]_vars, NEW r \in Requests, Deletes(r)'
  PROVE on'[r] \in Tasks /\ row[on'[r]] # "none"
<1>t. /\ row \in [Tasks -> Status] /\ on \in [Requests -> Tasks] /\ at \in [Requests -> RequestStep]
  BY Zenon DEF TypeOK
<1>d. Deletes(r) /\ on'[r] = on[r] => on'[r] \in Tasks /\ row[on'[r]] # "none"
  BY <1>t DEF DeleteKnown, Deletes
<1>1. ASSUME NEW t \in Tasks, Create(t) PROVE on'[r] \in Tasks /\ row[on'[r]] # "none"
  <2>1. Deletes(r) /\ on'[r] = on[r]
    BY <1>t, <1>1 DEF Create, Deletes
  <2> QED
    BY <2>1, <1>d
<1>2. ASSUME NEW c \in Requests, NEW t \in Tasks, StartReads(c, t) PROVE on'[r] \in Tasks /\ row[on'[r]] # "none"
  <2>1. Deletes(r) /\ on'[r] = on[r]
    BY <1>t, <1>2 DEF StartReads, Deletes, Begin
  <2> QED
    BY <2>1, <1>d
<1>3. ASSUME NEW c \in Requests, NEW t \in Tasks, ResumeReads(c, t) PROVE on'[r] \in Tasks /\ row[on'[r]] # "none"
  <2>1. Deletes(r) /\ on'[r] = on[r]
    BY <1>t, <1>3 DEF ResumeReads, Deletes, Begin
  <2> QED
    BY <2>1, <1>d
<1>4. ASSUME NEW c \in Requests, NEW t \in Tasks, PauseReads(c, t) PROVE on'[r] \in Tasks /\ row[on'[r]] # "none"
  <2>1. Deletes(r) /\ on'[r] = on[r]
    BY <1>t, <1>4 DEF PauseReads, Deletes, Begin
  <2> QED
    BY <2>1, <1>d
<1>5. ASSUME NEW c \in Requests, NEW t \in Tasks, CancelFires(c, t) PROVE on'[r] \in Tasks /\ row[on'[r]] # "none"
  <2>1. Deletes(r) /\ on'[r] = on[r]
    BY <1>t, <1>5 DEF CancelFires, Deletes, Begin
  <2> QED
    BY <2>1, <1>d
<1>6. ASSUME NEW c \in Requests, NEW t \in Tasks, DeleteReads(c, t) PROVE on'[r] \in Tasks /\ row[on'[r]] # "none"
  <2>1. at' = [at EXCEPT ![c] = "delete: remove"] /\ on' = [on EXCEPT ![c] = t] /\ Exists(t)
    BY <1>t, <1>6 DEF DeleteReads, Begin
  <2>2. CASE r = c
    BY <1>t, <2>1, <2>2 DEF Exists
  <2>3. CASE r # c
    BY <1>t, <2>1, <2>3, <1>d DEF Deletes
  <2> QED
    BY <2>2, <2>3
<1>7. ASSUME NEW c \in Requests, StartMarks(c) PROVE on'[r] \in Tasks /\ row[on'[r]] # "none"
  <2>1. Deletes(r) /\ on'[r] = on[r]
    BY <1>t, <1>7 DEF StartMarks, Deletes, Goes
  <2> QED
    BY <2>1, <1>d
<1>8. ASSUME NEW c \in Requests, StartResets(c) PROVE on'[r] \in Tasks /\ row[on'[r]] # "none"
  <2>1. Deletes(r) /\ on'[r] = on[r]
    BY <1>t, <1>8 DEF StartResets, Deletes, Goes
  <2> QED
    BY <2>1, <1>d
<1>9. ASSUME NEW c \in Requests, StartClears(c) PROVE on'[r] \in Tasks /\ row[on'[r]] # "none"
  <2>1. Deletes(r) /\ on'[r] = on[r]
    BY <1>t, <1>9 DEF StartClears, Deletes, Goes
  <2> QED
    BY <2>1, <1>d
<1>10. ASSUME NEW c \in Requests, ResumeMarks(c) PROVE on'[r] \in Tasks /\ row[on'[r]] # "none"
  <2>1. Deletes(r) /\ on'[r] = on[r]
    BY <1>t, <1>10 DEF ResumeMarks, Deletes, Goes
  <2> QED
    BY <2>1, <1>d
<1>11. ASSUME NEW c \in Requests, NEW k \in Runs, Launch(c, k) PROVE on'[r] \in Tasks /\ row[on'[r]] # "none"
  <2>1. Deletes(r) /\ on'[r] = on[r]
    BY <1>t, <1>11 DEF Launch, Deletes, Goes
  <2> QED
    BY <2>1, <1>d
<1>12. ASSUME NEW c \in Requests, PauseWrites(c) PROVE on'[r] \in Tasks /\ row[on'[r]] # "none"
  <2>1. Deletes(r) /\ on'[r] = on[r]
    BY <1>t, <1>12 DEF PauseWrites, Deletes, Goes
  <2> QED
    BY <2>1, <1>d
<1>13. ASSUME NEW c \in Requests, CancelWrites(c) PROVE on'[r] \in Tasks /\ row[on'[r]] # "none"
  <2>1. Deletes(r) /\ on'[r] = on[r]
    BY <1>t, <1>13 DEF CancelWrites, Deletes, Goes
  <2> QED
    BY <2>1, <1>d
<1>14. ASSUME NEW c \in Requests, DeleteRemoves(c) PROVE on'[r] \in Tasks /\ row[on'[r]] # "none"
  <2>1. Deletes(r) /\ on'[r] = on[r]
    BY <1>t, <1>14 DEF DeleteRemoves, Deletes, Goes
  <2> QED
    BY <2>1, <1>d
<1>15. ASSUME NEW k \in Runs, RunOpens(k) PROVE on'[r] \in Tasks /\ row[on'[r]] # "none"
  <2>1. Deletes(r) /\ on'[r] = on[r]
    BY <1>t, <1>15 DEF RunOpens, Deletes
  <2> QED
    BY <2>1, <1>d
<1>16. ASSUME NEW k \in Runs, RunWorks(k) PROVE on'[r] \in Tasks /\ row[on'[r]] # "none"
  <2>1. Deletes(r) /\ on'[r] = on[r]
    BY <1>t, <1>16 DEF RunWorks, Deletes
  <2> QED
    BY <2>1, <1>d
<1>17. ASSUME NEW k \in Runs, RunReturns(k) PROVE on'[r] \in Tasks /\ row[on'[r]] # "none"
  <2>1. Deletes(r) /\ on'[r] = on[r]
    BY <1>t, <1>17 DEF RunReturns, Deletes
  <2> QED
    BY <2>1, <1>d
<1>18. ASSUME NEW k \in Runs, RunJudges(k) PROVE on'[r] \in Tasks /\ row[on'[r]] # "none"
  <2>1. Deletes(r) /\ on'[r] = on[r]
    BY <1>t, <1>18 DEF RunJudges, Deletes
  <2> QED
    BY <2>1, <1>d
<1>19. ASSUME NEW k \in Runs, RunSyncs(k) PROVE on'[r] \in Tasks /\ row[on'[r]] # "none"
  <2>1. Deletes(r) /\ on'[r] = on[r]
    BY <1>t, <1>19 DEF RunSyncs, Deletes
  <2> QED
    BY <2>1, <1>d
<1>20. ASSUME NEW k \in Runs, RunFinishes(k) PROVE on'[r] \in Tasks /\ row[on'[r]] # "none"
  <2>1. Deletes(r) /\ on'[r] = on[r]
    BY <1>t, <1>20 DEF RunFinishes, Deletes
  <2> QED
    BY <2>1, <1>d
<1>21. ASSUME NEW k \in Runs, RunCleans(k) PROVE on'[r] \in Tasks /\ row[on'[r]] # "none"
  <2>1. Deletes(r) /\ on'[r] = on[r]
    BY <1>t, <1>21 DEF RunCleans, Deletes
  <2> QED
    BY <2>1, <1>d
<1>22. ASSUME NEW k \in Runs, PollReads(k) PROVE on'[r] \in Tasks /\ row[on'[r]] # "none"
  <2>1. Deletes(r) /\ on'[r] = on[r]
    BY <1>t, <1>22 DEF PollReads, Deletes
  <2> QED
    BY <2>1, <1>d
<1>23. ASSUME NEW k \in Runs, PollWrites(k) PROVE on'[r] \in Tasks /\ row[on'[r]] # "none"
  <2>1. Deletes(r) /\ on'[r] = on[r]
    BY <1>t, <1>23 DEF PollWrites, Deletes
  <2> QED
    BY <2>1, <1>d
<1>24. ASSUME NEW k \in Runs, PollStops(k) PROVE on'[r] \in Tasks /\ row[on'[r]] # "none"
  <2>1. Deletes(r) /\ on'[r] = on[r]
    BY <1>t, <1>24 DEF PollStops, Deletes
  <2> QED
    BY <2>1, <1>d
<1>25. CASE Restart
  BY <1>t, <1>25 DEF Restart, Deletes
<1>26. CASE UNCHANGED vars
  BY <1>26, <1>d DEF Deletes
<1> QED
  BY <1>1, <1>2, <1>3, <1>4, <1>5, <1>6, <1>7, <1>8, <1>9, <1>10, <1>11, <1>12, <1>13, <1>14, <1>15, <1>16, <1>17, <1>18, <1>19, <1>20, <1>21, <1>22, <1>23, <1>24, <1>25, <1>26 DEF Next, Arrives, Serves, RunStepOf, PollStep

LEMMA DeleteKnownStep == TypeOK /\ DeleteKnown /\ [Next]_vars => DeleteKnown'
<1> SUFFICES ASSUME TypeOK, DeleteKnown, [Next]_vars, NEW r \in Requests, Deletes(r)'
             PROVE  (row[on[r]] # "none")'
  BY DEF DeleteKnown
<1>1. on'[r] \in Tasks /\ row[on'[r]] # "none"
  BY DeletesKnown
<1>2. row \in [Tasks -> Status]
  BY Zenon DEF TypeOK
<1> QED
  BY <1>1, <1>2, RowStep, RowStays

\* What the pages assume of the server's rows holds of the server, however its
\* requests and its runs overlap.
THEOREM ApiImplemented == Spec => ImplementsApi
<1>1. Init => DeleteKnown /\ Api!RowInit
  BY DEF Init, DeleteKnown, Deletes, Api!RowInit
<1>2. TypeOK /\ DeleteKnown /\ [Next]_vars => [Api!RowNext]_row
  BY RowStep
<1>3. Spec => []DeleteKnown
  BY <1>1, DeleteKnownStep, TypeCorrect, PTL DEF Spec
<1>4. Spec => Api!RowInit /\ [][Api!RowNext]_row
  BY <1>1, <1>2, <1>3, TypeCorrect, PTL DEF Spec
<1> QED
  BY <1>4 DEF ImplementsApi, Api!RowSpec
==============================================================================
