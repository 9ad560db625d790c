---------------------------- MODULE TaskDetailView ----------------------------
(***************************************************************************)
(* TaskDetailView.vue: the status of a task, asked for every five seconds  *)
(* and after each operation, and the buttons that go with the status that  *)
(* is shown.  The progress columns and phases, which only this page draws, *)
(* are left out; the progress messages of the socket carry no status.      *)
(***************************************************************************)
EXTENDS Router

CONSTANTS
  MaxGets,  \* bound: GET calls in flight
  MaxOps    \* bound: operations in flight

ASSUME DetailAssumption == MaxGets \in Nat \ {0} /\ MaxOps \in Nat

Operations == {"pause", "resume", "cancel", "delete"}
OpCalls == 1 .. MaxOps

VARIABLES
  taskId,   \* read from the route when the page is mounted: {} or {a task}
  task,     \* the status shown, "none" before the first answer
  gets,     \* GET calls in flight; "asked", or the answer
  ops       \* ops[k]: the operation in flight

detailVars == <<taskId, task, gets, ops>>

\* "asked"; "done" and "refused" await their answer at the page; "late": nobody waits.
NoOp == [st |-> "none", name |-> "cancel", task |-> {}, visit |-> 0]

\* 404, or a row.
GetAnswer(t) == IF Exists(t) THEN row[t] ELSE "missing"

-------------------------------------------------------------------------------
DetailMounts ==
  /\ taskId' = IF On("detail")' THEN {page'[2]} ELSE {}
  /\ task' = "none"
  /\ gets' = IF On("detail")' THEN <<"asked">> ELSE <<>>

DetailInit ==
  /\ taskId = (IF On("detail") THEN {page[2]} ELSE {})
  /\ task = "none"
  /\ gets = (IF On("detail") THEN <<"asked">> ELSE <<>>)
  /\ ops = [k \in OpCalls |-> NoOp]

\* From one task to another the component stays mounted, and taskId with it.
DetailRoutes ==
  /\ IF On("detail") # On("detail")' THEN DetailMounts ELSE UNCHANGED <<taskId, task, gets>>
  /\ UNCHANGED ops

DetailReloads ==
  /\ DetailMounts
  /\ ops' = [k \in OpCalls |-> IF ops[k].st \in {"asked", "late"} THEN [ops[k] EXCEPT !.st = "late"] ELSE NoOp]

-------------------------------------------------------------------------------
\* fetchTask; the timer does not ask whether a call is in flight.
FetchTask == Len(gets) < MaxGets /\ gets' = Append(gets, "asked")

PollTask == On("detail") /\ FetchTask /\ UNCHANGED <<taskId, task, ops, routerVars, row>>

GetServed(i) ==
  /\ i \in DOMAIN gets /\ gets[i] = "asked"
  /\ \E t \in taskId : gets' = [gets EXCEPT ![i] = GetAnswer(t)]
  /\ UNCHANGED <<taskId, task, ops, routerVars, row>>

GetsWithout(i) == [k \in 1 .. Len(gets) - 1 |-> gets[IF k < i THEN k ELSE k + 1]]

\* An error leaves the status that is shown.
GetAnswered(i) ==
  /\ i \in DOMAIN gets
  /\ \/ gets[i] \in Statuses /\ task' = gets[i] /\ Answered
     \/ gets[i] = "missing" /\ UNCHANGED task /\ Answered
     \/ UNCHANGED task /\ Unanswered("get")
  /\ gets' = GetsWithout(i)
  /\ UNCHANGED <<taskId, ops, row>>

-------------------------------------------------------------------------------
\* The buttons that are there for the status shown.
Offered(name) ==
  CASE name = "pause"  -> task = "running"
    [] name = "resume" -> task = "paused"
    [] name = "cancel" -> task \in {"running", "paused"}
    [] name = "delete" -> task \notin {"none", "running"}

ClickOp(k, name) ==
  /\ On("detail") /\ Offered(name) /\ ops[k].st = "none"
  /\ ops' = [ops EXCEPT ![k] = [st |-> "asked", name |-> name, task |-> taskId, visit |-> visit]]
  /\ UNCHANGED <<taskId, task, gets, routerVars, row>>

\* The server decides by the row, whatever is shown.
OpServed(k) ==
  /\ ops[k].st \in {"asked", "late"}
  /\ \E t \in ops[k].task :
       /\ CallRow(ops[k].name, t)
       /\ ops' = [ops EXCEPT ![k] = IF @.st = "late" THEN NoOp
                                    ELSE [@ EXCEPT !.st = IF Accepted(ops[k].name, t) THEN "done" ELSE "refused"]]
  /\ UNCHANGED <<taskId, task, gets, routerVars>>

\* The answer: the task is asked for again, and after a deletion the task list
\* is shown, from wherever the user is by then.
OpAnswered(k) ==
  /\ ops[k].st = "done"
  /\ IF ops[k].name = "delete" THEN Push(<<"tasks">>) /\ UNCHANGED gets
     ELSE IF On("detail") /\ ops[k].visit = visit THEN FetchTask /\ Answered
     ELSE UNCHANGED gets /\ Answered
  /\ ops' = [ops EXCEPT ![k] = NoOp]
  /\ UNCHANGED <<taskId, task, row>>

OpFails(k) ==
  /\ \/ ops[k].st = "refused" /\ ops' = [ops EXCEPT ![k] = NoOp] /\ Answered
     \/ ops[k].st = "asked" /\ ops' = [ops EXCEPT ![k].st = "late"] /\ Unanswered("operation")
     \/ ops[k].st = "done" /\ ops' = [ops EXCEPT ![k] = NoOp] /\ Unanswered("operation")
  /\ UNCHANGED <<taskId, task, gets, row>>

LateOpLost(k) ==
  /\ ops[k].st = "late" /\ ops' = [ops EXCEPT ![k] = NoOp]
  /\ UNCHANGED <<taskId, task, gets, routerVars, row>>

-------------------------------------------------------------------------------
GetEnds(i) == GetServed(i) \/ GetAnswered(i)
OpEnds(k)  == OpServed(k) \/ OpAnswered(k) \/ OpFails(k) \/ LateOpLost(k)

DetailNext ==
  \/ PollTask
  \/ \E i \in 1 .. MaxGets : GetEnds(i)
  \/ \E k \in OpCalls : OpEnds(k) \/ \E name \in Operations : ClickOp(k, name)

DetailFairness ==
  /\ WF_detailVars(PollTask)
  /\ WF_detailVars(GetEnds(1))
  /\ \A k \in OpCalls : WF_detailVars(OpEnds(k))

-------------------------------------------------------------------------------
\* While the page stays open and the task stays what it is, the page comes to
\* show it, and so to offer the operations that the server will accept.
DetailSettles ==
  <>[]On("detail") /\ <>[][FALSE]_row
    => <>[](On("detail") => \A t \in taskId : Exists(t) => task = row[t])
===============================================================================
