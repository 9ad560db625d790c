-------------------------------- MODULE TaskApi --------------------------------
(***************************************************************************)
(* The tasks of the web server as its pages see them (api/index.ts): the   *)
(* status column of each row, and what each call may do to it.  WebTasks   *)
(* has the server itself, where a call is served in several steps between  *)
(* those of other calls and of the migrations; that every step of it is    *)
(* one of RowNext is a property there.                                     *)
(***************************************************************************)
CONSTANT Tasks

VARIABLE row   \* row[t]: the status, "none" before there is a row, "deleted"

Statuses == {"created", "running", "paused", "completed", "failed", "cancelled"}
Final    == {"completed", "failed", "cancelled"}

Exists(t) == row[t] \in Statuses

RowInit == row = [t \in Tasks |-> "none"]

\* createTask: the row is new, with a fresh identifier; which, makes no difference.
Fresh == CHOOSE t \in Tasks : row[t] = "none" \/ \A u \in Tasks : row[u] # "none"
CreateRow(t) == row[t] = "none" /\ row' = [row EXCEPT ![t] = "created"]

\* A call or a migration writes a status: a row is never created again.
WriteRow(t, s) ==
  /\ Exists(t) /\ s \in Statuses \ {"created"}
  /\ row' = [row EXCEPT ![t] = s]

DeleteRow(t) == Exists(t) /\ row' = [row EXCEPT ![t] = "deleted"]

RowNext ==
  \E t \in Tasks :
    CreateRow(t) \/ DeleteRow(t) \/ \E s \in Statuses : WriteRow(t, s)

RowSpec == RowInit /\ [][RowNext]_row

---------------------------------------------------------------------------
\* The calls of a page on task t: the answer, and the write that goes with it.

\* startTask: refused with 404 or, for a task that is running, 409.
StartAccepted(t) == Exists(t) /\ row[t] # "running"
StartRow(t) ==
  IF StartAccepted(t) THEN WriteRow(t, "running") ELSE UNCHANGED row

\* pauseTask, resumeTask, cancelTask and deleteTask.
Accepted(op, t) ==
  CASE op = "pause"  -> row[t] = "running"
    [] op = "resume" -> row[t] = "paused"
    [] op = "cancel" -> TRUE
    [] op = "delete" -> Exists(t) /\ row[t] # "running"

Written(op) ==
  CASE op = "pause"  -> "paused"
    [] op = "resume" -> "running"
    [] op = "cancel" -> "cancelled"
    [] op = "delete" -> "deleted"

CallRow(op, t) ==
  row' = IF Accepted(op, t) /\ Exists(t) THEN [row EXCEPT ![t] = Written(op)] ELSE row
================================================================================
