------------------------------- MODULE TaskLists -------------------------------
(***************************************************************************)
(* TaskListView.vue and HistoryView.vue: two pages that show what          *)
(* GET /tasks answers.  The first asks every five seconds, the second when *)
(* it is opened and after each deletion.  Answers come in any order.       *)
(***************************************************************************)
EXTENDS Router

CONSTANT MaxLists   \* bound: list calls in flight

ASSUME ListAssumption == MaxLists \in Nat \ {0}

VARIABLES
  listed,     \* tasks: the status shown of each task, "none" for no line
  listCalls,  \* calls in flight, in the order in which they were made
  del,        \* del[t]: the deletion of t that History awaits
  gone,       \* history: tasks this page has deleted and asked the list for again
  outdated    \* history: the list shown is not the one that was asked for last

listVars == <<listed, listCalls, del, gone, outdated>>

NoTasks == [t \in Tasks |-> "none"]

\* A call, "asked" and then "served"; old: a later call is over already.
NewListCall == [st |-> "asked", answer |-> NoTasks, old |-> FALSE]

OnList      == On("tasks") \/ On("history")
ShownTasks  == {t \in Tasks : listed[t] # "none"}
Tabulated   == [t \in Tasks |-> IF Exists(t) THEN row[t] ELSE "none"]

\* HistoryView keeps the tasks that have ended.
Filtered(answer) ==
  [t \in Tasks |-> IF On("history") /\ answer[t] \notin Final THEN "none" ELSE answer[t]]

-------------------------------------------------------------------------------
\* onMounted asks for the list.
ListsMount ==
  /\ listed' = NoTasks
  /\ listCalls' = IF OnList' THEN <<NewListCall>> ELSE <<>>
  /\ gone' = {} /\ outdated' = TRUE

ListsInit ==
  /\ listed = NoTasks
  /\ listCalls = IF OnList THEN <<NewListCall>> ELSE <<>>
  /\ gone = {} /\ outdated = TRUE
  /\ del = [t \in Tasks |-> "none"]

\* The server serves a deletion that nobody waits for, too.
Forgotten == [t \in Tasks |-> IF del[t] \in {"asked", "late"} THEN "late" ELSE "none"]

ListsRoute ==
  IF page' = page THEN UNCHANGED listVars ELSE ListsMount /\ del' = Forgotten
ListsReload == ListsMount /\ del' = Forgotten

-------------------------------------------------------------------------------
\* fetchTasks and fetchHistory.
FetchList ==
  /\ Len(listCalls) < MaxLists
  /\ listCalls' = Append(listCalls, NewListCall)

\* The interval timer.
PollTasks == On("tasks") /\ FetchList /\ UNCHANGED <<listed, del, gone, outdated, routerVars, row>>

ListServed(i) ==
  /\ i \in DOMAIN listCalls /\ listCalls[i].st = "asked"
  /\ listCalls' = [listCalls EXCEPT ![i].st = "served", ![i].answer = Tabulated]
  /\ UNCHANGED <<listed, del, gone, outdated, routerVars, row>>

ListOver(i) ==
  listCalls' = [k \in 1 .. Len(listCalls) - 1 |->
                  IF k < i THEN [listCalls[k] EXCEPT !.old = TRUE] ELSE listCalls[k + 1]]

\* Whatever answer comes is shown.
ListAnswered(i) ==
  /\ i \in DOMAIN listCalls /\ listCalls[i].st = "served"
  /\ listed' = Filtered(listCalls[i].answer)
  /\ outdated' = listCalls[i].old
  /\ ListOver(i)
  /\ Answered
  /\ UNCHANGED <<del, gone, row>>

ListFails(i) ==
  /\ i \in DOMAIN listCalls
  /\ outdated' = TRUE
  /\ ListOver(i)
  /\ Unanswered("list")
  /\ UNCHANGED <<listed, del, gone, row>>

-------------------------------------------------------------------------------
\* HistoryView.deleteTask.
DeleteTask(t) ==
  /\ On("history") /\ t \in ShownTasks /\ del[t] = "none"
  /\ del' = [del EXCEPT ![t] = "asked"]
  /\ UNCHANGED <<listed, listCalls, gone, outdated, routerVars, row>>

DeleteServed(t) ==
  /\ del[t] \in {"asked", "late"}
  /\ CallRow("delete", t)
  /\ del' = [del EXCEPT ![t] = IF @ = "late" THEN "none"
                               ELSE IF Accepted("delete", t) THEN "deleted" ELSE "refused"]
  /\ UNCHANGED <<listed, listCalls, gone, outdated, routerVars>>

\* The list is asked for again.  (Wrong variant: it is not.)
DeleteAnsweredOnly(t) ==
  /\ del[t] = "deleted"
  /\ del' = [del EXCEPT ![t] = "none"]
  /\ gone' = gone \cup {t}
  /\ Answered /\ UNCHANGED <<listed, listCalls, outdated, row>>
DeleteAnswered(t) ==
  /\ del[t] = "deleted"
  /\ del' = [del EXCEPT ![t] = "none"]
  /\ gone' = gone \cup {t}
  /\ FetchList
  /\ Answered /\ UNCHANGED <<listed, outdated, row>>

\* The catch block: an error of the server, or no answer in time.
DeleteFails(t) ==
  /\ \/ del[t] = "refused" /\ Answered
     \/ del[t] \in {"asked", "deleted"} /\ Unanswered("delete")
  /\ del' = [del EXCEPT ![t] = IF @ = "asked" THEN "late" ELSE "none"]
  /\ UNCHANGED <<listed, listCalls, gone, outdated, row>>

LateDeleteLost(t) ==
  /\ del[t] = "late"
  /\ del' = [del EXCEPT ![t] = "none"]
  /\ UNCHANGED <<listed, listCalls, gone, outdated, routerVars, row>>

-------------------------------------------------------------------------------
ListEnds(i)  == ListServed(i) \/ ListAnswered(i) \/ ListFails(i)
DeleteEnds(t) == DeleteServed(t) \/ DeleteAnswered(t) \/ DeleteFails(t) \/ LateDeleteLost(t)

ListsNext ==
  \/ PollTasks
  \/ \E i \in 1 .. MaxLists : ListEnds(i)
  \/ \E t \in Tasks : DeleteTask(t) \/ DeleteEnds(t)

\* The interval timer runs while the page is open; every call ends.
ListsFairness ==
  /\ WF_listVars(PollTasks)
  /\ WF_listVars(ListEnds(1))
  /\ \A t \in Tasks : WF_listVars(DeleteEnds(t))

-------------------------------------------------------------------------------
\* A task that the history page has deleted does not stand in its list any more:
\* the page asks for the list after the deletion, and the answer to that call is
\* the one that is shown unless the answers come in the wrong order or not at all
\* (outdated: nobody asks again then).
DeletedStaysAway ==
  On("history") /\ listCalls = <<>> /\ ~outdated => gone \cap ShownTasks = {}

\* While the task list is open it comes to show what the tasks have become, in
\* whatever order its answers arrive and though some do not.
ListSettles ==
  <>[]On("tasks") /\ <>[][FALSE]_row => <>[](On("tasks") => listed = Tabulated)
================================================================================
