-------------------------------- MODULE WebApp --------------------------------
(***************************************************************************)
(* The web application in one tab: its frame, its pages, and the rows of   *)
(* the server, which other tabs and the migrations change as well.  Page   *)
(* and row are what the parts share: a page that is left loses its refs    *)
(* and its timers, and not the calls it has made.                          *)
(***************************************************************************)
EXTENDS WizardView, TaskLists, TaskLogs, CDCView, AssessView

CONSTANTS
  Others,     \* bound: what others make of a row
  Restarted   \* bound: tasks that others start

ASSUME OthersAssumption == Others \subseteq Statuses /\ Restarted \subseteq Tasks

vars == <<routerVars, row, wizardVars, listVars, detailVars, logVars, cdcVars, assessVars>>

Init ==
  /\ RouterInit /\ RowInit
  /\ WizardInit /\ ListsInit /\ DetailInit /\ LogsInit /\ PanelInit /\ AssessInit

-------------------------------------------------------------------------------
\* Where the menu and the lists lead.
UserGoes ==
  /\ \E to \in Routes : UserPushes(to, ShownTasks)
  /\ UNCHANGED <<row, wizardVars, listVars, detailVars, logVars, cdcVars, assessVars>>

FeaturesCall ==
  /\ ~cdcEnabled /\ FeaturesAnswered(enabled)
  /\ UNCHANGED <<row, wizardVars, listVars, detailVars, logVars, cdcVars, assessVars>>

\* The page that is left is unmounted, the next one is mounted.
PageArrives ==
  /\ Arrive /\ UNCHANGED row
  /\ WizardRoutes /\ ListsRoute /\ DetailRoutes /\ LogsRoutes /\ PanelRoutes /\ AssessRoutes

TabReloads ==
  /\ Reload /\ UNCHANGED row
  /\ WizardReloads /\ ListsReload /\ DetailReloads /\ LogsReload /\ PanelMounts /\ AssessMounts

\* Another tab, or a migration.
OthersWrite ==
  /\ \E t \in Tasks :
       \/ "created" \in Others /\ t = Fresh /\ CreateRow(t)
       \/ \E s \in Others : (s = "running" => row[t] = "paused") /\ WriteRow(t, s)
  /\ UNCHANGED <<routerVars, wizardVars, listVars, detailVars, logVars, cdcVars, assessVars>>

OthersStart ==
  /\ \E t \in Restarted : StartAccepted(t) /\ StartRow(t) /\ RemoveBuffer({t})
  /\ UNCHANGED <<routerVars, wizardVars, listVars, detailVars, cdcVars, assessVars>>

\* A start that is accepted gives its task a new log buffer.
StartedNow == {t \in Tasks : \E j \in Jobs : t \in jobs[j].task /\ ~jobs[j].started /\ jobs'[j].started}
WizardStep ==
  /\ WizardNext
  /\ IF StartedNow = {} THEN UNCHANGED logVars ELSE RemoveBuffer(StartedNow)
  /\ UNCHANGED <<listVars, detailVars, cdcVars, assessVars>>

ListsStep  == ListsNext  /\ UNCHANGED <<wizardVars, detailVars, logVars, cdcVars, assessVars>>
DetailStep == DetailNext /\ UNCHANGED <<wizardVars, listVars, logVars, cdcVars, assessVars>>
LogsStep   == LogsNext   /\ UNCHANGED <<wizardVars, listVars, cdcVars, assessVars>>
PanelStep  == PanelNext  /\ UNCHANGED <<wizardVars, listVars, detailVars, logVars, assessVars>>
AssessStep == AssessNext /\ UNCHANGED <<wizardVars, listVars, detailVars, logVars, cdcVars>>

Event ==
  \/ UserGoes \/ FeaturesCall \/ TabReloads \/ OthersWrite \/ OthersStart
  \/ WizardStep \/ ListsStep \/ DetailStep \/ LogsStep \/ PanelStep \/ AssessStep

Next == PageArrives \/ (going = <<>> /\ Event)

Spec == Init /\ [][Next]_vars

\* The next page is mounted, the timers run, and the calls of the pages that poll
\* are answered or given up.
FairSpec ==
  Spec /\ WF_vars(PageArrives) /\ ListsFairness /\ DetailFairness /\ PanelFairness

-------------------------------------------------------------------------------
\* Every page that polls comes to show what the server has: the task list, the
\* page of a task, and the panel.
PagesSettle == ListSettles /\ DetailSettles /\ PanelSettles
===============================================================================
