----------------------------- MODULE WebAppProofs -----------------------------
(***************************************************************************)
(* Proofs about the pages, for any number of tasks, tables, calls and      *)
(* visits.  Each rests on an inductive invariant of its own: TypeInv,      *)
(* TablesInv (what is selected is of the source in the form unless it has  *)
(* drifted, and what is awaited is under way), JobsInv (of two submissions *)
(* of one visit the first is settled before the second is made), AssessInv,*)
(* StreamsInv, DeletedInv (a list without the task is on show or on its    *)
(* way, unless the list is known to be outdated) and LogsInv (what the     *)
(* page's socket has not sent waits in its channel).                       *)
(***************************************************************************)
EXTENDS WebApp, SequenceTheorems, TLAPS

USE DEF formVars, testVars, tableVars, storeVars, wizardVars

-------------------------------------------------------------------------------
\* The frame.
RouterTypeOK == page \in Routes /\ going \in Routes \cup {<<>>} /\ visit \in Nat

\* The wizard has one address, and every other page another one.
LEMMA WizardPage ==
  ASSUME NEW to \in Routes PROVE to[1] = "wizard" <=> to = <<"wizard">>
  BY DEF Routes

LEMMA FreshIsTask == Fresh \in Tasks
<1>1. \E t \in Tasks : row[t] = "none" \/ \A u \in Tasks : row[u] # "none"
  BY RouterAssumption
<1> QED
  BY <1>1 DEF Fresh

\* A step that is not one of the wizard's leaves its state as it is, and may push.
Elsewhere == UNCHANGED <<wizardVars, page, visit>> /\ going = <<>> /\ going' \in Routes \cup {<<>>}

LEMMA OtherSteps ==
  ASSUME RouterTypeOK, going = <<>>,
         UserGoes \/ FeaturesCall \/ OthersWrite \/ OthersStart
           \/ ListsStep \/ DetailStep \/ LogsStep \/ PanelStep \/ AssessStep
  PROVE  Elsewhere
<1> USE DEF Elsewhere, RouterTypeOK, routerVars, Answered, Unanswered, Push
<1>1. CASE UserGoes
  BY <1>1 DEF UserGoes, UserPushes
<1>2. CASE FeaturesCall
  BY <1>2 DEF FeaturesCall, FeaturesAnswered
<1>3. CASE OthersWrite
  BY <1>3 DEF OthersWrite
<1>4. CASE OthersStart
  BY <1>4 DEF OthersStart
<1>5. CASE ListsStep
  BY <1>5 DEF ListsStep, ListsNext, PollTasks, ListEnds, ListServed, ListAnswered, ListFails,
              DeleteTask, DeleteEnds, DeleteServed, DeleteAnswered, DeleteFails, LateDeleteLost
<1>6. CASE DetailStep
  <2> USE DEF DetailNext
  <2>1. CASE PollTask \/ \E i \in 1 .. MaxGets : GetEnds(i)
    BY <1>6, <2>1 DEF DetailStep, PollTask, GetEnds, GetServed, GetAnswered
  <2>2. ASSUME NEW k \in OpCalls, OpServed(k) \/ OpFails(k) \/ LateOpLost(k)
        PROVE  Elsewhere
    BY <1>6, <2>2 DEF DetailStep, OpServed, OpFails, LateOpLost
  <2>3. ASSUME NEW k \in OpCalls, OpAnswered(k) PROVE Elsewhere
    BY <1>6, <2>3 DEF DetailStep, OpAnswered, Routes, Views
  <2>4. ASSUME NEW k \in OpCalls, NEW name \in Operations, ClickOp(k, name) PROVE Elsewhere
    BY <1>6, <2>4 DEF DetailStep, ClickOp
  <2> QED
    BY <1>6, <2>1, <2>2, <2>3, <2>4 DEF DetailStep, OpEnds
<1>7. CASE LogsStep
  BY <1>7 DEF LogsStep, LogsNext, AppendLog, StreamStep, StreamOpens, StreamSubscribes, StreamReplays,
              Replay, StreamSends, StreamEnds, StreamBreaks, OpenLogs, LogsServed, LogsAnswered
<1>8. CASE PanelStep
  BY <1>8 DEF PanelStep, PanelNext, SupervisorMoves, Tick, ClickRefresh, RefreshEnds, StatusServed,
              StatusAnswered, FiguresAnswered, CommandStep, StopSignalled, CommandServed,
              CommandAnswered, CommandFails, CallCDC, LateStep, LateServed, LateLost
<1>9. CASE AssessStep
  BY <1>9 DEF AssessStep, AssessNext, EditForm, SaveSourceConfig, ClearSourceConfig, RunAssess,
              DownloadHTML, AssessAnswered
<1> QED
  BY <1>1, <1>2, <1>3, <1>4, <1>5, <1>6, <1>7, <1>8, <1>9

-------------------------------------------------------------------------------
\* Types.
TypeInv == RouterTypeOK /\ WizardTypeOK

\* A job that starts anew, and one that nobody awaits, are jobs.
LEMMA JobTypes ==
  ASSUME NEW job \in JobRecord PROVE NoJob \in JobRecord /\ Orphaned(job) \in JobRecord
<1>1. NoJob \in JobRecord
  BY DEF NoJob, JobRecord, JobSteps
<1>2. Orphaned(job).st \in JobSteps
  BY DEF Orphaned, NoJob, JobRecord, JobSteps
<1> QED
  BY <1>1, <1>2 DEF Orphaned, NoJob, JobRecord

LEMMA MountTypes == WizardMounts /\ WizardTypeOK => 
  /\ activeStep' \in 0 .. 4 /\ source' \in Sources
  /\ tested' \in [Sides -> BOOLEAN] /\ testing' \in [Sides -> BOOLEAN] /\ tests' \in [Sides -> 0 .. MaxTests]
  /\ availableTables' \subseteq AllTables /\ selectedTables' \subseteq AllTables
  /\ tableSearch' \subseteq AllTables /\ loadingTables' \in BOOLEAN
  /\ loads' \in [Sources -> 0 .. MaxLoads] /\ drift' \in BOOLEAN /\ submitting' \in BOOLEAN
<1> SUFFICES ASSUME WizardMounts, WizardTypeOK
             PROVE  /\ activeStep' \in 0 .. 4 /\ source' \in Sources
                    /\ tested' \in [Sides -> BOOLEAN] /\ testing' \in [Sides -> BOOLEAN]
                    /\ tests' \in [Sides -> 0 .. MaxTests]
                    /\ availableTables' \subseteq AllTables /\ selectedTables' \subseteq AllTables
                    /\ tableSearch' \subseteq AllTables /\ loadingTables' \in BOOLEAN
                    /\ loads' \in [Sources -> 0 .. MaxLoads] /\ drift' \in BOOLEAN
                    /\ submitting' \in BOOLEAN
  OBVIOUS
<1>1. 0 \in 0 .. MaxTests /\ 0 \in 0 .. MaxLoads
  BY WizardAssumption
<1>2. source' \in Sources
  BY WizardAssumption DEF WizardMounts, WizardTypeOK
<1>3. tested' \in [Sides -> BOOLEAN] /\ testing' \in [Sides -> BOOLEAN]
  BY DEF WizardMounts
<1>4. tests' \in [Sides -> 0 .. MaxTests] /\ loads' \in [Sources -> 0 .. MaxLoads]
  BY <1>1 DEF WizardMounts
<1>5. /\ availableTables' \subseteq AllTables /\ selectedTables' \subseteq AllTables
      /\ tableSearch' \subseteq AllTables
  BY DEF WizardMounts
<1>6. activeStep' \in 0 .. 4
  BY DEF WizardMounts
<1>7. loadingTables' \in BOOLEAN /\ drift' \in BOOLEAN /\ submitting' \in BOOLEAN
  BY Zenon DEF WizardMounts
<1> QED
  BY <1>2, <1>3, <1>4, <1>5, <1>6, <1>7

LEMMA EditTypes == TypeInv /\ UserEdits => WizardTypeOK'
<1> SUFFICES ASSUME TypeInv, UserEdits PROVE WizardTypeOK'
  OBVIOUS
<1> USE WizardAssumption DEF WizardTypeOK, TypeInv
<1>1. ASSUME NEW s \in Sources, EditSource(s) PROVE WizardTypeOK'
  BY <1>1 DEF EditSource, SetSource
<1>2. CASE SaveConnection \/ LoadConnection \/ DeleteConnection
  BY <1>2 DEF SaveConnection, LoadConnection, DeleteConnection, SetSource
<1>3. ASSUME NEW d \in Sides, TestConnection(d) PROVE WizardTypeOK'
  <2>1. tests' \in [Sides -> 0 .. MaxTests]
    BY <1>3 DEF TestConnection
  <2>2. tested' \in [Sides -> BOOLEAN] /\ testing' \in [Sides -> BOOLEAN]
    BY <1>3 DEF TestConnection
  <2> QED
    BY <1>3, <2>1, <2>2 DEF TestConnection
<1>4. CASE NextStep
  <2>1. activeStep' \in 0 .. 4
    BY <1>4 DEF NextStep
  <2>2. CASE activeStep = 1
    <3>1. loads' \in [Sources -> 0 .. MaxLoads]
      BY <1>4, <2>2 DEF NextStep, LoadTables
    <3> QED
      BY <1>4, <2>1, <2>2, <3>1 DEF NextStep, LoadTables
  <2>3. CASE activeStep # 1
    BY <1>4, <2>1, <2>3 DEF NextStep
  <2> QED
    BY <2>2, <2>3
<1>5. CASE PrevStep
  BY <1>5 DEF PrevStep
<1>6. ASSUME NEW match \in Searches, Search(match) PROVE WizardTypeOK'
  BY <1>6 DEF Search
<1>7. ASSUME NEW name \in AllTables, ToggleTable(name) PROVE WizardTypeOK'
  BY <1>7 DEF ToggleTable
<1>8. CASE ToggleSelectAll
  BY <1>8 DEF ToggleSelectAll, filteredTables
<1>9. ASSUME NEW j \in Jobs, Submit(j) PROVE WizardTypeOK'
  <2>1. [NoJob EXCEPT !.st = "creating", !.visit = visit, !.source = source,
                      !.tables = selectedTables, !.loose = drift] \in JobRecord
    BY <1>9 DEF NoJob, JobRecord, JobSteps, RouterTypeOK
  <2> QED
    BY <1>9, <2>1 DEF Submit
<1> QED
  BY <1>1, <1>2, <1>3, <1>4, <1>5, <1>6, <1>7, <1>8, <1>9 DEF UserEdits

LEMMA CallTypes == TypeInv /\ WizardCallEnds => WizardTypeOK'
<1> SUFFICES ASSUME TypeInv, WizardCallEnds PROVE WizardTypeOK'
  OBVIOUS
<1> USE WizardAssumption DEF WizardTypeOK, TypeInv
<1>1. ASSUME NEW d \in Sides, TestAnswered(d) PROVE WizardTypeOK'
  <2>1. tests' \in [Sides -> 0 .. MaxTests]
    BY <1>1 DEF TestAnswered, TestEnds
  <2>2. tested' \in [Sides -> BOOLEAN] /\ testing' \in [Sides -> BOOLEAN]
    BY <1>1 DEF TestAnswered, TestEnds
  <2> QED
    BY <1>1, <2>1, <2>2 DEF TestAnswered
<1>2. ASSUME NEW s \in Sources, TablesLoaded(s) PROVE WizardTypeOK'
  <2>1. loads' \in [Sources -> 0 .. MaxLoads]
    BY <1>2 DEF TablesLoaded
  <2>2. TablesOf[s] \subseteq AllTables
    BY DEF AllTables
  <2> QED
    BY <1>2, <2>1, <2>2 DEF TablesLoaded
<1> QED
  BY <1>1, <1>2 DEF WizardCallEnds

LEMMA JobStepTypes ==
  ASSUME TypeInv, NEW j \in Jobs, JobStep(j) PROVE jobs' \in [Jobs -> JobRecord] /\ submitting' \in BOOLEAN
<1>t. jobs \in [Jobs -> JobRecord] /\ submitting \in BOOLEAN /\ jobs[j] \in JobRecord
  BY DEF TypeInv, WizardTypeOK
<1>1. CASE CreateServed(j, Fresh)
  <2>1. [NoJob EXCEPT !.st = IF jobs[j].st = "creating" THEN "created" ELSE "over",
                      !.visit = jobs[j].visit, !.task = {Fresh}] \in JobRecord
    BY <1>t, FreshIsTask DEF NoJob, JobRecord, JobSteps
  <2> QED
    BY <1>t, <1>1, <2>1 DEF CreateServed
<1>2. CASE StartServed(j)
  <2>1. PICK t \in jobs[j].task : jobs' = [jobs EXCEPT
            ![j].st = IF @ = "late start" THEN "over"
                      ELSE IF StartAccepted(t) THEN "started" ELSE "refused",
            ![j].started = StartAccepted(t)]
    BY <1>2 DEF StartServed
  <2>2. StartAccepted(t) \in BOOLEAN
    BY DEF StartAccepted, Exists
  <2> QED
    BY <1>t, <1>2, <2>1, <2>2 DEF StartServed, JobRecord, JobSteps
<1>3. CASE CreateAnswered(j)
  BY <1>t, <1>3 DEF CreateAnswered, JobRecord, JobSteps
<1>4. CASE StartAnswered(j)
  BY <1>t, <1>4 DEF StartAnswered, EndSubmit, JobRecord, JobSteps
<1>5. CASE SubmitFails(j)
  BY <1>t, <1>5, JobTypes DEF SubmitFails, EndSubmit
<1>6. CASE LateCallLost(j)
  BY <1>t, <1>6 DEF LateCallLost, JobRecord, JobSteps
<1> QED
  BY <1>1, <1>2, <1>3, <1>4, <1>5, <1>6 DEF JobStep

\* Only the answer to a start leads to another page.
LEMMA WizardPushes ==
  ASSUME TypeInv, going = <<>>, WizardNext
  PROVE  UNCHANGED <<page, visit>> /\ going' \in Routes \cup {<<>>}
<1> USE DEF routerVars, Answered, Unanswered, Push
<1>1. CASE UserEdits
  BY <1>1 DEF UserEdits, EditSource, SaveConnection, LoadConnection, DeleteConnection, TestConnection,
              NextStep, PrevStep, Search, ToggleTable, ToggleSelectAll, Submit
<1>2. CASE WizardCallEnds
  BY <1>2 DEF WizardCallEnds, TestAnswered, TablesLoaded
<1>3. ASSUME NEW j \in Jobs, JobStep(j), ~StartAnswered(j)
      PROVE  UNCHANGED <<page, visit>> /\ going' \in Routes \cup {<<>>}
  BY <1>3 DEF JobStep, CreateServed, StartServed, CreateAnswered, SubmitFails, LateCallLost
<1>4. ASSUME NEW j \in Jobs, StartAnswered(j)
      PROVE  UNCHANGED <<page, visit>> /\ going' \in Routes \cup {<<>>}
  <2>1. jobs[j].task \subseteq Tasks
    BY DEF TypeInv, WizardTypeOK, JobRecord
  <2> QED
    BY <1>4, <2>1 DEF StartAnswered, Routes
<1> QED
  BY <1>1, <1>2, <1>3, <1>4 DEF WizardNext

LEMMA TypeInit == Init => TypeInv
<1> SUFFICES ASSUME Init PROVE TypeInv
  OBVIOUS
<1>1. RouterTypeOK
  BY DEF Init, RouterInit, RouterTypeOK
<1>2. 0 \in 0 .. MaxTests /\ 0 \in 0 .. MaxLoads
  BY WizardAssumption
<1>3. NoJob \in JobRecord
  BY DEF NoJob, JobRecord, JobSteps
<1>4. WizardInit
  BY DEF Init
<1>5. tested \in [Sides -> BOOLEAN] /\ testing \in [Sides -> BOOLEAN]
  BY <1>4 DEF WizardInit
<1>6. tests \in [Sides -> 0 .. MaxTests] /\ loads \in [Sources -> 0 .. MaxLoads]
  BY <1>2, <1>4 DEF WizardInit
<1>7. jobs \in [Jobs -> JobRecord]
  BY <1>3, <1>4 DEF WizardInit
<1>8. /\ availableTables \subseteq AllTables /\ selectedTables \subseteq AllTables
      /\ tableSearch \subseteq AllTables
  BY <1>4 DEF WizardInit
<1>a. /\ activeStep \in 0 .. 4 /\ source \in Sources
      /\ lastConnection \in Sources \cup {NoSource} /\ savedConnection \in Sources \cup {NoSource}
  BY <1>4, WizardAssumption DEF WizardInit
<1>b. loadingTables \in BOOLEAN /\ drift \in BOOLEAN /\ submitting \in BOOLEAN
  BY <1>4, Zenon DEF WizardInit
<1>9. WizardTypeOK
  BY <1>5, <1>6, <1>7, <1>8, <1>a, <1>b DEF WizardTypeOK
<1> QED
  BY <1>1, <1>9 DEF TypeInv

LEMMA TypeStep == TypeInv /\ [Next]_vars => TypeInv'
<1> SUFFICES ASSUME TypeInv, [Next]_vars PROVE TypeInv'
  OBVIOUS
<1>1. CASE PageArrives
  <2>1. RouterTypeOK'
    BY <1>1 DEF PageArrives, Arrive, TypeInv, RouterTypeOK
  <2>2. CASE On("wizard") # On("wizard")'
    <3>1. WizardMounts /\ UNCHANGED <<jobs, storeVars>>
      BY <1>1, <2>2 DEF PageArrives, WizardRoutes
    <3> QED
      BY <2>1, <3>1, MountTypes DEF TypeInv, WizardTypeOK
  <2>3. CASE On("wizard") = On("wizard")'
    <3>1. UNCHANGED wizardVars
      BY <1>1, <2>3 DEF PageArrives, WizardRoutes
    <3> QED
      BY <2>1, <3>1 DEF TypeInv, WizardTypeOK
  <2> QED
    BY <2>2, <2>3
<1>2. CASE TabReloads
  <2>1. RouterTypeOK'
    BY <1>2 DEF TabReloads, Reload, TypeInv, RouterTypeOK
  <2>2. jobs' \in [Jobs -> JobRecord]
    BY <1>2, JobTypes DEF TabReloads, WizardReloads, TypeInv, WizardTypeOK
  <2> QED
    BY <1>2, <2>1, <2>2, MountTypes DEF TabReloads, WizardReloads, TypeInv, WizardTypeOK
<1>3. CASE going = <<>> /\ WizardStep
  <2>1. RouterTypeOK'
    BY <1>3, WizardPushes DEF WizardStep, TypeInv, RouterTypeOK
  <2>2. CASE UserEdits \/ WizardCallEnds
    BY <2>1, <2>2, EditTypes, CallTypes DEF TypeInv
  <2>3. ASSUME NEW j \in Jobs, JobStep(j) PROVE WizardTypeOK'
    <3>1. UNCHANGED <<formVars, testVars, tableVars, storeVars>>
      BY <2>3 DEF JobStep, CreateServed, StartServed, CreateAnswered, StartAnswered, SubmitFails, LateCallLost
    <3> QED
      BY <2>3, <3>1, JobStepTypes DEF TypeInv, WizardTypeOK
  <2> QED
    BY <1>3, <2>1, <2>2, <2>3 DEF WizardStep, WizardNext, TypeInv
<1>4. CASE Elsewhere \/ UNCHANGED vars
  BY <1>4 DEF Elsewhere, TypeInv, RouterTypeOK, WizardTypeOK, vars, routerVars
<1> QED
  BY <1>1, <1>2, <1>3, <1>4, OtherSteps DEF Next, Event, TypeInv

LEMMA TypeAlways == Spec => []TypeInv
  BY TypeInit, TypeStep, PTL DEF Spec

\* The refs of the wizard and its calls keep their types.
THEOREM WizardTypes == Spec => []WizardTypeOK
<1>1. TypeInv => WizardTypeOK
  BY DEF TypeInv
<1> QED
  BY <1>1, TypeAlways, PTL

-------------------------------------------------------------------------------
\* The tables.  Unless the form has drifted away from them, the list and the
\* selection in it are those of the source in the form, and no other source's
\* list is awaited.
TablesInv ==
  ~drift =>
    /\ availableTables \subseteq TablesOf[source]
    /\ selectedTables \subseteq availableTables
    /\ \A s \in Sources : loads[s] > 0 => s = source

LEMMA SourceSet ==
  ASSUME TypeInv, TablesInv, NEW s \in Sources, SetSource(s) PROVE TablesInv'
<1>1. UNCHANGED <<availableTables, selectedTables, loads>> /\ source' = s
  BY DEF SetSource
<1>2. CASE s = source
  BY <1>1, <1>2 DEF SetSource, TablesInv
<1>3. CASE s # source
  <2> SUFFICES ASSUME ~drift' PROVE TablesInv'
    BY DEF TablesInv
  <2>1. ~drift /\ availableTables = {} /\ \A r \in Sources : ~ (loads[r] > 0)
    BY <1>3 DEF SetSource
  <2> QED
    BY <1>1, <2>1 DEF TablesInv
<1> QED
  BY <1>2, <1>3

LEMMA ListAsked ==
  ASSUME TypeInv, LoadTables, UNCHANGED source PROVE TablesInv'
<1>1. loads \in [Sources -> 0 .. MaxLoads] /\ source \in Sources
  BY DEF TypeInv, WizardTypeOK
<1>2. /\ availableTables' = {} /\ selectedTables' = {}
      /\ loads' = [loads EXCEPT ![source] = @ + 1]
      /\ drift' = (\E s \in Sources \ {source} : loads[s] > 0)
  BY DEF LoadTables
<1> SUFFICES ASSUME ~drift', NEW s \in Sources, loads'[s] > 0 PROVE s = source
  BY <1>2 DEF TablesInv
<1> QED
  BY <1>1, <1>2

LEMMA ListComes ==
  ASSUME TypeInv, TablesInv, NEW s \in Sources, TablesLoaded(s) PROVE TablesInv'
<1>1. loads \in [Sources -> 0 .. MaxLoads]
  BY DEF TypeInv, WizardTypeOK
<1>2. /\ loads[s] > 0 /\ loads' = [loads EXCEPT ![s] = @ - 1]
      /\ availableTables' = TablesOf[s] \/ UNCHANGED availableTables
      /\ UNCHANGED <<source, selectedTables, drift>>
  BY DEF TablesLoaded
<1> SUFFICES ASSUME ~drift PROVE TablesInv'
  BY <1>2 DEF TablesInv
<1>3. s = source
  BY <1>2 DEF TablesInv
<1>4. \A r \in Sources : loads'[r] > 0 => loads[r] > 0
  BY <1>1, <1>2
<1> QED
  BY <1>2, <1>3, <1>4 DEF TablesInv

LEMMA MountTables == WizardMounts => TablesInv'
<1> SUFFICES ASSUME WizardMounts PROVE TablesInv'
  OBVIOUS
<1>1. availableTables' = {} /\ selectedTables' = {} /\ \A s \in Sources : loads'[s] = 0
  BY DEF WizardMounts
<1> QED
  BY <1>1 DEF TablesInv

LEMMA TablesStep == TypeInv /\ TablesInv /\ [Next]_vars => TablesInv'
<1> SUFFICES ASSUME TypeInv, TablesInv, [Next]_vars PROVE TablesInv'
  OBVIOUS
<1>0. UNCHANGED <<source, availableTables, selectedTables, loads, drift>> => TablesInv'
  BY DEF TablesInv
<1>1. CASE PageArrives \/ TabReloads
  BY <1>0, <1>1, MountTables DEF PageArrives, WizardRoutes, TabReloads, WizardReloads
<1>2. CASE UserEdits
  <2>1. ASSUME NEW s \in Sources, EditSource(s) PROVE TablesInv'
    BY <2>1, SourceSet DEF EditSource
  <2>2. CASE LoadConnection
    <3>1. savedConnection \in Sources
      BY <2>2 DEF LoadConnection, TypeInv, WizardTypeOK
    <3> QED
      BY <2>2, <3>1, SourceSet DEF LoadConnection
  <2>3. CASE NextStep
    BY <1>0, <2>3, ListAsked DEF NextStep
  <2>4. ASSUME NEW name \in AllTables, ToggleTable(name) PROVE TablesInv'
    BY <2>4 DEF ToggleTable, filteredTables, TablesInv
  <2>5. CASE ToggleSelectAll
    BY <2>5 DEF ToggleSelectAll, filteredTables, TablesInv
  <2>6. CASE SaveConnection \/ DeleteConnection \/ PrevStep
    BY <1>0, <2>6 DEF SaveConnection, DeleteConnection, PrevStep
  <2>7. ASSUME NEW d \in Sides, TestConnection(d) PROVE TablesInv'
    BY <1>0, <2>7 DEF TestConnection
  <2>8. ASSUME NEW match \in Searches, Search(match) PROVE TablesInv'
    BY <1>0, <2>8 DEF Search
  <2>9. ASSUME NEW j \in Jobs, Submit(j) PROVE TablesInv'
    BY <1>0, <2>9 DEF Submit
  <2> QED
    BY <1>2, <2>1, <2>2, <2>3, <2>4, <2>5, <2>6, <2>7, <2>8, <2>9 DEF UserEdits
<1>3. CASE WizardCallEnds
  BY <1>0, <1>3, ListComes DEF WizardCallEnds, TestAnswered
<1>4. ASSUME NEW j \in Jobs, JobStep(j) PROVE TablesInv'
  BY <1>0, <1>4 DEF JobStep, CreateServed, StartServed, CreateAnswered, StartAnswered, SubmitFails, LateCallLost
<1>5. CASE Elsewhere \/ UNCHANGED vars
  BY <1>0, <1>5 DEF Elsewhere, vars
<1> QED
  BY <1>1, <1>2, <1>3, <1>4, <1>5, OtherSteps DEF Next, Event, WizardStep, WizardNext, TypeInv

\* A submission takes what is selected.
LEMMA MatchStep == TypeInv /\ TablesInv /\ TablesMatch /\ [Next]_vars => TablesMatch'
<1> SUFFICES ASSUME TypeInv, TablesInv, TablesMatch, [Next]_vars,
                    NEW i \in Jobs, jobs'[i].st = "creating", ~jobs'[i].loose
             PROVE  jobs'[i].tables \subseteq TablesOf[jobs'[i].source]
  BY DEF TablesMatch
<1>t. jobs \in [Jobs -> JobRecord]
  BY DEF TypeInv, WizardTypeOK
<1>0. jobs'[i] = jobs[i] => jobs'[i].tables \subseteq TablesOf[jobs'[i].source]
  BY DEF TablesMatch
<1>1. CASE PageArrives
  BY <1>0, <1>1 DEF PageArrives, WizardRoutes
<1>2. CASE TabReloads
  <2>1. jobs'[i] = Orphaned(jobs[i])
    BY <1>2 DEF TabReloads, WizardReloads
  <2> QED
    BY <2>1 DEF Orphaned, NoJob
<1>3. ASSUME NEW j \in Jobs, Submit(j) PROVE jobs'[i].tables \subseteq TablesOf[jobs'[i].source]
  <2>1. jobs' = [jobs EXCEPT ![j] = [NoJob EXCEPT !.st = "creating", !.visit = visit,
                   !.source = source, !.tables = selectedTables, !.loose = drift]]
    BY <1>3 DEF Submit
  <2>2. CASE i = j
    <3>1. /\ jobs'[i].loose = drift /\ jobs'[i].tables = selectedTables
          /\ jobs'[i].source = source
      BY <1>t, <2>1, <2>2 DEF NoJob
    <3> QED
      BY <3>1 DEF TablesInv
  <2>3. CASE i # j
    BY <1>t, <1>0, <2>1, <2>3
  <2> QED
    BY <2>2, <2>3
<1>4. CASE UserEdits /\ ~ \E j \in Jobs : Submit(j)
  <2>1. UNCHANGED jobs
    BY <1>4 DEF UserEdits, EditSource, SetSource, SaveConnection, LoadConnection, DeleteConnection,
                TestConnection, NextStep, PrevStep, Search, ToggleTable, ToggleSelectAll
  <2> QED
    BY <1>0, <2>1
<1>5. CASE WizardCallEnds
  BY <1>0, <1>5 DEF WizardCallEnds, TestAnswered, TablesLoaded
<1>6. ASSUME NEW j \in Jobs, JobStep(j), i = j PROVE FALSE
  <2>1. jobs[j] \in JobRecord
    BY <1>t
  <2>2. CASE CreateServed(j, Fresh)
    BY <1>t, <2>1, <2>2, <1>6 DEF CreateServed, NoJob
  <2>3. CASE StartServed(j)
    <3>1. PICK t \in jobs[j].task : jobs' = [jobs EXCEPT
              ![j].st = IF @ = "late start" THEN "over"
                        ELSE IF StartAccepted(t) THEN "started" ELSE "refused",
              ![j].started = StartAccepted(t)]
      BY <2>3 DEF StartServed
    <3>2. jobs'[j].st \in {"over", "started", "refused"}
      BY <1>t, <2>1, <3>1 DEF JobRecord
    <3> QED
      BY <1>6, <3>2
  <2>4. CASE CreateAnswered(j) \/ StartAnswered(j) \/ LateCallLost(j)
    BY <1>t, <2>1, <2>4, <1>6 DEF CreateAnswered, StartAnswered, LateCallLost, JobRecord
  <2>5. CASE SubmitFails(j)
    <3>1. jobs'[j].st # "creating"
      BY <1>t, <2>1, <2>5 DEF SubmitFails, Orphaned, NoJob, JobRecord
    <3> QED
      BY <1>6, <3>1
  <2> QED
    BY <1>6, <2>2, <2>3, <2>4, <2>5 DEF JobStep
<1>7. ASSUME NEW j \in Jobs, JobStep(j), i # j PROVE jobs'[i] = jobs[i]
  BY <1>t, <1>7 DEF JobStep, CreateServed, StartServed, CreateAnswered, StartAnswered, SubmitFails, LateCallLost
<1>8. CASE Elsewhere \/ UNCHANGED vars
  BY <1>0, <1>8 DEF Elsewhere, vars
<1> QED
  BY <1>0, <1>1, <1>2, <1>3, <1>4, <1>5, <1>6, <1>7, <1>8, OtherSteps
     DEF Next, Event, WizardStep, WizardNext, TypeInv

\* A migration is asked for tables of its own source, unless the connection was
\* exchanged between the list and the submission.
THEOREM TablesOfSource == Spec => []TablesMatch
<1>1. Init => TablesInv /\ TablesMatch
  <2> SUFFICES ASSUME Init PROVE TablesInv /\ TablesMatch
    OBVIOUS
  <2>1. availableTables = {} /\ selectedTables = {} /\ \A s \in Sources : loads[s] = 0
    BY DEF Init, WizardInit
  <2>2. \A j \in Jobs : jobs[j].st = "none"
    BY DEF Init, WizardInit, NoJob
  <2> QED
    BY <2>1, <2>2 DEF TablesInv, TablesMatch
<1> QED
  BY <1>1, TablesStep, MatchStep, TypeAlways, PTL DEF Spec

-------------------------------------------------------------------------------
\* The submissions.  One of the page that is open keeps the button loading until
\* it is settled; one whose task was started and is shown leads away from the page.
JobInv(j) ==
  /\ jobs[j].started => jobs[j].st \in {"started", "over"}
  /\ jobs[j].st = "late start" => jobs[j].lost
  /\ jobs[j].st # "none" => jobs[j].visit <= visit
  /\ jobs[j].st # "none" /\ jobs[j].visit = visit =>
       /\ On("wizard")
       /\ jobs[j].st \in Awaited => submitting
       /\ jobs[j].started /\ ~jobs[j].lost =>
            jobs[j].st = "started" \/ (going # <<>> /\ going # page)

\* Of two submissions of one visit, the first is settled.
Settled(job) == job.st \notin Awaited /\ (job.started => job.lost)
PairInv(i, j) ==
  i < j /\ jobs[j].st # "none" =>
    jobs[i].st # "none" /\ (jobs[i].visit = jobs[j].visit => Settled(jobs[i]))

JobsInv == \A j \in Jobs : JobInv(j) /\ \A i \in Jobs : PairInv(i, j)

\* What a step makes of a submission.
Moved(old, new) ==
  /\ old.st # "none" /\ new.st # "none" /\ new.visit = old.visit
  /\ new.st \in Awaited => old.st \in Awaited
  /\ new.started => new.st \in {"started", "over"}
  /\ new.st = "late start" => new.lost
  /\ Settled(old) => Settled(new)

\* The button is released at the end of a submission of its own visit only.
Released(j, new) ==
  /\ new.st \in Awaited => submitting' = submitting
  /\ jobs[j].visit # visit => submitting' = submitting
  /\ new.st \notin Awaited /\ jobs[j].st \in Awaited /\ On("wizard") /\ jobs[j].visit = visit
       => submitting' = FALSE
  /\ jobs[j].st \notin Awaited => submitting' = submitting

\* It is shown.
Shown(new) ==
  new.started /\ ~new.lost /\ new.visit = visit /\ On("wizard") =>
    new.st = "started" \/ (going' # <<>> /\ going' # page)

LEMMA JobMoves ==
  ASSUME TypeInv, NEW j \in Jobs, JobInv(j), JobStep(j), going = <<>>
  PROVE  /\ \A i \in Jobs \ {j} : jobs'[i] = jobs[i]
         /\ Moved(jobs[j], jobs'[j]) /\ Released(j, jobs'[j])
         /\ jobs[j].st \notin Awaited => Settled(jobs'[j]) \/ jobs[j].st = "over"
         /\ jobs[j].st # "over"
         /\ Shown(jobs'[j])
<1>t. jobs \in [Jobs -> JobRecord] /\ jobs[j] \in JobRecord
  BY DEF TypeInv, WizardTypeOK
<1> USE DEF Moved, Released, Shown, Settled, Awaited
<1>1. CASE CreateServed(j, Fresh)
  <2>1. /\ jobs'[j].st \in {"created", "over"} /\ (jobs[j].st = "creating" <=> jobs'[j].st = "created")
        /\ jobs'[j].visit = jobs[j].visit /\ ~jobs'[j].started
        /\ \A i \in Jobs \ {j} : jobs'[i] = jobs[i]
        /\ jobs[j].st \in {"creating", "late create"} /\ UNCHANGED submitting
    BY <1>t, <1>1 DEF CreateServed, NoJob
  <2> QED
    BY <2>1
<1>2. CASE StartServed(j)
  <2>1. PICK t \in jobs[j].task : jobs' = [jobs EXCEPT
            ![j].st = IF @ = "late start" THEN "over"
                      ELSE IF StartAccepted(t) THEN "started" ELSE "refused",
            ![j].started = StartAccepted(t)]
    BY <1>2 DEF StartServed
  <2>2. StartAccepted(t) \in BOOLEAN
    BY DEF StartAccepted, Exists
  <2>3. /\ \A i \in Jobs \ {j} : jobs'[i] = jobs[i]
        /\ jobs'[j].visit = jobs[j].visit /\ jobs'[j].lost = jobs[j].lost
        /\ jobs'[j].started = StartAccepted(t)
        /\ jobs'[j].st = IF jobs[j].st = "late start" THEN "over"
                         ELSE IF StartAccepted(t) THEN "started" ELSE "refused"
    BY <1>t, <2>1, <2>2 DEF JobRecord
  <2>4. jobs[j].st \in {"starting", "late start"} /\ UNCHANGED submitting
    BY <1>2 DEF StartServed
  <2>5. jobs[j].st = "late start" => jobs[j].lost
    BY DEF JobInv
  <2> QED
    BY <2>2, <2>3, <2>4, <2>5
<1>3. CASE CreateAnswered(j) \/ LateCallLost(j)
  <2>3. \E st \in JobSteps :
          /\ jobs' = [jobs EXCEPT ![j].st = st] /\ UNCHANGED submitting
          /\ \/ jobs[j].st = "created" /\ st = "starting"
             \/ jobs[j].st \in {"late create", "late start"} /\ st = "over"
    BY <1>3 DEF CreateAnswered, LateCallLost, JobSteps
  <2>1. /\ \A i \in Jobs \ {j} : jobs'[i] = jobs[i]
        /\ jobs'[j].visit = jobs[j].visit /\ jobs'[j].started = jobs[j].started
        /\ \/ jobs[j].st = "created" /\ jobs'[j].st = "starting"
           \/ jobs[j].st \in {"late create", "late start"} /\ jobs'[j].st = "over"
        /\ UNCHANGED submitting
    BY <1>t, <2>3 DEF JobRecord
  <2>2. ~jobs[j].started
    BY <2>1 DEF JobInv
  <2> QED
    BY <2>1, <2>2
<1>4. CASE StartAnswered(j)
  <2>1. /\ \A i \in Jobs \ {j} : jobs'[i] = jobs[i]
        /\ jobs'[j].visit = jobs[j].visit
        /\ jobs[j].st = "started" /\ jobs'[j].st = "over"
    BY <1>t, <1>4 DEF StartAnswered, JobRecord
  <2>2. going' # <<>> /\ (On("wizard") => going' # page)
    BY <1>4 DEF StartAnswered, Push, On
  <2>3. submitting' = IF On("wizard") /\ jobs[j].visit = visit THEN FALSE ELSE submitting
    BY <1>4 DEF StartAnswered, EndSubmit
  <2> QED
    BY <2>1, <2>2, <2>3
<1>5. CASE SubmitFails(j)
  <2>1. /\ \A i \in Jobs \ {j} : jobs'[i] = jobs[i]
        /\ jobs'[j] = Orphaned(jobs[j])
        /\ jobs[j].st \in Awaited
    BY <1>t, <1>5 DEF SubmitFails
  <2>2. /\ jobs'[j].visit = jobs[j].visit /\ jobs'[j].started = jobs[j].started
        /\ jobs'[j].lost = (jobs[j].lost \/ jobs[j].st \in {"starting", "started"})
        /\ jobs'[j].st = CASE jobs[j].st = "creating" -> "late create"
                           [] jobs[j].st = "starting" -> "late start"
                           [] jobs[j].st \in {"created", "started", "refused"} -> "over"
                           [] OTHER -> jobs[j].st
    BY <2>1 DEF Orphaned, NoJob
  <2>3. submitting' = IF On("wizard") /\ jobs[j].visit = visit THEN FALSE ELSE submitting
    BY <1>5 DEF SubmitFails, EndSubmit
  <2>4. jobs[j].started => jobs[j].st = "started"
    BY <2>1 DEF JobInv
  <2>5. CASE jobs[j].st = "creating" \/ jobs[j].st = "starting"
    BY <2>1, <2>2, <2>3, <2>4, <2>5
  <2>6. CASE jobs[j].st \in {"created", "started", "refused"}
    BY <2>1, <2>2, <2>3, <2>4, <2>6
  <2> QED
    BY <2>1, <2>5, <2>6
<1> QED
  BY <1>1, <1>2, <1>3, <1>4, <1>5 DEF JobStep

LEMMA JobStepKeeps ==
  ASSUME TypeInv, JobsInv, going = <<>>, NEW j \in Jobs, JobStep(j)
  PROVE  JobsInv'
<1>j. JobInv(j)
  BY DEF JobsInv
<1>1. /\ \A i \in Jobs \ {j} : jobs'[i] = jobs[i]
      /\ Moved(jobs[j], jobs'[j]) /\ Released(j, jobs'[j]) /\ Shown(jobs'[j])
  BY <1>j, JobMoves
<1>2. UNCHANGED <<page, visit>>
  <2>1. WizardNext
    BY DEF WizardNext
  <2> QED
    BY <2>1, WizardPushes
<1>3. JobInv(j)'
  <2>1. /\ jobs'[j].started => jobs'[j].st \in {"started", "over"}
        /\ jobs'[j].st = "late start" => jobs'[j].lost
        /\ jobs'[j].visit = jobs[j].visit /\ jobs[j].st # "none"
    BY <1>1 DEF Moved
  <2>2. jobs'[j].visit <= visit'
    BY <1>j, <1>2, <2>1 DEF JobInv
  <2>3. jobs'[j].visit = visit' => On("wizard")'
    BY <1>j, <1>2, <2>1 DEF JobInv, On
  <2>4. jobs'[j].visit = visit' /\ jobs'[j].st \in Awaited => submitting'
    <3> SUFFICES ASSUME jobs'[j].visit = visit', jobs'[j].st \in Awaited PROVE submitting'
      OBVIOUS
    <3>1. jobs[j].visit = visit /\ jobs[j].st \in Awaited
      BY <1>1, <1>2, <2>1 DEF Moved
    <3>2. submitting
      BY <1>j, <2>1, <3>1 DEF JobInv
    <3>3. submitting' = submitting
      BY <1>1 DEF Released
    <3> QED
      BY <3>2, <3>3
  <2>5. jobs'[j].visit = visit' /\ jobs'[j].started /\ ~jobs'[j].lost =>
          jobs'[j].st = "started" \/ (going' # <<>> /\ going' # page')
    BY <1>j, <1>1, <1>2, <2>1 DEF JobInv, Shown
  <2> QED
    BY <2>1, <2>2, <2>3, <2>4, <2>5 DEF JobInv
<1>4. ASSUME NEW i \in Jobs \ {j} PROVE JobInv(i)'
  <2>1. JobInv(i) /\ jobs'[i] = jobs[i]
    BY <1>1 DEF JobsInv
  <2>2. jobs[i].st # "none" /\ jobs[i].visit = visit /\ jobs[i].st \in Awaited => submitting'
    <3> SUFFICES ASSUME jobs[i].visit = visit, jobs[i].st \in Awaited, jobs[i].st # "none"
                 PROVE  submitting'
      OBVIOUS
    <3>1. submitting
      BY <2>1 DEF JobInv
    <3>2. CASE jobs[j].st \in Awaited /\ jobs[j].visit = visit
      <4>1. PairInv(i, j) /\ PairInv(j, i) /\ (i < j \/ j < i)
        BY DEF JobsInv, Jobs
      <4>2. jobs[j].st # "none"
        BY <1>1 DEF Moved
      <4> QED
        BY <3>2, <4>1, <4>2 DEF PairInv, Settled
    <3>3. CASE jobs[j].st \notin Awaited \/ jobs[j].visit # visit
      BY <1>1, <3>1, <3>3 DEF Released
    <3> QED
      BY <3>2, <3>3
  <2>3. jobs[i].st # "none" /\ jobs[i].visit = visit /\ jobs[i].started /\ ~jobs[i].lost
          => jobs[i].st = "started"
    BY <2>1 DEF JobInv
  <2> QED
    BY <1>2, <2>1, <2>2, <2>3 DEF JobInv, On
<1>5. ASSUME NEW i \in Jobs, NEW k \in Jobs PROVE PairInv(i, k)'
  <2> SUFFICES ASSUME i < k, jobs'[k].st # "none"
               PROVE  /\ jobs'[i].st # "none"
                      /\ jobs'[i].visit = jobs'[k].visit => Settled(jobs'[i])
    BY DEF PairInv
  <2>1. jobs[k].st # "none" /\ jobs[k].visit = jobs'[k].visit
    BY <1>1 DEF Moved
  <2>2. jobs[i].st # "none" /\ (jobs[i].visit = jobs[k].visit => Settled(jobs[i]))
    BY <2>1 DEF JobsInv, PairInv
  <2> QED
    BY <1>1, <2>1, <2>2 DEF Moved
<1> QED
  BY <1>3, <1>4, <1>5 DEF JobsInv

\* A click is taken when nothing is awaited.
LEMMA SubmitKeeps ==
  ASSUME TypeInv, JobsInv, going = <<>>, NEW j \in Jobs, Submit(j)
  PROVE  JobsInv'
<1>t. jobs \in [Jobs -> JobRecord]
  BY DEF TypeInv, WizardTypeOK
<1>1. /\ On("wizard") /\ ~submitting /\ submitting' /\ UNCHANGED <<page, visit, going>>
      /\ jobs[j].st = "none" /\ \A i \in 1 .. j - 1 : jobs[i].st # "none"
  BY DEF Submit, AtStep, Clickable, routerVars
<1>2. /\ \A i \in Jobs \ {j} : jobs'[i] = jobs[i]
      /\ jobs'[j].st = "creating" /\ jobs'[j].visit = visit
      /\ ~jobs'[j].started
  BY <1>t DEF Submit, NoJob
<1>3. ASSUME NEW i \in Jobs PROVE JobInv(i)'
  <2>1. CASE i = j
    <3>1. jobs'[j].visit <= visit'
      BY <1>1, <1>2 DEF TypeInv, RouterTypeOK
    <3>2. On("wizard")'
      BY <1>1 DEF On
    <3> QED
      BY <1>1, <1>2, <2>1, <3>1, <3>2 DEF JobInv
  <2>2. CASE i # j
    <3>1. JobInv(i) /\ jobs'[i] = jobs[i]
      BY <1>2, <2>2 DEF JobsInv
    <3> QED
      BY <1>1, <3>1 DEF JobInv, On
  <2> QED
    BY <2>1, <2>2
<1>4. ASSUME NEW i \in Jobs, NEW k \in Jobs PROVE PairInv(i, k)'
  <2> SUFFICES ASSUME i < k, jobs'[k].st # "none"
               PROVE  /\ jobs'[i].st # "none"
                      /\ jobs'[i].visit = jobs'[k].visit => Settled(jobs'[i])
    BY DEF PairInv
  <2>1. CASE k = j
    <3>1. jobs'[i] = jobs[i] /\ jobs[i].st # "none"
      BY <1>1, <1>2, <2>1 DEF Jobs
    <3>2. JobInv(i)
      BY DEF JobsInv
    <3>3. jobs[i].visit = visit => Settled(jobs[i])
      BY <1>1, <3>1, <3>2 DEF JobInv, Settled, Awaited
    <3> QED
      BY <1>2, <2>1, <3>1, <3>3
  <2>2. CASE k # j
    <3>1. jobs[k].st # "none" /\ jobs'[k] = jobs[k]
      BY <1>2, <2>2
    <3>2. jobs[i].st # "none" /\ (jobs[i].visit = jobs[k].visit => Settled(jobs[i]))
      BY <3>1 DEF JobsInv, PairInv
    <3> QED
      BY <1>1, <1>2, <3>1, <3>2
  <2> QED
    BY <2>1, <2>2
<1> QED
  BY <1>3, <1>4 DEF JobsInv

LEMMA ArriveKeeps ==
  ASSUME TypeInv, JobsInv, PageArrives
  PROVE  JobsInv'
<1>1. UNCHANGED jobs /\ going # <<>> /\ page' = going /\ visit \in Nat
  BY DEF PageArrives, WizardRoutes, Arrive, TypeInv, RouterTypeOK
<1>2. CASE going = page
  <2>1. UNCHANGED <<page, visit, submitting>>
    BY <1>2 DEF PageArrives, Arrive, WizardRoutes, On
  <2>2. ASSUME NEW i \in Jobs PROVE JobInv(i)'
    <3>1. JobInv(i)
      BY DEF JobsInv
    <3> QED
      BY <1>1, <1>2, <2>1, <3>1 DEF JobInv, On
  <2> QED
    BY <1>1, <2>2 DEF JobsInv, PairInv
<1>3. CASE going # page
  <2>1. visit' = visit + 1
    BY <1>3 DEF PageArrives, Arrive
  <2>2. ASSUME NEW i \in Jobs PROVE JobInv(i)'
    <3>1. JobInv(i) /\ (jobs[i].st # "none" => jobs[i].visit \in Nat)
      BY DEF JobsInv, TypeInv, WizardTypeOK, JobRecord
    <3>2. jobs'[i] = jobs[i]
      BY <1>1
    <3>3. jobs[i].st # "none" => jobs[i].visit <= visit
      BY <3>1 DEF JobInv
    <3>4. jobs'[i].st # "none" => jobs'[i].visit <= visit' /\ jobs'[i].visit # visit'
      BY <1>1, <2>1, <3>1, <3>2, <3>3
    <3> QED
      BY <3>1, <3>2, <3>4 DEF JobInv
  <2> QED
    BY <1>1, <2>2 DEF JobsInv, PairInv
<1> QED
  BY <1>2, <1>3

\* With the tab go those that wait.
LEMMA ReloadKeeps ==
  ASSUME TypeInv, JobsInv, TabReloads
  PROVE  JobsInv'
<1>1. visit' = visit + 1 /\ visit \in Nat
  BY DEF TabReloads, Reload, TypeInv, RouterTypeOK
<1>2. ASSUME NEW i \in Jobs
      PROVE  /\ jobs'[i].st = CASE jobs[i].st = "creating" -> "late create"
                                [] jobs[i].st = "starting" -> "late start"
                                [] jobs[i].st \in {"created", "started", "refused"} -> "over"
                                [] OTHER -> jobs[i].st
             /\ jobs'[i].visit = jobs[i].visit /\ jobs'[i].started = jobs[i].started
             /\ jobs'[i].lost = (jobs[i].lost \/ jobs[i].st \in {"starting", "started"})
  <2>1. jobs'[i] = Orphaned(jobs[i])
    BY DEF TabReloads, WizardReloads
  <2> QED
    BY <2>1 DEF Orphaned, NoJob
<1>3. ASSUME NEW i \in Jobs
      PROVE  /\ jobs'[i].st \notin Awaited /\ (jobs'[i].st = "none" <=> jobs[i].st = "none")
             /\ jobs[i].st # "none" => jobs[i].visit <= visit /\ jobs[i].visit \in Nat
             /\ jobs[i].started => jobs[i].st \in {"started", "over"}
             /\ jobs[i].st = "late start" => jobs[i].lost
  BY <1>2 DEF Awaited, JobsInv, JobInv, TypeInv, WizardTypeOK, JobRecord
<1>4. ASSUME NEW i \in Jobs PROVE JobInv(i)'
  <2>1. jobs'[i].started => jobs'[i].st \in {"started", "over"}
    BY <1>2, <1>3
  <2>2. jobs'[i].st = "late start" => jobs'[i].lost
    BY <1>2, <1>3
  <2>3. jobs'[i].st # "none" => jobs'[i].visit <= visit /\ jobs'[i].visit \in Nat
    BY <1>2, <1>3
  <2>4. jobs'[i].st # "none" => jobs'[i].visit <= visit' /\ jobs'[i].visit # visit'
    BY <1>1, <2>3
  <2> QED
    BY <2>1, <2>2, <2>4 DEF JobInv
<1>5. ASSUME NEW i \in Jobs, NEW k \in Jobs PROVE PairInv(i, k)'
  <2> SUFFICES ASSUME i < k, jobs'[k].st # "none"
               PROVE  /\ jobs'[i].st # "none"
                      /\ jobs'[i].visit = jobs'[k].visit => Settled(jobs'[i])
    BY DEF PairInv
  <2>1. jobs[i].st # "none" /\ (jobs[i].visit = jobs[k].visit => Settled(jobs[i]))
    BY <1>3 DEF JobsInv, PairInv
  <2> QED
    BY <1>2, <1>3, <2>1 DEF Settled
<1> QED
  BY <1>4, <1>5 DEF JobsInv

LEMMA JobsStep == TypeInv /\ JobsInv /\ [Next]_vars => JobsInv'
<1> SUFFICES ASSUME TypeInv, JobsInv, [Next]_vars PROVE JobsInv'
  OBVIOUS
<1>0. ASSUME UNCHANGED <<jobs, submitting, page, visit>>, going = <<>> \/ UNCHANGED going
      PROVE  JobsInv'
  <2>1. ASSUME NEW i \in Jobs PROVE JobInv(i)'
    <3>1. JobInv(i)
      BY DEF JobsInv
    <3> QED
      BY <1>0, <3>1 DEF JobInv, On
  <2> QED
    BY <1>0, <2>1 DEF JobsInv, PairInv
<1>1. CASE going = <<>> /\ UserEdits /\ ~ \E j \in Jobs : Submit(j)
  <2>1. UNCHANGED <<jobs, submitting, page, visit>>
    BY <1>1 DEF UserEdits, EditSource, SetSource, SaveConnection, LoadConnection, DeleteConnection,
                TestConnection, NextStep, PrevStep, Search, ToggleTable, ToggleSelectAll, routerVars
  <2> QED
    BY <1>0, <1>1, <2>1
<1>2. CASE going = <<>> /\ WizardCallEnds
  BY <1>0, <1>2 DEF WizardCallEnds, TestAnswered, TablesLoaded, Answered, Unanswered, routerVars
<1>3. CASE (going = <<>> /\ Elsewhere) \/ UNCHANGED vars
  BY <1>0, <1>3 DEF Elsewhere, vars, routerVars
<1> QED
  BY <1>1, <1>2, <1>3, OtherSteps, ArriveKeeps, ReloadKeeps, SubmitKeeps, JobStepKeeps
     DEF Next, Event, WizardStep, WizardNext, TypeInv

LEMMA JobsAlways == Spec => []JobsInv
<1>1. Init => JobsInv
  <2> SUFFICES ASSUME Init PROVE JobsInv
    OBVIOUS
  <2>1. \A j \in Jobs : jobs[j].st = "none" /\ ~jobs[j].started
    BY DEF Init, WizardInit, NoJob
  <2> QED
    BY <2>1 DEF JobsInv, JobInv, PairInv
<1> QED
  BY <1>1, JobsStep, TypeAlways, PTL DEF Spec

\* One visit of the wizard starts one task, unless an answer was lost.
THEOREM OneStart == Spec => []StartedOnce
<1>1. JobsInv => StartedOnce
  <2> SUFFICES ASSUME JobsInv, NEW i \in Jobs, NEW j \in Jobs, i < j,
                      jobs[i].visit = jobs[j].visit, jobs[i].started, jobs[j].started
               PROVE  jobs[i].lost
    BY DEF StartedOnce
  <2>1. JobInv(j) /\ PairInv(i, j)
    BY DEF JobsInv
  <2>2. jobs[j].st # "none"
    BY <2>1 DEF JobInv
  <2> QED
    BY <2>1, <2>2 DEF PairInv, Settled
<1> QED
  BY <1>1, JobsAlways, PTL

-------------------------------------------------------------------------------
\* What is loading.  The submission that a button awaits is moved on by each of its
\* steps, and the step that ends it releases the button.
TestsAwait  == \A d \in Sides : testing[d] => tests[d] > 0
TablesAwait == loadingTables => \E s \in Sources : loads[s] > 0
SubmitAwaits ==
  On("wizard") /\ submitting => \E j \in Jobs : jobs[j].visit = visit /\ jobs[j].st \in Awaited

LEMMA CallsStep ==
  TypeInv /\ TestsAwait /\ TablesAwait /\ [Next]_vars => TestsAwait' /\ TablesAwait'
<1> SUFFICES ASSUME TypeInv, TestsAwait, TablesAwait, [Next]_vars
             PROVE  TestsAwait' /\ TablesAwait'
  OBVIOUS
<1>t. /\ testing \in [Sides -> BOOLEAN] /\ tests \in [Sides -> 0 .. MaxTests]
      /\ loads \in [Sources -> 0 .. MaxLoads] /\ source \in Sources
  BY DEF TypeInv, WizardTypeOK
<1>0. /\ UNCHANGED <<testing, tests>> => TestsAwait'
      /\ UNCHANGED <<loadingTables, loads>> => TablesAwait'
  BY DEF TestsAwait, TablesAwait
<1>1. CASE PageArrives \/ TabReloads
  <2>1. CASE WizardMounts
    <3>1. \A d \in Sides : testing'[d] = FALSE
      BY <2>1 DEF WizardMounts
    <3>2. ~loadingTables'
      BY <2>1 DEF WizardMounts
    <3> QED
      BY <3>1, <3>2 DEF TestsAwait, TablesAwait
  <2>2. CASE UNCHANGED <<testVars, tableVars>>
    BY <1>0, <2>2
  <2> QED
    BY <1>1, <2>1, <2>2 DEF PageArrives, WizardRoutes, TabReloads, WizardReloads
<1>2. ASSUME NEW d \in Sides, TestConnection(d) PROVE TestsAwait' /\ TablesAwait'
  <2>1. /\ testing' = [testing EXCEPT ![d] = TRUE] /\ tests' = [tests EXCEPT ![d] = @ + 1]
        /\ UNCHANGED tableVars
    BY <1>2 DEF TestConnection
  <2>2. ASSUME NEW e \in Sides, testing'[e] PROVE tests'[e] > 0
    <3>1. CASE e = d
      BY <1>t, <2>1, <3>1
    <3>2. CASE e # d
      BY <1>t, <2>1, <2>2, <3>2 DEF TestsAwait
    <3> QED
      BY <3>1, <3>2
  <2> QED
    BY <1>0, <2>1, <2>2 DEF TestsAwait
<1>3. ASSUME NEW d \in Sides, TestAnswered(d) PROVE TestsAwait' /\ TablesAwait'
  <2>1. testing' = [e \in Sides |-> FALSE] /\ UNCHANGED tableVars
    BY <1>3 DEF TestAnswered, TestEnds
  <2>2. \A e \in Sides : testing'[e] = FALSE
    BY <2>1
  <2> QED
    BY <1>0, <2>1, <2>2 DEF TestsAwait
<1>4. CASE NextStep
  <2>1. CASE LoadTables
    <3>1. loads'[source] > 0
      BY <1>t, <2>1 DEF LoadTables
    <3> QED
      BY <1>0, <1>t, <1>4, <3>1 DEF NextStep, TablesAwait
  <2>2. CASE UNCHANGED tableVars
    BY <1>0, <1>4, <2>2 DEF NextStep
  <2> QED
    BY <1>4, <2>1, <2>2 DEF NextStep
<1>5. ASSUME NEW s \in Sources, TablesLoaded(s) PROVE TestsAwait' /\ TablesAwait'
  <2>1. ~loadingTables' /\ UNCHANGED testVars
    BY <1>5 DEF TablesLoaded
  <2> QED
    BY <1>0, <2>1 DEF TablesAwait
<1>6. CASE UserEdits /\ ~NextStep /\ ~ \E d \in Sides : TestConnection(d)
  <2>1. UNCHANGED <<testing, tests, loadingTables, loads>>
    BY <1>6 DEF UserEdits, EditSource, SetSource, SaveConnection, LoadConnection, DeleteConnection,
                PrevStep, Search, ToggleTable, ToggleSelectAll, Submit
  <2> QED
    BY <1>0, <2>1
<1>7. ASSUME NEW j \in Jobs, JobStep(j) PROVE TestsAwait' /\ TablesAwait'
  BY <1>0, <1>7 DEF JobStep, CreateServed, StartServed, CreateAnswered, StartAnswered, SubmitFails, LateCallLost
<1>8. CASE Elsewhere \/ UNCHANGED vars
  BY <1>0, <1>8 DEF Elsewhere, vars
<1> QED
  BY <1>1, <1>2, <1>3, <1>4, <1>5, <1>6, <1>7, <1>8, OtherSteps
     DEF Next, Event, WizardStep, WizardNext, WizardCallEnds, TypeInv

LEMMA SubmitStep == TypeInv /\ JobsInv /\ SubmitAwaits /\ [Next]_vars => SubmitAwaits'
<1> SUFFICES ASSUME TypeInv, JobsInv, SubmitAwaits, [Next]_vars, On("wizard")', submitting'
             PROVE  \E j \in Jobs : jobs'[j].visit = visit' /\ jobs'[j].st \in Awaited
  BY DEF SubmitAwaits
<1>t. jobs \in [Jobs -> JobRecord]
  BY DEF TypeInv, WizardTypeOK
<1>0. ASSUME UNCHANGED <<jobs, submitting, page, visit>>
      PROVE  \E j \in Jobs : jobs'[j].visit = visit' /\ jobs'[j].st \in Awaited
  <2>1. On("wizard") /\ submitting
    BY <1>0 DEF On
  <2> QED
    BY <1>0, <2>1 DEF SubmitAwaits
<1>1. CASE PageArrives
  <2>1. CASE WizardMounts
    BY <2>1 DEF WizardMounts
  <2>2. CASE On("wizard") /\ UNCHANGED <<submitting, jobs>>
    <3>1. page \in Routes /\ going \in Routes /\ page' = going
      BY <1>1 DEF PageArrives, Arrive, TypeInv, RouterTypeOK
    <3>2. going = page
      BY <2>2, <3>1, WizardPage DEF On
    <3> QED
      BY <1>0, <1>1, <2>2, <3>1, <3>2 DEF PageArrives, Arrive
  <2> QED
    BY <1>1, <2>1, <2>2 DEF PageArrives, WizardRoutes
<1>2. CASE TabReloads
  BY <1>2 DEF TabReloads, WizardReloads, WizardMounts
<1>3. ASSUME NEW j \in Jobs, Submit(j)
      PROVE  \E i \in Jobs : jobs'[i].visit = visit' /\ jobs'[i].st \in Awaited
  <2>1. jobs'[j].st = "creating" /\ jobs'[j].visit = visit'
    BY <1>t, <1>3 DEF Submit, NoJob, routerVars
  <2> QED
    BY <2>1 DEF Awaited
<1>4. CASE UserEdits /\ ~ \E j \in Jobs : Submit(j)
  <2>1. UNCHANGED <<jobs, submitting, page, visit>>
    BY <1>4 DEF UserEdits, EditSource, SetSource, SaveConnection, LoadConnection, DeleteConnection,
                TestConnection, NextStep, PrevStep, Search, ToggleTable, ToggleSelectAll, routerVars
  <2> QED
    BY <1>0, <2>1
<1>5. CASE WizardCallEnds
  BY <1>0, <1>5 DEF WizardCallEnds, TestAnswered, TablesLoaded, Answered, Unanswered, routerVars
<1>6. ASSUME NEW j \in Jobs, JobStep(j), going = <<>>
      PROVE  \E i \in Jobs : jobs'[i].visit = visit' /\ jobs'[i].st \in Awaited
  <2>1. JobInv(j)
    BY DEF JobsInv
  <2>2. /\ \A i \in Jobs \ {j} : jobs'[i] = jobs[i]
        /\ Moved(jobs[j], jobs'[j]) /\ Released(j, jobs'[j])
    BY <1>6, <2>1, JobMoves
  <2>3. WizardNext
    BY <1>6 DEF WizardNext
  <2>4. UNCHANGED <<page, visit>>
    BY <1>6, <2>3, WizardPushes
  <2>5. On("wizard")
    BY <2>4 DEF On
  <2>6. CASE jobs'[j].st \in Awaited /\ jobs[j].visit = visit
    BY <2>2, <2>4, <2>6 DEF Moved
  <2>7. CASE jobs'[j].st \notin Awaited \/ jobs[j].visit # visit
    <3>1. ~ (jobs[j].st \in Awaited /\ jobs[j].visit = visit)
      BY <2>2, <2>5, <2>7 DEF Released
    <3>2. submitting' = submitting
      BY <2>2, <3>1 DEF Released
    <3>3. submitting
      BY <3>2
    <3>4. PICK i \in Jobs : jobs[i].visit = visit /\ jobs[i].st \in Awaited
      BY <2>5, <3>3 DEF SubmitAwaits
    <3> QED
      BY <2>2, <2>4, <3>1, <3>4
  <2> QED
    BY <2>6, <2>7
<1>7. CASE Elsewhere \/ UNCHANGED vars
  BY <1>0, <1>7 DEF Elsewhere, vars, routerVars
<1> QED
  BY <1>1, <1>2, <1>3, <1>4, <1>5, <1>6, <1>7, OtherSteps DEF Next, Event, WizardStep, WizardNext, TypeInv

\* What is loading awaits a call.
THEOREM NothingHangs == Spec => []LoadingAwaits
<1>1. Init => TestsAwait /\ TablesAwait /\ SubmitAwaits
  <2> SUFFICES ASSUME Init PROVE TestsAwait /\ TablesAwait /\ SubmitAwaits
    OBVIOUS
  <2>1. (\A d \in Sides : testing[d] = FALSE) /\ ~loadingTables /\ ~submitting
    BY DEF Init, WizardInit
  <2> QED
    BY <2>1 DEF TestsAwait, TablesAwait, SubmitAwaits
<1>2. TestsAwait /\ TablesAwait /\ SubmitAwaits => LoadingAwaits
  BY DEF TestsAwait, TablesAwait, SubmitAwaits, LoadingAwaits
<1> QED
  BY <1>1, <1>2, CallsStep, SubmitStep, TypeAlways, JobsAlways, PTL DEF Spec

-------------------------------------------------------------------------------
\* The report.  The flag leaves room for one call, and an assessment in flight is
\* the one that is wanted.
AssessInv ==
  /\ assesses \in Seq([format : {"json", "html"}, of : Forms]) /\ Len(assesses) <= 1
  /\ sourceForm \in Forms /\ savedForm \in Forms
  /\ ~loading => assesses = <<>>
  /\ \A i \in DOMAIN assesses : assesses[i].format = "json" => assesses[i].of \in wanted
  /\ report \subseteq wanted

LEMMA AssessStepKeeps == AssessInv /\ AssessNext => AssessInv'
<1> SUFFICES ASSUME AssessInv, AssessNext PROVE AssessInv'
  OBVIOUS
<1> USE DEF AssessInv
<1>1. ASSUME NEW f \in Forms, EditForm(f) PROVE AssessInv'
  BY <1>1 DEF EditForm
<1>2. CASE SaveSourceConfig \/ ClearSourceConfig
  BY <1>2 DEF SaveSourceConfig, ClearSourceConfig, Forms
<1>3. CASE RunAssess
  <2>1. /\ assesses' = <<[format |-> "json", of |-> sourceForm]>> /\ loading'
        /\ wanted' = {sourceForm} /\ report' = {} /\ UNCHANGED <<sourceForm, savedForm>>
    BY <1>3 DEF RunAssess, Ready, Request
  <2>2. assesses' \in Seq([format : {"json", "html"}, of : Forms]) /\ Len(assesses') = 1
    BY <2>1
  <2>3. \A i \in DOMAIN assesses' : assesses'[i].of = sourceForm
    BY <2>1
  <2> QED
    BY <2>1, <2>2, <2>3
<1>4. CASE DownloadHTML
  <2>1. /\ assesses' = <<[format |-> "html", of |-> sourceForm]>> /\ loading'
        /\ UNCHANGED <<wanted, report, sourceForm, savedForm>>
    BY <1>4 DEF DownloadHTML, Ready, Request
  <2>2. assesses' \in Seq([format : {"json", "html"}, of : Forms]) /\ Len(assesses') = 1
    BY <2>1
  <2>3. \A i \in DOMAIN assesses' : assesses'[i].format = "html"
    BY <2>1
  <2> QED
    BY <2>1, <2>2, <2>3
<1>5. ASSUME NEW i \in 1 .. MaxAssess, AssessAnswered(i) PROVE AssessInv'
  <2>1. /\ i \in DOMAIN assesses /\ assesses' = AssessWithout(i)
        /\ UNCHANGED <<sourceForm, savedForm, wanted>>
        /\ \/ UNCHANGED report
           \/ assesses[i].format = "json" /\ report' = {assesses[i].of}
    BY <1>5 DEF AssessAnswered
  <2>2. Len(assesses) \in Nat /\ DOMAIN assesses = 1 .. Len(assesses)
    BY LenProperties
  <2>3. Len(assesses) = 1
    BY <2>1, <2>2
  <2>4. assesses' = <<>>
    BY <2>1, <2>3 DEF AssessWithout
  <2> QED
    BY <2>1, <2>4
<1> QED
  BY <1>1, <1>2, <1>3, <1>4, <1>5 DEF AssessNext

LEMMA AssessStays ==
  ASSUME going = <<>>,
         \/ UserGoes \/ FeaturesCall \/ OthersWrite \/ OthersStart
         \/ WizardStep \/ ListsStep \/ DetailStep \/ LogsStep \/ PanelStep
  PROVE  UNCHANGED assessVars
  BY DEF UserGoes, FeaturesCall, OthersWrite, OthersStart, WizardStep, ListsStep, DetailStep, LogsStep, PanelStep

\* The report on the page is of what was asked for last.
THEOREM LatestReport == Spec => []ReportIsLatest
<1>1. Init => AssessInv
  <2> SUFFICES ASSUME Init PROVE AssessInv
    OBVIOUS
  <2>1. /\ sourceForm = Blank /\ savedForm = Blank /\ report = {}
        /\ assesses = <<>>
    BY DEF Init, AssessInit
  <2> QED
    BY <2>1 DEF AssessInv, Forms
<1>2. AssessInv /\ AssessMounts => AssessInv'
  <2> SUFFICES ASSUME AssessInv, AssessMounts PROVE AssessInv'
    OBVIOUS
  <2>1. /\ sourceForm' = savedForm /\ savedForm' = savedForm /\ report' = {} /\ assesses' = <<>>
    BY DEF AssessMounts
  <2> QED
    BY <2>1 DEF AssessInv
<1>3. AssessInv /\ UNCHANGED assessVars => AssessInv'
  BY DEF AssessInv, assessVars
<1>4. AssessInv /\ [Next]_vars => AssessInv'
  BY <1>2, <1>3, AssessStepKeeps, AssessStays
     DEF Next, Event, PageArrives, AssessRoutes, TabReloads, AssessStep, vars
<1>5. AssessInv => ReportIsLatest
  BY DEF AssessInv, ReportIsLatest
<1> QED
  BY <1>1, <1>4, <1>5, PTL DEF Spec

-------------------------------------------------------------------------------
\* The sockets.  All that is needed of a socket's type is that it has its fields.
IsStream(s) ==
  s \in [st : {s.st}, task : {s.task}, buffer : {s.buffer}, chan : {s.chan}, missed : {s.missed},
         from : {s.from}, closed : {s.closed}, stray : {s.stray}]
Alive(s) == s.st # "none" /\ ~s.closed /\ ~s.stray

StreamsInv ==
  /\ streams = [i \in Streams |-> streams[i]]
  /\ \A i \in Streams : IsStream(streams[i]) /\ (Alive(streams[i]) => i = logWs)

LEMMA NoStreamIsDead == IsStream(NoStream) /\ ~Alive(NoStream)
  BY DEF IsStream, Alive, NoStream

\* No step but that of the page brings a socket to life.
LEMMA StreamUpdates ==
  ASSUME NEW s, IsStream(s), NEW v, NEW w
  PROVE  /\ IsStream([s EXCEPT !.st = v]) /\ IsStream([s EXCEPT !.chan = v])
         /\ IsStream([s EXCEPT !.missed = v]) /\ IsStream([s EXCEPT !.closed = TRUE])
         /\ IsStream([s EXCEPT !.st = v, !.buffer = w]) /\ IsStream([s EXCEPT !.st = v, !.from = w])
         /\ ~Alive([s EXCEPT !.closed = TRUE])
         /\ (Alive([s EXCEPT !.chan = v]) \/ Alive([s EXCEPT !.missed = v])) => Alive(s)
         /\ s.st # "none" =>
              /\ Alive([s EXCEPT !.st = v]) => Alive(s)
              /\ Alive([s EXCEPT !.st = v, !.buffer = w]) => Alive(s)
              /\ Alive([s EXCEPT !.st = v, !.from = w]) => Alive(s)
<1>1. /\ IsStream([s EXCEPT !.st = v]) /\ [s EXCEPT !.st = v].closed = s.closed
      /\ [s EXCEPT !.st = v].stray = s.stray
  BY DEF IsStream
<1>2. /\ IsStream([s EXCEPT !.chan = v]) /\ [s EXCEPT !.chan = v].closed = s.closed
      /\ [s EXCEPT !.chan = v].stray = s.stray /\ [s EXCEPT !.chan = v].st = s.st
  BY DEF IsStream
<1>3. /\ IsStream([s EXCEPT !.missed = v]) /\ [s EXCEPT !.missed = v].closed = s.closed
      /\ [s EXCEPT !.missed = v].stray = s.stray /\ [s EXCEPT !.missed = v].st = s.st
  BY DEF IsStream
<1>4. IsStream([s EXCEPT !.closed = TRUE]) /\ [s EXCEPT !.closed = TRUE].closed = TRUE
  BY DEF IsStream
<1>5. /\ IsStream([s EXCEPT !.st = v, !.buffer = w])
      /\ [s EXCEPT !.st = v, !.buffer = w].closed = s.closed
      /\ [s EXCEPT !.st = v, !.buffer = w].stray = s.stray
  BY DEF IsStream
<1>6. /\ IsStream([s EXCEPT !.st = v, !.from = w])
      /\ [s EXCEPT !.st = v, !.from = w].closed = s.closed
      /\ [s EXCEPT !.st = v, !.from = w].stray = s.stray
  BY DEF IsStream
<1> QED
  BY <1>1, <1>2, <1>3, <1>4, <1>5, <1>6 DEF Alive

\* The sockets but i stay as they are, or it is another step that brings none to life.
LEMMA StreamsKeep ==
  ASSUME StreamsInv, UNCHANGED logWs, streams' = [i \in Streams |-> streams'[i]],
         \A i \in Streams : IsStream(streams'[i]) /\ (Alive(streams'[i]) => Alive(streams[i]))
  PROVE  StreamsInv'
  BY DEF StreamsInv, Alive, IsStream

LEMMA OneStreamMoves ==
  ASSUME StreamsInv, UNCHANGED logWs, NEW i \in Streams, NEW s,
         streams' = [streams EXCEPT ![i] = s], IsStream(s), Alive(s) => Alive(streams[i])
  PROVE  StreamsInv'
<1>1. streams' = [k \in Streams |-> streams'[k]]
  BY DEF StreamsInv
<1>2. ASSUME NEW k \in Streams
      PROVE  IsStream(streams'[k]) /\ (Alive(streams'[k]) => Alive(streams[k]))
  <2>1. streams'[k] = IF k = i THEN s ELSE streams[k]
    BY DEF StreamsInv
  <2> QED
    BY <2>1 DEF StreamsInv
<1> QED
  BY <1>1, <1>2, StreamsKeep

LEMMA LogsKeep ==
  ASSUME StreamsInv, LogsNext
  PROVE  StreamsInv'
<1>0. UNCHANGED <<streams, logWs>> => StreamsInv'
  BY DEF StreamsInv, IsStream, Alive
<1>1. ASSUME NEW t \in Logged, AppendLog(t) PROVE StreamsInv'
  <2>1. UNCHANGED logWs /\ streams' = [i \in Streams |-> streams'[i]]
    BY <1>1 DEF AppendLog
  <2>2. ASSUME NEW i \in Streams
        PROVE  \/ streams'[i] = streams[i]
               \/ \E v : streams'[i] = [streams[i] EXCEPT !.chan = v]
               \/ \E v : streams'[i] = [streams[i] EXCEPT !.missed = v]
    <3> DEFINE n == buffers[t][Len(buffers[t])] + 1
    <3>1. \/ streams'[i] = streams[i]
          \/ streams'[i] = [streams[i] EXCEPT !.chan = Append(@, n)]
          \/ streams'[i] = [streams[i] EXCEPT !.missed = @ \cup {n}]
      BY <1>1 DEF AppendLog
    <3> QED
      BY <3>1
  <2>3. ASSUME NEW i \in Streams
        PROVE  IsStream(streams'[i]) /\ (Alive(streams'[i]) => Alive(streams[i]))
    <3>1. IsStream(streams[i])
      BY DEF StreamsInv
    <3>2. ASSUME NEW v, streams'[i] = [streams[i] EXCEPT !.chan = v]
          PROVE  IsStream(streams'[i]) /\ (Alive(streams'[i]) => Alive(streams[i]))
      <4> DEFINE s == [streams[i] EXCEPT !.chan = v]
      <4>1. IsStream(s) /\ (Alive(s) => Alive(streams[i]))
        BY <3>1, StreamUpdates
      <4>2. streams'[i] = s
        BY <3>2
      <4> HIDE DEF s
      <4> QED
        BY <4>1, <4>2
    <3>3. ASSUME NEW v, streams'[i] = [streams[i] EXCEPT !.missed = v]
          PROVE  IsStream(streams'[i]) /\ (Alive(streams'[i]) => Alive(streams[i]))
      <4> DEFINE s == [streams[i] EXCEPT !.missed = v]
      <4>1. IsStream(s) /\ (Alive(s) => Alive(streams[i]))
        BY <3>1, StreamUpdates
      <4>2. streams'[i] = s
        BY <3>3
      <4> HIDE DEF s
      <4> QED
        BY <4>1, <4>2
    <3> QED
      BY <2>2, <3>1, <3>2, <3>3
  <2> QED
    BY <2>1, <2>3, StreamsKeep
<1>2. ASSUME NEW i \in Streams, StreamStep(i) \/ StreamBreaks(i) PROVE StreamsInv'
  <2>1. UNCHANGED logWs
    BY <1>2 DEF StreamStep, StreamOpens, StreamSubscribes, StreamReplays, Replay, StreamSends, StreamEnds, StreamBreaks
  <2>2. IsStream(streams[i])
    BY DEF StreamsInv
  <2>3. CASE StreamOpens(i)
    <3>1. PICK t \in streams[i].task : streams' = [streams EXCEPT ![i] =
            IF Exists(t) THEN [@ EXCEPT !.st = "buffer", !.buffer = Len(buffers[t])] ELSE NoStream]
      BY <2>3 DEF StreamOpens
    <3>2. streams[i].st # "none"
      BY <2>3 DEF StreamOpens
    <3> DEFINE s == IF Exists(t) THEN [streams[i] EXCEPT !.st = "buffer", !.buffer = Len(buffers[t])]
                    ELSE NoStream
    <3>3. streams' = [streams EXCEPT ![i] = s]
      BY <3>1 DEF StreamsInv
    <3>4. IsStream(s) /\ (Alive(s) => Alive(streams[i]))
      BY <2>2, <3>2, StreamUpdates, NoStreamIsDead
    <3> HIDE DEF s
    <3> QED
      BY <2>1, <3>3, <3>4, OneStreamMoves
  <2>4. CASE StreamSubscribes(i)
    <3>1. streams' = [streams EXCEPT ![i] = [streams[i] EXCEPT !.st = "subscribed"]]
      BY <2>4 DEF StreamSubscribes, StreamsInv
    <3>2. streams[i].st # "none"
      BY <2>4 DEF StreamSubscribes
    <3> QED
      BY <2>1, <2>2, <3>1, <3>2, StreamUpdates, OneStreamMoves
  <2>5. CASE StreamReplays(i)
    <3>1. PICK f : streams' = [streams EXCEPT ![i].st = "streaming", ![i].from = f]
      BY <2>5 DEF StreamReplays, Replay
    <3>2. streams' = [streams EXCEPT ![i] = [streams[i] EXCEPT !.st = "streaming", !.from = f]]
      BY <3>1 DEF StreamsInv
    <3>3. streams[i].st # "none"
      BY <2>5 DEF StreamReplays, Replay
    <3> DEFINE s == [streams[i] EXCEPT !.st = "streaming", !.from = f]
    <3>4. IsStream(s) /\ (Alive(s) => Alive(streams[i]))
      BY <2>2, <3>3, StreamUpdates
    <3>5. streams' = [streams EXCEPT ![i] = s]
      BY <3>2
    <3> HIDE DEF s
    <3> QED
      BY <2>1, <3>4, <3>5, OneStreamMoves
  <2>6. CASE StreamSends(i)
    <3>1. streams' = [streams EXCEPT ![i] = [streams[i] EXCEPT !.chan = Tail(streams[i].chan)]]
      BY <2>6 DEF StreamSends, StreamsInv
    <3> QED
      BY <2>1, <2>2, <3>1, StreamUpdates, OneStreamMoves
  <2>7. CASE StreamEnds(i) \/ StreamBreaks(i)
    <3>1. streams' = [streams EXCEPT ![i] = NoStream]
      BY <2>7 DEF StreamEnds, StreamBreaks
    <3> QED
      BY <2>1, <3>1, NoStreamIsDead, OneStreamMoves
  <2> QED
    BY <1>2, <2>3, <2>4, <2>5, <2>6, <2>7 DEF StreamStep
<1>3. ASSUME NEW k \in DOMAIN logCalls, LogsAnswered(k) PROVE StreamsInv'
  <2> DEFINE load == logCalls[k]
  <2>1. PICK i \in Streams : ConnectLogWS(i, load)
    BY <1>3 DEF LogsAnswered
  <2> HIDE DEF load
  <2> DEFINE mine == Mine(load)
             before == IF mine /\ logWs # 0 THEN Hung(logWs) ELSE streams
  <2>2. /\ streams[i].st = "none" /\ (mine \/ i # logWs)
        /\ streams' = [before EXCEPT ![i] = Opening(load)]
        /\ logWs' = IF mine THEN i ELSE logWs
    BY <2>1 DEF ConnectLogWS, Free
  <2>3. IsStream(Opening(load)) /\ Opening(load).stray = ~mine
    <3>1. IsStream(Opening(load))
      BY DEF Opening, NoStream, IsStream
    <3>2. Opening(load).stray = ~Mine(load)
      BY DEF Opening, NoStream
    <3> QED
      BY <3>1, <3>2
  <2>4. ASSUME NEW n \in Streams
        PROVE  IsStream(before[n]) /\ (Alive(before[n]) => n = logWs /\ ~mine)
    <3>1. IsStream(streams[n]) /\ (Alive(streams[n]) => n = logWs) /\ n # 0
      BY DEF StreamsInv, Streams
    <3>2. CASE mine /\ logWs # 0 /\ n = logWs
      <4>1. before[n] = IF streams[n].st = "none" THEN streams[n] ELSE [streams[n] EXCEPT !.closed = TRUE]
        BY <3>2 DEF Hung, StreamsInv
      <4>2. streams[n].st = "none" => ~Alive(streams[n])
        BY DEF Alive
      <4> QED
        BY <3>1, <4>1, <4>2, StreamUpdates
    <3>3. CASE ~ (mine /\ logWs # 0 /\ n = logWs)
      <4>1. before[n] = streams[n]
        BY <3>3 DEF Hung, StreamsInv
      <4> QED
        BY <3>1, <3>3, <4>1
    <3> QED
      BY <3>2, <3>3
  <2>5. before = [n \in Streams |-> before[n]]
    BY DEF Hung, StreamsInv
  <2> HIDE DEF mine, before
  <2>6. \A n \in Streams : streams'[n] = IF n = i THEN Opening(load) ELSE before[n]
    BY <2>2, <2>5
  <2>7. streams' = [n \in Streams |-> streams'[n]]
    BY <2>2, <2>5
  <2>8. ASSUME NEW n \in Streams PROVE IsStream(streams'[n]) /\ (Alive(streams'[n]) => n = logWs')
    <3>1. CASE n = i
      <4>1. streams'[n] = Opening(load)
        BY <2>6, <3>1
      <4>2. Alive(streams'[n]) => mine
        BY <2>3, <4>1 DEF Alive
      <4> QED
        BY <2>2, <2>3, <3>1, <4>1, <4>2
    <3>2. CASE n # i
      BY <2>2, <2>4, <2>6, <3>2
    <3> QED
      BY <3>1, <3>2
  <2> QED
    BY <2>7, <2>8 DEF StreamsInv, Alive, IsStream
<1>4. CASE OpenLogs \/ \E k \in DOMAIN logCalls : LogsServed(k)
  BY <1>0, <1>4 DEF OpenLogs, LogsServed
<1> QED
  BY <1>1, <1>2, <1>3, <1>4 DEF LogsNext

\* Leaving the page closes its socket, and a reload closes them all.
LEMMA SocketsHang ==
  ASSUME StreamsInv, LogsRoutes \/ LogsReload
  PROVE  StreamsInv'
<1>0. UNCHANGED <<streams, logWs>> => StreamsInv'
  BY DEF StreamsInv, IsStream, Alive
<1>1. ASSUME NEW n \in Streams, NEW s,
             s = streams[n] \/ s = [streams[n] EXCEPT !.closed = TRUE]
      PROVE  IsStream(s) /\ (Alive(s) => s = streams[n])
  <2>1. IsStream(streams[n])
    BY DEF StreamsInv
  <2>2. CASE s = streams[n]
    BY <2>1, <2>2
  <2>3. CASE s # streams[n]
    <3> DEFINE c == [streams[n] EXCEPT !.closed = TRUE]
    <3>1. IsStream(c) /\ ~Alive(c)
      BY <2>1, StreamUpdates
    <3>2. s = c
      BY <1>1, <2>3
    <3> HIDE DEF c
    <3> QED
      BY <3>1, <3>2
  <2> QED
    BY <2>2, <2>3
<1>2. CASE LogsRoutes
  <2>1. CASE logWs = 0
    <3>1. UNCHANGED <<streams, logWs>>
      BY <1>2, <2>1 DEF LogsRoutes, logVars
    <3> QED
      BY <1>0, <3>1
  <2>2. CASE logWs # 0 /\ UNCHANGED logVars
    BY <1>0, <2>2 DEF logVars
  <2>3. CASE streams' = Hung(logWs) /\ logWs' = 0
    <3>1. streams' = [n \in Streams |-> streams'[n]]
      BY <2>3 DEF Hung, StreamsInv
    <3>2. ASSUME NEW n \in Streams PROVE IsStream(streams'[n]) /\ ~Alive(streams'[n])
      <4>1. streams'[n] = streams[n] \/ streams'[n] = [streams[n] EXCEPT !.closed = TRUE]
        BY <2>3 DEF Hung, StreamsInv
      <4>2. Alive(streams[n]) => n = logWs
        BY DEF StreamsInv
      <4>3. n = logWs /\ streams[n].st # "none" => streams'[n] = [streams[n] EXCEPT !.closed = TRUE]
        BY <2>3 DEF Hung, StreamsInv
      <4>4. CASE n = logWs /\ streams[n].st # "none"
        <5> DEFINE c == [streams[n] EXCEPT !.closed = TRUE]
        <5>1. IsStream(c) /\ ~Alive(c)
          BY StreamUpdates DEF StreamsInv
        <5>2. streams'[n] = c
          BY <4>3, <4>4
        <5> HIDE DEF c
        <5> QED
          BY <5>1, <5>2
      <4>5. CASE ~ (n = logWs /\ streams[n].st # "none")
        <5>1. ~Alive(streams[n])
          BY <4>2, <4>5 DEF Alive
        <5>2. IsStream(streams'[n]) /\ (Alive(streams'[n]) => streams'[n] = streams[n])
          BY <1>1, <4>1
        <5> QED
          BY <5>1, <5>2
      <4> QED
        BY <4>4, <4>5
    <3> QED
      BY <3>1, <3>2 DEF StreamsInv, Alive, IsStream
  <2> QED
    BY <1>2, <2>1, <2>2, <2>3 DEF LogsRoutes
<1>3. CASE LogsReload
  <2>1. streams' = [n \in Streams |-> Hung(n)[n]]
    BY <1>3 DEF LogsReload
  <2>2. streams' = [n \in Streams |-> streams'[n]]
    BY <2>1
  <2>3. ASSUME NEW n \in Streams PROVE IsStream(streams'[n]) /\ ~Alive(streams'[n])
    <3>1. streams'[n] = IF streams[n].st = "none" THEN streams[n] ELSE [streams[n] EXCEPT !.closed = TRUE]
      BY <2>1 DEF Hung, StreamsInv
    <3>2. CASE streams[n].st = "none"
      BY <3>1, <3>2 DEF StreamsInv, Alive
    <3>3. CASE streams[n].st # "none"
      <4> DEFINE c == [streams[n] EXCEPT !.closed = TRUE]
      <4>1. IsStream(c) /\ ~Alive(c)
        BY StreamUpdates DEF StreamsInv
      <4>2. streams'[n] = c
        BY <3>1, <3>3
      <4> HIDE DEF c
      <4> QED
        BY <4>1, <4>2
    <3> QED
      BY <3>2, <3>3
  <2> QED
    BY <2>2, <2>3 DEF StreamsInv, Alive, IsStream
<1> QED
  BY <1>2, <1>3

LEMMA StreamsElsewhere ==
  ASSUME StreamsInv,
         \/ UserGoes \/ FeaturesCall \/ OthersWrite \/ OthersStart \/ UNCHANGED vars
         \/ WizardStep \/ ListsStep \/ DetailStep \/ PanelStep \/ AssessStep
  PROVE  StreamsInv'
<1>1. UNCHANGED <<streams, logWs>>
  BY DEF UserGoes, FeaturesCall, OthersWrite, OthersStart, WizardStep, ListsStep, DetailStep, PanelStep,
         AssessStep, RemoveBuffer, logVars, vars
<1> QED
  BY <1>1 DEF StreamsInv, IsStream, Alive

\* The log drawer has one socket.
THEOREM OneSocket == Spec => []OneStream
<1>1. Init => StreamsInv
  <2> SUFFICES ASSUME Init PROVE StreamsInv
    OBVIOUS
  <2>1. streams = [i \in Streams |-> NoStream]
    BY DEF Init, LogsInit
  <2> QED
    BY <2>1, NoStreamIsDead DEF StreamsInv
<1>2. StreamsInv /\ [Next]_vars => StreamsInv'
  BY LogsKeep, SocketsHang, StreamsElsewhere DEF Next, Event, PageArrives, TabReloads, LogsStep
<1>3. StreamsInv => OneStream
  BY DEF StreamsInv, OneStream, Alive
<1> QED
  BY <1>1, <1>2, <1>3, PTL DEF Spec

-------------------------------------------------------------------------------
\* Deletions.  A row that is deleted stays so, whoever calls.
RowMoves == DOMAIN row' = Tasks /\ \A t \in Tasks : row[t] = "deleted" => row'[t] = "deleted"

\* The calls for a list: which of them do not bring t back, and that one of
\* these is to come, of those after k, and will be taken for the newest.
Spares(c, t)       == c.st = "asked" \/ c.answer[t] = "none"
Later(calls, t, k) == \E j \in DOMAIN calls : j > k /\ Spares(calls[j], t) /\ ~calls[j].old

\* A task that has been deleted: it is not in the list, or a call without it will
\* be answered, or the list is known to be outdated; and a call that brings it back
\* is followed by one that does not.
Away(calls, list, stale, t) ==
  /\ stale \/ list[t] = "none" \/ Later(calls, t, 0)
  /\ \A k \in DOMAIN calls : Spares(calls[k], t) \/ calls[k].old \/ Later(calls, t, k)

ListCall == [st : {"asked", "served"}, answer : [Tasks -> Statuses \cup {"none"}], old : BOOLEAN]

DeletedInv ==
  /\ DOMAIN row = Tasks /\ DOMAIN del = Tasks /\ gone \subseteq Tasks /\ listCalls \in Seq(ListCall)
  /\ \A t \in Tasks : del[t] = "deleted" \/ t \in gone => row[t] = "deleted"
  /\ \A t \in gone : Away(listCalls, listed, outdated, t)

LEMMA RowKept ==
  ASSUME DOMAIN row = Tasks, [Next]_vars
  PROVE  RowMoves
<1> USE DEF RowMoves
<1>w. ASSUME NEW t \in Tasks, NEW s, row[t] # "deleted", row' = [row EXCEPT ![t] = s] PROVE RowMoves
  BY <1>w
<1>s. ASSUME NEW t, StartRow(t), DOMAIN row = Tasks, t \in Tasks PROVE RowMoves
  BY <1>s, <1>w DEF StartRow, StartAccepted, WriteRow, Exists, Statuses
<1>c. ASSUME NEW op, NEW t, CallRow(op, t) PROVE RowMoves
  BY <1>c DEF CallRow, Exists, Statuses
<1>1. CASE UserGoes \/ FeaturesCall \/ PageArrives \/ TabReloads \/ UNCHANGED vars
  BY <1>1 DEF UserGoes, FeaturesCall, PageArrives, TabReloads, vars
<1>2. CASE OthersWrite
  <2>1. ASSUME NEW t \in Tasks, CreateRow(t) PROVE RowMoves
    BY <1>w, <2>1 DEF CreateRow
  <2>2. ASSUME NEW t \in Tasks, NEW s, WriteRow(t, s) PROVE RowMoves
    BY <1>w, <2>2 DEF WriteRow, Exists, Statuses
  <2> QED
    BY <1>2, <2>1, <2>2 DEF OthersWrite
<1>3. CASE OthersStart
  BY <1>3, <1>s, OthersAssumption DEF OthersStart
<1>4. CASE WizardStep
  <2>1. ASSUME NEW j \in Jobs, CreateServed(j, Fresh) PROVE RowMoves
    BY <1>w, <2>1, FreshIsTask DEF CreateServed, CreateRow
  <2>2. ASSUME NEW j \in Jobs, StartServed(j) PROVE RowMoves
    <3>1. PICK t : StartRow(t)
      BY <2>2 DEF StartServed
    <3> QED
      BY <3>1 DEF StartRow, StartAccepted, WriteRow, Exists, Statuses
  <2>3. CASE UserEdits \/ WizardCallEnds
    BY <2>3 DEF UserEdits, EditSource, SaveConnection, LoadConnection, DeleteConnection, TestConnection,
                NextStep, PrevStep, Search, ToggleTable, ToggleSelectAll, Submit,
                WizardCallEnds, TestAnswered, TablesLoaded
  <2>4. ASSUME NEW j \in Jobs, JobStep(j), ~CreateServed(j, Fresh), ~StartServed(j) PROVE RowMoves
    BY <2>4 DEF JobStep, CreateAnswered, StartAnswered, SubmitFails, LateCallLost
  <2> QED
    BY <1>4, <2>1, <2>2, <2>3, <2>4 DEF WizardStep, WizardNext, JobStep
<1>5. CASE ListsStep
  <2>1. ASSUME NEW t \in Tasks, DeleteServed(t) PROVE RowMoves
    BY <1>c, <2>1 DEF DeleteServed
  <2>2. CASE UNCHANGED row
    BY <2>2
  <2> QED
    BY <1>5, <2>1, <2>2 DEF ListsStep, ListsNext, PollTasks, ListEnds, ListServed, ListAnswered, ListFails,
       DeleteTask, DeleteEnds, DeleteAnswered, DeleteFails, LateDeleteLost
<1>6. CASE DetailStep
  <2>1. ASSUME NEW k \in OpCalls, OpServed(k) PROVE RowMoves
    BY <1>c, <2>1 DEF OpServed
  <2>2. CASE UNCHANGED row
    BY <2>2
  <2> QED
    BY <1>6, <2>1, <2>2 DEF DetailStep, DetailNext, PollTask, GetEnds, GetServed, GetAnswered, ClickOp,
       OpEnds, OpAnswered, OpFails, LateOpLost
<1>7. CASE LogsStep
  BY <1>7 DEF LogsStep, LogsNext, AppendLog, StreamStep, StreamOpens, StreamSubscribes, StreamReplays,
              Replay, StreamSends, StreamEnds, StreamBreaks, OpenLogs, LogsServed, LogsAnswered
<1>8. CASE PanelStep
  BY <1>8 DEF PanelStep, PanelNext, SupervisorMoves, Tick, ClickRefresh, RefreshEnds, StatusServed,
              StatusAnswered, FiguresAnswered, CommandStep, StopSignalled, CommandServed,
              CommandAnswered, CommandFails, CallCDC, LateStep, LateServed, LateLost
<1>9. CASE AssessStep
  BY <1>9 DEF AssessStep, AssessNext, EditForm, SaveSourceConfig, ClearSourceConfig, RunAssess,
              DownloadHTML, AssessAnswered
<1> QED
  BY <1>1, <1>2, <1>3, <1>4, <1>5, <1>6, <1>7, <1>8, <1>9 DEF Next, Event

\* One more call, which is asked after the deletion.
LEMMA AskedAgain ==
  ASSUME NEW calls \in Seq(ListCall), NEW list, NEW stale, NEW t \in Tasks
  PROVE  LET more == Append(calls, NewListCall) IN
           /\ more \in Seq(ListCall)
           /\ Away(more, list, stale, t)
<1> DEFINE more == Append(calls, NewListCall)
<1>1. NewListCall \in ListCall /\ Spares(NewListCall, t) /\ ~NewListCall.old
  BY DEF NewListCall, NoTasks, ListCall, Spares
<1> HIDE DEF NewListCall, ListCall
<1>2. /\ more \in Seq(ListCall) /\ Len(calls) \in Nat /\ DOMAIN more = 1 .. Len(calls) + 1
      /\ more[Len(calls) + 1] = NewListCall
  BY <1>1
<1> HIDE DEF more
<1>3. \A k \in DOMAIN more : k < Len(calls) + 1 => Later(more, t, k)
  BY <1>1, <1>2 DEF Later
<1>4. Later(more, t, 0)
  BY <1>1, <1>2 DEF Later
<1> QED
  BY <1>1, <1>2, <1>3, <1>4 DEF Away, more

\* The server answers a call after the deletion.
LEMMA ServedWithout ==
  ASSUME NEW calls \in Seq(ListCall), NEW list, NEW stale, NEW t \in Tasks, Away(calls, list, stale, t),
         NEW i \in DOMAIN calls, calls[i].st = "asked",
         NEW answer \in [Tasks -> Statuses \cup {"none"}], answer[t] = "none"
  PROVE  Away([calls EXCEPT ![i].st = "served", ![i].answer = answer], list, stale, t)
<1> DEFINE new == [calls EXCEPT ![i].st = "served", ![i].answer = answer]
<1>1. DOMAIN new = DOMAIN calls
  OBVIOUS
<1>2. \A k \in DOMAIN calls : (Spares(calls[k], t) => Spares(new[k], t)) /\ new[k].old = calls[k].old
  <2> SUFFICES ASSUME NEW k \in DOMAIN calls
               PROVE  (Spares(calls[k], t) => Spares(new[k], t)) /\ new[k].old = calls[k].old
    OBVIOUS
  <2>1. calls[k] \in ListCall
    OBVIOUS
  <2>2. CASE k = i
    <3>1. new[k] = [calls[i] EXCEPT !.st = "served", !.answer = answer]
      BY <2>2
    <3> QED
      BY <2>1, <2>2, <3>1 DEF ListCall, Spares
  <2>3. CASE k # i
    BY <2>3
  <2> QED
    BY <2>2, <2>3
<1> HIDE DEF new
<1>3. \A k \in DOMAIN calls \cup {0} : Later(calls, t, k) => Later(new, t, k)
  BY <1>1, <1>2 DEF Later
<1>4. Later(calls, t, 0) => Later(new, t, 0)
  BY <1>3
<1>5. \A k \in DOMAIN calls : Spares(new[k], t) \/ new[k].old \/ Later(new, t, k)
  BY <1>2, <1>3 DEF Away
<1>6. stale \/ list[t] = "none" \/ Later(new, t, 0)
  BY <1>4 DEF Away
<1> QED
  BY <1>1, <1>5, <1>6 DEF Away, new

\* A call is over: those before it are old from now on.
Over(calls, i) ==
  [k \in 1 .. Len(calls) - 1 |-> IF k < i THEN [calls[k] EXCEPT !.old = TRUE] ELSE calls[k + 1]]

LEMMA OverTypes ==
  ASSUME NEW calls \in Seq(ListCall), NEW i \in DOMAIN calls
  PROVE  /\ Over(calls, i) \in Seq(ListCall)
         /\ DOMAIN Over(calls, i) = 1 .. Len(calls) - 1
         /\ DOMAIN calls = 1 .. Len(calls) /\ Len(calls) \in Nat \ {0}
         /\ \A k \in 1 .. Len(calls) - 1 :
              /\ k < i => Over(calls, i)[k].old
              /\ k >= i => Over(calls, i)[k] = calls[k + 1]
<1>1. DOMAIN calls = 1 .. Len(calls) /\ Len(calls) \in Nat \ {0} /\ Len(calls) - 1 \in Nat
  BY LenProperties
<1>2. ASSUME NEW c \in ListCall PROVE [c EXCEPT !.old = TRUE] \in ListCall /\ [c EXCEPT !.old = TRUE].old
  BY DEF ListCall
<1>3. ASSUME NEW k \in 1 .. Len(calls) - 1
      PROVE  /\ Over(calls, i)[k] \in ListCall
             /\ k < i => Over(calls, i)[k].old
             /\ k >= i => Over(calls, i)[k] = calls[k + 1]
  <2>1. calls[k] \in ListCall /\ calls[k + 1] \in ListCall
    BY <1>1
  <2>2. Over(calls, i)[k] = IF k < i THEN [calls[k] EXCEPT !.old = TRUE] ELSE calls[k + 1]
    BY DEF Over
  <2> QED
    BY <1>1, <1>2, <2>1, <2>2
<1>4. DOMAIN Over(calls, i) = 1 .. Len(calls) - 1
  BY DEF Over
<1>5. Over(calls, i) = [k \in 1 .. Len(calls) - 1 |-> Over(calls, i)[k]]
  BY DEF Over
<1>6. Over(calls, i) \in Seq(ListCall)
  BY <1>1, <1>3, <1>5
<1> QED
  BY <1>1, <1>3, <1>4, <1>6

LEMMA OverKeeps ==
  ASSUME NEW calls \in Seq(ListCall), NEW i \in DOMAIN calls, NEW t \in Tasks,
         NEW list, NEW stale, Away(calls, list, stale, t),
         NEW list2, NEW stale2, stale2 \/ (~calls[i].old /\ (Spares(calls[i], t) => list2[t] = "none"))
  PROVE  Away(Over(calls, i), list2, stale2, t)
<1> DEFINE rest == Over(calls, i)
           last == Len(calls) - 1
<1>1. /\ DOMAIN rest = 1 .. last /\ DOMAIN calls = 1 .. last + 1 /\ last \in Nat /\ i \in 1 .. last + 1
      /\ \A k \in 1 .. last : (k < i => rest[k].old) /\ (k >= i => rest[k] = calls[k + 1])
  BY OverTypes
<1> HIDE DEF rest, last
<1>2. ASSUME NEW k \in 1 .. last + 1, k >= i, Later(calls, t, k), NEW l \in Int, l < k
      PROVE  Later(rest, t, l)
  <2>1. PICK j \in 1 .. last + 1 : j > k /\ Spares(calls[j], t) /\ ~calls[j].old
    BY <1>1, <1>2 DEF Later
  <2>2. j - 1 \in 1 .. last /\ j - 1 > l /\ rest[j - 1] = calls[j]
    BY <1>1, <1>2, <2>1
  <2> QED
    BY <1>1, <2>1, <2>2 DEF Later
<1>3. ASSUME NEW k \in 1 .. last PROVE Spares(rest[k], t) \/ rest[k].old \/ Later(rest, t, k)
  <2>1. CASE k < i
    BY <1>1, <2>1
  <2>2. CASE k >= i
    <3>1. k + 1 \in 1 .. last + 1 /\ k + 1 >= i /\ rest[k] = calls[k + 1] /\ k < k + 1 /\ k \in Int
      BY <1>1, <2>2
    <3>2. Spares(calls[k + 1], t) \/ calls[k + 1].old \/ Later(calls, t, k + 1)
      BY <1>1, <3>1 DEF Away
    <3> QED
      BY <1>2, <3>1, <3>2
  <2> QED
    BY <1>1, <2>1, <2>2
<1>4. stale2 \/ list2[t] = "none" \/ Later(rest, t, 0)
  <2> SUFFICES ASSUME ~stale2, ~Spares(calls[i], t) PROVE Later(rest, t, 0)
    OBVIOUS
  <2>1. Later(calls, t, i)
    BY <1>1 DEF Away
  <2> QED
    BY <1>1, <1>2, <2>1
<1> QED
  BY <1>1, <1>3, <1>4 DEF Away, rest

\* A step that asks for no list, ends no call and deletes nothing for the page.
LEMMA DeletedStays ==
  ASSUME DeletedInv, RowMoves, UNCHANGED <<listed, listCalls, gone, outdated>>,
         DOMAIN del' = Tasks, \A t \in Tasks : del'[t] = "deleted" => row'[t] = "deleted"
  PROVE  DeletedInv'
<1>1. DOMAIN row' = Tasks /\ \A t \in Tasks : del'[t] = "deleted" \/ t \in gone' => row'[t] = "deleted"
  BY DEF DeletedInv, RowMoves
<1>2. \A t \in gone' : Away(listCalls', listed', outdated', t)
  BY DEF DeletedInv
<1> QED
  BY <1>1, <1>2 DEF DeletedInv

\* The calls that are in flight change, or what is shown.
LEMMA DeletedMoves ==
  ASSUME DeletedInv, RowMoves, UNCHANGED <<gone, del>>, listCalls' \in Seq(ListCall),
         \A t \in gone : Away(listCalls', listed', outdated', t)
  PROVE  DeletedInv'
<1>1. DOMAIN row' = Tasks /\ \A t \in Tasks : del'[t] = "deleted" \/ t \in gone' => row'[t] = "deleted"
  BY DEF DeletedInv, RowMoves
<1> QED
  BY <1>1 DEF DeletedInv

LEMMA CallsForLists ==
  ASSUME DeletedInv, RowMoves, NEW i \in Nat, PollTasks \/ ListEnds(i)
  PROVE  DeletedInv'
<1>0. listCalls \in Seq(ListCall) /\ gone \subseteq Tasks
  BY DEF DeletedInv
<1>1. CASE PollTasks
  <2>1. /\ listCalls' = Append(listCalls, NewListCall) /\ UNCHANGED <<gone, del, listed, outdated>>
    BY <1>1 DEF PollTasks, FetchList
  <2>2. listCalls' \in Seq(ListCall) /\ \A t \in Tasks : Away(listCalls', listed', outdated', t)
    BY <1>0, <2>1, AskedAgain, RouterAssumption
  <2> QED
    BY <1>0, <2>1, <2>2, DeletedMoves
<1>2. CASE ListServed(i)
  <2>1. /\ i \in DOMAIN listCalls /\ listCalls[i].st = "asked"
        /\ listCalls' = [listCalls EXCEPT ![i].st = "served", ![i].answer = Tabulated]
        /\ UNCHANGED <<gone, del, listed, outdated>>
    BY <1>2 DEF ListServed
  <2>2. Tabulated \in [Tasks -> Statuses \cup {"none"}]
    BY DEF Tabulated, Exists
  <2>3. listCalls' \in Seq(ListCall)
    <3> DEFINE c == [listCalls[i] EXCEPT !.st = "served", !.answer = Tabulated]
    <3>1. listCalls[i] \in ListCall
      BY <1>0, <2>1
    <3>2. c \in ListCall
      BY <2>2, <3>1 DEF ListCall
    <3>3. listCalls' = [listCalls EXCEPT ![i] = c]
      BY <2>1
    <3> HIDE DEF c, ListCall
    <3>4. i \in 1 .. Len(listCalls)
      BY <1>0, <2>1
    <3>5. [listCalls EXCEPT ![i] = c] \in Seq(ListCall)
      BY <1>0, <3>2, <3>4, ExceptSeq
    <3> QED
      BY <3>3, <3>5
  <2>4. ASSUME NEW t \in gone PROVE Away(listCalls', listed', outdated', t)
    <3>1. Tabulated[t] = "none"
      BY <1>0 DEF DeletedInv, Tabulated, Exists, Statuses
    <3>2. Away(listCalls, listed, outdated, t)
      BY DEF DeletedInv
    <3> DEFINE answer == Tabulated
    <3>3. answer \in [Tasks -> Statuses \cup {"none"}] /\ answer[t] = "none"
      BY <2>2, <3>1
    <3>4. listCalls' = [listCalls EXCEPT ![i].st = "served", ![i].answer = answer]
      BY <2>1
    <3> HIDE DEF answer
    <3>5. Away([listCalls EXCEPT ![i].st = "served", ![i].answer = answer], listed, outdated, t)
      BY <1>0, <2>1, <3>2, <3>3, ServedWithout
    <3> QED
      BY <2>1, <3>4, <3>5
  <2> QED
    BY <2>1, <2>3, <2>4, DeletedMoves
<1>3. CASE ListAnswered(i) \/ ListFails(i)
  <2>1. i \in DOMAIN listCalls /\ listCalls' = Over(listCalls, i) /\ UNCHANGED <<gone, del>>
    BY <1>3 DEF ListAnswered, ListFails, ListOver, Over
  <2>2. \/ outdated' = TRUE
        \/ /\ listCalls[i].st = "served" /\ listed' = Filtered(listCalls[i].answer)
           /\ outdated' = listCalls[i].old
    BY <1>3 DEF ListAnswered, ListFails
  <2>3. ASSUME NEW t \in gone PROVE Away(listCalls', listed', outdated', t)
    <3>1. outdated' \/ (~listCalls[i].old /\ (Spares(listCalls[i], t) => listed'[t] = "none"))
      <4>1. t \in Tasks
        BY <1>0
      <4> QED
        BY <2>2, <4>1 DEF Spares, Filtered
    <3>2. Away(listCalls, listed, outdated, t)
      BY DEF DeletedInv
    <3>3. Away(Over(listCalls, i), listed', outdated', t)
      BY <1>0, <2>1, <3>1, <3>2, OverKeeps
    <3> QED
      BY <2>1, <3>3
  <2>4. listCalls' \in Seq(ListCall)
    BY <1>0, <2>1, OverTypes
  <2> QED
    BY <2>1, <2>3, <2>4, DeletedMoves
<1> QED
  BY <1>1, <1>2, <1>3 DEF ListEnds

LEMMA Deletions ==
  ASSUME DeletedInv, RowMoves, NEW t \in Tasks, DeleteTask(t) \/ DeleteEnds(t)
  PROVE  DeletedInv'
<1>0. /\ listCalls \in Seq(ListCall) /\ gone \subseteq Tasks /\ DOMAIN del = Tasks /\ DOMAIN row = Tasks
      /\ \A u \in Tasks : del[u] = "deleted" \/ u \in gone => row[u] = "deleted"
  BY DEF DeletedInv
<1>1. ASSUME NEW s, del' = [del EXCEPT ![t] = s], s = "deleted" => row'[t] = "deleted",
             UNCHANGED <<listed, listCalls, gone, outdated>>
      PROVE  DeletedInv'
  <2>1. DOMAIN del' = Tasks /\ \A u \in Tasks : del'[u] = "deleted" => row'[u] = "deleted"
    BY <1>0, <1>1 DEF RowMoves
  <2> QED
    BY <1>1, <2>1, DeletedStays
<1>2. CASE DeleteTask(t) \/ LateDeleteLost(t) \/ DeleteFails(t)
  <2>1. PICK s \in {"asked", "late", "none"} : del' = [del EXCEPT ![t] = s]
    BY <1>2 DEF DeleteTask, LateDeleteLost, DeleteFails
  <2>2. UNCHANGED <<listed, listCalls, gone, outdated>>
    BY <1>2 DEF DeleteTask, LateDeleteLost, DeleteFails
  <2> QED
    BY <1>1, <2>1, <2>2
<1>3. CASE DeleteServed(t)
  <2>1. /\ CallRow("delete", t) /\ UNCHANGED <<listed, listCalls, gone, outdated>>
        /\ del' = [del EXCEPT ![t] = IF @ = "late" THEN "none"
                                     ELSE IF Accepted("delete", t) THEN "deleted" ELSE "refused"]
    BY <1>3 DEF DeleteServed
  <2>2. Accepted("delete", t) => row'[t] = "deleted"
    BY <1>0, <2>1 DEF Accepted, CallRow, Written
  <2> DEFINE s == IF del[t] = "late" THEN "none" ELSE IF Accepted("delete", t) THEN "deleted" ELSE "refused"
  <2>3. del' = [del EXCEPT ![t] = s] /\ (s = "deleted" => Accepted("delete", t))
    BY <2>1
  <2> HIDE DEF s
  <2> QED
    BY <1>1, <2>1, <2>2, <2>3
<1>4. CASE DeleteAnswered(t)
  <2>1. /\ del[t] = "deleted" /\ del' = [del EXCEPT ![t] = "none"] /\ gone' = gone \cup {t}
        /\ listCalls' = Append(listCalls, NewListCall) /\ UNCHANGED <<listed, outdated>>
    BY <1>4 DEF DeleteAnswered, FetchList
  <2>2. listCalls' \in Seq(ListCall) /\ \A u \in Tasks : Away(listCalls', listed', outdated', u)
    BY <1>0, <2>1, AskedAgain
  <2>3. DOMAIN del' = Tasks /\ gone' \subseteq Tasks /\ DOMAIN row' = Tasks
    BY <1>0, <2>1 DEF RowMoves
  <2>4. \A u \in Tasks : del'[u] = "deleted" \/ u \in gone' => row'[u] = "deleted"
    BY <1>0, <2>1 DEF RowMoves
  <2> QED
    BY <2>2, <2>3, <2>4 DEF DeletedInv
<1> QED
  BY <1>2, <1>3, <1>4 DEF DeleteEnds

\* A page that is opened has deleted nothing yet.
LEMMA ListsAnew ==
  ASSUME DeletedInv, RowMoves, ListsMount, del' = Forgotten
  PROVE  DeletedInv'
<1>1. gone' = {} /\ listCalls' \in Seq(ListCall)
  <2>1. NewListCall \in ListCall
    BY DEF NewListCall, NoTasks, ListCall
  <2> QED
    BY <2>1 DEF ListsMount
<1>2. DOMAIN del' = Tasks /\ \A t \in Tasks : del'[t] # "deleted"
  BY DEF Forgotten
<1> QED
  BY <1>1, <1>2 DEF DeletedInv, RowMoves

LEMMA DeletedNext == DeletedInv /\ [Next]_vars => DeletedInv'
<1> SUFFICES ASSUME DeletedInv, [Next]_vars PROVE DeletedInv'
  OBVIOUS
<1>1. RowMoves
  BY RowKept DEF DeletedInv
<1>2. CASE UNCHANGED listVars
  <2>1. UNCHANGED <<listed, listCalls, gone, outdated, del>>
    BY <1>2 DEF listVars
  <2>2. DOMAIN del' = Tasks /\ \A t \in Tasks : del'[t] = "deleted" => row'[t] = "deleted"
    BY <1>1, <2>1 DEF DeletedInv, RowMoves
  <2> QED
    BY <1>1, <2>1, <2>2, DeletedStays
<1>3. CASE PageArrives \/ TabReloads
  BY <1>1, <1>2, <1>3, ListsAnew DEF PageArrives, TabReloads, ListsRoute, ListsReload
<1>4. CASE ListsStep
  <2>1. MaxLists \in Nat
    BY ListAssumption
  <2>2. \/ \E i \in Nat : PollTasks \/ ListEnds(i)
        \/ \E t \in Tasks : DeleteTask(t) \/ DeleteEnds(t)
    BY <1>4, <2>1 DEF ListsStep, ListsNext
  <2> QED
    BY <1>1, <2>2, CallsForLists, Deletions
<1> QED
  BY <1>2, <1>3, <1>4 DEF Next, Event, UserGoes, FeaturesCall, OthersWrite, OthersStart, WizardStep,
     DetailStep, LogsStep, PanelStep, AssessStep, vars

\* A task that the history page has deleted stays out of its list.
THEOREM DeletedAway == Spec => []DeletedStaysAway
<1>1. Init => DeletedInv
  <2> SUFFICES ASSUME Init PROVE DeletedInv
    OBVIOUS
  <2>1. NewListCall \in ListCall
    BY DEF NewListCall, NoTasks, ListCall
  <2>2. /\ row = [t \in Tasks |-> "none"] /\ del = [t \in Tasks |-> "none"] /\ gone = {}
        /\ listCalls = IF OnList THEN <<NewListCall>> ELSE <<>>
    BY DEF Init, RowInit, ListsInit
  <2>3. listCalls \in Seq(ListCall)
    BY <2>1, <2>2
  <2> QED
    BY <2>2, <2>3 DEF DeletedInv
<1>2. DeletedInv => DeletedStaysAway
  <2> SUFFICES ASSUME DeletedInv, listCalls = <<>>, ~outdated, NEW t \in gone PROVE t \notin ShownTasks
    BY DEF DeletedStaysAway
  <2>1. Away(<<>>, listed, outdated, t)
    BY DEF DeletedInv
  <2>2. listed[t] = "none"
    BY <2>1 DEF Away, Later
  <2> QED
    BY <2>2 DEF ShownTasks
<1> QED
  BY <1>1, <1>2, DeletedNext, PTL DEF Spec

-------------------------------------------------------------------------------
\* The log.  A task has always had a buffer, and of a socket it is known which
\* task it is for, once it has its buffer that there is such a buffer, and of the
\* page's own socket that what it has not sent waits in its channel.
Single(ts) == \A t, u \in ts : t = u

Socket == [st : {"none", "opening", "buffer", "replayed", "subscribed", "streaming"}, task : SUBSET Tasks,
           buffer : Nat, chan : Seq(Nat), missed : SUBSET Nat, from : Nat, closed : BOOLEAN, stray : BOOLEAN]
LoadCall == [st : {"asked", "served", "refused"}, task : SUBSET Tasks, visit : Nat,
             answer : SUBSET (Nat \X Nat)]

Fed(s, bufs) ==
  /\ s \in Socket /\ Single(s.task)
  /\ s.st \notin {"none", "opening"} => \A t \in s.task : s.buffer \in 1 .. Len(bufs[t])

Received(s, bufs, shown) ==
  s.st = "streaming" /\ ~s.closed =>
    \A t \in s.task : \A k \in s.from .. bufs[t][s.buffer] :
      \/ k \in s.missed \/ <<s.buffer, k>> \in shown
      \/ \E j \in 1 .. Len(s.chan) : s.chan[j] = k

BuffersOK == buffers \in [Tasks -> Seq(0 .. MaxLogs)] /\ \A t \in Tasks : Len(buffers[t]) > 0
LoadsOK   == logCalls \in Seq(LoadCall) /\ \A i \in DOMAIN logCalls : Single(logCalls[i].task)
TaskIdOK  == taskId \subseteq Tasks /\ Single(taskId)

LogsInv ==
  /\ BuffersOK /\ LoadsOK /\ TaskIdOK
  /\ streams \in [Streams -> Socket] /\ \A i \in Streams : Fed(streams[i], buffers)
  /\ logWs \in Streams \cup {0}
  /\ logWs # 0 => Received(streams[logWs], buffers, logs)

\* Buffers that have grown: what was in them is there.
Grown(bufs, bufs2) ==
  \A t \in Tasks : /\ Len(bufs[t]) <= Len(bufs2[t])
                   /\ \A b \in 1 .. Len(bufs[t]) : bufs2[t][b] = bufs[t][b]

LEMMA FedGrows ==
  ASSUME NEW s, NEW bufs \in [Tasks -> Seq(0 .. MaxLogs)], NEW bufs2 \in [Tasks -> Seq(0 .. MaxLogs)],
         Fed(s, bufs), \A t \in Tasks : Len(bufs[t]) <= Len(bufs2[t])
  PROVE  Fed(s, bufs2)
<1>1. ASSUME NEW t \in Tasks PROVE Len(bufs[t]) \in Nat /\ Len(bufs2[t]) \in Nat
  <2>1. bufs[t] \in Seq(0 .. MaxLogs) /\ bufs2[t] \in Seq(0 .. MaxLogs)
    OBVIOUS
  <2> QED
    BY <2>1
<1>2. s.task \subseteq Tasks
  BY DEF Fed, Socket
<1>3. \A t \in s.task : s.buffer \in 1 .. Len(bufs[t]) => s.buffer \in 1 .. Len(bufs2[t])
  BY <1>1, <1>2
<1> QED
  BY <1>3 DEF Fed

LEMMA LogsGrow ==
  ASSUME LogsInv, buffers' \in [Tasks -> Seq(0 .. MaxLogs)], Grown(buffers, buffers'),
         UNCHANGED <<streams, logs, logCalls, logWs, taskId>>
  PROVE  LogsInv'
<1>1. \A t \in Tasks : Len(buffers[t]) \in Nat \ {0} /\ Len(buffers'[t]) \in Nat
  BY DEF LogsInv, BuffersOK
<1>2. \A t \in Tasks : Len(buffers[t]) <= Len(buffers'[t])
  BY DEF Grown
<1>3. BuffersOK'
  BY <1>1, <1>2 DEF BuffersOK
<1>4. \A i \in Streams : Fed(streams'[i], buffers')
  BY <1>2, FedGrows DEF LogsInv, BuffersOK
<1>5. ASSUME logWs \in Streams PROVE Received(streams[logWs], buffers', logs)
  <2> DEFINE s == streams[logWs]
  <2>1. Fed(s, buffers) /\ Received(s, buffers, logs)
    BY <1>5 DEF LogsInv, Streams
  <2>2. s.task \subseteq Tasks
    BY <2>1 DEF Fed, Socket
  <2>3. s.st = "streaming" => \A t \in s.task : buffers'[t][s.buffer] = buffers[t][s.buffer]
    BY <2>1, <2>2 DEF Fed, Grown
  <2> HIDE DEF s
  <2>4. Received(s, buffers', logs)
    BY <2>1, <2>3 DEF Received
  <2> QED
    BY <2>4 DEF s
<1>6. LoadsOK' /\ TaskIdOK'
  BY DEF LogsInv, LoadsOK, TaskIdOK
<1> QED
  BY <1>3, <1>4, <1>5, <1>6 DEF LogsInv

\* RemoveBuffer: the next buffer of a task is empty.
LEMMA BuffersRemoved ==
  ASSUME LogsInv, NEW ts, RemoveBuffer(ts), UNCHANGED taskId
  PROVE  LogsInv'
<1>1. \A t \in Tasks : buffers[t] \in Seq(0 .. MaxLogs) /\ Len(buffers[t]) \in Nat
  BY DEF LogsInv, BuffersOK
<1>2. buffers' = [t \in Tasks |-> buffers'[t]]
      /\ \A t \in Tasks : buffers'[t] = buffers[t] \/ buffers'[t] = Append(buffers[t], 0)
  BY DEF RemoveBuffer
<1>3. 0 \in 0 .. MaxLogs
  BY LogAssumption
<1>4. ASSUME NEW t \in Tasks
      PROVE  /\ buffers'[t] \in Seq(0 .. MaxLogs) /\ Len(buffers[t]) <= Len(buffers'[t])
             /\ \A b \in 1 .. Len(buffers[t]) : buffers'[t][b] = buffers[t][b]
  <2>1. buffers[t] \in Seq(0 .. MaxLogs) /\ Len(buffers[t]) \in Nat
    BY <1>1
  <2>2. CASE buffers'[t] = buffers[t]
    BY <2>1, <2>2
  <2>3. CASE buffers'[t] = Append(buffers[t], 0)
    <3>1. /\ Append(buffers[t], 0) \in Seq(0 .. MaxLogs)
          /\ Len(Append(buffers[t], 0)) = Len(buffers[t]) + 1
          /\ \A b \in 1 .. Len(buffers[t]) : Append(buffers[t], 0)[b] = buffers[t][b]
      BY <1>3, <2>1, AppendProperties
    <3> QED
      BY <2>1, <2>3, <3>1
  <2> QED
    BY <1>2, <2>2, <2>3
<1>5. buffers' \in [Tasks -> Seq(0 .. MaxLogs)]
  BY <1>2, <1>4
<1>6. Grown(buffers, buffers')
  BY <1>4 DEF Grown
<1> QED
  BY <1>5, <1>6, LogsGrow DEF RemoveBuffer

\* A step of the socket i.
LEMMA SocketMoves ==
  ASSUME LogsInv, NEW i \in Streams, NEW s, streams' = [streams EXCEPT ![i] = s], Fed(s, buffers),
         UNCHANGED <<buffers, logCalls, logWs, taskId>>, logs \subseteq logs',
         i = logWs => Received(s, buffers, logs')
  PROVE  LogsInv'
<1>1. s \in Socket
  BY DEF Fed
<1>2. streams' \in [Streams -> Socket]
  BY <1>1 DEF LogsInv
<1>3. ASSUME NEW k \in Streams
      PROVE  Fed(streams'[k], buffers') /\ streams'[k] = IF k = i THEN s ELSE streams[k]
  BY DEF LogsInv
<1>4. ASSUME logWs \in Streams PROVE Received(streams'[logWs], buffers', logs')
  <2>1. CASE logWs = i
    BY <1>3, <2>1
  <2>2. CASE logWs # i
    <3>1. streams'[logWs] = streams[logWs] /\ Received(streams[logWs], buffers, logs)
      BY <1>3, <1>4, <2>2 DEF LogsInv, Streams
    <3> QED
      BY <3>1 DEF Received
  <2> QED
    BY <2>1, <2>2
<1>5. BuffersOK' /\ LoadsOK' /\ TaskIdOK'
  BY DEF LogsInv, BuffersOK, LoadsOK, TaskIdOK
<1> QED
  BY <1>2, <1>3, <1>4, <1>5 DEF LogsInv

\* An entry for the channel, or one that the full channel drops.
LEMMA FedEntry ==
  ASSUME NEW s, NEW bufs, Fed(s, bufs), NEW n \in Nat, NEW r,
         r = [s EXCEPT !.chan = Append(@, n)] \/ r = [s EXCEPT !.missed = @ \cup {n}]
  PROVE  /\ Fed(r, bufs)
         /\ r.task = s.task /\ r.buffer = s.buffer /\ r.st = s.st /\ r.closed = s.closed /\ r.from = s.from
         /\ \/ r.chan = Append(s.chan, n) /\ r.missed = s.missed
            \/ r.chan = s.chan /\ r.missed = s.missed \cup {n}
<1>1. s \in Socket /\ s.chan \in Seq(Nat) /\ Append(s.chan, n) \in Seq(Nat)
  BY DEF Fed, Socket
<1>2. CASE r = [s EXCEPT !.chan = Append(s.chan, n)]
  <2>1. /\ r \in Socket /\ r.task = s.task /\ r.buffer = s.buffer /\ r.st = s.st /\ r.closed = s.closed
        /\ r.from = s.from /\ r.missed = s.missed /\ r.chan = Append(s.chan, n)
    BY <1>1, <1>2 DEF Socket
  <2> QED
    BY <2>1 DEF Fed
<1>3. CASE r = [s EXCEPT !.missed = s.missed \cup {n}]
  <2>1. /\ r \in Socket /\ r.task = s.task /\ r.buffer = s.buffer /\ r.st = s.st /\ r.closed = s.closed
        /\ r.from = s.from /\ r.chan = s.chan /\ r.missed = s.missed \cup {n}
    BY <1>1, <1>3 DEF Socket
  <2> QED
    BY <2>1 DEF Fed
<1> QED
  BY <1>2, <1>3

LEMMA LogAppended ==
  ASSUME LogsInv, NEW t \in Tasks, AppendLog(t)
  PROVE  LogsInv'
<1> DEFINE b == Len(buffers[t])
           n == buffers[t][b] + 1
<1>0. /\ buffers \in [Tasks -> Seq(0 .. MaxLogs)] /\ buffers[t] \in Seq(0 .. MaxLogs)
      /\ b \in 1 .. Len(buffers[t])
  BY DEF LogsInv, BuffersOK
<1>1. n \in 1 .. MaxLogs /\ buffers[t][b] \in Nat
  BY <1>0, LogAssumption DEF AppendLog
<1> DEFINE mine == [i \in Streams |-> streams[i].st \in Sending /\ t \in streams[i].task /\ streams[i].buffer = b]
<1>2. /\ buffers' = [buffers EXCEPT ![t][b] = n] /\ UNCHANGED <<logs, logCalls, logWs, taskId>>
      /\ streams' = [i \in Streams |-> streams'[i]]
  BY DEF AppendLog, detailVars
<1>3. ASSUME NEW i \in Streams
      PROVE  \/ mine[i] /\ streams'[i] = [streams[i] EXCEPT !.chan = Append(@, n)]
             \/ mine[i] /\ streams'[i] = [streams[i] EXCEPT !.missed = @ \cup {n}]
             \/ ~mine[i] /\ streams'[i] = streams[i]
  BY DEF AppendLog
<1>4. buffers' \in [Tasks -> Seq(0 .. MaxLogs)]
      /\ \A u \in Tasks : /\ Len(buffers'[u]) = Len(buffers[u])
                          /\ \A k \in 1 .. Len(buffers[u]) :
                               buffers'[u][k] = IF u = t /\ k = b THEN n ELSE buffers[u][k]
  <2> DEFINE new == [buffers[t] EXCEPT ![b] = n]
  <2>1. buffers' = [buffers EXCEPT ![t] = new]
    BY <1>2
  <2>2. n \in 0 .. MaxLogs
    BY <1>1
  <2> HIDE DEF b, n
  <2>3. /\ new \in Seq(0 .. MaxLogs) /\ Len(new) = Len(buffers[t])
        /\ \A k \in 1 .. Len(buffers[t]) : new[k] = IF k = b THEN n ELSE buffers[t][k]
    BY <1>0, <2>2, ExceptSeq
  <2> HIDE DEF new
  <2> QED
    BY <1>0, <2>1, <2>3
<1> HIDE DEF b, n, mine
<1>5. ASSUME NEW i \in Streams
      PROVE  streams'[i] \in Socket /\ Fed(streams'[i], buffers')
  <2>1. Fed(streams[i], buffers) /\ n \in Nat
    BY <1>1 DEF LogsInv
  <2>2. Fed(streams'[i], buffers)
    <3>1. CASE streams'[i] = streams[i]
      BY <2>1, <3>1
    <3>2. CASE streams'[i] # streams[i]
      <4> DEFINE r == streams'[i]
      <4>1. r = [streams[i] EXCEPT !.chan = Append(@, n)] \/ r = [streams[i] EXCEPT !.missed = @ \cup {n}]
        BY <1>3, <3>2
      <4> HIDE DEF r
      <4>2. Fed(r, buffers)
        BY <2>1, <4>1, FedEntry
      <4> QED
        BY <4>2 DEF r
    <3> QED
      BY <3>1, <3>2
  <2>3. \A u \in Tasks : Len(buffers[u]) <= Len(buffers'[u])
    BY <1>0, <1>4
  <2>4. Fed(streams'[i], buffers')
    BY <1>0, <1>4, <2>2, <2>3, FedGrows
  <2> QED
    BY <2>4 DEF Fed
<1>6. ASSUME logWs \in Streams PROVE Received(streams'[logWs], buffers', logs)
  <2> DEFINE s == streams[logWs]
             r == streams'[logWs]
  <2>1. Fed(s, buffers) /\ Received(s, buffers, logs) /\ n \in Nat
    BY <1>1, <1>6 DEF LogsInv, Streams
  <2>2. s.task \subseteq Tasks /\ s.chan \in Seq(Nat) /\ s.buffer \in Nat /\ s.from \in Nat /\ Single(s.task)
    BY <2>1 DEF Fed, Socket
  <2>3. \/ mine[logWs] /\ r = [s EXCEPT !.chan = Append(@, n)]
        \/ mine[logWs] /\ r = [s EXCEPT !.missed = @ \cup {n}]
        \/ ~mine[logWs] /\ r = s
    BY <1>3, <1>6
  <2>4. mine[logWs] <=> s.st \in Sending /\ t \in s.task /\ s.buffer = b
    BY <1>6 DEF mine
  <2> HIDE DEF s, r
  <2> SUFFICES ASSUME r.st = "streaming", ~r.closed, NEW u \in r.task, NEW k \in r.from .. buffers'[u][r.buffer]
               PROVE  \/ k \in r.missed \/ <<r.buffer, k>> \in logs
                      \/ \E j \in 1 .. Len(r.chan) : r.chan[j] = k
    BY DEF Received, r
  <2>5. /\ r.task = s.task /\ r.buffer = s.buffer /\ r.st = s.st /\ r.closed = s.closed /\ r.from = s.from
        /\ \/ mine[logWs] /\ r.chan = Append(s.chan, n) /\ r.missed = s.missed
           \/ mine[logWs] /\ r.chan = s.chan /\ r.missed = s.missed \cup {n}
           \/ ~mine[logWs] /\ r = s
    <3>1. CASE ~mine[logWs] /\ r = s
      BY <3>1
    <3>2. CASE mine[logWs] /\ (r = [s EXCEPT !.chan = Append(@, n)] \/ r = [s EXCEPT !.missed = @ \cup {n}])
      BY <2>1, <3>2, FedEntry
    <3> QED
      BY <2>3, <3>1, <3>2
  <2>6. u \in Tasks /\ s.buffer \in 1 .. Len(buffers[u])
    BY <2>1, <2>2, <2>5 DEF Fed
  <2>7. /\ Len(Append(s.chan, n)) = Len(s.chan) + 1 /\ Len(s.chan) \in Nat
        /\ Append(s.chan, n)[Len(s.chan) + 1] = n
        /\ \A j \in 1 .. Len(s.chan) : Append(s.chan, n)[j] = s.chan[j]
    BY <2>1, <2>2, AppendProperties
  <2>8. CASE k \in s.from .. buffers[u][s.buffer]
    <3>1. \/ k \in s.missed \/ <<s.buffer, k>> \in logs
          \/ \E j \in 1 .. Len(s.chan) : s.chan[j] = k
      BY <2>1, <2>5, <2>8 DEF Received
    <3>2. \A j \in 1 .. Len(s.chan) : j \in 1 .. Len(r.chan) /\ r.chan[j] = s.chan[j]
      BY <2>5, <2>7
    <3> QED
      BY <2>5, <3>1, <3>2
  <2>9. CASE k \notin s.from .. buffers[u][s.buffer]
    <3>1. u = t /\ s.buffer = b
      BY <1>4, <2>5, <2>6, <2>9
    <3>2. mine[logWs]
      BY <2>4, <2>5, <3>1 DEF Sending
    <3>3. k = n
      <4>1. buffers'[u][s.buffer] = n
        BY <1>4, <2>6, <3>1
      <4>2. buffers[u][s.buffer] + 1 = n /\ buffers[u][s.buffer] \in Nat
        BY <1>1, <3>1 DEF n
      <4> QED
        BY <2>2, <2>5, <2>9, <4>1, <4>2
    <3> QED
      BY <2>5, <2>7, <3>2, <3>3
  <2> QED
    BY <2>8, <2>9
<1>7. streams' \in [Streams -> Socket]
  BY <1>2, <1>5
<1>8. BuffersOK'
  BY <1>4 DEF LogsInv, BuffersOK
<1>9. LoadsOK' /\ TaskIdOK'
  BY <1>2 DEF LogsInv, LoadsOK, TaskIdOK
<1> QED
  BY <1>2, <1>5, <1>6, <1>7, <1>8, <1>9 DEF LogsInv

\* What a socket receives is in its buffer.
LEMMA StreamMoves ==
  ASSUME LogsInv, NEW i \in Streams, StreamStep(i) \/ StreamBreaks(i)
  PROVE  LogsInv'
<1> DEFINE s == streams[i]
<1>0. /\ Fed(s, buffers) /\ s \in Socket /\ s.task \subseteq Tasks /\ streams \in [Streams -> Socket]
      /\ i = logWs => Received(s, buffers, logs)
  BY DEF LogsInv, Fed, Socket, Streams
<1>1. UNCHANGED <<buffers, logCalls, logWs, taskId>>
  BY DEF StreamStep, StreamOpens, StreamSubscribes, StreamReplays, Replay, StreamSends, StreamEnds,
         StreamBreaks, detailVars
<1>2. Fed(NoStream, buffers) /\ \A shown : Received(NoStream, buffers, shown)
  <2>1. NoStream \in Socket
    BY DEF NoStream, Socket
  <2> QED
    BY <2>1 DEF Fed, Received, Single, NoStream
<1>3. CASE StreamEnds(i) \/ StreamBreaks(i)
  BY <1>1, <1>2, <1>3, SocketMoves DEF StreamEnds, StreamBreaks
<1>4. CASE StreamOpens(i)
  <2>1. PICK t \in s.task : streams' = [streams EXCEPT ![i] =
          IF Exists(t) THEN [@ EXCEPT !.st = "buffer", !.buffer = Len(buffers[t])] ELSE NoStream]
    BY <1>4 DEF StreamOpens
  <2> DEFINE new == [s EXCEPT !.st = "buffer", !.buffer = Len(buffers[t])]
  <2>2. Len(buffers[t]) \in Nat \ {0}
    BY <1>0 DEF LogsInv, BuffersOK
  <2>3. new \in Socket /\ new.st = "buffer" /\ new.buffer = Len(buffers[t]) /\ new.task = s.task
    BY <1>0, <2>2 DEF Socket
  <2>4. streams' = [streams EXCEPT ![i] = new] \/ streams' = [streams EXCEPT ![i] = NoStream]
    BY <1>0, <2>1
  <2>5. UNCHANGED logs
    BY <1>4 DEF StreamOpens
  <2> HIDE DEF new, s
  <2>6. \A u \in s.task : u = t
    BY <1>0 DEF Fed, Single
  <2>7. Fed(new, buffers)
    BY <1>0, <2>2, <2>3, <2>6 DEF Fed
  <2>8. \A shown : Received(new, buffers, shown)
    BY <2>3 DEF Received
  <2> QED
    BY <1>1, <1>2, <2>4, <2>5, <2>7, <2>8, SocketMoves
<1>5. CASE StreamSubscribes(i)
  <2> DEFINE new == [s EXCEPT !.st = "subscribed"]
  <2>1. new \in Socket /\ new.st = "subscribed" /\ new.buffer = s.buffer /\ new.task = s.task
    BY <1>0 DEF Socket
  <2>2. streams' = [streams EXCEPT ![i] = new] /\ UNCHANGED logs /\ s.st = "buffer"
    BY <1>0, <1>5 DEF StreamSubscribes
  <2> HIDE DEF new, s
  <2>3. Fed(new, buffers)
    BY <1>0, <2>1, <2>2 DEF Fed
  <2>4. \A shown : Received(new, buffers, shown)
    BY <2>1 DEF Received
  <2> QED
    BY <1>1, <2>2, <2>3, <2>4, SocketMoves
<1>6. CASE StreamReplays(i)
  <2> DEFINE n == CHOOSE n \in 0 .. MaxLogs : \A t \in s.task : n = buffers[t][s.buffer]
             f == IF n > Kept THEN n - Kept + 1 ELSE 1
             new == [s EXCEPT !.st = "streaming", !.from = f]
  <2>1. /\ s.st = "subscribed" /\ Shows(i, Entries(s.buffer, n))
        /\ streams' = [streams EXCEPT ![i].st = "streaming", ![i].from = f]
    BY <1>6 DEF StreamReplays, Replay
  <2>2. \E m \in 0 .. MaxLogs : \A t \in s.task : m = buffers[t][s.buffer]
    <3>1. CASE s.task = {}
      BY <3>1, LogAssumption
    <3>2. ASSUME NEW t \in s.task PROVE \E m \in 0 .. MaxLogs : \A u \in s.task : m = buffers[u][s.buffer]
      <4>1. s.buffer \in 1 .. Len(buffers[t]) /\ Single(s.task)
        BY <1>0, <2>1 DEF Fed
      <4>2. buffers[t] \in Seq(0 .. MaxLogs)
        BY <1>0, <3>2 DEF LogsInv, BuffersOK
      <4>3. buffers[t][s.buffer] \in 0 .. MaxLogs
        BY <4>1, <4>2, ElementOfSeq
      <4> QED
        BY <4>1, <4>3 DEF Single
    <3> QED
      BY <3>1, <3>2
  <2>3. n \in 0 .. MaxLogs /\ \A t \in s.task : n = buffers[t][s.buffer]
    BY <2>2
  <2> HIDE DEF n
  <2>4. f \in Nat /\ n \in Nat /\ (f = 1 \/ f = n - Kept + 1)
    BY <2>3, LogAssumption
  <2>5. /\ new \in Socket /\ new.st = "streaming" /\ new.from = f /\ new.task = s.task
        /\ new.buffer = s.buffer /\ new.closed = s.closed
    BY <1>0, <2>4 DEF Socket
  <2>6. streams' = [streams EXCEPT ![i] = new]
    BY <1>0, <2>1
  <2>7. Fed(new, buffers)
    <3> HIDE DEF new
    <3> QED BY <1>0, <2>1, <2>5 DEF Fed
  <2>8. i = logWs => Received(new, buffers, logs')
    <3> SUFFICES ASSUME i = logWs, ~new.closed, NEW t \in new.task, NEW k \in new.from .. buffers[t][new.buffer]
                 PROVE  <<new.buffer, k>> \in logs'
      BY DEF Received
    <3>1. k \in f .. n /\ new.buffer = s.buffer
      BY <2>3, <2>5
    <3>2. logs' = logs \cup Entries(s.buffer, n)
      BY <2>1, <2>5 DEF Shows
    <3>3. k \in 1 .. n /\ k > n - Kept
      BY <2>4, <3>1, LogAssumption
    <3>4. <<s.buffer, k>> \in Entries(s.buffer, n)
      BY <3>3 DEF Entries
    <3> QED
      BY <3>1, <3>2, <3>4
  <2>9. logs \subseteq logs'
    BY <2>1 DEF Shows
  <2> HIDE DEF new, f, s
  <2> QED
    BY <1>1, <2>6, <2>7, <2>8, <2>9, SocketMoves
<1>7. CASE StreamSends(i)
  <2> DEFINE new == [s EXCEPT !.chan = Tail(s.chan)]
  <2>1. /\ s.st = "streaming" /\ s.chan # <<>> /\ Shows(i, {<<s.buffer, Head(s.chan)>>})
        /\ streams' = [streams EXCEPT ![i] = new]
    BY <1>0, <1>7 DEF StreamSends
  <2>2. s.chan \in Seq(Nat)
    BY <1>0 DEF Socket
  <2>3. /\ Tail(s.chan) \in Seq(Nat) /\ Head(s.chan) = s.chan[1] /\ Len(s.chan) \in Nat
        /\ Len(Tail(s.chan)) = Len(s.chan) - 1
        /\ \A j \in 1 .. Len(s.chan) - 1 : Tail(s.chan)[j] = s.chan[j + 1]
    BY <2>1, <2>2, HeadTailProperties
  <2>4. /\ new \in Socket /\ new.st = s.st /\ new.from = s.from /\ new.task = s.task /\ new.missed = s.missed
        /\ new.buffer = s.buffer /\ new.closed = s.closed /\ new.chan = Tail(s.chan)
    BY <1>0, <2>3 DEF Socket
  <2>5. Fed(new, buffers)
    <3> HIDE DEF new
    <3> QED BY <1>0, <2>4 DEF Fed
  <2>6. i = logWs => Received(new, buffers, logs')
    <3> SUFFICES ASSUME i = logWs, ~new.closed, NEW t \in new.task, NEW k \in new.from .. buffers[t][new.buffer]
                 PROVE  \/ k \in new.missed \/ <<new.buffer, k>> \in logs'
                        \/ \E j \in 1 .. Len(new.chan) : new.chan[j] = k
      BY DEF Received
    <3>1. \/ k \in s.missed \/ <<s.buffer, k>> \in logs
          \/ \E j \in 1 .. Len(s.chan) : s.chan[j] = k
      <4> HIDE DEF new, s
      <4> QED BY <1>0, <2>1, <2>4 DEF Received
    <3>2. logs' = logs \cup {<<s.buffer, s.chan[1]>>}
      BY <2>1, <2>3, <2>4 DEF Shows
    <3>3. ASSUME NEW j \in 1 .. Len(s.chan), s.chan[j] = k, j # 1
          PROVE  j - 1 \in 1 .. Len(new.chan) /\ new.chan[j - 1] = k
      <4> HIDE DEF new, s
      <4>1. j - 1 \in 1 .. Len(s.chan) - 1 /\ j - 1 + 1 = j
        BY <2>3, <3>3
      <4>2. Tail(s.chan)[j - 1] = s.chan[j]
        BY <2>3, <4>1
      <4> QED BY <2>3, <2>4, <3>3, <4>1, <4>2
    <3> HIDE DEF new, s
    <3> QED
      BY <2>4, <3>1, <3>2, <3>3
  <2>7. logs \subseteq logs'
    BY <2>1 DEF Shows
  <2> HIDE DEF new, s
  <2> QED
    BY <1>1, <2>1, <2>5, <2>6, <2>7, SocketMoves
<1> QED
  BY <1>3, <1>4, <1>5, <1>6, <1>7 DEF StreamStep

\* The loads of the page.
LEMMA LogsLoad ==
  ASSUME TypeInv, LogsInv, OpenLogs \/ \E k \in DOMAIN logCalls : LogsServed(k)
  PROVE  LogsInv'
<1>0. logCalls \in Seq(LoadCall) /\ \A k \in DOMAIN logCalls : Single(logCalls[k].task)
  BY DEF LogsInv, LoadsOK
<1>1. UNCHANGED <<buffers, streams, logs, logWs, taskId>>
  BY DEF OpenLogs, LogsServed, detailVars
<1>2. ASSUME LoadsOK' PROVE LogsInv'
  BY <1>1, <1>2 DEF LogsInv, BuffersOK, TaskIdOK, Fed, Received
<1>3. CASE OpenLogs
  <2> DEFINE load == [st |-> "asked", task |-> taskId, visit |-> visit, answer |-> {}]
  <2>1. logCalls' = Append(logCalls, load)
    BY <1>3 DEF OpenLogs, Load, detailVars, routerVars
  <2>2. load \in LoadCall /\ Single(load.task)
    BY DEF LoadCall, LogsInv, TaskIdOK, TypeInv, RouterTypeOK
  <2> HIDE DEF load
  <2>3. /\ Append(logCalls, load) \in Seq(LoadCall) /\ Len(logCalls) \in Nat
        /\ DOMAIN Append(logCalls, load) = 1 .. Len(logCalls) + 1
        /\ \A k \in 1 .. Len(logCalls) : Append(logCalls, load)[k] = logCalls[k]
        /\ Append(logCalls, load)[Len(logCalls) + 1] = load
    BY <1>0, <2>2, AppendProperties
  <2> QED
    BY <1>0, <1>2, <2>1, <2>2, <2>3 DEF LoadsOK
<1>4. ASSUME NEW k \in DOMAIN logCalls, LogsServed(k) PROVE LogsInv'
  <2>1. PICK t \in logCalls[k].task :
          logCalls' = [logCalls EXCEPT ![k].st = IF Exists(t) THEN "served" ELSE "refused",
                                       ![k].answer = IF Exists(t) THEN All(t) ELSE {}]
    BY <1>4 DEF LogsServed
  <2> DEFINE a    == IF Exists(t) THEN All(t) ELSE {}
             load == [logCalls[k] EXCEPT !.st = IF Exists(t) THEN "served" ELSE "refused", !.answer = a]
  <2>2. logCalls[k] \in LoadCall
    BY <1>0
  <2>3. a \subseteq Nat \X Nat
    <3>1. t \in Tasks
      BY <2>2 DEF LoadCall
    <3>2. Len(buffers[t]) \in Nat
      BY <3>1 DEF LogsInv, BuffersOK
    <3>3. \A b \in Nat : \A n : Entries(b, n) \subseteq Nat \X Nat
      BY DEF Entries
    <3> QED
      BY <3>2, <3>3 DEF All
  <2> HIDE DEF a
  <2>4. load \in LoadCall /\ load.task = logCalls[k].task
    BY <2>2, <2>3 DEF LoadCall
  <2>5. logCalls' = [logCalls EXCEPT ![k] = load]
    BY <2>1 DEF a
  <2> HIDE DEF load
  <2>6. k \in 1 .. Len(logCalls)
    BY <1>0
  <2>7. /\ [logCalls EXCEPT ![k] = load] \in Seq(LoadCall)
        /\ DOMAIN [logCalls EXCEPT ![k] = load] = DOMAIN logCalls
        /\ \A i \in DOMAIN logCalls : [logCalls EXCEPT ![k] = load][i] = IF i = k THEN load ELSE logCalls[i]
    BY <1>0, <2>4, <2>6, ExceptSeq
  <2> QED
    BY <1>0, <1>2, <2>4, <2>5, <2>7 DEF LoadsOK
<1> QED
  BY <1>3, <1>4

\* Sockets that are closed, or left as they are: the page's is not among those
\* that matter any more.
LEMMA FedClosed ==
  ASSUME NEW s, NEW bufs, Fed(s, bufs)
  PROVE  /\ [s EXCEPT !.closed = TRUE] \in Socket /\ Fed([s EXCEPT !.closed = TRUE], bufs)
         /\ \A shown : Received([s EXCEPT !.closed = TRUE], bufs, shown)
<1> DEFINE c == [s EXCEPT !.closed = TRUE]
<1>1. c \in Socket /\ c.closed = TRUE /\ c.st = s.st /\ c.task = s.task /\ c.buffer = s.buffer
  BY DEF Fed, Socket
<1> HIDE DEF c
<1>2. Fed(c, bufs) /\ \A shown : Received(c, bufs, shown)
  BY <1>1 DEF Fed, Received
<1> QED
  BY <1>1, <1>2 DEF c

LEMMA HungSockets ==
  ASSUME LogsInv, NEW i
  PROVE  /\ Hung(i) \in [Streams -> Socket]
         /\ \A k \in Streams : Fed(Hung(i)[k], buffers) /\ (k # i => Hung(i)[k] = streams[k])
<1>1. ASSUME NEW k \in Streams
      PROVE  Hung(i)[k] = streams[k] \/ (k = i /\ Hung(i)[k] = [streams[k] EXCEPT !.closed = TRUE])
  BY DEF Hung, LogsInv
<1>2. ASSUME NEW k \in Streams PROVE Fed(Hung(i)[k], buffers) /\ Hung(i)[k] \in Socket
  <2>1. Fed(streams[k], buffers) /\ streams[k] \in Socket
    BY DEF LogsInv
  <2>2. Fed([streams[k] EXCEPT !.closed = TRUE], buffers) /\ [streams[k] EXCEPT !.closed = TRUE] \in Socket
    BY <2>1, FedClosed
  <2> DEFINE c == [streams[k] EXCEPT !.closed = TRUE]
  <2>3. Hung(i)[k] = streams[k] \/ Hung(i)[k] = c
    BY <1>1
  <2> HIDE DEF c
  <2>4. Fed(c, buffers) /\ c \in Socket
    BY <2>2 DEF c
  <2> QED
    BY <2>1, <2>3, <2>4
<1>3. Hung(i) = [k \in Streams |-> Hung(i)[k]]
  BY DEF Hung, LogsInv
<1> QED
  BY <1>1, <1>2, <1>3

\* A load that is answered replaces what is shown, and closes the socket before.
LEMMA LogsConnect ==
  ASSUME LogsInv, NEW k \in DOMAIN logCalls, LogsAnswered(k)
  PROVE  LogsInv'
<1> DEFINE load == logCalls[k]
           mine == Mine(load)
           before == IF mine /\ logWs # 0 THEN Hung(logWs) ELSE streams
           rest == [n \in 1 .. Len(logCalls) - 1 |-> logCalls[IF n < k THEN n ELSE n + 1]]
<1>0. /\ logCalls \in Seq(LoadCall) /\ load \in LoadCall /\ Single(load.task) /\ Len(logCalls) \in Nat
      /\ \A n \in DOMAIN logCalls : Single(logCalls[n].task)
  BY DEF LogsInv, LoadsOK
<1>1. PICK i \in Streams : ConnectLogWS(i, load)
  BY DEF LogsAnswered
<1>2. /\ i \in Streams /\ (mine \/ i # logWs)
      /\ streams' = [before EXCEPT ![i] = Opening(load)]
      /\ logWs' = IF mine THEN i ELSE logWs
  BY <1>1 DEF ConnectLogWS, Free
<1>3. UNCHANGED <<buffers, taskId>> /\ logCalls' = rest /\ (mine \/ UNCHANGED logs)
  BY DEF LogsAnswered, detailVars
<1>4. LoadsOK'
  <2>1. DOMAIN logCalls = 1 .. Len(logCalls) /\ k \in 1 .. Len(logCalls) /\ Len(logCalls) - 1 \in Nat
    BY <1>0
  <2>2. ASSUME NEW n \in 1 .. Len(logCalls) - 1
        PROVE  rest[n] \in LoadCall /\ Single(rest[n].task)
    <3> DEFINE m == IF n < k THEN n ELSE n + 1
    <3>1. m \in DOMAIN logCalls /\ rest[n] = logCalls[m]
      BY <2>1
    <3> HIDE DEF m, rest
    <3> QED
      BY <1>0, <3>1
  <2>3. rest \in [1 .. Len(logCalls) - 1 -> LoadCall]
    BY <2>2
  <2> HIDE DEF rest
  <2>4. rest \in Seq(LoadCall) /\ DOMAIN rest = 1 .. Len(logCalls) - 1
    BY <2>1, <2>3
  <2> QED
    BY <1>3, <2>2, <2>4 DEF LoadsOK
<1> DEFINE new == Opening(load)
<1>5. new \in Socket /\ Fed(new, buffers) /\ \A shown : Received(new, buffers, shown)
  <2>0. (~mine) \in BOOLEAN
    <3> HIDE DEF mine
    <3> QED BY Zenon
  <2>1. NoStream \in Socket /\ (~mine) \in BOOLEAN /\ load.task \subseteq Tasks
    BY <1>0, <2>0 DEF NoStream, Socket, LoadCall
  <2>2. new \in Socket /\ new.st = "opening" /\ new.task = load.task
    BY <2>1 DEF Opening, Socket, NoStream
  <2> HIDE DEF new
  <2> QED
    BY <1>0, <2>2 DEF Fed, Received
<1>6. /\ before \in [Streams -> Socket]
      /\ \A n \in Streams : Fed(before[n], buffers)
      /\ ~mine => before = streams
  <2>1. CASE mine /\ logWs # 0
    BY <2>1, HungSockets
  <2>2. CASE ~ (mine /\ logWs # 0)
    BY <2>2 DEF LogsInv
  <2> QED
    BY <2>1, <2>2
<1> HIDE DEF new, before, mine, load
<1>7. /\ streams' \in [Streams -> Socket]
      /\ \A n \in Streams : streams'[n] = IF n = i THEN new ELSE before[n]
  BY <1>2, <1>5, <1>6 DEF new
<1>8. \A n \in Streams : Fed(streams'[n], buffers')
  BY <1>3, <1>5, <1>6, <1>7
<1>9. logWs' # 0 => Received(streams'[logWs'], buffers', logs')
  <2>1. CASE mine
    BY <1>2, <1>3, <1>5, <1>7, <2>1
  <2>2. CASE ~mine /\ logWs # 0
    <3>1. logWs \in Streams /\ logWs # i /\ logWs' = logWs /\ logs' = logs /\ before = streams
      BY <1>2, <1>3, <1>6, <2>2 DEF LogsInv
    <3>2. streams'[logWs] = streams[logWs]
      BY <1>7, <3>1
    <3> QED
      BY <1>3, <2>2, <3>1, <3>2 DEF LogsInv
  <2> QED
    BY <1>2, <2>1, <2>2
<1>a. logWs' \in Streams \cup {0} /\ BuffersOK' /\ TaskIdOK'
  BY <1>2, <1>3 DEF LogsInv, BuffersOK, TaskIdOK
<1> QED
  BY <1>4, <1>7, <1>8, <1>9, <1>a DEF LogsInv

\* Leaving the page, opening it, and reloading the tab.
LEMMA LogsRouted ==
  ASSUME TypeInv, TypeInv', LogsInv, PageArrives \/ TabReloads
  PROVE  LogsInv'
<1>0. UNCHANGED buffers /\ visit' \in Nat /\ LoadsOK
  BY DEF PageArrives, TabReloads, LogsRoutes, LogsReload, TypeInv, RouterTypeOK, LogsInv, logVars
<1>1. TaskIdOK'
  <2>1. page' \in Routes
    BY DEF TypeInv, RouterTypeOK
  <2>2. On("detail")' => page'[2] \in Tasks
    BY <2>1 DEF On, Routes
  <2>3. CASE DetailMounts
    BY <2>2, <2>3 DEF DetailMounts, TaskIdOK, Single
  <2>4. CASE UNCHANGED taskId
    BY <2>4 DEF LogsInv, TaskIdOK
  <2> QED
    BY <2>3, <2>4 DEF PageArrives, TabReloads, DetailRoutes, DetailReloads
<1>2. LogsRoutes \/ LogsReload
  BY DEF PageArrives, TabReloads
<1>3. CASE UNCHANGED logVars
  BY <1>0, <1>1, <1>3 DEF LogsInv, BuffersOK, LoadsOK, Fed, Received, logVars
<1>4. CASE (LogsRoutes /\ On("detail") # On("detail")') \/ LogsReload
  <2> DEFINE load == [st |-> "asked", task |-> taskId', visit |-> visit', answer |-> {}]
  <2>1. load \in LoadCall /\ Single(load.task)
    BY <1>0, <1>1 DEF LoadCall, TaskIdOK
  <2>2. logCalls' \in {logCalls, Append(logCalls, load), <<load>>, <<>>}
    BY <1>4 DEF LogsRoutes, LogsReload, Load
  <2> HIDE DEF load
  <2>3. LoadsOK'
    <3>1. logCalls \in Seq(LoadCall) /\ \A n \in DOMAIN logCalls : Single(logCalls[n].task)
      BY <1>0 DEF LoadsOK
    <3>2. /\ Append(logCalls, load) \in Seq(LoadCall) /\ Len(logCalls) \in Nat
          /\ DOMAIN Append(logCalls, load) = 1 .. Len(logCalls) + 1
          /\ \A n \in 1 .. Len(logCalls) : Append(logCalls, load)[n] = logCalls[n]
          /\ Append(logCalls, load)[Len(logCalls) + 1] = load
      BY <2>1, <3>1, AppendProperties
    <3>3. CASE logCalls' = Append(logCalls, load)
      BY <2>1, <3>1, <3>2, <3>3 DEF LoadsOK
    <3>4. CASE logCalls' = <<load>>
      BY <2>1, <3>4 DEF LoadsOK
    <3>5. CASE logCalls' = logCalls
      BY <3>1, <3>5 DEF LoadsOK
    <3>6. CASE logCalls' = <<>>
      <4>1. logCalls' \in Seq(LoadCall) /\ DOMAIN logCalls' = {}
        BY <3>6
      <4> QED
        BY <4>1 DEF LoadsOK
    <3> QED
      BY <2>2, <3>3, <3>4, <3>5, <3>6
  <2>4. streams' \in [Streams -> Socket] /\ \A n \in Streams : Fed(streams'[n], buffers)
    <3>1. CASE LogsReload
      <4>1. streams' = [n \in Streams |-> Hung(n)[n]]
        BY <3>1 DEF LogsReload
      <4>2. \A n \in Streams : Hung(n)[n] \in Socket /\ Fed(Hung(n)[n], buffers)
        BY HungSockets
      <4> QED
        BY <4>1, <4>2
    <3>2. CASE streams' = streams \/ streams' = Hung(logWs)
      BY <3>2, HungSockets DEF LogsInv
    <3> QED
      BY <1>4, <3>1, <3>2 DEF LogsRoutes
  <2>5. logWs' = 0
    BY <1>4 DEF LogsRoutes, LogsReload
  <2> QED
    BY <1>0, <1>1, <2>3, <2>4, <2>5 DEF LogsInv, BuffersOK
<1> QED
  BY <1>2, <1>3, <1>4 DEF LogsRoutes

LEMMA LogsElsewhere ==
  ASSUME LogsInv, going = <<>>,
         \/ UserGoes \/ FeaturesCall \/ OthersWrite \/ OthersStart \/ WizardStep
         \/ ListsStep \/ DetailStep \/ PanelStep \/ AssessStep
  PROVE  LogsInv'
<1>1. UNCHANGED taskId
  <2>1. CASE DetailStep
    BY <2>1 DEF DetailStep, DetailNext, PollTask, GetEnds, GetServed, GetAnswered, ClickOp, OpEnds, OpServed,
                OpAnswered, OpFails, LateOpLost
  <2> QED
    BY <2>1 DEF UserGoes, FeaturesCall, OthersWrite, OthersStart, WizardStep, ListsStep, PanelStep,
                AssessStep, detailVars
<1>2. UNCHANGED logVars \/ \E ts : RemoveBuffer(ts)
  BY DEF UserGoes, FeaturesCall, OthersWrite, OthersStart, WizardStep, ListsStep, DetailStep, PanelStep, AssessStep
<1>3. CASE UNCHANGED logVars
  BY <1>1, <1>3 DEF LogsInv, BuffersOK, LoadsOK, TaskIdOK, Fed, Received, logVars
<1> QED
  BY <1>1, <1>2, <1>3, BuffersRemoved

LEMMA LogsNextKeeps == TypeInv /\ LogsInv /\ [Next]_vars => LogsInv'
<1> SUFFICES ASSUME TypeInv, LogsInv, [Next]_vars PROVE LogsInv'
  OBVIOUS
<1>1. CASE PageArrives \/ TabReloads
  BY <1>1, TypeStep, LogsRouted
<1>2. CASE LogsStep
  BY <1>2, LogAppended, StreamMoves, LogsLoad, LogsConnect, LogAssumption DEF LogsStep, LogsNext
<1>3. CASE UNCHANGED vars
  BY <1>3 DEF LogsInv, BuffersOK, LoadsOK, TaskIdOK, Fed, Received, logVars, detailVars, vars
<1> QED
  BY <1>1, <1>2, <1>3, LogsElsewhere DEF Next, Event

LEMMA LogsInvInit == Init => LogsInv
<1> SUFFICES ASSUME Init PROVE LogsInv
  OBVIOUS
<1> USE DEF Init
<1>1. page \in Routes /\ (On("detail") => page[2] \in Tasks)
  BY DEF RouterInit, On, Routes
<1>2. /\ taskId = IF On("detail") THEN {page[2]} ELSE {}
      /\ logCalls = IF On("detail")
                    THEN <<[st |-> "asked", task |-> {page[2]}, visit |-> visit, answer |-> {}]>> ELSE <<>>
      /\ visit = 1 /\ logWs = 0 /\ buffers = [t \in Tasks |-> <<0>>] /\ streams = [i \in Streams |-> NoStream]
  BY DEF LogsInit, DetailInit, RouterInit
<1>3. TaskIdOK
  BY <1>1, <1>2 DEF TaskIdOK, Single
<1>4. LoadsOK
  <2>1. CASE On("detail")
    <3> DEFINE load == [st |-> "asked", task |-> {page[2]}, visit |-> visit, answer |-> {}]
    <3>1. load \in LoadCall /\ Single(load.task)
      BY <1>1, <1>2, <2>1 DEF LoadCall, Single
    <3>2. logCalls = <<load>>
      BY <1>2, <2>1
    <3> HIDE DEF load
    <3> QED
      BY <3>1, <3>2 DEF LoadsOK
  <2>2. CASE ~On("detail")
    BY <1>2, <2>2 DEF LoadsOK
  <2> QED
    BY <2>1, <2>2
<1>5. BuffersOK
  <2>1. <<0>> \in Seq(0 .. MaxLogs) /\ Len(<<0>>) > 0
    BY LogAssumption
  <2> QED
    BY <1>2, <2>1 DEF BuffersOK
<1>6. NoStream \in Socket /\ Fed(NoStream, buffers)
  BY DEF NoStream, Socket, Fed, Single
<1> QED
  BY <1>2, <1>3, <1>4, <1>5, <1>6 DEF LogsInv

\* The page misses no entry between those that were there and those that come.
THEOREM LogIsComplete == Spec => []LogsComplete
<1>1. LogsInv => LogsComplete
  <2> SUFFICES ASSUME LogsInv, logWs # 0 PROVE LogsComplete
    BY DEF LogsComplete
  <2> DEFINE s == streams[logWs]
  <2>1. Received(s, buffers, logs)
    BY DEF LogsInv
  <2> HIDE DEF s
  <2>2. s.chan = <<>> => Len(s.chan) = 0
    OBVIOUS
  <2> QED
    BY <2>1, <2>2 DEF Received, LogsComplete, s
<1> QED
  BY <1>1, LogsInvInit, LogsNextKeeps, TypeAlways, PTL DEF Spec

===============================================================================
