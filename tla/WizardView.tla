------------------------------ MODULE WizardView ------------------------------
(***************************************************************************)
(* WizardView.vue: the five steps that lead to a migration task.  A        *)
(* connection is reduced to the source database it names; of the target    *)
(* only the test of its connection is left, and of the options nothing.  A *)
(* call that is awaited goes on when its page has been left: what it       *)
(* writes into the page is lost, but a submission still creates, starts    *)
(* and shows its task.                                                     *)
(***************************************************************************)
EXTENDS Router, FiniteSets

CONSTANTS
  Sources,    \* source databases
  Default,    \* the one in a new form
  NoSource,
  TablesOf,   \* TablesOf[s]: the tables that list-tables answers for s
  Searches,   \* bound: what is typed into the search field: the tables that match
  Saved,      \* bound: sources whose connection is saved under a name
  MaxTests,   \* bound: connection tests in flight on one side
  MaxLoads,   \* bound: list-tables calls in flight for one source
  MaxSubmits  \* bound: submissions

AllTables == UNION {TablesOf[s] : s \in Sources}

ASSUME WizardAssumption ==
  /\ Default \in Sources /\ NoSource \notin Sources
  /\ Saved \subseteq Sources
  /\ IsFiniteSet(AllTables) /\ Searches \subseteq SUBSET AllTables
  /\ MaxTests \in Nat /\ MaxLoads \in Nat /\ MaxSubmits \in Nat

Sides == {"source", "target"}
Jobs  == 1 .. MaxSubmits

VARIABLES
  activeStep,
  source,           \* form.source
  tested,           \* tested[d]: sourceTestResult and targetTestResult are ok
  testing,          \* testing[d]: testingSource, testingTarget
  tests,            \* tests[d]: testConnection calls in flight
  availableTables, selectedTables, tableSearch, loadingTables,
  loads,            \* loads[s]: listTables calls in flight for source s
  drift,            \* history: the tables on show, or those of a call in flight,
                    \* may be another source's than form.source
  submitting,       \* loading
  jobs,             \* jobs[j]: the j-th submission
  lastConnection, savedConnection  \* localStorage; one saved connection

formVars   == <<activeStep, source>>
testVars   == <<tested, testing, tests>>
tableVars  == <<availableTables, selectedTables, tableSearch, loadingTables, loads, drift>>
storeVars  == <<lastConnection, savedConnection>>
wizardVars == <<formVars, testVars, tableVars, submitting, jobs, storeVars>>

\* "creating", "created", "starting", "started" and "refused": the call that a
\* submission awaits, and its answer; "late": nobody waits for the answer.
\* started: the server has started its task; lost: its answer never came; loose:
\* submitted with drift.
JobSteps == {"none", "creating", "created", "starting", "started", "refused",
             "late create", "late start", "over"}
NoJob == [st |-> "none", visit |-> 0, task |-> {}, source |-> NoSource, tables |-> {},
          started |-> FALSE, lost |-> FALSE, loose |-> FALSE]

AtStep(n) == On("wizard") /\ activeStep = n

-------------------------------------------------------------------------------
\* setup and onMounted; lastConnection is filled into the form.
WizardMounts ==
  /\ activeStep' = 0
  /\ source' = IF lastConnection = NoSource THEN Default ELSE lastConnection
  /\ tested' = [d \in Sides |-> FALSE]
  /\ testing' = [d \in Sides |-> FALSE] /\ tests' = [d \in Sides |-> 0]
  /\ availableTables' = {} /\ selectedTables' = {} /\ tableSearch' = AllTables
  /\ loadingTables' = FALSE /\ loads' = [s \in Sources |-> 0] /\ drift' = FALSE
  /\ submitting' = FALSE

WizardInit ==
  /\ activeStep = 0 /\ source = Default
  /\ tested = [d \in Sides |-> FALSE]
  /\ testing = [d \in Sides |-> FALSE] /\ tests = [d \in Sides |-> 0]
  /\ availableTables = {} /\ selectedTables = {} /\ tableSearch = AllTables
  /\ loadingTables = FALSE /\ loads = [s \in Sources |-> 0] /\ drift = FALSE
  /\ submitting = FALSE
  /\ jobs = [j \in Jobs |-> NoJob]
  /\ lastConnection = NoSource /\ savedConnection = NoSource

\* The page appears or goes (its refs are of no interest then); a page that
\* stays keeps its state.
WizardRoutes ==
  /\ IF On("wizard") # On("wizard")' THEN WizardMounts
     ELSE UNCHANGED <<formVars, testVars, tableVars, submitting>>
  /\ UNCHANGED <<jobs, storeVars>>

\* Nobody awaits the answer any more.
Awaited == {"creating", "created", "starting", "started", "refused"}

Orphaned(job) ==
  [NoJob EXCEPT !.st = CASE job.st = "creating" -> "late create"
                         [] job.st = "starting" -> "late start"
                         [] job.st \in {"created", "started", "refused"} -> "over"
                         [] OTHER -> job.st,
                !.visit = job.visit, !.task = job.task, !.started = job.started,
                !.lost = job.lost \/ job.st \in {"starting", "started"}]
WizardReloads ==
  /\ WizardMounts
  /\ jobs' = [j \in Jobs |-> Orphaned(jobs[j])]
  /\ UNCHANGED storeVars

-------------------------------------------------------------------------------
\* The form.

\* Another source: whatever has been loaded or is being loaded is not its own.
SetSource(s) ==
  /\ source' = s
  /\ drift' = (drift \/ (s # source /\ (availableTables # {} \/ \E r \in Sources : loads[r] > 0)))
  /\ UNCHANGED <<activeStep, testVars, availableTables, selectedTables, tableSearch,
                 loadingTables, loads, submitting, jobs>>

EditSource(s) == AtStep(0) /\ SetSource(s) /\ UNCHANGED <<storeVars, routerVars, row>>

\* The dialogs, at any step: saveCurrentConnection, loadConnection and
\* deleteConnection.
SaveConnection ==
  /\ On("wizard") /\ source \in Saved
  /\ savedConnection' = source
  /\ UNCHANGED <<formVars, testVars, tableVars, submitting, jobs, lastConnection, routerVars, row>>
LoadConnection ==
  /\ On("wizard") /\ savedConnection # NoSource
  /\ SetSource(savedConnection)
  /\ UNCHANGED <<storeVars, routerVars, row>>
DeleteConnection ==
  /\ On("wizard") /\ savedConnection # NoSource
  /\ savedConnection' = NoSource
  /\ UNCHANGED <<formVars, testVars, tableVars, submitting, jobs, lastConnection, routerVars, row>>

\* testConnection; the button shows that it is loading and takes no click then.
TestConnection(d) ==
  /\ AtStep(IF d = "source" THEN 0 ELSE 1) /\ ~testing[d] /\ tests[d] < MaxTests
  /\ testing' = [testing EXCEPT ![d] = TRUE]
  /\ tested' = [tested EXCEPT ![d] = FALSE]
  /\ tests' = [tests EXCEPT ![d] = @ + 1]
  /\ UNCHANGED <<formVars, tableVars, submitting, jobs, storeVars, routerVars, row>>

\* The finally block ends the loading of both buttons.
TestEnds(d) ==
  /\ tests' = [tests EXCEPT ![d] = @ - 1]
  /\ testing' = [e \in Sides |-> FALSE]

TestAnswered(d) ==
  /\ tests[d] > 0
  /\ \/ \E ok \in BOOLEAN : tested' = [tested EXCEPT ![d] = ok] /\ Answered
     \/ Unanswered("test") /\ UNCHANGED tested
  /\ TestEnds(d)
  /\ UNCHANGED <<formVars, tableVars, submitting, jobs, storeVars, row>>

-------------------------------------------------------------------------------
\* The steps and the tables.

\* loadTables.  (Wrong variant: the selection is kept.)
LoadTablesKept ==
  /\ loads[source] < MaxLoads
  /\ loads' = [loads EXCEPT ![source] = @ + 1]
  /\ loadingTables' = TRUE
  /\ availableTables' = {}
  /\ drift' = (\E s \in Sources \ {source} : loads[s] > 0)
  /\ UNCHANGED <<selectedTables, tableSearch>>
LoadTables ==
  /\ loads[source] < MaxLoads
  /\ loads' = [loads EXCEPT ![source] = @ + 1]
  /\ loadingTables' = TRUE
  /\ availableTables' = {} /\ selectedTables' = {}
  /\ drift' = (\E s \in Sources \ {source} : loads[s] > 0)
  /\ UNCHANGED tableSearch

\* nextStep: both connections have been tested with success, as they were then.
NextStep ==
  /\ On("wizard") /\ activeStep < 4
  /\ activeStep = 0 => tested["source"]
  /\ activeStep = 1 => tested["target"]
  /\ IF activeStep = 1 THEN LoadTables ELSE UNCHANGED tableVars
  /\ activeStep' = activeStep + 1
  /\ UNCHANGED <<source, testVars, submitting, jobs, storeVars, routerVars, row>>

PrevStep ==
  /\ On("wizard") /\ activeStep > 0
  /\ activeStep' = activeStep - 1
  /\ UNCHANGED <<source, testVars, tableVars, submitting, jobs, storeVars, routerVars, row>>

TablesLoaded(s) ==
  /\ loads[s] > 0
  /\ loads' = [loads EXCEPT ![s] = @ - 1]
  /\ loadingTables' = FALSE
  /\ \/ availableTables' = TablesOf[s] /\ Answered
     \/ Unanswered("tables") /\ UNCHANGED availableTables
  /\ UNCHANGED <<formVars, testVars, selectedTables, tableSearch, drift, submitting, jobs, storeVars, row>>

\* The table is mounted while a list is there and none is awaited.
filteredTables == availableTables \cap tableSearch
Selectable == AtStep(2) /\ ~loadingTables /\ availableTables # {}

Search(match) ==
  /\ AtStep(2)
  /\ tableSearch' = match
  /\ UNCHANGED <<formVars, testVars, availableTables, selectedTables, loadingTables, loads, drift,
                 submitting, jobs, storeVars, routerVars, row>>

\* handleTableSelection, for a row that is shown; rows that are not shown stay
\* selected (reserve-selection).
ToggleTable(name) ==
  /\ Selectable /\ name \in filteredTables
  /\ selectedTables' = IF name \in selectedTables THEN selectedTables \ {name}
                       ELSE selectedTables \cup {name}
  /\ UNCHANGED <<formVars, testVars, availableTables, tableSearch, loadingTables, loads, drift,
                 submitting, jobs, storeVars, routerVars, row>>

\* toggleSelectAll compares numbers.
ToggleSelectAll ==
  /\ Selectable
  /\ selectedTables' =
       IF Cardinality(selectedTables) = Cardinality(filteredTables) /\ filteredTables # {}
       THEN {} ELSE selectedTables \cup filteredTables
  /\ UNCHANGED <<formVars, testVars, availableTables, tableSearch, loadingTables, loads, drift,
                 submitting, jobs, storeVars, routerVars, row>>

-------------------------------------------------------------------------------
\* submit.  (Wrong variant: the button takes a second click.)
Unguarded == TRUE
Clickable == ~submitting

Submit(j) ==
  /\ AtStep(4) /\ Clickable
  /\ jobs[j].st = "none" /\ \A i \in 1 .. j - 1 : jobs[i].st # "none"
  /\ submitting' = TRUE
  /\ lastConnection' = source
  /\ jobs' = [jobs EXCEPT ![j] = [NoJob EXCEPT
       !.st = "creating", !.visit = visit, !.source = source, !.tables = selectedTables,
       !.loose = drift]]
  /\ UNCHANGED <<formVars, testVars, tableVars, savedConnection, routerVars, row>>

\* The server serves createTask and startTask, also when nobody waits; what has
\* been asked for is the server's from then on.
CreateServed(j, t) ==
  /\ jobs[j].st \in {"creating", "late create"}
  /\ CreateRow(t)
  /\ jobs' = [jobs EXCEPT ![j] = [NoJob EXCEPT
       !.st = IF jobs[j].st = "creating" THEN "created" ELSE "over",
       !.visit = jobs[j].visit, !.task = {t}]]
  /\ UNCHANGED <<formVars, testVars, tableVars, submitting, storeVars, routerVars>>

StartServed(j) ==
  /\ jobs[j].st \in {"starting", "late start"}
  /\ \E t \in jobs[j].task :
       /\ StartRow(t)
       /\ jobs' = [jobs EXCEPT
            ![j].st = IF @ = "late start" THEN "over"
                      ELSE IF StartAccepted(t) THEN "started" ELSE "refused",
            ![j].started = StartAccepted(t)]
  /\ UNCHANGED <<formVars, testVars, tableVars, submitting, storeVars, routerVars>>

\* The finally block; a page that has been left has no button to release.
\* (Wrong variant: the catch block returns before it.)
EndSubmitNot(j) == UNCHANGED submitting
EndSubmit(j) ==
  submitting' = IF On("wizard") /\ jobs[j].visit = visit THEN FALSE ELSE submitting

\* The answer of createTask: the task is started.
CreateAnswered(j) ==
  /\ jobs[j].st = "created"
  /\ jobs' = [jobs EXCEPT ![j].st = "starting"]
  /\ UNCHANGED <<formVars, testVars, tableVars, submitting, storeVars, routerVars, row>>

\* The answer of startTask: the task is shown.
StartAnswered(j) ==
  /\ jobs[j].st = "started"
  /\ jobs' = [jobs EXCEPT ![j].st = "over"]
  /\ \E t \in jobs[j].task : Push(<<"detail", t>>)
  /\ EndSubmit(j)
  /\ UNCHANGED <<formVars, testVars, tableVars, storeVars, row>>

\* The catch block: an error of the server, or no answer in time.
SubmitFails(j) ==
  /\ \/ jobs[j].st = "refused" /\ Answered
     \/ jobs[j].st \in {"creating", "created", "starting", "started"} /\ Unanswered("submit")
  /\ jobs' = [jobs EXCEPT ![j] = Orphaned(@)]
  /\ EndSubmit(j)
  /\ UNCHANGED <<formVars, testVars, tableVars, storeVars, row>>

\* A late call never reaches the server.
LateCallLost(j) ==
  /\ jobs[j].st \in {"late create", "late start"}
  /\ jobs' = [jobs EXCEPT ![j].st = "over"]
  /\ UNCHANGED <<formVars, testVars, tableVars, submitting, storeVars, routerVars, row>>

-------------------------------------------------------------------------------
UserEdits ==
  \/ \E s \in Sources : s # source /\ EditSource(s)
  \/ SaveConnection \/ LoadConnection \/ DeleteConnection
  \/ \E d \in Sides : TestConnection(d)
  \/ NextStep \/ PrevStep
  \/ \E match \in Searches : Search(match)
  \/ \E name \in AllTables : ToggleTable(name)
  \/ ToggleSelectAll
  \/ \E j \in Jobs : Submit(j)

WizardCallEnds ==
  \/ \E d \in Sides : TestAnswered(d)
  \/ \E s \in Sources : TablesLoaded(s)

JobStep(j) ==
  \/ CreateServed(j, Fresh) \/ StartServed(j)
  \/ CreateAnswered(j) \/ StartAnswered(j) \/ SubmitFails(j) \/ LateCallLost(j)

WizardNext == UserEdits \/ WizardCallEnds \/ \E j \in Jobs : JobStep(j)

-------------------------------------------------------------------------------
\* Type invariant: the refs of the page and its calls keep their types.
JobRecord ==
  [st : JobSteps, visit : Nat, task : SUBSET Tasks, source : Sources \cup {NoSource},
   tables : SUBSET AllTables, started : BOOLEAN, lost : BOOLEAN, loose : BOOLEAN]
WizardTypeOK ==
  /\ activeStep \in 0 .. 4 /\ source \in Sources
  /\ tested \in [Sides -> BOOLEAN]
  /\ testing \in [Sides -> BOOLEAN] /\ tests \in [Sides -> 0 .. MaxTests]
  /\ availableTables \subseteq AllTables /\ selectedTables \subseteq AllTables
  /\ tableSearch \subseteq AllTables /\ loadingTables \in BOOLEAN
  /\ loads \in [Sources -> 0 .. MaxLoads] /\ drift \in BOOLEAN
  /\ submitting \in BOOLEAN
  /\ jobs \in [Jobs -> JobRecord]
  /\ lastConnection \in Sources \cup {NoSource} /\ savedConnection \in Sources \cup {NoSource}

\* A migration is never asked for tables that its source does not have, however
\* the steps are walked back and forth, calls overlap and the list is filtered:
\* loadTables empties the selection, and the table keeps only rows it has shown.
\* What it does not guard against is a connection that is edited or loaded
\* between the list and the submission (drift).
TablesMatch ==
  \A j \in Jobs : jobs[j].st = "creating" /\ ~jobs[j].loose =>
    jobs[j].tables \subseteq TablesOf[jobs[j].source]

\* The clicks of one visit of the wizard start one task: the button is loading
\* until the answer to startTask leads to the task's page, and no earlier.  A
\* second one is started only when the answer to the first never came.
StartedOnce ==
  \A i, j \in Jobs :
    /\ i < j /\ jobs[i].visit = jobs[j].visit
    /\ jobs[i].started /\ jobs[j].started
    => jobs[i].lost

\* A button or a list that is loading awaits a call of this visit, although the end
\* of one test releases the button of the other, tests and table loads overlap, and
\* the calls of a submission follow each other: with every call ended nothing is
\* left loading, which would keep the user from trying again.
LoadingAwaits ==
  /\ \A d \in Sides : testing[d] => tests[d] > 0
  /\ loadingTables => \E s \in Sources : loads[s] > 0
  /\ On("wizard") /\ submitting =>
       \E j \in Jobs : jobs[j].visit = visit /\ jobs[j].st \in Awaited
===============================================================================
