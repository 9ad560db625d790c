------------------------------ MODULE AssessView ------------------------------
(***************************************************************************)
(* AssessView.vue: the compatibility report of a source database and its   *)
(* download.  One flag, loading, guards both calls; the form can be        *)
(* changed, saved and cleared while they run.                              *)
(***************************************************************************)
EXTENDS Router

CONSTANTS
  Databases,  \* what the form can name
  Blank,      \* a form without host and database
  MaxAssess   \* bound: calls in flight

ASSUME AssessAssumption == Blank \notin Databases /\ MaxAssess \in Nat

VARIABLES
  sourceForm, savedForm,  \* the form, and the copy in localStorage
  loading,
  report,       \* {} or {what the report is of}
  problems,     \* the report lists problems, and the download is offered
  assesses,     \* calls in flight
  wanted        \* history: what the latest assessment was asked of

assessVars == <<sourceForm, savedForm, loading, report, problems, assesses, wanted>>

Forms == Databases \cup {Blank}

\* format html is a download.
Request(format) == [format |-> format, of |-> sourceForm]

-------------------------------------------------------------------------------
\* setup: the saved form, or an empty one.
AssessMounts ==
  /\ sourceForm' = savedForm
  /\ loading' = FALSE /\ report' = {} /\ problems' = FALSE /\ assesses' = <<>>
  /\ wanted' = {}
  /\ UNCHANGED savedForm

AssessInit ==
  /\ sourceForm = Blank /\ savedForm = Blank
  /\ loading = FALSE /\ report = {} /\ problems = FALSE /\ assesses = <<>>
  /\ wanted = {}

AssessRoutes == IF page' = page THEN UNCHANGED assessVars ELSE AssessMounts

-------------------------------------------------------------------------------
EditForm(f) ==
  /\ On("assess") /\ f # sourceForm /\ sourceForm' = f
  /\ UNCHANGED <<savedForm, loading, report, problems, assesses, wanted, routerVars, row>>
SaveSourceConfig ==
  /\ On("assess") /\ savedForm' = sourceForm
  /\ UNCHANGED <<sourceForm, loading, report, problems, assesses, wanted, routerVars, row>>
ClearSourceConfig ==
  /\ On("assess") /\ savedForm' = Blank /\ sourceForm' = Blank
  /\ UNCHANGED <<loading, report, problems, assesses, wanted, routerVars, row>>

\* A button that is loading takes no click.  (Wrong variant: it does.)
AlwaysReady == TRUE
Ready == ~loading

RunAssess ==
  /\ On("assess") /\ Ready /\ sourceForm # Blank /\ Len(assesses) < MaxAssess
  /\ loading' = TRUE /\ report' = {} /\ problems' = FALSE
  /\ assesses' = Append(assesses, Request("json"))
  /\ wanted' = {sourceForm}
  /\ UNCHANGED <<sourceForm, savedForm, routerVars, row>>

DownloadHTML ==
  /\ On("assess") /\ Ready /\ problems /\ sourceForm # Blank /\ Len(assesses) < MaxAssess
  /\ loading' = TRUE
  /\ assesses' = Append(assesses, Request("html"))
  /\ UNCHANGED <<sourceForm, savedForm, report, problems, wanted, routerVars, row>>

AssessWithout(i) == [k \in 1 .. Len(assesses) - 1 |-> assesses[IF k < i THEN k ELSE k + 1]]

\* The report; a download, an error, or the end of the connection.
AssessAnswered(i) ==
  /\ i \in DOMAIN assesses
  /\ \/ /\ assesses[i].format = "json" /\ Answered
        /\ report' = {assesses[i].of} /\ problems' \in BOOLEAN
     \/ Answered /\ UNCHANGED <<report, problems>>
  /\ assesses' = AssessWithout(i) /\ loading' = FALSE
  /\ UNCHANGED <<sourceForm, savedForm, wanted, row>>

AssessNext ==
  \/ \E f \in Forms : EditForm(f)
  \/ SaveSourceConfig \/ ClearSourceConfig
  \/ RunAssess \/ DownloadHTML
  \/ \E i \in 1 .. MaxAssess : AssessAnswered(i)

-------------------------------------------------------------------------------
\* The report on the page is the one that was asked for last, and while a call is
\* in flight nothing else can be asked for: two assessments that overlap would
\* show whichever answer comes last.
ReportIsLatest ==
  /\ report \subseteq wanted
  /\ ~loading => assesses = <<>>
===============================================================================
