-------------------------------- MODULE Router --------------------------------
(***************************************************************************)
(* The frame of the web application in one browser tab: the routes         *)
(* (router/index.ts), the menu (App.vue), and the way from page to page.   *)
(* The build has all views in one chunk (vite.config.ts), so that the      *)
(* page a push leads to is there before the next event: between the push   *)
(* and Arrive nothing else happens.  A page is <<its view>>, and for the   *)
(* detail page <<"detail", its task>>.                                     *)
(***************************************************************************)
EXTENDS TaskApi, Integers, Sequences

CONSTANTS
  First,      \* bound: the views that the tab is opened with
  Ways,       \* bound: <<from, to>>: the ways that the user goes; <<v, v>>: a reload
  MaxVisits,  \* bound: pages that are opened
  MaxLost,    \* bound: calls that end without an answer
  Losable     \* bound: which calls may

Views == {"wizard", "tasks", "detail", "history", "assess", "cdc"}

ASSUME RouterAssumption ==
  /\ Tasks # {} /\ First \subseteq Views /\ Ways \subseteq Views \X Views
  /\ MaxVisits \in Nat /\ MaxLost \in Nat

VARIABLES
  page,        \* the page that is mounted
  going,       \* where a push leads, <<>> for nowhere
  visit,       \* pages opened so far
  lost,        \* calls that have ended without an answer
  cdcEnabled   \* App.vue's cdcEnabled

routerVars == <<page, going, visit, lost, cdcEnabled>>

Routes == {<<v>> : v \in Views \ {"detail"}} \cup {<<"detail", t>> : t \in Tasks}

On(view) == page[1] = view

Push(to) == going' = to /\ UNCHANGED <<page, visit, lost, cdcEnabled>>

\* A call ends: with an answer, or (after 30 seconds, those of axios) without.
Answered == UNCHANGED routerVars
Unanswered(call) ==
  /\ call \in Losable /\ lost < MaxLost
  /\ lost' = lost + 1
  /\ UNCHANGED <<page, going, visit, cdcEnabled>>

\* Any URL can be opened first; the menu is there before /features has answered.
RouterInit ==
  /\ page \in {to \in Routes : to[1] \in First}
  /\ going = <<>> /\ visit = 1 /\ lost = 0 /\ cdcEnabled = FALSE

\* The menu, and the links and buttons of the pages that only lead to another
\* page; shown are the tasks in the list of the page.
UserPushes(to, shown) ==
  /\ visit < MaxVisits /\ to[1] # page[1] /\ <<page[1], to[1]>> \in Ways
  /\ to[1] = "cdc" => cdcEnabled
  /\ to[1] = "detail" => page[1] \in {"tasks", "history"} /\ to[2] \in shown
  /\ Push(to)

\* App.vue asks /features once; a failure leaves the menu as it is.
FeaturesAnswered(enabled) ==
  /\ cdcEnabled' = enabled
  /\ UNCHANGED <<page, going, visit, lost>>

\* The same route again changes nothing.
Arrive ==
  /\ going # <<>>
  /\ page' = going /\ going' = <<>>
  /\ visit' = IF going = page THEN visit ELSE visit + 1
  /\ UNCHANGED <<lost, cdcEnabled>>

\* The tab is reloaded.
Reload ==
  /\ visit < MaxVisits /\ <<page[1], page[1]>> \in Ways
  /\ visit' = visit + 1
  /\ cdcEnabled' = FALSE
  /\ UNCHANGED <<page, going, lost>>
===============================================================================
