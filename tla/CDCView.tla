------------------------------- MODULE CDCView -------------------------------
(***************************************************************************)
(* CDCView.vue: the panel that starts and stops the replication process    *)
(* and shows, every five seconds, the supervisor's state as GET            *)
(* /cdc/status has it.  What the same answer says of the status file, and  *)
(* the figures of /stats and /checkpoint, are left out; the calls are not. *)
(***************************************************************************)
EXTENDS Router

CONSTANTS
  Configured,   \* bound: the values of cdc.enable
  Drifts,       \* bound: states that the supervisor reaches by itself
  MaxRefreshes  \* bound: refresh calls in flight

CtlStates  == {"stopped", "starting", "running", "stopping", "failed", "adopted"}

ASSUME PanelAssumption ==
  /\ Configured \subseteq BOOLEAN /\ Drifts \subseteq CtlStates
  /\ MaxRefreshes \in Nat \ {0}

VARIABLES
  enabled, ctl,       \* the server's: cdc.enable, the supervisor
  control, disabled,  \* what the page shows
  timer,              \* the interval timer
  busy, command,      \* the command that the page awaits
  late,               \* commands of pages that are gone
  refreshes           \* refresh() calls in flight

serverVars == <<enabled, ctl>>
shownVars  == <<control, disabled>>
cdcVars    == <<serverVars, shownVars, timer, busy, command, late, refreshes>>

Commands == {"start", "stop"}
Active   == {"running", "starting", "adopted"}

\* A refresh asks for the status ("asked", "answered") and then for the figures.
PanelCall(of) == [st |-> "asked", of |-> of, read |-> "stopped"]

-------------------------------------------------------------------------------
PanelMounts ==
  /\ control' = "stopped" /\ disabled' = FALSE
  /\ timer' = On("cdc")'
  /\ busy' = FALSE /\ command' = "none"
  /\ refreshes' = IF On("cdc")' THEN <<PanelCall("timer")>> ELSE <<>>
  /\ late' = late \cup (Commands \cap {command})
  /\ UNCHANGED serverVars

PanelInit ==
  /\ enabled \in Configured /\ ctl = "stopped"
  /\ control = "stopped" /\ disabled = FALSE
  /\ timer = On("cdc")
  /\ busy = FALSE /\ command = "none"
  /\ refreshes = (IF On("cdc") THEN <<PanelCall("timer")>> ELSE <<>>)
  /\ late = {}

PanelRoutes == IF page' = page THEN UNCHANGED cdcVars ELSE PanelMounts

-------------------------------------------------------------------------------
\* The server; CDCSupervisor has it in full.  What it does while the panel is not
\* open cannot be told from what it does before the first answer, and is left out.
SupervisorMoves ==
  /\ enabled /\ On("cdc")
  /\ ctl' \in Drifts
  /\ UNCHANGED <<enabled, shownVars, timer, busy, command, late, refreshes, routerVars, row>>

\* handleCDCStart; with cdc.enable off, and when the process cannot be started, it
\* refuses.
CtlStarts ==
  IF ~enabled \/ ctl \in Active THEN UNCHANGED ctl ELSE ctl' \in {"running", "failed"}
StopSignalled ==
  /\ enabled /\ "stop" \in late \cup {command} /\ ctl \in Active
  /\ ctl' = "stopping"
  /\ UNCHANGED <<enabled, shownVars, timer, busy, command, late, refreshes, routerVars, row>>
\* handleCDCStop: the answer comes when the process has ended.
CtlStops ==
  /\ ctl \notin Active
  /\ ctl' = IF ctl = "stopping" THEN "stopped" ELSE ctl
CommandServed ==
  /\ command \in Commands
  /\ IF command = "start" THEN CtlStarts ELSE CtlStops
  /\ command' = "served"
  /\ UNCHANGED <<enabled, shownVars, timer, busy, late, refreshes, routerVars, row>>
LateServed(name) ==
  /\ name \in late
  /\ IF name = "start" THEN CtlStarts ELSE CtlStops
  /\ late' = late \ {name}
  /\ UNCHANGED <<enabled, shownVars, timer, busy, command, refreshes, routerVars, row>>

-------------------------------------------------------------------------------
\* refresh, called by the timer, the button or a command.
Refresh(of) ==
  /\ Len(refreshes) < MaxRefreshes
  /\ refreshes' = Append(refreshes, PanelCall(of))

Tick ==
  /\ timer /\ Refresh("timer")
  /\ UNCHANGED <<serverVars, shownVars, timer, busy, command, late, routerVars, row>>
ClickRefresh ==
  /\ On("cdc") /\ ~disabled /\ Refresh("timer")
  /\ UNCHANGED <<serverVars, shownVars, timer, busy, command, late, routerVars, row>>

StatusServed(i) ==
  /\ i \in DOMAIN refreshes /\ refreshes[i].st = "asked"
  /\ refreshes' = [refreshes EXCEPT ![i] = [@ EXCEPT !.st = "answered", !.read = ctl]]
  /\ UNCHANGED <<serverVars, shownVars, timer, busy, command, late, routerVars, row>>

Figures(i) ==
  refreshes' = [refreshes EXCEPT ![i] = [@ EXCEPT !.st = "figures", !.read = "stopped"]]

\* The refresh is over, and the command that awaits it (its finally block).
RefreshOver(i) ==
  /\ refreshes' = [k \in 1 .. Len(refreshes) - 1 |-> refreshes[IF k < i THEN k ELSE k + 1]]
  /\ IF refreshes[i].of = "command" THEN busy' = FALSE /\ command' = "none"
     ELSE UNCHANGED <<busy, command>>

\* The answer is shown, whichever it is; a module that is switched off is not
\* asked about again.  (Wrong variant: the timer goes on.)
StatusShownPolling(i) ==
  IF enabled
  THEN /\ control' = refreshes[i].read
       /\ Figures(i)
       /\ UNCHANGED <<disabled, timer, busy, command>>
  ELSE /\ disabled' = TRUE /\ RefreshOver(i)
       /\ UNCHANGED <<control, timer>>
StatusShown(i) ==
  IF enabled
  THEN /\ control' = refreshes[i].read
       /\ Figures(i)
       /\ UNCHANGED <<disabled, timer, busy, command>>
  ELSE /\ disabled' = TRUE /\ timer' = FALSE /\ RefreshOver(i)
       /\ UNCHANGED control

StatusAnswered(i) ==
  /\ i \in DOMAIN refreshes
  /\ \/ refreshes[i].st = "answered" /\ StatusShown(i) /\ Answered
     \/ /\ refreshes[i].st \in {"asked", "answered"} /\ Unanswered("status")
        /\ Figures(i) /\ UNCHANGED <<shownVars, timer, busy, command>>
  /\ UNCHANGED <<serverVars, late, row>>

\* Both answers, or none: a failure of these two calls is the same.
FiguresAnswered(i) ==
  /\ i \in DOMAIN refreshes /\ refreshes[i].st = "figures"
  /\ RefreshOver(i)
  /\ UNCHANGED <<serverVars, shownVars, timer, late, routerVars, row>>

-------------------------------------------------------------------------------
\* isActive and canStop, by what is shown; callCDC is not called while busy.
CommandOffered(name) == ~busy /\ ~disabled /\ (name = "stop") = (control \in Active)

CallCDC(name) ==
  /\ On("cdc") /\ CommandOffered(name)
  /\ busy' = TRUE /\ command' = name
  /\ UNCHANGED <<serverVars, shownVars, timer, late, refreshes, routerVars, row>>

\* An answer, whatever it says: what the command has led to is asked for.
CommandAnswered ==
  /\ command = "served"
  /\ command' = "refreshing" /\ Refresh("command")
  /\ UNCHANGED <<serverVars, shownVars, timer, busy, late, routerVars, row>>

\* The catch block.  (Wrong variant: the button is not released.)
CommandFailsBusy ==
  /\ command \in Commands \cup {"served"} /\ Unanswered("command")
  /\ command' = "none"
  /\ late' = late \cup (Commands \cap {command})
  /\ UNCHANGED <<serverVars, shownVars, timer, busy, refreshes, row>>
CommandFails ==
  /\ command \in Commands \cup {"served"} /\ Unanswered("command")
  /\ command' = "none" /\ busy' = FALSE
  /\ late' = late \cup (Commands \cap {command})
  /\ UNCHANGED <<serverVars, shownVars, timer, refreshes, row>>

LateLost(name) ==
  /\ name \in late /\ late' = late \ {name}
  /\ UNCHANGED <<serverVars, shownVars, timer, busy, command, refreshes, routerVars, row>>

-------------------------------------------------------------------------------
RefreshEnds(i) == StatusServed(i) \/ StatusAnswered(i) \/ FiguresAnswered(i)
CommandStep    == StopSignalled \/ CommandServed \/ CommandAnswered \/ CommandFails
LateStep(name) == LateServed(name) \/ LateLost(name)

PanelNext ==
  \/ SupervisorMoves
  \/ Tick \/ ClickRefresh
  \/ \E i \in 1 .. MaxRefreshes : RefreshEnds(i)
  \/ CommandStep
  \/ \E name \in Commands : CallCDC(name) \/ LateStep(name)

\* The timer ticks, every refresh ends, and the server answers a command: a
\* supervisor that stops a process kills it after fifteen seconds.
PanelFairness ==
  /\ WF_cdcVars(Tick)
  /\ WF_cdcVars(RefreshEnds(1))
  /\ SF_cdcVars(CommandServed \/ CommandAnswered \/ CommandFails)
  /\ WF_cdcVars(StopSignalled)

-------------------------------------------------------------------------------
\* A command ends: the buttons do not stay disabled, although it waits for the
\* process to end and for a readout of its own, and fetch knows no timeout.
CommandEnds == busy ~> ~busy

\* While the panel stays open and nothing happens at the server, it comes to show
\* the supervisor's state, in whatever order answers arrive; of a module that is
\* switched off it asks no more.
PanelSettles ==
  <>[]On("cdc") /\ <>[][FALSE]_serverVars
    => <>[](On("cdc") => IF enabled THEN control = ctl
                         ELSE disabled /\ refreshes = <<>>)
==============================================================================
