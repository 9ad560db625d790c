---------------------------- MODULE CDCSupervisor ----------------------------
(***************************************************************************)
(* The web server's supervisor of the replication process                  *)
(* (internal/webapi/cdc_supervisor.go).  HTTP handlers (Clients) call      *)
(* Start and Stop; every successful Start begins a session: a goroutine    *)
(* supervise that waits for the child and respawns it, with a channel      *)
(* stopCh that Stop closes and a channel done that supervise closes.  The  *)
(* fields of the supervisor are changed under its mutex, one action per    *)
(* critical section; between two of them anything else may happen.         *)
(*                                                                         *)
(* A child is the number of its spawn, which stands for its PID.           *)
(***************************************************************************)
EXTENDS Integers, FiniteSets

CONSTANTS
  Clients,      \* HTTP requests that may be served at the same time
  MaxRestarts,  \* maxRestarts
  MaxStarts,    \* bound: successful Starts
  MaxSpawns,    \* bound: children; MaxStarts * (1 + MaxRestarts) never binds alone
  MaxBoots,     \* bound: restarts of the web server
  Occurs        \* bound: which of Occurrences may happen

\* Failures of a process to start, and a status file too old for its child to
\* be adopted.
Occurrences == {"start error", "respawn error", "stale status"}

ASSUME SupervisorAssumption ==
  /\ MaxRestarts \in Nat /\ MaxStarts \in Nat /\ MaxSpawns \in Nat /\ MaxBoots \in Nat
  /\ Occurs \subseteq Occurrences

Sessions == 1 .. MaxStarts
Children == 1 .. MaxSpawns
None     == 0

VARIABLES
  state,          \* s.state
  proc,           \* s.proc, None for nil
  pid,            \* s.pid
  restarts,       \* s.restarts
  stopRequested,  \* s.stopRequested
  adopted,        \* s.adopted
  done,           \* s.done: the session whose channel it is, None for nil
  stopCh,         \* s.stopCh
  onceUsed,       \* s.stopOnce has run
  session,        \* number of sessions begun
  loop,           \* loop[k]: where session k's supervise is
  waits,          \* waits[k]: the child it waits for, None when it does not wait
  closedDone,     \* sessions whose done channel is closed
  closedStop,     \* sessions whose stopCh is closed
  at,             \* at[c]: where client c's Stop is, "idle" outside
  held,           \* held[c]: what it read in its first critical section
  live,           \* operating system: children alive
  spawns,         \* number of children spawned
  statusPid,      \* status file: the PID in it, None when there is no file
  boots,          \* restarts of the web server
  spawned,        \* history: children spawned since the last Start
  carried,        \* history: sessions that were in their backoff at the last Start
  overlapped,     \* history: a Start came during a Stop or the end of a session
  quiet,          \* history: a Stop has returned and no Start succeeded since it began
  panicked        \* history: a closed stopCh was closed again

fieldVars   == <<state, proc, pid, restarts, stopRequested, adopted, done, stopCh, onceUsed>>
sessionVars == <<session, loop, waits, closedDone, closedStop>>
clientVars  == <<at, held>>
childVars   == <<live, spawns, statusPid, boots>>
histVars    == <<spawned, carried, overlapped, quiet, panicked>>
vars == <<fieldVars, sessionVars, clientVars, childVars, histVars>>

NothingHeld ==
  [proc |-> None, pid |-> None, done |-> None, stopCh |-> None, session |-> 0]

\* (Wrong variant: a restart in progress is not noticed.)
BusyRunning == state \in {"running", "adopted"}
Busy == state \in {"running", "starting", "adopted"}

Exhausted == restarts >= MaxRestarts

\* factory and proc.Start: a new child.
Spawn ==
  /\ spawns < MaxSpawns
  /\ spawns' = spawns + 1
  /\ live' = live \cup {spawns'}
  /\ proc' = spawns' /\ pid' = spawns' /\ state' = "running"

\* toStoppedLocked.
ToStopped ==
  /\ state' = "stopped" /\ proc' = None /\ pid' = None /\ stopRequested' = FALSE

(***************************************************************************)
(* Start, one critical section.  A call that finds the supervisor busy     *)
(* changes nothing; one that finds it stopping goes ahead.  Calm: no Stop  *)
(* and no end of a session is in progress.                                 *)
(***************************************************************************)
Calm == /\ \A c \in Clients : at[c] = "idle"
        /\ \A k \in Sessions : loop[k] # "finish"

Backoffs == {k \in Sessions : loop[k] = "backoff"}

Start ==
  /\ ~Busy /\ session < MaxStarts
  /\ Spawn /\ spawned' = 1
  /\ carried' = Cardinality(Backoffs) /\ overlapped' = (overlapped \/ ~Calm)
  /\ restarts' = 0 /\ stopRequested' = FALSE /\ adopted' = FALSE
  /\ session' = session + 1
  /\ done' = session' /\ stopCh' = session' /\ onceUsed' = FALSE
  /\ loop' = [loop EXCEPT ![session'] = "top"]
  /\ quiet' = FALSE
  /\ UNCHANGED <<waits, closedDone, closedStop, clientVars, statusPid, boots, panicked>>

StartFails ==
  /\ "start error" \in Occurs
  /\ ~Busy
  /\ state' = "failed"
  /\ overlapped' = (overlapped \/ ~Calm)
  /\ UNCHANGED <<proc, pid, restarts, stopRequested, adopted, done, stopCh, onceUsed,
                 sessionVars, clientVars, childVars, spawned, carried, quiet, panicked>>

(***************************************************************************)
(* supervise of session k.  "top": about to read s.proc; "wait": in        *)
(* proc.Wait; "backoff": in the select before a respawn; "finish": about   *)
(* to close done.                                                          *)
(***************************************************************************)
ReadProc(k) ==
  /\ loop[k] = "top"
  /\ waits' = [waits EXCEPT ![k] = proc]
  /\ loop' = [loop EXCEPT ![k] = IF proc = None THEN "ended" ELSE "wait"]
  /\ UNCHANGED <<fieldVars, session, closedDone, closedStop, clientVars, childVars, histVars>>

\* A restart is counted before the backoff.  (Wrong variant: it is not.)
CountRestartNot == UNCHANGED restarts
CountRestart == restarts' = restarts + 1

ChildExited(k) ==
  /\ loop[k] = "wait" /\ waits[k] \notin live
  /\ IF stopRequested
       THEN ToStopped /\ UNCHANGED restarts /\ loop' = [loop EXCEPT ![k] = "finish"]
       ELSE /\ proc' = None
            /\ UNCHANGED stopRequested
            /\ IF Exhausted
                 THEN /\ state' = "failed" /\ pid' = None
                      /\ UNCHANGED restarts
                      /\ loop' = [loop EXCEPT ![k] = "finish"]
                 ELSE /\ state' = "starting" /\ CountRestart
                      /\ UNCHANGED pid
                      /\ loop' = [loop EXCEPT ![k] = "backoff"]
  /\ waits' = [waits EXCEPT ![k] = None]
  /\ UNCHANGED <<adopted, done, stopCh, onceUsed, session, closedDone, closedStop,
                 clientVars, childVars, histVars>>

\* The select takes stopCh; or it takes the timer and finds a stop requested.
BackoffStopped(k) ==
  /\ loop[k] = "backoff" /\ (k \in closedStop \/ stopRequested)
  /\ ToStopped
  /\ loop' = [loop EXCEPT ![k] = "finish"]
  /\ UNCHANGED <<restarts, adopted, done, stopCh, onceUsed, session, waits, closedDone,
                 closedStop, clientVars, childVars, histVars>>

\* The select takes the timer.  (Wrong variants: stopRequested is not looked at;
\* the state is not set.)
RespawnUnseen(k) ==
  /\ loop[k] = "backoff" /\ ~stopRequested
  /\ spawns < MaxSpawns /\ spawns' = spawns + 1 /\ live' = live \cup {spawns'}
  /\ proc' = spawns' /\ pid' = spawns' /\ spawned' = spawned + 1
  /\ loop' = [loop EXCEPT ![k] = "top"]
  /\ UNCHANGED <<state, restarts, stopRequested, adopted, done, stopCh, onceUsed, session,
                 waits, closedDone, closedStop, clientVars, statusPid, boots, carried,
                 overlapped, quiet, panicked>>
RespawnUnchecked(k) ==
  /\ loop[k] = "backoff"
  /\ Spawn /\ spawned' = spawned + 1
  /\ loop' = [loop EXCEPT ![k] = "top"]
  /\ UNCHANGED <<restarts, stopRequested, adopted, done, stopCh, onceUsed, session, waits,
                 closedDone, closedStop, clientVars, statusPid, boots, carried,
                 overlapped, quiet, panicked>>
Respawn(k) ==
  /\ loop[k] = "backoff" /\ ~stopRequested
  /\ Spawn /\ spawned' = spawned + 1
  /\ loop' = [loop EXCEPT ![k] = "top"]
  /\ UNCHANGED <<restarts, stopRequested, adopted, done, stopCh, onceUsed, session, waits,
                 closedDone, closedStop, clientVars, statusPid, boots, carried,
                 overlapped, quiet, panicked>>

\* The new child cannot be started: the loop is continued, with s.proc nil.
RespawnFails(k) ==
  /\ "respawn error" \in Occurs
  /\ loop[k] = "backoff" /\ ~stopRequested
  /\ IF Exhausted
       THEN state' = "failed" /\ loop' = [loop EXCEPT ![k] = "finish"]
       ELSE UNCHANGED state /\ loop' = [loop EXCEPT ![k] = "top"]
  /\ UNCHANGED <<proc, pid, restarts, stopRequested, adopted, done, stopCh, onceUsed,
                 session, waits, closedDone, closedStop, clientVars, childVars, histVars>>

\* finish: it closes the done channel of the moment, not that of session k.
Finish(k) ==
  /\ loop[k] = "finish"
  /\ closedDone' = closedDone \cup ({done} \ {None})
  /\ done' = None
  /\ loop' = [loop EXCEPT ![k] = "ended"]
  /\ UNCHANGED <<state, proc, pid, restarts, stopRequested, adopted, stopCh, onceUsed,
                 session, waits, closedStop, clientVars, childVars, histVars>>

(***************************************************************************)
(* Stop of client c.  "signal": about to close stopCh and send SIGTERM;    *)
(* "await": waiting for done; "pid": about to signal an adopted process;   *)
(* "forget": about to call it stopped.                                     *)
(***************************************************************************)
Returns(c) ==
  /\ at' = [at EXCEPT ![c] = "idle"] /\ held' = [held EXCEPT ![c] = NothingHeld]

\* The call is over and no Start has succeeded since it began.
StopIsOver(c) == quiet' = (held[c].session = session)

\* The early return: there is nothing to stop.
StopIdle(c) ==
  /\ at[c] = "idle" /\ state \in {"stopped", "failed"}
  /\ quiet' = TRUE
  /\ UNCHANGED <<fieldVars, sessionVars, clientVars, childVars, spawned, carried,
                 overlapped, panicked>>

StopBegin(c) ==
  /\ at[c] = "idle" /\ state \notin {"stopped", "failed"}
  /\ stopRequested' = TRUE /\ state' = "stopping"
  /\ IF done # None \/ (adopted /\ pid # None)
       THEN /\ held' = [held EXCEPT ![c] = [proc |-> proc, pid |-> pid, done |-> done,
                                             stopCh |-> stopCh, session |-> session]]
            /\ at' = [at EXCEPT ![c] = IF done # None THEN "signal" ELSE "pid"]
            /\ UNCHANGED quiet
       ELSE UNCHANGED clientVars /\ quiet' = TRUE
  /\ UNCHANGED <<proc, pid, restarts, adopted, done, stopCh, onceUsed, sessionVars, childVars,
                 spawned, carried, overlapped, panicked>>

\* stopOnce.Do(close) and Terminate.  Closing a closed channel panics: the
\* HTTP server recovers, and the call ends without the SIGTERM.
\* (Wrong variant: stopOnce is not used.)
CloseOnceNot == TRUE
CloseOnce == ~onceUsed

StopSignals(c) ==
  /\ at[c] = "signal"
  /\ onceUsed' = TRUE
  /\ IF CloseOnce
       THEN closedStop' = closedStop \cup {held[c].stopCh}
       ELSE UNCHANGED closedStop
  /\ IF CloseOnce /\ held[c].stopCh \in closedStop
       THEN panicked' = TRUE /\ Returns(c)
       ELSE at' = [at EXCEPT ![c] = "await"] /\ UNCHANGED <<held, panicked>>
  /\ UNCHANGED <<state, proc, pid, restarts, stopRequested, adopted, done, stopCh, session,
                 loop, waits, closedDone, childVars, spawned, carried, overlapped, quiet>>

\* 15 seconds have passed: SIGKILL, which the child does not survive.
StopKills(c) ==
  /\ at[c] = "await" /\ held[c].done \notin closedDone
  /\ held[c].proc \in live
  /\ live' = live \ {held[c].proc}
  /\ UNCHANGED <<fieldVars, sessionVars, clientVars, spawns, statusPid, boots, histVars>>

\* (Wrong variant: it does not wait for the end of the session.)
StopReturnsEarly(c) ==
  /\ at[c] = "await"
  /\ Returns(c) /\ StopIsOver(c)
  /\ UNCHANGED <<fieldVars, sessionVars, childVars, spawned, carried, overlapped, panicked>>
StopReturns(c) ==
  /\ at[c] = "await" /\ held[c].done \in closedDone
  /\ Returns(c) /\ StopIsOver(c)
  /\ UNCHANGED <<fieldVars, sessionVars, childVars, spawned, carried, overlapped, panicked>>

\* An adopted process gets a SIGTERM and is not waited for.
StopTerminatesPID(c) ==
  /\ at[c] = "pid"
  /\ at' = [at EXCEPT ![c] = "forget"]
  /\ UNCHANGED <<fieldVars, sessionVars, held, childVars, histVars>>

StopForgets(c) ==
  /\ at[c] = "forget"
  /\ ToStopped
  /\ Returns(c) /\ StopIsOver(c)
  /\ UNCHANGED <<restarts, adopted, done, stopCh, onceUsed, sessionVars, childVars, spawned,
                 carried, overlapped, panicked>>

(***************************************************************************)
(* The children, and a restart of the web server, which loses everything   *)
(* but the children and the status file, and adopts the process named      *)
(* there (Adopt).                                                          *)
(***************************************************************************)
ChildDies ==
  /\ \E p \in live : live' = live \ {p}
  /\ UNCHANGED <<fieldVars, sessionVars, clientVars, spawns, statusPid, boots, histVars>>

ChildWritesStatus ==
  /\ boots < MaxBoots
  /\ \E p \in live : statusPid' = p
  /\ UNCHANGED <<fieldVars, sessionVars, clientVars, live, spawns, boots, histVars>>

WebRestart ==
  /\ boots < MaxBoots /\ boots' = boots + 1
  /\ \/ /\ statusPid \in live
        /\ state' = "adopted" /\ pid' = statusPid /\ adopted' = TRUE
     \/ /\ statusPid \notin live \/ "stale status" \in Occurs
        /\ state' = "stopped" /\ pid' = None /\ adopted' = FALSE
  /\ proc' = None /\ restarts' = 0 /\ stopRequested' = FALSE
  /\ done' = None /\ stopCh' = None /\ onceUsed' = FALSE
  /\ loop' = [k \in Sessions |-> "ended"]
  /\ at' = [c \in Clients |-> "idle"] /\ held' = [c \in Clients |-> NothingHeld]
  /\ waits' = [k \in Sessions |-> None]
  /\ quiet' = FALSE
  /\ UNCHANGED <<session, closedDone, closedStop, live, spawns, statusPid, spawned,
                 carried, overlapped, panicked>>

-----------------------------------------------------------------------------
Init ==
  /\ state = "stopped" /\ proc = None /\ pid = None /\ restarts = 0
  /\ stopRequested = FALSE /\ adopted = FALSE
  /\ done = None /\ stopCh = None /\ onceUsed = FALSE
  /\ session = 0
  /\ loop = [k \in Sessions |-> "ended"] /\ waits = [k \in Sessions |-> None]
  /\ closedDone = {} /\ closedStop = {}
  /\ at = [c \in Clients |-> "idle"] /\ held = [c \in Clients |-> NothingHeld]
  /\ live = {} /\ spawns = 0 /\ statusPid = None /\ boots = 0
  /\ spawned = 0 /\ carried = 0 /\ overlapped = FALSE /\ quiet = FALSE /\ panicked = FALSE

Supervise(k) ==
  ReadProc(k) \/ ChildExited(k) \/ BackoffStopped(k) \/ Respawn(k) \/ RespawnFails(k)
    \/ Finish(k)

StopStep(c) ==
  StopSignals(c) \/ StopKills(c) \/ StopReturns(c) \/ StopTerminatesPID(c) \/ StopForgets(c)

Environment == ChildDies \/ ChildWritesStatus \/ WebRestart

Next ==
  \/ Start \/ StartFails
  \/ \E k \in Sessions : Supervise(k)
  \/ \E c \in Clients : StopIdle(c) \/ StopBegin(c) \/ StopStep(c)
  \/ Environment

Spec == Init /\ [][Next]_vars

\* Every goroutine runs, the backoff and the grace period pass.  Nothing is
\* assumed of clients and of a child that is not killed.
Fairness ==
  /\ \A k \in Sessions : WF_vars(Supervise(k))
  /\ \A c \in Clients : WF_vars(StopStep(c))

FairSpec == Spec /\ Fairness

-----------------------------------------------------------------------------
FieldTypeOK ==
  /\ state \in {"stopped", "starting", "running", "stopping", "failed", "adopted"}
  /\ proc \in Children \cup {None} /\ pid \in Children \cup {None}
  /\ restarts \in 0 .. MaxRestarts
  /\ done \in Sessions \cup {None} /\ stopCh \in Sessions \cup {None}
FlagTypeOK ==
  /\ stopRequested \in BOOLEAN /\ adopted \in BOOLEAN /\ onceUsed \in BOOLEAN
  /\ overlapped \in BOOLEAN /\ quiet \in BOOLEAN /\ panicked \in BOOLEAN
SessionTypeOK ==
  /\ session \in 0 .. MaxStarts
  /\ loop \in [Sessions -> {"top", "wait", "backoff", "finish", "ended"}]
  /\ waits \in [Sessions -> Children \cup {None}]
  /\ closedDone \subseteq Sessions /\ closedStop \subseteq Sessions \cup {None}
Readings ==
  [proc : Children \cup {None}, pid : Children \cup {None}, done : Sessions \cup {None},
   stopCh : Sessions \cup {None}, session : 0 .. MaxStarts]
ClientTypeOK ==
  /\ at \in [Clients -> {"idle", "signal", "await", "pid", "forget"}]
  /\ held \in [Clients -> Readings]
ChildTypeOK ==
  /\ live \subseteq Children /\ spawns \in 0 .. MaxSpawns
  /\ statusPid \in Children \cup {None} /\ boots \in 0 .. MaxBoots
  /\ spawned \in Nat /\ carried \in Nat
TypeOK == FieldTypeOK /\ FlagTypeOK /\ SessionTypeOK /\ ClientTypeOK /\ ChildTypeOK

(***************************************************************************)
(* Properties.  A Start is admitted while a Stop or the end of a session   *)
(* is in progress.  It then replaces the channels that they hold, so what  *)
(* is said of one child, of Stop and of the channels holds up to the first *)
(* such Start.                                                             *)
(***************************************************************************)
\* Until a Start overlaps a Stop or the end of a session, or the web server is
\* restarted, there is never a second replication process beside the first one,
\* however Start, crashes, the backoff and the Stops of two requests interleave.
OneChildUntilOverlap == boots = 0 /\ ~overlapped => Cardinality(live) <= 1

\* A Start leads to at most one process and maxRestarts more
\* (TestCrashRestartCap), however Starts, Stops, crashes and backoffs overlap;
\* a session that was in its backoff may still add its one.
RestartBudget == spawned <= 1 + MaxRestarts + carried

\* When Stop has returned and nobody has called Start, no process is left
\* ("SIGTERM, grace, SIGKILL"), up to an overlap and unless the web server has
\* been restarted: an adopted process gets its SIGTERM and is not waited for.
StopLeavesNothing == boots = 0 /\ ~overlapped /\ quiet => live = {}

\* stopOnce "guards stopCh close across repeated Stop calls": only a Start that
\* overlaps a Stop, and so makes stopOnce anew, lets a channel be closed twice.
NoDoubleClose == panicked => overlapped

\* The supervisor implements the promise of CDCControl until a Start overlaps a
\* Stop or the end of a session, or the web server is restarted.
wanted == state \in {"running", "starting"}
pendingRespawns == IF Backoffs # {} THEN 1 ELSE 0

Control == INSTANCE CDCControl WITH
  wanted <- wanted, alive <- live # {},
  budget <- IF wanted THEN MaxRestarts - restarts + pendingRespawns ELSE 0,
  kept <- boots = 0, overrun <- overlapped

ImplementsControl == Control!Spec

\* A respawn that cannot be started before the cap leaves s.proc nil: supervise
\* ends at its top with the state "starting" and its done channel open.
Abandoned == \E k \in Sessions : done = k /\ loop[k] = "ended"

\* Every Stop returns, also one that meets a child that ignores SIGTERM, a
\* backoff or an adopted process, unless its session is abandoned or a Start
\* has taken its channel away.
StopTerminates(c) ==
  (at[c] # "idle") ~> (at[c] = "idle" \/ Abandoned \/ overlapped)

\* An unexpected exit leads to "restart with backoff up to maxRestarts, else
\* failed": "starting" does not last, unless the session is abandoned.
StartingEnds == (state = "starting") ~> (state # "starting" \/ Abandoned)

(***************************************************************************)
(* What the repository says of the supervisor, and the code does not do.   *)
(***************************************************************************)
\* Start is "a no-op if already running/starting", and the control of the
\* process makes no duplicate: until the web server is restarted there is one
\* child at most.
AtMostOneChild == boots = 0 => Cardinality(live) <= 1
=============================================================================
