------------------------- MODULE CDCSupervisorProofs -------------------------
(***************************************************************************)
(* Theorems about CDCSupervisor, for every number of requests, restarts,   *)
(* starts and children.                                                    *)
(***************************************************************************)
EXTENDS CDCSupervisor, FiniteSetTheorems, TLAPS

(***************************************************************************)
(* The inductive invariant behind the safety properties.  It holds as long *)
(* as no Start has come while a Stop or the end of a session was in        *)
(* progress: a session is then over when the next one begins.              *)
(***************************************************************************)
AtRest == state \in {"stopped", "failed"}

\* Only the last session's supervise runs, and the fields done and stopCh are
\* its channels.
OneLoop ==
  \A k \in Sessions : loop[k] # "ended" =>
    k = session /\ done = session /\ stopCh = session /\ ~adopted

\* Where supervise is, against the state shown.
LoopState ==
  \A k \in Sessions :
    /\ loop[k] \in {"top", "wait"} => state \in {"running", "starting", "stopping"}
    /\ loop[k] = "backoff" => state \in {"starting", "stopping"}
    /\ loop[k] = "finish" => AtRest

\* A process that is not at rest belongs to a session or is adopted.
Owned ==
  /\ state \in {"running", "starting"} => ~adopted
  /\ ~AtRest /\ ~adopted => done = session /\ done # None
  /\ ~AtRest /\ adopted => pid # None
  /\ state = "adopted" => adopted
  /\ adopted => done = None
  /\ done # None => stopCh = done

\* What a Stop in progress knows.
Stopping ==
  /\ \A c \in Clients :
       /\ at[c] \in {"signal", "await"} =>
            /\ held[c].done = session /\ held[c].stopCh = session /\ held[c].session = session
            /\ stopCh = session /\ session # 0 /\ ~adopted
       /\ at[c] \in {"pid", "forget"} => adopted
  /\ state = "stopping" => \E c \in Clients : at[c] # "idle"

\* Channels are closed once, done only at the end of its session.
Channels ==
  /\ closedDone \subseteq 1 .. session /\ closedStop \subseteq 1 .. session
  /\ ~onceUsed /\ stopCh # None => stopCh \notin closedStop
  /\ session \in closedDone /\ ~adopted => AtRest
  /\ ~panicked

\* The children, until a web server has been restarted.
Alone ==
  boots = 0 =>
    /\ \A k \in Sessions :
         /\ loop[k] = "top" => live \subseteq {proc}
         /\ loop[k] = "wait" => live \subseteq {waits[k]}
    /\ (\A k \in Sessions : loop[k] \notin {"top", "wait"}) => live = {}

Settled == quiet => AtRest

SupervisorInv ==
  /\ TypeOK /\ OneLoop /\ LoopState /\ Owned /\ Stopping /\ Channels /\ Alone
  /\ Settled

(***************************************************************************)
(* Type correctness: a frame lemma per group of variables, then one step   *)
(* per action.                                                             *)
(***************************************************************************)
LEMMA Bounds == MaxRestarts \in Nat /\ MaxStarts \in Nat /\ MaxSpawns \in Nat /\ MaxBoots \in Nat
  BY SupervisorAssumption

LEMMA FieldFrame == FieldTypeOK /\ UNCHANGED <<state, proc, pid, restarts, done, stopCh>> => FieldTypeOK'
  BY DEF FieldTypeOK
LEMMA FlagFrame == FlagTypeOK /\ UNCHANGED <<stopRequested, adopted, onceUsed, overlapped, quiet, panicked>> => FlagTypeOK'
  BY DEF FlagTypeOK
LEMMA SessionFrame == SessionTypeOK /\ UNCHANGED sessionVars => SessionTypeOK'
  BY DEF SessionTypeOK, sessionVars
LEMMA ClientFrame == ClientTypeOK /\ UNCHANGED clientVars => ClientTypeOK'
  BY DEF ClientTypeOK, clientVars
LEMMA ChildFrame == ChildTypeOK /\ UNCHANGED <<childVars, spawned, carried>> => ChildTypeOK'
  BY DEF ChildTypeOK, childVars
LEMMA NothingHeldType == NothingHeld \in Readings
  BY Bounds DEF NothingHeld, Readings, None

LEMMA BackoffsFinite == IsFiniteSet(Backoffs) /\ Cardinality(Backoffs) \in Nat
<1>1. IsFiniteSet(Sessions)
  BY Bounds, FS_Interval DEF Sessions
<1>2. IsFiniteSet(Backoffs)
  BY <1>1, FS_Subset DEF Backoffs
<1> QED
  BY <1>2, FS_CardinalityType

LEMMA InitType == Init => TypeOK
<1> SUFFICES ASSUME Init PROVE TypeOK
  OBVIOUS
<1> USE Bounds DEF Init, None
<1>1. FieldTypeOK
  BY DEF FieldTypeOK
<1>2. FlagTypeOK
  BY DEF FlagTypeOK
<1>3. SessionTypeOK
  BY DEF SessionTypeOK
<1>4. ClientTypeOK
  BY NothingHeldType DEF ClientTypeOK
<1>5. ChildTypeOK
  BY DEF ChildTypeOK
<1> QED
  BY <1>1, <1>2, <1>3, <1>4, <1>5 DEF TypeOK

LEMMA NextType == TypeOK /\ [Next]_vars => TypeOK'
<1> SUFFICES ASSUME TypeOK, [Next]_vars PROVE TypeOK'
  OBVIOUS
<1> USE Bounds DEF None
<1>0. FieldTypeOK /\ FlagTypeOK /\ SessionTypeOK /\ ClientTypeOK /\ ChildTypeOK
  BY DEF TypeOK
<1>1. CASE Start
  <2>1. FieldTypeOK'
    BY <1>0, <1>1 DEF Start, Spawn, FieldTypeOK, SessionTypeOK, ChildTypeOK, Sessions, Children
  <2>2. FlagTypeOK'
    BY <1>0, <1>1 DEF Start, Spawn, FlagTypeOK, Sessions, Children
  <2>3. SessionTypeOK'
    BY <1>0, <1>1 DEF Start, Spawn, FieldTypeOK, SessionTypeOK, Sessions, Children
  <2>4. ClientTypeOK'
    BY <1>0, <1>1, ClientFrame DEF Start
  <2>5. ChildTypeOK'
    BY <1>0, <1>1, BackoffsFinite DEF Start, Spawn, ChildTypeOK, Sessions, Children
  <2> QED
    BY <1>0, <1>1, <2>1, <2>2, <2>3, <2>4, <2>5
       DEF Start, Spawn, TypeOK, fieldVars, sessionVars, clientVars, childVars, histVars
<1>2. CASE StartFails
  <2>1. FieldTypeOK'
    BY <1>0, <1>2 DEF StartFails, FieldTypeOK, Sessions, Children
  <2>2. FlagTypeOK'
    BY <1>0, <1>2 DEF StartFails, FlagTypeOK
  <2> QED
    BY <1>0, <1>2, <2>1, <2>2, SessionFrame, ClientFrame, ChildFrame
       DEF StartFails, TypeOK, fieldVars, sessionVars, clientVars, childVars, histVars
<1>3. ASSUME NEW k \in Sessions, ReadProc(k) PROVE TypeOK'
  <2>1. SessionTypeOK'
    BY <1>0, <1>3 DEF ReadProc, FieldTypeOK, SessionTypeOK, Sessions, Children
  <2> QED
    BY <1>0, <1>3, <2>1, FieldFrame, FlagFrame, ClientFrame, ChildFrame
       DEF ReadProc, TypeOK, fieldVars, sessionVars, clientVars, childVars, histVars
<1>4. ASSUME NEW k \in Sessions, ChildExited(k) PROVE TypeOK'
  <2>1. FieldTypeOK'
    BY <1>0, <1>4 DEF ChildExited, ToStopped, CountRestart, Exhausted, FieldTypeOK, Sessions, Children
  <2>2. FlagTypeOK'
    BY <1>0, <1>4 DEF ChildExited, ToStopped, CountRestart, Exhausted, FlagTypeOK, clientVars, histVars
  <2>3. SessionTypeOK'
    BY <1>0, <1>4 DEF ChildExited, ToStopped, CountRestart, Exhausted, FieldTypeOK, SessionTypeOK, Sessions, Children
  <2> QED
    BY <1>0, <1>4, <2>1, <2>2, <2>3, ClientFrame, ChildFrame
       DEF ChildExited, ToStopped, CountRestart, Exhausted, TypeOK, fieldVars, sessionVars, clientVars, childVars, histVars
<1>5. ASSUME NEW k \in Sessions, BackoffStopped(k) PROVE TypeOK'
  <2>1. FieldTypeOK'
    BY <1>0, <1>5 DEF BackoffStopped, ToStopped, FieldTypeOK, Sessions, Children
  <2>2. FlagTypeOK'
    BY <1>0, <1>5 DEF BackoffStopped, ToStopped, FlagTypeOK, clientVars, histVars
  <2>3. SessionTypeOK'
    BY <1>0, <1>5 DEF BackoffStopped, ToStopped, FieldTypeOK, SessionTypeOK, Sessions, Children
  <2> QED
    BY <1>0, <1>5, <2>1, <2>2, <2>3, ClientFrame, ChildFrame
       DEF BackoffStopped, ToStopped, TypeOK, fieldVars, sessionVars, clientVars, childVars, histVars
<1>6. ASSUME NEW k \in Sessions, Respawn(k) PROVE TypeOK'
  <2>1. FieldTypeOK'
    BY <1>0, <1>6 DEF Respawn, Spawn, FieldTypeOK, ChildTypeOK, Sessions, Children
  <2>2. SessionTypeOK'
    BY <1>0, <1>6 DEF Respawn, Spawn, FieldTypeOK, SessionTypeOK, Sessions, Children
  <2>3. ChildTypeOK'
    BY <1>0, <1>6 DEF Respawn, Spawn, ChildTypeOK, Sessions, Children
  <2> QED
    BY <1>0, <1>6, <2>1, <2>2, <2>3, FlagFrame, ClientFrame
       DEF Respawn, Spawn, TypeOK, fieldVars, sessionVars, clientVars, childVars, histVars
<1>7. ASSUME NEW k \in Sessions, RespawnFails(k) PROVE TypeOK'
  <2>1. FieldTypeOK'
    BY <1>0, <1>7 DEF RespawnFails, FieldTypeOK, Sessions, Children
  <2>2. SessionTypeOK'
    BY <1>0, <1>7 DEF RespawnFails, FieldTypeOK, SessionTypeOK, Sessions, Children
  <2> QED
    BY <1>0, <1>7, <2>1, <2>2, FlagFrame, ClientFrame, ChildFrame
       DEF RespawnFails, TypeOK, fieldVars, sessionVars, clientVars, childVars, histVars
<1>8. ASSUME NEW k \in Sessions, Finish(k) PROVE TypeOK'
  <2>1. FieldTypeOK'
    BY <1>0, <1>8 DEF Finish, FieldTypeOK, Sessions, Children
  <2>2. SessionTypeOK'
    BY <1>0, <1>8 DEF Finish, FieldTypeOK, SessionTypeOK, Sessions, Children
  <2> QED
    BY <1>0, <1>8, <2>1, <2>2, FlagFrame, ClientFrame, ChildFrame
       DEF Finish, TypeOK, fieldVars, sessionVars, clientVars, childVars, histVars
<1>9. ASSUME NEW c \in Clients, StopIdle(c) PROVE TypeOK'
  <2>1. FlagTypeOK'
    BY <1>0, <1>9 DEF StopIdle, FlagTypeOK, fieldVars, Sessions, Children
  <2> QED
    BY <1>0, <1>9, <2>1, FieldFrame, SessionFrame, ClientFrame, ChildFrame
       DEF StopIdle, TypeOK, fieldVars, sessionVars, clientVars, childVars, histVars
<1>10. ASSUME NEW c \in Clients, StopBegin(c) PROVE TypeOK'
  <2>1. FieldTypeOK'
    BY <1>0, <1>10 DEF StopBegin, FieldTypeOK, Sessions, Children
  <2>2. FlagTypeOK'
    BY <1>0, <1>10 DEF StopBegin, FlagTypeOK, Sessions, Children
  <2>3. ClientTypeOK'
    <3> DEFINE r == [proc |-> proc, pid |-> pid, done |-> done, stopCh |-> stopCh,
                     session |-> session]
    <3>1. r \in Readings
      BY <1>0 DEF FieldTypeOK, SessionTypeOK, Readings
    <3>2. held' = [held EXCEPT ![c] = r] \/ held' = held
      BY <1>10 DEF StopBegin, clientVars
    <3>3. held' \in [Clients -> Readings]
      <4> HIDE DEF r
      <4> QED
        BY <1>0, <3>1, <3>2 DEF ClientTypeOK
    <3>4. at' \in [Clients -> {"idle", "signal", "await", "pid", "forget"}]
      BY <1>0, <1>10 DEF StopBegin, clientVars, ClientTypeOK
    <3> QED
      BY <3>3, <3>4 DEF ClientTypeOK
  <2> QED
    BY <1>0, <1>10, <2>1, <2>2, <2>3, SessionFrame, ChildFrame
       DEF StopBegin, TypeOK, fieldVars, sessionVars, clientVars, childVars, histVars
<1>11. ASSUME NEW c \in Clients, StopSignals(c) PROVE TypeOK'
  <2>1. FlagTypeOK'
    BY <1>0, <1>11 DEF StopSignals, Returns, CloseOnce, NothingHeld, FlagTypeOK, Sessions, Children
  <2>2. SessionTypeOK'
    <3>1. held[c].stopCh \in Sessions \cup {None}
      BY <1>0 DEF ClientTypeOK, Readings
    <3>2. closedStop' \subseteq closedStop \cup {held[c].stopCh}
      BY <1>11 DEF StopSignals
    <3> QED
      BY <1>0, <1>11, <3>1, <3>2 DEF StopSignals, SessionTypeOK
  <2>3. ClientTypeOK'
    <3>1. held' = [held EXCEPT ![c] = NothingHeld] \/ held' = held
      BY <1>11 DEF StopSignals, Returns
    <3>2. at' \in [Clients -> {"idle", "signal", "await", "pid", "forget"}]
      BY <1>0, <1>11 DEF StopSignals, Returns, ClientTypeOK
    <3> QED
      BY <1>0, <3>1, <3>2, NothingHeldType DEF ClientTypeOK
  <2> QED
    BY <1>0, <1>11, <2>1, <2>2, <2>3, FieldFrame, ChildFrame
       DEF StopSignals, Returns, CloseOnce, NothingHeld, TypeOK, fieldVars, sessionVars, clientVars, childVars, histVars
<1>12. ASSUME NEW c \in Clients, StopKills(c) PROVE TypeOK'
  <2>1. ChildTypeOK'
    BY <1>0, <1>12 DEF StopKills, ChildTypeOK, Children, histVars
  <2> QED
    BY <1>0, <1>12, <2>1, FieldFrame, FlagFrame, SessionFrame, ClientFrame
       DEF StopKills, TypeOK, fieldVars, sessionVars, clientVars, childVars, histVars
<1>13. ASSUME NEW c \in Clients, StopReturns(c) PROVE TypeOK'
  <2>1. FlagTypeOK'
    BY <1>0, <1>13 DEF StopReturns, Returns, StopIsOver, NothingHeld, FlagTypeOK, fieldVars, Sessions, Children
  <2>2. ClientTypeOK'
    BY <1>0, <1>13, NothingHeldType DEF StopReturns, Returns, ClientTypeOK
  <2> QED
    BY <1>0, <1>13, <2>1, <2>2, FieldFrame, SessionFrame, ChildFrame
       DEF StopReturns, Returns, StopIsOver, NothingHeld, TypeOK, fieldVars, sessionVars, clientVars, childVars, histVars
<1>14. ASSUME NEW c \in Clients, StopTerminatesPID(c) PROVE TypeOK'
  <2>1. ClientTypeOK'
    BY <1>0, <1>14 DEF StopTerminatesPID, FieldTypeOK, SessionTypeOK, ClientTypeOK, Sessions, Children
  <2> QED
    BY <1>0, <1>14, <2>1, FieldFrame, FlagFrame, SessionFrame, ChildFrame
       DEF StopTerminatesPID, TypeOK, fieldVars, sessionVars, clientVars, childVars, histVars
<1>15. ASSUME NEW c \in Clients, StopForgets(c) PROVE TypeOK'
  <2>1. FieldTypeOK'
    BY <1>0, <1>15 DEF StopForgets, ToStopped, Returns, StopIsOver, NothingHeld, FieldTypeOK, Sessions, Children
  <2>2. FlagTypeOK'
    BY <1>0, <1>15 DEF StopForgets, ToStopped, Returns, StopIsOver, NothingHeld, FlagTypeOK, Sessions, Children
  <2>3. ClientTypeOK'
    BY <1>0, <1>15, NothingHeldType DEF StopForgets, Returns, ClientTypeOK
  <2> QED
    BY <1>0, <1>15, <2>1, <2>2, <2>3, SessionFrame, ChildFrame
       DEF StopForgets, ToStopped, Returns, StopIsOver, NothingHeld, TypeOK, fieldVars, sessionVars, clientVars, childVars, histVars
<1>16. CASE ChildDies
  <2>1. ChildTypeOK'
    BY <1>0, <1>16 DEF ChildDies, ChildTypeOK, Children, histVars
  <2> QED
    BY <1>0, <1>16, <2>1, FieldFrame, FlagFrame, SessionFrame, ClientFrame
       DEF ChildDies, TypeOK, fieldVars, sessionVars, clientVars, childVars, histVars
<1>17. CASE ChildWritesStatus
  <2>1. ChildTypeOK'
    BY <1>0, <1>17 DEF ChildWritesStatus, ChildTypeOK, Children, histVars
  <2> QED
    BY <1>0, <1>17, <2>1, FieldFrame, FlagFrame, SessionFrame, ClientFrame
       DEF ChildWritesStatus, TypeOK, fieldVars, sessionVars, clientVars, childVars, histVars
<1>18. CASE WebRestart
  <2>1. FieldTypeOK'
    <3>1. state' \in {"adopted", "stopped"} /\ pid' \in {statusPid, None}
      BY <1>18, Zenon DEF WebRestart
    <3>2. proc' = None /\ restarts' = 0 /\ done' = None /\ stopCh' = None
      BY <1>18, Zenon DEF WebRestart
    <3> QED
      BY <1>0, <3>1, <3>2 DEF FieldTypeOK, ChildTypeOK
  <2>2. FlagTypeOK'
    BY <1>0, <1>18 DEF WebRestart, NothingHeld, FlagTypeOK, Sessions, Children
  <2>3. SessionTypeOK'
    BY <1>0, <1>18 DEF WebRestart, NothingHeld, FieldTypeOK, SessionTypeOK, Sessions, Children
  <2>4. ClientTypeOK'
    BY <1>18, NothingHeldType DEF WebRestart, ClientTypeOK
  <2>5. ChildTypeOK'
    <3>1. boots < MaxBoots /\ boots' = boots + 1 /\ UNCHANGED <<live, spawns, statusPid, spawned, carried>>
      BY <1>18, Zenon DEF WebRestart
    <3> QED
      BY <1>0, <3>1 DEF ChildTypeOK
  <2> QED
    BY <1>0, <1>18, <2>1, <2>2, <2>3, <2>4, <2>5
       DEF WebRestart, NothingHeld, TypeOK, fieldVars, sessionVars, clientVars, childVars, histVars
<1>19. CASE UNCHANGED vars
  BY <1>0, <1>19, FieldFrame, FlagFrame, SessionFrame, ClientFrame, ChildFrame
     DEF vars, TypeOK, fieldVars, childVars, histVars
<1> QED
  BY <1>1, <1>2, <1>3, <1>4, <1>5, <1>6, <1>7, <1>8, <1>9, <1>10, <1>11, <1>12, <1>13, <1>14, <1>15, <1>16, <1>17, <1>18, <1>19 DEF Next, Supervise, StopStep, Environment

\* Every variable keeps its type, and the restart count its bound.
THEOREM TypeCorrect == Spec => []TypeOK
<1> QED
  BY InitType, NextType, PTL DEF Spec
(***************************************************************************)
(* The invariant, one step per action and under it one per conjunct that   *)
(* the action can disturb.                                                 *)
(***************************************************************************)
LEMMA InitInv == Init => SupervisorInv
<1> SUFFICES ASSUME Init PROVE SupervisorInv
  OBVIOUS
<1>1. TypeOK
  BY InitType
<1>2. OneLoop /\ LoopState /\ Owned /\ Stopping
  BY DEF Init, OneLoop, LoopState, Owned, Stopping, AtRest, None
<1>3. Channels /\ Alone /\ Settled
  BY Bounds DEF Init, Channels, Alone, Settled, None
<1> QED
  BY <1>1, <1>2, <1>3 DEF SupervisorInv

\* When a Start is carried out, the session before it is over.
LEMMA SessionOver ==
  ASSUME SupervisorInv, ~Busy, Calm
  PROVE  /\ AtRest
         /\ \A k \in Sessions : loop[k] = "ended"
         /\ \A c \in Clients : at[c] = "idle"
<1>1. AtRest
  BY DEF SupervisorInv, TypeOK, FieldTypeOK, Busy, Calm, Stopping, AtRest
<1> QED
  BY <1>1 DEF SupervisorInv, TypeOK, SessionTypeOK, Calm, LoopState, AtRest

LEMMA NextInv == SupervisorInv /\ [Next]_vars /\ ~overlapped' => SupervisorInv'
<1> SUFFICES ASSUME SupervisorInv, [Next]_vars, ~overlapped' PROVE SupervisorInv'
  OBVIOUS
<1> USE Bounds DEF Sessions, Children, None, fieldVars, sessionVars, clientVars, childVars, histVars
<1>0. /\ ~overlapped' /\ SupervisorInv
      /\ TypeOK /\ OneLoop /\ LoopState /\ Owned /\ Stopping /\ Channels /\ Alone /\ Settled
      /\ FieldTypeOK /\ FlagTypeOK /\ SessionTypeOK /\ ClientTypeOK /\ ChildTypeOK
      /\ TypeOK'
  BY NextType DEF SupervisorInv, TypeOK
<1>1. CASE Start
  <2>1. AtRest /\ (\A k \in Sessions : loop[k] = "ended") /\ (\A c \in Clients : at[c] = "idle")
    BY <1>0, <1>1, SessionOver DEF Start
  <2>2. OneLoop'
    BY <1>0, <1>1, <2>1 DEF Start, Spawn, OneLoop, SessionTypeOK
  <2>3. LoopState'
    BY <1>0, <1>1, <2>1 DEF Start, Spawn, LoopState, AtRest, SessionTypeOK
  <2>4. Owned'
    BY <1>0, <1>1, <2>1 DEF Start, Spawn, Owned, AtRest, SessionTypeOK
  <2>5. Stopping'
    BY <1>0, <1>1, <2>1 DEF Start, Spawn, Stopping, ClientTypeOK
  <2>6. Channels'
    BY <1>0, <1>1, <2>1 DEF Start, Spawn, Channels, AtRest, SessionTypeOK
  <2>7. Alone'
    BY <1>0, <1>1, <2>1 DEF Start, Spawn, Alone, SessionTypeOK, ChildTypeOK
  <2>9. Settled'
    BY <1>0, <1>1, <2>1 DEF Start, Spawn, Settled, AtRest
  <2> QED
    BY <1>0, <1>1, <2>2, <2>3, <2>4, <2>5, <2>6, <2>7, <2>9
       DEF Start, Spawn,
       SupervisorInv
<1>2. CASE StartFails
  <2>1. AtRest /\ (\A k \in Sessions : loop[k] = "ended") /\ (\A c \in Clients : at[c] = "idle")
    BY <1>0, <1>2, SessionOver DEF StartFails
  <2>2. LoopState'
    BY <1>0, <1>2, <2>1 DEF StartFails, LoopState, AtRest, SessionTypeOK
  <2>3. Owned'
    BY <1>0, <1>2, <2>1 DEF StartFails, Owned, AtRest
  <2>4. Stopping'
    BY <1>0, <1>2, <2>1 DEF StartFails, Stopping, ClientTypeOK
  <2>5. Channels'
    BY <1>0, <1>2, <2>1 DEF StartFails, Channels, AtRest
  <2>6. Settled'
    BY <1>0, <1>2, <2>1 DEF StartFails, Settled, AtRest
  <2> QED
    BY <1>0, <1>2, <2>2, <2>3, <2>4, <2>5, <2>6
       DEF StartFails, OneLoop, Alone,
       SupervisorInv
<1>3. ASSUME NEW k \in Sessions, ReadProc(k) PROVE SupervisorInv'
  <2>1. /\ k = session /\ done = session /\ stopCh = session /\ ~adopted /\ session \in Sessions
        /\ \A j \in Sessions : j # k => loop[j] = "ended"
    BY <1>0, <1>3 DEF ReadProc, OneLoop
  <2>2. OneLoop'
    BY <1>0, <1>3, <2>1 DEF ReadProc, OneLoop, SessionTypeOK
  <2>3. LoopState'
    BY <1>0, <1>3, <2>1 DEF ReadProc, LoopState, AtRest, SessionTypeOK
  <2>4. Alone'
    BY <1>0, <1>3, <2>1 DEF ReadProc, Alone, SessionTypeOK, ChildTypeOK
  <2> QED
    BY <1>0, <1>3, <2>2, <2>3, <2>4
       DEF ReadProc, Owned, Stopping, Channels, Settled, AtRest,
       SupervisorInv
<1>4. ASSUME NEW k \in Sessions, ChildExited(k) PROVE SupervisorInv'
  <2>1. /\ k = session /\ done = session /\ stopCh = session /\ ~adopted /\ session \in Sessions
        /\ \A j \in Sessions : j # k => loop[j] = "ended"
    BY <1>0, <1>4 DEF ChildExited, OneLoop
  <2>2. OneLoop'
    BY <1>0, <1>4, <2>1 DEF ChildExited, ToStopped, CountRestart, Exhausted, OneLoop, SessionTypeOK
  <2>3. LoopState'
    BY <1>0, <1>4, <2>1 DEF ChildExited, ToStopped, CountRestart, Exhausted, LoopState, AtRest, SessionTypeOK
  <2>4. Owned'
    BY <1>0, <1>4, <2>1 DEF ChildExited, ToStopped, CountRestart, Exhausted, Owned, AtRest
  <2>5. Stopping'
    BY <1>0, <1>4, <2>1 DEF ChildExited, ToStopped, CountRestart, Exhausted, Stopping, ClientTypeOK
  <2>6. Channels'
    BY <1>0, <1>4, <2>1 DEF ChildExited, ToStopped, CountRestart, Exhausted, Channels, AtRest, LoopState
  <2>7. Alone'
    BY <1>0, <1>4, <2>1 DEF ChildExited, ToStopped, CountRestart, Exhausted, Alone, SessionTypeOK, ChildTypeOK
  <2>9. Settled'
    BY <1>0, <1>4, <2>1 DEF ChildExited, ToStopped, CountRestart, Exhausted, Settled, AtRest, LoopState
  <2> QED
    BY <1>0, <1>4, <2>2, <2>3, <2>4, <2>5, <2>6, <2>7, <2>9
       DEF ChildExited, ToStopped, CountRestart, Exhausted,
       SupervisorInv
<1>5. ASSUME NEW k \in Sessions, BackoffStopped(k) PROVE SupervisorInv'
  <2>1. /\ k = session /\ done = session /\ stopCh = session /\ ~adopted /\ session \in Sessions
        /\ \A j \in Sessions : j # k => loop[j] = "ended"
    BY <1>0, <1>5 DEF BackoffStopped, OneLoop
  <2>2. OneLoop'
    BY <1>0, <1>5, <2>1 DEF BackoffStopped, ToStopped, OneLoop, SessionTypeOK
  <2>3. LoopState'
    BY <1>0, <1>5, <2>1 DEF BackoffStopped, ToStopped, LoopState, AtRest, SessionTypeOK
  <2>4. Owned'
    BY <1>0, <1>5, <2>1 DEF BackoffStopped, ToStopped, Owned, AtRest
  <2>5. Stopping'
    BY <1>0, <1>5, <2>1 DEF BackoffStopped, ToStopped, Stopping, ClientTypeOK
  <2>6. Channels'
    BY <1>0, <1>5, <2>1 DEF BackoffStopped, ToStopped, Channels, AtRest
  <2>7. Alone'
    BY <1>0, <1>5, <2>1 DEF BackoffStopped, ToStopped, Alone, SessionTypeOK, ChildTypeOK
  <2>9. Settled'
    BY <1>0, <1>5, <2>1 DEF BackoffStopped, ToStopped, Settled, AtRest
  <2> QED
    BY <1>0, <1>5, <2>2, <2>3, <2>4, <2>5, <2>6, <2>7, <2>9
       DEF BackoffStopped, ToStopped,
       SupervisorInv
<1>6. ASSUME NEW k \in Sessions, Respawn(k) PROVE SupervisorInv'
  <2>1. /\ k = session /\ done = session /\ stopCh = session /\ ~adopted /\ session \in Sessions
        /\ \A j \in Sessions : j # k => loop[j] = "ended"
    BY <1>0, <1>6 DEF Respawn, OneLoop
  <2>2. OneLoop'
    BY <1>0, <1>6, <2>1 DEF Respawn, Spawn, OneLoop, SessionTypeOK
  <2>3. LoopState'
    BY <1>0, <1>6, <2>1 DEF Respawn, Spawn, LoopState, AtRest, SessionTypeOK
  <2>4. Owned'
    BY <1>0, <1>6, <2>1 DEF Respawn, Spawn, Owned, AtRest
  <2>5. Stopping'
    BY <1>0, <1>6, <2>1 DEF Respawn, Spawn, Stopping, ClientTypeOK
  <2>6. Channels'
    BY <1>0, <1>6, <2>1 DEF Respawn, Spawn, Channels, AtRest, LoopState
  <2>7. Alone'
    BY <1>0, <1>6, <2>1 DEF Respawn, Spawn, Alone, SessionTypeOK, ChildTypeOK
  <2>9. Settled'
    BY <1>0, <1>6, <2>1 DEF Respawn, Spawn, Settled, AtRest, LoopState
  <2> QED
    BY <1>0, <1>6, <2>2, <2>3, <2>4, <2>5, <2>6, <2>7, <2>9
       DEF Respawn, Spawn,
       SupervisorInv
<1>7. ASSUME NEW k \in Sessions, RespawnFails(k) PROVE SupervisorInv'
  <2>1. /\ k = session /\ done = session /\ stopCh = session /\ ~adopted /\ session \in Sessions
        /\ \A j \in Sessions : j # k => loop[j] = "ended"
    BY <1>0, <1>7 DEF RespawnFails, OneLoop
  <2>2. OneLoop'
    BY <1>0, <1>7, <2>1 DEF RespawnFails, OneLoop, SessionTypeOK
  <2>3. LoopState'
    BY <1>0, <1>7, <2>1 DEF RespawnFails, LoopState, AtRest, SessionTypeOK
  <2>4. Owned'
    BY <1>0, <1>7, <2>1 DEF RespawnFails, Owned, AtRest
  <2>5. Stopping'
    BY <1>0, <1>7, <2>1 DEF RespawnFails, Stopping, ClientTypeOK
  <2>6. Channels'
    BY <1>0, <1>7, <2>1 DEF RespawnFails, Channels, AtRest
  <2>7. Alone'
    BY <1>0, <1>7, <2>1 DEF RespawnFails, Alone, SessionTypeOK, ChildTypeOK
  <2>9. Settled'
    BY <1>0, <1>7, <2>1 DEF RespawnFails, Settled, AtRest
  <2> QED
    BY <1>0, <1>7, <2>2, <2>3, <2>4, <2>5, <2>6, <2>7, <2>9
       DEF RespawnFails,
       SupervisorInv
<1>8. ASSUME NEW k \in Sessions, Finish(k) PROVE SupervisorInv'
  <2>1. /\ k = session /\ done = session /\ stopCh = session /\ ~adopted /\ session \in Sessions
        /\ \A j \in Sessions : j # k => loop[j] = "ended"
    BY <1>0, <1>8 DEF Finish, OneLoop
  <2>2. OneLoop'
    BY <1>0, <1>8, <2>1 DEF Finish, OneLoop, SessionTypeOK
  <2>3. LoopState'
    BY <1>0, <1>8, <2>1 DEF Finish, LoopState, AtRest, SessionTypeOK
  <2>4. Owned'
    BY <1>0, <1>8, <2>1 DEF Finish, Owned, AtRest, LoopState
  <2>5. Channels'
    BY <1>0, <1>8, <2>1 DEF Finish, Channels, AtRest, LoopState
  <2>6. Alone'
    BY <1>0, <1>8, <2>1 DEF Finish, Alone, SessionTypeOK, ChildTypeOK
  <2> QED
    BY <1>0, <1>8, <2>2, <2>3, <2>4, <2>5, <2>6
       DEF Finish, Stopping, Settled, AtRest,
       SupervisorInv
<1>9. ASSUME NEW c \in Clients, StopIdle(c) PROVE SupervisorInv'
  <2>1. Settled'
    BY <1>0, <1>9 DEF StopIdle, Settled, AtRest
  <2> QED
    BY <1>0, <1>9, <2>1
       DEF StopIdle, OneLoop, LoopState, Owned, Stopping, Channels, Alone, AtRest,
       SupervisorInv
<1>10. ASSUME NEW c \in Clients, StopBegin(c) PROVE SupervisorInv'
  <2>1. LoopState'
    BY <1>0, <1>10 DEF StopBegin, LoopState, AtRest, SessionTypeOK
  <2>2. Owned'
    BY <1>0, <1>10 DEF StopBegin, Owned, AtRest
  <2>3. Stopping'
    BY <1>0, <1>10 DEF StopBegin, Stopping, ClientTypeOK, Owned, AtRest
  <2>4. Channels'
    BY <1>0, <1>10 DEF StopBegin, Channels, AtRest
  <2>5. Settled'
    BY <1>0, <1>10 DEF StopBegin, Settled, AtRest, Owned
  <2> QED
    BY <1>0, <1>10, <2>1, <2>2, <2>3, <2>4, <2>5
       DEF StopBegin, OneLoop, Alone,
       SupervisorInv
<1>11. ASSUME NEW c \in Clients, StopSignals(c) PROVE SupervisorInv'
  <2>1. Stopping'
    BY <1>0, <1>11 DEF StopSignals, Returns, CloseOnce, Stopping, ClientTypeOK, Channels
  <2>2. Channels'
    <3>1. held[c].stopCh = session /\ stopCh = session /\ session # None
      BY <1>0, <1>11 DEF StopSignals, Stopping
    <3>2. ~onceUsed => session \notin closedStop
      BY <1>0, <3>1 DEF Channels
    <3>3. /\ closedStop' \subseteq closedStop \cup {session} /\ onceUsed' /\ ~panicked'
          /\ UNCHANGED <<session, closedDone, stopCh, adopted, state>>
      BY <1>0, <1>11, <3>1, <3>2 DEF StopSignals, CloseOnce, Channels
    <3> QED
      BY <1>0, <3>1, <3>3 DEF Channels, AtRest, SessionTypeOK
  <2> QED
    BY <1>0, <1>11, <2>1, <2>2
       DEF StopSignals, Returns, CloseOnce, OneLoop, LoopState, Owned, Alone, Settled, AtRest,
       SupervisorInv
<1>12. ASSUME NEW c \in Clients, StopKills(c) PROVE SupervisorInv'
  <2>1. Alone'
    BY <1>0, <1>12 DEF StopKills, Alone, SessionTypeOK, ChildTypeOK
  <2> QED
    BY <1>0, <1>12, <2>1
       DEF StopKills, OneLoop, LoopState, Owned, Stopping, Channels, Settled, AtRest,
       SupervisorInv
<1>13. ASSUME NEW c \in Clients, StopReturns(c) PROVE SupervisorInv'
  <2>1. Stopping'
    BY <1>0, <1>13 DEF StopReturns, Returns, StopIsOver, Stopping, ClientTypeOK, Channels, AtRest
  <2>2. Settled'
    BY <1>0, <1>13 DEF StopReturns, Returns, StopIsOver, Settled, AtRest, Stopping, Channels
  <2> QED
    BY <1>0, <1>13, <2>1, <2>2
       DEF StopReturns, Returns, StopIsOver, OneLoop, LoopState, Owned, Channels, Alone, AtRest,
       SupervisorInv
<1>14. ASSUME NEW c \in Clients, StopTerminatesPID(c) PROVE SupervisorInv'
  <2>1. Stopping'
    BY <1>0, <1>14 DEF StopTerminatesPID, Stopping, ClientTypeOK
  <2> QED
    BY <1>0, <1>14, <2>1
       DEF StopTerminatesPID, OneLoop, LoopState, Owned, Channels, Alone, Settled, AtRest,
       SupervisorInv
<1>15. ASSUME NEW c \in Clients, StopForgets(c) PROVE SupervisorInv'
  <2>1. LoopState'
    BY <1>0, <1>15 DEF StopForgets, ToStopped, Returns, StopIsOver, LoopState, AtRest, SessionTypeOK, Stopping, OneLoop
  <2>2. Owned'
    BY <1>0, <1>15 DEF StopForgets, ToStopped, Returns, StopIsOver, Owned, AtRest
  <2>3. Stopping'
    BY <1>0, <1>15 DEF StopForgets, ToStopped, Returns, StopIsOver, Stopping, ClientTypeOK
  <2>4. Channels'
    BY <1>0, <1>15 DEF StopForgets, ToStopped, Returns, StopIsOver, Channels, AtRest
  <2>5. Alone'
    BY <1>0, <1>15 DEF StopForgets, ToStopped, Returns, StopIsOver, Alone, SessionTypeOK, ChildTypeOK, Stopping, OneLoop
  <2>6. Settled'
    BY <1>0, <1>15 DEF StopForgets, ToStopped, Returns, StopIsOver, Settled, AtRest
  <2> QED
    BY <1>0, <1>15, <2>1, <2>2, <2>3, <2>4, <2>5, <2>6
       DEF StopForgets, ToStopped, Returns, StopIsOver, OneLoop,
       SupervisorInv
<1>16. CASE ChildDies
  <2>1. Alone'
    BY <1>0, <1>16 DEF ChildDies, Alone, SessionTypeOK, ChildTypeOK
  <2> QED
    BY <1>0, <1>16, <2>1
       DEF ChildDies, OneLoop, LoopState, Owned, Stopping, Channels, Settled, AtRest,
       SupervisorInv
<1>17. CASE ChildWritesStatus
  <2> QED
    BY <1>0, <1>17
       DEF ChildWritesStatus, OneLoop, LoopState, Owned, Stopping, Channels, Alone, Settled, AtRest,
       SupervisorInv
<1>18. CASE WebRestart
  <2>1. OneLoop'
    BY <1>0, <1>18 DEF WebRestart, OneLoop, SessionTypeOK
  <2>2. LoopState'
    BY <1>0, <1>18 DEF WebRestart, LoopState, AtRest, SessionTypeOK
  <2>3. Owned'
    <3>1. done' = None
      BY <1>18, Zenon DEF WebRestart
    <3>2. \/ state' = "adopted" /\ adopted' /\ pid' = statusPid /\ statusPid \in live
          \/ state' = "stopped" /\ ~adopted'
      BY <1>18, Zenon DEF WebRestart
    <3> QED
      BY <1>0, <3>1, <3>2 DEF Owned, AtRest, ChildTypeOK
  <2>4. Stopping'
    BY <1>0, <1>18 DEF WebRestart, Stopping, ClientTypeOK
  <2>5. Channels'
    BY <1>0, <1>18 DEF WebRestart, Channels, AtRest
  <2>6. Alone'
    <3>1. boots' = boots + 1
      BY <1>18, Zenon DEF WebRestart
    <3> QED
      BY <1>0, <3>1 DEF Alone, ChildTypeOK
  <2>8. Settled'
    BY <1>0, <1>18 DEF WebRestart, Settled, AtRest
  <2> QED
    BY <1>0, <1>18, <2>1, <2>2, <2>3, <2>4, <2>5, <2>6, <2>8
       DEF WebRestart,
       SupervisorInv
<1>19. CASE UNCHANGED vars
  BY <1>0, <1>19 DEF vars, SupervisorInv,
     OneLoop, LoopState, Owned, Stopping, Channels, Alone, Settled, AtRest
<1> QED
  BY <1>1, <1>2, <1>3, <1>4, <1>5, <1>6, <1>7, <1>8, <1>9, <1>10, <1>11, <1>12, <1>13, <1>14, <1>15, <1>16, <1>17, <1>18, <1>19 DEF Next, Supervise, StopStep, Environment
\* An overlap and a restart of the web server are remembered, and only a Start
\* that finds the supervisor not busy overlaps.
LEMMA Remembered ==
  ASSUME TypeOK, [Next]_vars
  PROVE  /\ overlapped => overlapped'
         /\ boots' = 0 => boots = 0
         /\ overlapped' /\ ~overlapped => ~Busy
<1>1. boots \in Nat
  BY Bounds DEF TypeOK, ChildTypeOK
<1>2. CASE UNCHANGED <<overlapped, boots>>
  BY <1>2
<1>3. CASE Start \/ StartFails
  BY <1>3 DEF Start, StartFails, childVars
<1>4. ASSUME NEW k \in Sessions, Supervise(k) PROVE UNCHANGED <<overlapped, boots>>
  BY <1>4 DEF Supervise, ReadProc, ChildExited, BackoffStopped, Respawn, RespawnFails, Finish,
     childVars, histVars
<1>5. ASSUME NEW c \in Clients, StopIdle(c) \/ StopBegin(c) \/ StopStep(c)
      PROVE  UNCHANGED <<overlapped, boots>>
  BY <1>5 DEF StopIdle, StopBegin, StopStep, StopSignals, StopKills, StopReturns,
     StopTerminatesPID, StopForgets, childVars, histVars
<1>6. CASE ChildDies \/ ChildWritesStatus
  BY <1>2, <1>6 DEF ChildDies, ChildWritesStatus, histVars
<1>7. CASE WebRestart
  <2>1. boots' = boots + 1 /\ UNCHANGED overlapped
    BY <1>7, Zenon DEF WebRestart
  <2> QED
    BY <1>1, <2>1
<1>8. CASE UNCHANGED vars
  BY <1>2, <1>8 DEF vars, childVars, histVars
<1> QED
  BY <1>2, <1>3, <1>4, <1>5, <1>6, <1>7, <1>8 DEF Next, Environment

\* So the invariant holds up to the first overlap.
LEMMA Invariant == Spec => [](TypeOK /\ (~overlapped => SupervisorInv))
<1> DEFINE Inv == TypeOK /\ (~overlapped => SupervisorInv)
<1>1. Init => Inv
  BY InitType, InitInv
<1>2. Inv /\ [Next]_vars => Inv'
  <2> SUFFICES ASSUME Inv, [Next]_vars PROVE Inv'
    OBVIOUS
  <2>1. overlapped => overlapped'
    BY Remembered
  <2> QED
    BY <2>1, NextType, NextInv
<1> QED
  BY <1>1, <1>2, PTL DEF Spec

\* There are never two replication processes, until a Start overlaps a Stop or
\* the end of a session, or the web server is restarted (a restarted one may not
\* know of a process that runs).
THEOREM OneChild == Spec => []OneChildUntilOverlap
<1>1. (~overlapped => SupervisorInv) => OneChildUntilOverlap
  <2> SUFFICES ASSUME SupervisorInv, boots = 0 PROVE Cardinality(live) <= 1
    BY DEF OneChildUntilOverlap
  <2>1. PICK p \in Children \cup {None} : live \subseteq {p}
    <3>1. CASE \A k \in Sessions : loop[k] \notin {"top", "wait"}
      BY <3>1 DEF SupervisorInv, Alone
    <3>2. CASE \E k \in Sessions : loop[k] \in {"top", "wait"}
      BY <3>2 DEF SupervisorInv, Alone, TypeOK, FieldTypeOK, SessionTypeOK
    <3> QED
      BY <3>1, <3>2
  <2>2. IsFiniteSet({p}) /\ Cardinality({p}) = 1
    BY FS_Singleton
  <2>3. IsFiniteSet(live) /\ Cardinality(live) <= Cardinality({p})
    BY <2>1, <2>2, FS_Subset
  <2> QED
    BY <2>2, <2>3
<1> QED
  BY <1>1, Invariant, PTL

\* Up to the same two events a Stop that has returned leaves no process behind.
THEOREM NothingLeft == Spec => []StopLeavesNothing
<1>1. (~overlapped => SupervisorInv) => StopLeavesNothing
  BY DEF SupervisorInv, Settled, LoopState, Alone, AtRest, StopLeavesNothing
<1> QED
  BY <1>1, Invariant, PTL

\* Only a Start that overlaps a Stop lets a stopCh be closed twice.
THEOREM ClosedOnce == Spec => []NoDoubleClose
<1>1. (~overlapped => SupervisorInv) => NoDoubleClose
  BY DEF SupervisorInv, Channels, NoDoubleClose
<1> QED
  BY <1>1, Invariant, PTL

(***************************************************************************)
(* The restart budget, however Starts overlap.  Every session in its       *)
(* backoff has been counted in restarts, or was in its backoff at the last *)
(* Start.                                                                  *)
(***************************************************************************)
Counted ==
  /\ RestartBudget
  /\ (\E k \in Sessions : loop[k] # "ended") =>
       spawned + Cardinality(Backoffs) <= 1 + restarts + carried

\* A step that starts no backoff, spawns nothing and leaves the counters alone.
LEMMA NothingCounted ==
  ASSUME TypeOK, TypeOK', Counted, UNCHANGED <<spawned, restarts, carried>>,
         \A k \in Sessions : loop[k] = "ended" => loop'[k] = "ended",
         \A k \in Sessions : loop'[k] = "backoff" => loop[k] = "backoff"
  PROVE  Counted'
<1>1. Cardinality(Backoffs') <= Cardinality(Backoffs)
  <2>1. Backoffs' \subseteq Backoffs
    BY DEF Backoffs
  <2> QED
    BY <2>1, BackoffsFinite, FS_Subset
<1>2. Cardinality(Backoffs) \in Nat /\ Cardinality(Backoffs') \in Nat
  <2>1. IsFiniteSet(Backoffs')
    <3>1. Backoffs' \subseteq Backoffs
      BY DEF Backoffs
    <3> QED
      BY <3>1, BackoffsFinite, FS_Subset
  <2> QED
    BY <2>1, BackoffsFinite, FS_CardinalityType
<1>3. spawned \in Nat /\ carried \in Nat /\ restarts \in Nat
  BY DEF TypeOK, FieldTypeOK, ChildTypeOK
<1>4. RestartBudget'
  BY DEF Counted, RestartBudget
<1>5. ASSUME \E k \in Sessions : loop'[k] # "ended"
      PROVE  spawned' + Cardinality(Backoffs') <= 1 + restarts' + carried'
  <2>1. \E k \in Sessions : loop[k] # "ended"
    BY <1>5
  <2>2. spawned + Cardinality(Backoffs) <= 1 + restarts + carried
    BY <2>1 DEF Counted
  <2>3. ASSUME NEW a \in Nat, NEW b \in Nat, b <= a, NEW n \in Nat, NEW r \in Nat,
               NEW d \in Nat, n + a <= 1 + r + d
        PROVE  n + b <= 1 + r + d
    BY <2>3
  <2>4. spawned + Cardinality(Backoffs') <= 1 + restarts + carried
    BY <1>1, <1>2, <1>3, <2>2, <2>3
  <2> QED
    BY <2>4
<1> QED
  BY <1>4, <1>5 DEF Counted

LEMMA CountedNext == TypeOK /\ Counted /\ [Next]_vars => Counted'
<1> SUFFICES ASSUME TypeOK, Counted, [Next]_vars PROVE Counted'
  OBVIOUS
<1> USE Bounds
<1>0. /\ TypeOK' /\ spawned \in Nat /\ carried \in Nat /\ restarts \in 0 .. MaxRestarts
      /\ loop \in [Sessions -> {"top", "wait", "backoff", "finish", "ended"}]
  BY NextType DEF TypeOK, FieldTypeOK, ChildTypeOK, SessionTypeOK
<1>1. CASE Start
  <2>1. /\ spawned' = 1 /\ restarts' = 0 /\ carried' = Cardinality(Backoffs)
        /\ loop' = [loop EXCEPT ![session'] = "top"]
    BY <1>1 DEF Start
  <2>2. Backoffs' \subseteq Backoffs
    BY <1>0, <2>1 DEF Backoffs
  <2>3. Cardinality(Backoffs') <= Cardinality(Backoffs) /\ Cardinality(Backoffs') \in Nat
    BY <2>2, BackoffsFinite, FS_Subset, FS_CardinalityType
  <2> QED
    BY <2>1, <2>3, BackoffsFinite DEF Counted, RestartBudget
<1>2. ASSUME NEW k \in Sessions, Respawn(k) PROVE Counted'
  <2>1. /\ spawned' = spawned + 1 /\ restarts' = restarts /\ carried' = carried
        /\ loop[k] = "backoff" /\ loop' = [loop EXCEPT ![k] = "top"]
    BY <1>2 DEF Respawn
  <2>2. k \in Backoffs /\ Backoffs' = Backoffs \ {k}
    BY <1>0, <2>1 DEF Backoffs
  <2>3. Cardinality(Backoffs') = Cardinality(Backoffs) - 1
    BY <2>2, BackoffsFinite, FS_RemoveElement
  <2>4. Cardinality(Backoffs) # 0
    BY <2>2, BackoffsFinite, FS_EmptySet
  <2>5. spawned + Cardinality(Backoffs) <= 1 + restarts + carried
    BY <2>1 DEF Counted
  <2> QED
    BY <1>0, <2>1, <2>3, <2>4, <2>5, BackoffsFinite DEF Counted, RestartBudget
<1>3. ASSUME NEW k \in Sessions, ChildExited(k) PROVE Counted'
  <2>1. /\ UNCHANGED <<spawned, carried>> /\ loop[k] = "wait"
    BY <1>3 DEF ChildExited, histVars
  <2>2. CASE loop' = [loop EXCEPT ![k] = "finish"] /\ UNCHANGED restarts
    <3>1. /\ \A j \in Sessions : loop[j] = "ended" => loop'[j] = "ended"
          /\ \A j \in Sessions : loop'[j] = "backoff" => loop[j] = "backoff"
      BY <1>0, <2>1, <2>2
    <3> QED
      BY <1>0, <2>1, <2>2, <3>1, NothingCounted
  <2>3. CASE loop' = [loop EXCEPT ![k] = "backoff"] /\ restarts' = restarts + 1
    <3>1. k \notin Backoffs /\ Backoffs' = Backoffs \cup {k}
      BY <1>0, <2>1, <2>3 DEF Backoffs
    <3>2. Cardinality(Backoffs') = Cardinality(Backoffs) + 1
      BY <3>1, BackoffsFinite, FS_AddElement
    <3>3. spawned + Cardinality(Backoffs) <= 1 + restarts + carried
      BY <2>1 DEF Counted
    <3> QED
      BY <1>0, <2>1, <2>3, <3>2, <3>3, BackoffsFinite DEF Counted, RestartBudget
  <2> QED
    BY <1>3, <2>2, <2>3 DEF ChildExited, CountRestart
<1>4. ASSUME NEW k \in Sessions,
             ReadProc(k) \/ BackoffStopped(k) \/ RespawnFails(k) \/ Finish(k)
      PROVE  Counted'
  <2>1. UNCHANGED <<spawned, restarts, carried>> /\ loop[k] # "ended"
    BY <1>4 DEF ReadProc, BackoffStopped, RespawnFails, Finish, histVars, fieldVars
  <2>2. PICK l \in {"top", "wait", "finish", "ended"} : loop' = [loop EXCEPT ![k] = l]
    BY <1>4 DEF ReadProc, BackoffStopped, RespawnFails, Finish
  <2>3. /\ \A j \in Sessions : loop[j] = "ended" => loop'[j] = "ended"
        /\ \A j \in Sessions : loop'[j] = "backoff" => loop[j] = "backoff"
    BY <1>0, <2>1, <2>2
  <2> QED
    BY <1>0, <2>1, <2>3, NothingCounted
<1>5. CASE UNCHANGED <<spawned, restarts, carried, loop>>
  BY <1>0, <1>5, NothingCounted
<1>6. CASE StartFails \/ ChildDies \/ ChildWritesStatus
  BY <1>5, <1>6 DEF StartFails, ChildDies, ChildWritesStatus, fieldVars, sessionVars, histVars
<1>7. ASSUME NEW c \in Clients, StopIdle(c) \/ StopBegin(c) \/ StopStep(c) PROVE Counted'
  BY <1>5, <1>7 DEF StopIdle, StopBegin, StopStep, StopSignals, StopKills, StopReturns,
     StopTerminatesPID, StopForgets, fieldVars, sessionVars, histVars
<1>8. CASE WebRestart
  <2>1. UNCHANGED <<spawned, carried>> /\ loop' = [k \in Sessions |-> "ended"]
    BY <1>8, Zenon DEF WebRestart
  <2> QED
    BY <2>1 DEF Counted, RestartBudget
<1>9. CASE UNCHANGED vars
  BY <1>5, <1>9 DEF vars, fieldVars, sessionVars, histVars
<1> QED
  BY <1>1, <1>2, <1>3, <1>4, <1>6, <1>7, <1>8, <1>9 DEF Next, Supervise, Environment

\* A Start leads to at most maxRestarts more processes, and one for each session
\* that was in its backoff, however Starts, Stops, crashes and restarts overlap.
THEOREM BoundedRestarts == Spec => []RestartBudget
<1>1. Init => Counted
  BY Bounds DEF Init, Counted, RestartBudget, None
<1>2. Counted => RestartBudget
  BY DEF Counted
<1> QED
  BY <1>1, <1>2, TypeCorrect, CountedNext, PTL DEF Spec

(***************************************************************************)
(* The supervisor implements CDCControl, whose promise ends with the first *)
(* overlap or with a restart of the web server.                            *)
(***************************************************************************)
StopSeen == state = "stopping" => stopRequested

LEMMA StopIsSeen == Spec => []StopSeen
<1>1. Init => StopSeen
  BY DEF Init, StopSeen
<1>2. StopSeen /\ [Next]_vars => StopSeen'
  <2> SUFFICES ASSUME StopSeen, [Next]_vars PROVE StopSeen'
    OBVIOUS
  <2> USE DEF StopSeen, fieldVars
  <2>1. CASE Start \/ StartFails
    BY <2>1 DEF Start, StartFails, Spawn
  <2>2. ASSUME NEW k \in Sessions, Supervise(k) PROVE StopSeen'
    BY <2>2 DEF Supervise, ReadProc, ChildExited, BackoffStopped, Respawn, RespawnFails, Finish,
       ToStopped, Spawn
  <2>3. ASSUME NEW c \in Clients, StopIdle(c) \/ StopBegin(c) \/ StopStep(c) PROVE StopSeen'
    BY <2>3 DEF StopIdle, StopBegin, StopStep, StopSignals, StopKills, StopReturns,
       StopTerminatesPID, StopForgets, ToStopped
  <2>4. CASE Environment
    BY <2>4 DEF Environment, ChildDies, ChildWritesStatus, WebRestart
  <2>5. CASE UNCHANGED vars
    BY <2>5 DEF vars
  <2> QED
    BY <2>1, <2>2, <2>3, <2>4, <2>5 DEF Next
<1> QED
  BY <1>1, <1>2, PTL DEF Spec

\* Before an overlap and a restart of the web server every step of the
\* supervisor is a step of CDCControl or leaves its variables alone.
LEMMA ControlStep ==
  ASSUME SupervisorInv, SupervisorInv', StopSeen, boots = 0, boots' = 0, [Next]_vars,
         overlapped = FALSE, overlapped' = FALSE
  PROVE  [Control!Next]_(Control!vars)
<1> DEFINE budget == IF wanted THEN MaxRestarts - restarts + pendingRespawns ELSE 0
<1> USE Bounds
<1>0. /\ OneLoop /\ LoopState /\ Alone /\ Owned
      /\ FieldTypeOK /\ FlagTypeOK /\ SessionTypeOK /\ ChildTypeOK /\ FieldTypeOK'
  BY DEF SupervisorInv, TypeOK, ChildTypeOK
<1>01. pendingRespawns \in {0, 1} /\ pendingRespawns' \in {0, 1}
  BY DEF pendingRespawns, Backoffs
<1>02. MaxRestarts - restarts \in Nat /\ restarts \in Nat
  BY <1>0 DEF FieldTypeOK
<1>03. /\ Control!vars = <<wanted, live # {}, budget, boots = 0, overlapped>>
       /\ Control!vars' = <<wanted', (live # {})', budget', boots' = 0, overlapped'>>
  BY DEF Control!vars
<1>04. ASSUME UNCHANGED <<state, live, restarts, loop>> PROVE UNCHANGED Control!vars
  BY <1>04, <1>03 DEF wanted, pendingRespawns, Backoffs
<1>05. ASSUME Control!Start \/ Control!End \/ Control!Restart \/ Control!Stop
       PROVE  Control!Next
  <2>1. boots = 0 /\ ~overlapped /\ (boots = 0)' = (boots = 0) /\ overlapped' = overlapped
    OBVIOUS
  <2> QED
    BY <1>05, <2>1, Zenon DEF Control!Next
<1>06. ASSUME UNCHANGED live, ~wanted, ~wanted' PROVE UNCHANGED Control!vars
  <2>1. UNCHANGED overlapped
    OBVIOUS
  <2> QED
    BY <1>03, <1>06, <2>1 DEF wanted
<1>07. ASSUME wanted, ~wanted', UNCHANGED live PROVE Control!Next
  <2>1. Control!Stop
    BY <1>07 DEF Control!Stop, wanted
  <2> QED
    BY <1>05, <2>1
<1>1. CASE Start
  <2>1. AtRest /\ (\A k \in Sessions : loop[k] = "ended")
    BY <1>1, SessionOver DEF Start
  <2>2. ~wanted /\ live = {}
    BY <1>0, <2>1 DEF wanted, AtRest, Alone
  <2>3. state' = "running" /\ restarts' = 0 /\ live' # {}
    BY <1>1 DEF Start, Spawn
  <2>4. \A k \in Sessions : loop'[k] # "backoff"
    BY <1>0, <1>1, <2>1 DEF Start, SessionTypeOK
  <2>5. pendingRespawns' = 0 /\ wanted'
    BY <2>3, <2>4 DEF pendingRespawns, Backoffs, wanted
  <2> QED
    <3>1. Control!Start
      BY <2>2, <2>3, <2>5 DEF Control!Start, wanted
    <3> QED
      BY <1>05, <3>1
<1>2. CASE StartFails
  <2>1. AtRest
    BY <1>2, SessionOver DEF StartFails
  <2>2. ~wanted /\ ~wanted' /\ UNCHANGED live
    BY <1>2, <2>1 DEF wanted, AtRest, StartFails, childVars
  <2> QED
    BY <1>06, <2>2
<1>3. ASSUME NEW k \in Sessions, Supervise(k) PROVE [Control!Next]_(Control!vars)
  <2>0. \A j \in Sessions : j # k => loop[j] # "backoff" /\ loop'[j] # "backoff"
    <3>1. loop[k] # "ended"
      BY <1>3 DEF Supervise, ReadProc, ChildExited, BackoffStopped, Respawn, RespawnFails, Finish
    <3>2. PICK l : loop' = [loop EXCEPT ![k] = l]
      BY <1>3 DEF Supervise, ReadProc, ChildExited, BackoffStopped, Respawn, RespawnFails, Finish
    <3>3. \A j \in Sessions : j # k => loop[j] = "ended" /\ loop'[j] = loop[j]
      BY <1>0, <3>1, <3>2 DEF OneLoop, SessionTypeOK
    <3> QED
      BY <3>3
  <2>01. /\ pendingRespawns = IF loop[k] = "backoff" THEN 1 ELSE 0
         /\ pendingRespawns' = IF loop'[k] = "backoff" THEN 1 ELSE 0
    BY <2>0 DEF pendingRespawns, Backoffs
  <2>1. CASE ReadProc(k) \/ Finish(k)
    <3>1. UNCHANGED <<state, live, restarts>> /\ loop[k] # "backoff" /\ loop'[k] # "backoff"
      BY <1>0, <2>1 DEF ReadProc, Finish, fieldVars, childVars, SessionTypeOK
    <3>2. UNCHANGED wanted /\ UNCHANGED budget
      BY <2>01, <3>1 DEF wanted
    <3> QED
      BY <1>03, <3>1, <3>2
  <2>2. CASE ChildExited(k)
    <3>1. UNCHANGED live /\ loop[k] = "wait"
      BY <2>2 DEF ChildExited, childVars
    <3>2. CASE state' = "starting"
      <4>1. loop'[k] = "backoff" /\ restarts' = restarts + 1 /\ ~stopRequested
        BY <1>0, <2>2, <3>2 DEF ChildExited, CountRestart, ToStopped, SessionTypeOK
      <4>2. wanted /\ wanted'
        BY <1>0, <3>1, <3>2, <4>1 DEF wanted, LoopState, StopSeen
      <4>3. UNCHANGED budget
        BY <1>02, <2>01, <3>1, <4>1, <4>2
      <4> QED
        BY <1>03, <3>1, <4>2, <4>3
    <3>3. CASE state' # "starting"
      <4>1. ~wanted'
        BY <2>2, <3>3 DEF ChildExited, ToStopped, wanted
      <4>2. CASE wanted
        BY <1>07, <3>1, <4>1, <4>2
      <4>3. CASE ~wanted
        BY <1>06, <3>1, <4>1, <4>3
      <4> QED
        BY <4>2, <4>3
    <3> QED
      BY <3>2, <3>3
  <2>3. CASE BackoffStopped(k)
    <3>1. ~wanted' /\ UNCHANGED live
      BY <2>3 DEF BackoffStopped, ToStopped, childVars, wanted
    <3>2. CASE wanted
      BY <1>07, <3>1, <3>2
    <3>3. CASE ~wanted
      BY <1>06, <3>1, <3>3
    <3> QED
      BY <3>2, <3>3
  <2>4. CASE Respawn(k) \/ RespawnFails(k)
    <3>1. loop[k] = "backoff" /\ ~stopRequested /\ loop'[k] # "backoff" /\ UNCHANGED restarts
      BY <1>0, <2>4 DEF Respawn, RespawnFails, SessionTypeOK
    <3>2. wanted /\ live = {}
      <4>1. state = "starting"
        BY <1>0, <3>1 DEF LoopState, StopSeen
      <4>2. \A j \in Sessions : loop[j] \notin {"top", "wait"}
        BY <1>0, <3>1 DEF OneLoop
      <4> QED
        BY <1>0, <4>1, <4>2 DEF wanted, Alone
    <3>3. CASE wanted'
      <4>1. budget' = budget - 1 /\ budget > 0
        BY <1>02, <2>01, <3>1, <3>2, <3>3
      <4> QED
        BY <1>05, <3>2, <3>3, <4>1 DEF Control!Restart
    <3>4. CASE ~wanted'
      <4>1. UNCHANGED live
        BY <2>4, <3>4 DEF Respawn, RespawnFails, Spawn, wanted, childVars
      <4> QED
        BY <1>07, <3>2, <3>4, <4>1
    <3> QED
      BY <3>3, <3>4
  <2> QED
    BY <1>3, <2>1, <2>2, <2>3, <2>4 DEF Supervise
<1>4. ASSUME NEW c \in Clients, StopBegin(c) \/ StopForgets(c) PROVE [Control!Next]_(Control!vars)
  <2>1. ~wanted' /\ UNCHANGED live
    BY <1>4 DEF StopBegin, StopForgets, ToStopped, childVars, wanted
  <2>2. CASE wanted
    BY <1>07, <2>1, <2>2
  <2>3. CASE ~wanted
    BY <1>06, <2>1, <2>3
  <2> QED
    BY <2>2, <2>3
<1>5. ASSUME NEW c \in Clients,
             StopIdle(c) \/ StopSignals(c) \/ StopReturns(c) \/ StopTerminatesPID(c)
      PROVE  [Control!Next]_(Control!vars)
  BY <1>04, <1>5 DEF StopIdle, StopSignals, StopReturns, StopTerminatesPID, fieldVars, sessionVars,
     childVars
<1>6. ASSUME UNCHANGED <<state, restarts, loop>>, live' \subseteq live
      PROVE  [Control!Next]_(Control!vars)
  <2>1. UNCHANGED <<wanted, pendingRespawns>>
    BY <1>6 DEF wanted, pendingRespawns, Backoffs
  <2>2. UNCHANGED budget
    BY <1>6, <2>1
  <2>3. CASE live # {} /\ live' = {}
    BY <1>05, <2>1, <2>2, <2>3 DEF Control!End
  <2>4. CASE (live # {}) = (live' # {})
    BY <1>03, <2>1, <2>2, <2>4
  <2> QED
    BY <1>6, <2>3, <2>4
<1>7. ASSUME NEW c \in Clients, StopKills(c) PROVE [Control!Next]_(Control!vars)
  BY <1>6, <1>7 DEF StopKills, fieldVars, sessionVars
<1>8. CASE Environment
  BY <1>0, <1>6, <1>8 DEF Environment, ChildDies, ChildWritesStatus, WebRestart, fieldVars, sessionVars
<1>9. CASE UNCHANGED vars
  BY <1>04, <1>9 DEF vars, fieldVars, sessionVars, childVars
<1> QED
  BY <1>1, <1>2, <1>3, <1>4, <1>5, <1>7, <1>8, <1>9 DEF Next, StopStep

\* One process at a time, started again a bounded number of times, and never
\* after a Stop.
THEOREM Implements == Spec => ImplementsControl
<1>1. Init => Control!Init
  BY DEF Init, Control!Init, wanted
<1> DEFINE Inv == TypeOK /\ (~overlapped => SupervisorInv)
<1>2. Inv /\ Inv' /\ StopSeen /\ [Next]_vars => [Control!Next]_(Control!vars)
  <2> SUFFICES ASSUME Inv, Inv', StopSeen, [Next]_vars
               PROVE  [Control!Next]_(Control!vars)
    OBVIOUS
  <2>0. overlapped \in BOOLEAN /\ overlapped' \in BOOLEAN
    BY DEF TypeOK, FlagTypeOK
  <2>1. CASE boots' # 0
    BY <2>1 DEF Control!Next, Control!Void
  <2>2. CASE boots' = 0 /\ overlapped' = FALSE
    <3>1. boots = 0 /\ overlapped = FALSE
      BY <2>0, <2>2, Remembered
    <3> QED
      BY <2>2, <3>1, ControlStep
  <2>3. CASE boots' = 0 /\ overlapped' = TRUE /\ overlapped = TRUE
    BY <2>3 DEF Control!Next
  <2>4. CASE boots' = 0 /\ overlapped' = TRUE /\ overlapped = FALSE
    <3>1. boots = 0 /\ ~Busy
      BY <2>4, Remembered
    <3>2. ~wanted
      BY <3>1 DEF Busy, wanted
    <3> QED
      BY <2>4, <3>1, <3>2 DEF Control!Next, Control!Overrun
  <2> QED
    BY <2>0, <2>1, <2>2, <2>3, <2>4
<1> QED
  BY <1>1, <1>2, Invariant, StopIsSeen, PTL DEF Spec, ImplementsControl, Control!Spec
=============================================================================
