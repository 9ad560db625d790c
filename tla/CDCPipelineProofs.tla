-------------------------- MODULE CDCPipelineProofs --------------------------
(***************************************************************************)
(* Theorems about CDCPipeline, for every log, number of tables and         *)
(* workers, capacity and set of occurrences.                               *)
(***************************************************************************)
EXTENDS CDCPipeline, FiniteSetTheorems, TLAPS

(***************************************************************************)
(* Type correctness, one lemma per group of variables that a step leaves   *)
(* alone and one step per action.                                          *)
(***************************************************************************)
LEMMA Constants ==
  /\ Len(Log) \in Nat \ {0} /\ \A i \in Pos : Log[i] \in Tables \cup {Commit}
  /\ EventsCap \in Nat \ {0} /\ BatchSize \in Nat \ {0} /\ MaxStarts \in Nat
  BY LogAssumption, ConfigAssumption DEF Pos

LEMMA PgFrame == PgTypeOK /\ UNCHANGED pgVars => PgTypeOK'
  BY DEF PgTypeOK, pgVars
LEMMA FileFrame == FileTypeOK /\ UNCHANGED fileVars => FileTypeOK'
  BY DEF FileTypeOK, fileVars
LEMMA ProcFrame == ProcTypeOK /\ UNCHANGED procVars => ProcTypeOK'
  BY DEF ProcTypeOK, procVars
LEMMA SrcFrame == SrcTypeOK /\ UNCHANGED srcVars => SrcTypeOK'
  BY DEF SrcTypeOK, srcVars
LEMMA ChanFrame == ChanTypeOK /\ UNCHANGED chan => ChanTypeOK'
  BY DEF ChanTypeOK
LEMMA DispFrame == DispTypeOK /\ UNCHANGED dispVars => DispTypeOK'
  BY DEF DispTypeOK, dispVars
LEMMA WorkFrame == WorkTypeOK /\ UNCHANGED workVars => WorkTypeOK'
  BY DEF WorkTypeOK, workVars
LEMMA HistFrame == HistTypeOK /\ UNCHANGED histVars => HistTypeOK'
  BY DEF HistTypeOK, histVars

LEMMA InitType == Init => TypeOK
<1> SUFFICES ASSUME Init PROVE TypeOK
  OBVIOUS
<1> USE Constants DEF Init, Stopped, Pos, NoSlot
<1>1. PgTypeOK
  BY DEF PgTypeOK
<1>2. FileTypeOK
  BY DEF FileTypeOK
<1>3. ProcTypeOK
  <2>1. starts \in 0 .. MaxStarts
    OBVIOUS
  <2> QED
    BY <2>1, Zenon DEF ProcTypeOK
<1>4. SrcTypeOK
  <2>1. next \in 1 .. Len(Log) + 1
    OBVIOUS
  <2> QED
    BY <2>1, Zenon DEF SrcTypeOK
<1>5. ChanTypeOK
  BY DEF ChanTypeOK
<1>6. DispTypeOK
  BY DEF DispTypeOK
<1>7. WorkTypeOK
  BY DEF WorkTypeOK
<1>8. HistTypeOK
  BY DEF HistTypeOK
<1> QED
  BY <1>1, <1>2, <1>3, <1>4, <1>5, <1>6, <1>7, <1>8 DEF TypeOK

LEMMA NextType == TypeOK /\ [Next]_vars => TypeOK'
<1> SUFFICES ASSUME TypeOK, [Next]_vars PROVE TypeOK'
  OBVIOUS
<1> USE Constants DEF Pos, NoSlot
<1>0. /\ PgTypeOK /\ FileTypeOK /\ ProcTypeOK /\ SrcTypeOK
      /\ ChanTypeOK /\ DispTypeOK /\ WorkTypeOK /\ HistTypeOK
  BY DEF TypeOK
<1>1. CASE CommitTransaction
  <2>1. PgTypeOK'
    BY <1>0, <1>1 DEF CommitTransaction, PgTypeOK
  <2> QED
    BY <1>0, <1>1, <2>1, FileFrame, ProcFrame, SrcFrame, ChanFrame, DispFrame,
       WorkFrame, HistFrame DEF CommitTransaction, TypeOK
<1>2. CASE StartRun
  <2>1. PgTypeOK'
    BY <1>0, <1>2 DEF StartRun, PgTypeOK
  <2>2. ProcTypeOK'
    BY <1>0, <1>2 DEF StartRun, ProcTypeOK
  <2>3. StartLSN \in Pos /\ StartLSN \in 1 .. Len(Log)
    BY <1>0 DEF StartLSN, FileTypeOK, PgTypeOK
  <2>4. next' \in 1 .. Len(Log) + 1 /\ from' \in 1 .. Len(Log) + 1
    <3>1. Larger(StartLSN, slot') \in 0 .. Len(Log)
      BY <2>1, <2>3 DEF PgTypeOK, Larger
    <3> QED
      BY <3>1, <1>2 DEF StartRun, ResumePoints
  <2>5. SrcTypeOK'
    BY <1>0, <1>2, <2>3, <2>4 DEF StartRun, SrcTypeOK
  <2>6. DispTypeOK'
    BY <1>0, <1>2 DEF StartRun, DispTypeOK
  <2>7. HistTypeOK'
    BY <1>0, <1>2, <2>4 DEF StartRun, HistTypeOK, PgTypeOK
  <2> QED
    BY <1>0, <1>2, <2>1, <2>2, <2>5, <2>6, <2>7, FileFrame, ChanFrame, WorkFrame
       DEF StartRun, TypeOK
<1>3. CASE StartFails
  <2>1. ProcTypeOK'
    BY <1>0, <1>3 DEF StartFails, ProcTypeOK
  <2>2. PgTypeOK'
    BY <1>0, <1>3 DEF StartFails, PgTypeOK
  <2>3. HistTypeOK'
    BY <1>0, <1>3 DEF StartFails, HistTypeOK, PgTypeOK
  <2> QED
    BY <1>0, <1>3, <2>1, <2>2, <2>3, FileFrame, SrcFrame, ChanFrame, DispFrame, WorkFrame
       DEF StartFails, TypeOK
<1>4. CASE Crash \/ ProcessExit
  <2>1. PICK r \in {"none", "clean", "error", "crash"} : EndProcess(r)
    BY <1>0, <1>4 DEF Crash, ProcessExit, ProcTypeOK
  <2>2. ProcTypeOK'
    BY <1>0, <2>1 DEF EndProcess, ProcTypeOK
  <2>3. SrcTypeOK'
    BY <1>0, <2>1 DEF EndProcess, SrcTypeOK
  <2>4. ChanTypeOK'
    BY <2>1 DEF EndProcess, ChanTypeOK
  <2>5. DispTypeOK'
    BY <2>1 DEF EndProcess, DispTypeOK
  <2>6. WorkTypeOK'
    BY <2>1 DEF EndProcess, WorkTypeOK
  <2>7. HistTypeOK'
    BY <1>0, <2>1 DEF EndProcess, HistTypeOK
  <2> QED
    BY <1>0, <2>1, <2>2, <2>3, <2>4, <2>5, <2>6, <2>7, PgFrame, FileFrame
       DEF EndProcess, TypeOK
<1>5. CASE Keepalive
  <2>1. PgTypeOK'
    BY <1>0, <1>5 DEF Keepalive, MaybeAck, NextIteration, Larger, SrcTypeOK, PgTypeOK
  <2>2. SrcTypeOK'
    BY <1>0, <1>5 DEF Keepalive, MaybeAck, NextIteration, SrcTypeOK
  <2> QED
    BY <1>0, <1>5, <2>1, <2>2, FileFrame, ProcFrame, ChanFrame, DispFrame, WorkFrame, HistFrame
       DEF Keepalive, MaybeAck, NextIteration, TypeOK
<1>6. CASE ReceiveRecord
  <2>1. PgTypeOK'
    BY <1>0, <1>6 DEF ReceiveRecord, MaybeAck, NextIteration, AdvanceLSN, Larger, SrcTypeOK, PgTypeOK
  <2>2. SrcTypeOK'
    BY <1>0, <1>6 DEF ReceiveRecord, MaybeAck, NextIteration, AdvanceLSN, PgTypeOK, SrcTypeOK
  <2>3. HistTypeOK'
    BY <1>0, <1>6 DEF ReceiveRecord, MaybeAck, NextIteration, AdvanceLSN, SrcTypeOK, PgTypeOK, HistTypeOK
  <2> QED
    BY <1>0, <1>6, <2>1, <2>2, <2>3, FileFrame, ProcFrame, ChanFrame, DispFrame, WorkFrame
       DEF ReceiveRecord, MaybeAck, NextIteration, AdvanceLSN, TypeOK
<1>7. CASE SendEvent
  <2>1. PgTypeOK'
    BY <1>0, <1>7 DEF SendEvent, MaybeAck, NextIteration, Larger, SrcTypeOK, PgTypeOK
  <2>2. SrcTypeOK'
    BY <1>0, <1>7 DEF SendEvent, MaybeAck, NextIteration, SrcTypeOK
  <2>3. ChanTypeOK'
    BY <1>0, <1>7 DEF SendEvent, MaybeAck, NextIteration, SrcTypeOK, ChanTypeOK
  <2> QED
    BY <1>0, <1>7, <2>1, <2>2, <2>3, FileFrame, ProcFrame, DispFrame, WorkFrame, HistFrame
       DEF SendEvent, MaybeAck, NextIteration, TypeOK
<1>8. CASE ParseFailure
  <2>1. next \in Pos
    <3>1. next <= walEnd
      BY <1>8 DEF ParseFailure
    <3>2. walEnd \in 1 .. Len(Log) /\ next \in 1 .. Len(Log) + 1
      BY <1>0 DEF PgTypeOK, SrcTypeOK
    <3> QED
      BY <3>1, <3>2
  <2>2. SrcTypeOK'
    BY <1>0, <1>8, <2>1 DEF ParseFailure, SrcTypeOK
  <2> QED
    BY <1>0, <1>8, <2>2, PgFrame, FileFrame, ProcFrame, ChanFrame, DispFrame, WorkFrame, HistFrame
       DEF ParseFailure, TypeOK
<1>34. CASE PassOver
  <2>1. next \in Pos /\ next + 1 \in 1 .. Len(Log) + 1
    BY <1>0, <1>34 DEF PassOver, PgTypeOK, SrcTypeOK
  <2>2. SrcTypeOK'
    BY <1>0, <1>34, <2>1 DEF PassOver, NextIteration, SrcTypeOK
  <2>3. HistTypeOK'
    BY <1>0, <1>34, <2>1 DEF PassOver, HistTypeOK
  <2> QED
    BY <1>0, <1>34, <2>2, <2>3, PgFrame, FileFrame, ProcFrame, ChanFrame, DispFrame, WorkFrame
       DEF PassOver, TypeOK
<1>9. CASE StreamStops \/ ConnectionLost
  <2>1. CloseStream
    BY <1>9 DEF StreamStops, ConnectionLost
  <2>2. SrcTypeOK'
    BY <1>0, <2>1 DEF CloseStream, SrcTypeOK
  <2> QED
    BY <1>0, <2>1, <2>2, PgFrame, FileFrame, ProcFrame, ChanFrame, DispFrame, WorkFrame, HistFrame
       DEF CloseStream, TypeOK
<1>10. CASE DispatchEvent
  <2>1. ChanTypeOK'
    BY <1>0, <1>10 DEF DispatchEvent, BeginFlush, Full, ChanTypeOK
  <2>2. Head(chan) \in Pos
    BY <1>0, <1>10 DEF DispatchEvent, ChanTypeOK
  <2>3. buf' \in [Tables -> Seq(Pos)]
    <3> DEFINE i == Head(chan)
               t == Log[i]
    <3>1. buf' = [buf EXCEPT ![t] = Append(buf[t], i)] /\ buf \in [Tables -> Seq(Pos)]
      BY <1>0, <1>10 DEF DispatchEvent, DispTypeOK
    <3>2. t \in Tables => Append(buf[t], i) \in Seq(Pos)
      BY <2>2, <3>1
    <3> HIDE DEF t, Pos
    <3> QED
      BY <3>1, <3>2
  <2>4. /\ disp' \in {"off", "select", "flush", "wait", "returned"}
        /\ cause' \in {"none", "closed", "cancelled"}
        /\ flushing' \subseteq Tables /\ out' \in Seq(Pos)
    BY <1>0, <1>10 DEF DispatchEvent, BeginFlush, Full, DispTypeOK
  <2>5. DispTypeOK'
    BY <2>3, <2>4 DEF DispTypeOK
  <2> QED
    BY <1>0, <1>10, <2>1, <2>5, PgFrame, FileFrame, ProcFrame, SrcFrame, WorkFrame, HistFrame
       DEF DispatchEvent, BeginFlush, Full, TypeOK
<1>11. CASE DispatchTick
  <2>1. DispTypeOK'
    BY <1>0, <1>11 DEF DispatchTick, BeginFlush, NonEmpty, DispTypeOK
  <2> QED
    BY <1>0, <1>11, <2>1, PgFrame, FileFrame, ProcFrame, SrcFrame, ChanFrame, WorkFrame, HistFrame
       DEF DispatchTick, BeginFlush, NonEmpty, TypeOK
<1>12. CASE DispatchClosed \/ DispatchCancelled
  <2>1. PICK why \in {"closed", "cancelled"} : BeginLastFlush(why)
    BY <1>12 DEF DispatchClosed, DispatchCancelled
  <2>2. DispTypeOK'
    BY <1>0, <2>1 DEF BeginLastFlush, BeginFlush, NonEmpty, DispTypeOK
  <2> QED
    BY <1>0, <2>1, <2>2, PgFrame, FileFrame, ProcFrame, SrcFrame, ChanFrame, WorkFrame, HistFrame
       DEF BeginLastFlush, BeginFlush, TypeOK
<1>13. ASSUME NEW t \in Tables, FlushTable(t) PROVE TypeOK'
  <2>1. DispTypeOK'
    BY <1>0, <1>13 DEF FlushTable, DispTypeOK
  <2> QED
    BY <1>0, <1>13, <2>1, PgFrame, FileFrame, ProcFrame, SrcFrame, ChanFrame, WorkFrame,
       HistFrame
       DEF FlushTable, TypeOK
<1>14. CASE FlushSend
  <2>1. DispTypeOK'
    BY <1>0, <1>14 DEF FlushSend, DispTypeOK
  <2>2. wch' \in [Workers -> Seq(Pos)] /\ \A w \in Workers : Len(wch'[w]) <= BatchSize
    <3> DEFINE i == Head(out)
               v == Route[Log[i]]
    <3>1. /\ wch' = [wch EXCEPT ![v] = Append(wch[v], i)]
          /\ Len(wch[v]) < BatchSize
          /\ wch \in [Workers -> Seq(Pos)] /\ \A w \in Workers : Len(wch[w]) <= BatchSize
      BY <1>0, <1>14 DEF FlushSend, WorkTypeOK
    <3>2. i \in Pos
      BY <1>0, <1>14 DEF FlushSend, DispTypeOK
    <3>3. v \in Workers => /\ Append(wch[v], i) \in Seq(Pos)
                           /\ Len(Append(wch[v], i)) <= BatchSize
      BY <3>1, <3>2
    <3> HIDE DEF v, Pos
    <3> QED
      BY <3>1, <3>3
  <2>3. WorkTypeOK'
    BY <1>0, <1>14, <2>2 DEF FlushSend, WorkTypeOK
  <2> QED
    BY <1>0, <1>14, <2>1, <2>3, PgFrame, FileFrame, ProcFrame, SrcFrame, ChanFrame,
       HistFrame
       DEF FlushSend, TypeOK
<1>15. CASE FlushAbandoned
  <2>1. DispTypeOK'
    BY <1>0, <1>15 DEF FlushAbandoned, DispTypeOK
  <2> QED
    BY <1>0, <1>15, <2>1, PgFrame, FileFrame, ProcFrame, SrcFrame, ChanFrame, WorkFrame,
       HistFrame
       DEF FlushAbandoned, TypeOK
<1>16. CASE FlushDone
  <2>1. DispTypeOK'
    BY <1>0, <1>16 DEF FlushDone, DispTypeOK
  <2> QED
    BY <1>0, <1>16, <2>1, PgFrame, FileFrame, ProcFrame, SrcFrame, ChanFrame, WorkFrame,
       HistFrame
       DEF FlushDone, TypeOK
<1>17. CASE ApplierReturns
  <2>1. DispTypeOK'
    BY <1>0, <1>17 DEF ApplierReturns, DispTypeOK
  <2> QED
    BY <1>0, <1>17, <2>1, PgFrame, FileFrame, ProcFrame, SrcFrame, ChanFrame, WorkFrame,
       HistFrame
       DEF ApplierReturns, TypeOK
<1>18. ASSUME NEW w \in Workers, SkipEvent(w) PROVE TypeOK'
  <2>1. WorkTypeOK'
    BY <1>0, <1>18 DEF SkipEvent, Ready, Dequeue, workerUnchanged, WorkTypeOK
  <2>2. HistTypeOK'
    BY <1>0, <1>18 DEF SkipEvent, Ready, Dequeue, workerUnchanged, HistTypeOK
  <2> QED
    BY <1>0, <1>18, <2>1, <2>2, PgFrame, FileFrame, ProcFrame, SrcFrame, ChanFrame,
       DispFrame
       DEF SkipEvent, Ready, Dequeue, workerUnchanged, TypeOK
<1>19. ASSUME NEW w \in Workers, BeginApply(w) PROVE TypeOK'
  <2>1. WorkTypeOK'
    BY <1>0, <1>19 DEF BeginApply, Ready, Dequeue, workerUnchanged, WorkTypeOK
  <2>2. Head(wch[w]) \in Pos
    BY <1>0, <1>19 DEF BeginApply, Ready, WorkTypeOK
  <2>3. HistTypeOK'
    BY <1>0, <1>19, <2>2 DEF BeginApply, workerUnchanged, HistTypeOK
  <2> QED
    BY <1>0, <1>19, <2>1, <2>3, PgFrame, FileFrame, ProcFrame, SrcFrame, ChanFrame,
       DispFrame
       DEF BeginApply, Ready, Dequeue, workerUnchanged, TypeOK
<1>20. ASSUME NEW w \in Workers, ApplySucceeds(w) PROVE TypeOK'
  <2>1. WorkTypeOK'
    BY <1>0, <1>20 DEF ApplySucceeds, workerUnchanged, WorkTypeOK
  <2>2. HistTypeOK'
    BY <1>0, <1>20 DEF ApplySucceeds, workerUnchanged, WorkTypeOK, HistTypeOK
  <2> QED
    BY <1>0, <1>20, <2>1, <2>2, PgFrame, FileFrame, ProcFrame, SrcFrame, ChanFrame,
       DispFrame
       DEF ApplySucceeds, workerUnchanged, TypeOK
<1>21. ASSUME NEW w \in Workers, ApplyFails(w) PROVE TypeOK'
  <2>1. WorkTypeOK'
    BY <1>0, <1>21 DEF ApplyFails, workerUnchanged, WorkTypeOK
  <2>2. HistTypeOK'
    BY <1>0, <1>21 DEF ApplyFails, workerUnchanged, WorkTypeOK, HistTypeOK
  <2> QED
    BY <1>0, <1>21, <2>1, <2>2, PgFrame, FileFrame, ProcFrame, SrcFrame, ChanFrame,
       DispFrame
       DEF ApplyFails, workerUnchanged, TypeOK
<1>22. ASSUME NEW w \in Workers, TransformHalts(w) PROVE TypeOK'
  <2>1. WorkTypeOK'
    BY <1>0, <1>22 DEF TransformHalts, Ready, Dequeue, StructuralHalt, workerUnchanged, WorkTypeOK
  <2>2. Head(wch[w]) \in Pos
    BY <1>0, <1>22 DEF TransformHalts, Ready, WorkTypeOK
  <2>3. HistTypeOK'
    BY <1>0, <1>22, <2>2 DEF TransformHalts, StructuralHalt, workerUnchanged, HistTypeOK
  <2> QED
    BY <1>0, <1>22, <2>1, <2>3, PgFrame, FileFrame, ProcFrame, SrcFrame, ChanFrame,
       DispFrame
       DEF TransformHalts, Ready, Dequeue, StructuralHalt, workerUnchanged, TypeOK
<1>23. ASSUME NEW w \in Workers, SchemaHalts(w) PROVE TypeOK'
  <2>1. WorkTypeOK'
    BY <1>0, <1>23 DEF SchemaHalts, StructuralHalt, workerUnchanged, WorkTypeOK
  <2>2. HistTypeOK'
    BY <1>0, <1>23 DEF SchemaHalts, StructuralHalt, workerUnchanged, WorkTypeOK, HistTypeOK
  <2> QED
    BY <1>0, <1>23, <2>1, <2>2, PgFrame, FileFrame, ProcFrame, SrcFrame, ChanFrame,
       DispFrame
       DEF SchemaHalts, StructuralHalt, workerUnchanged, TypeOK
<1>24. ASSUME NEW w \in Workers, WorkerReturns(w) PROVE TypeOK'
  <2>1. WorkTypeOK'
    BY <1>0, <1>24 DEF WorkerReturns, workerUnchanged, WorkTypeOK
  <2>2. HistTypeOK'
    BY <1>0, <1>24 DEF WorkerReturns, workerUnchanged, HistTypeOK
  <2> QED
    BY <1>0, <1>24, <2>1, <2>2, PgFrame, FileFrame, ProcFrame, SrcFrame, ChanFrame,
       DispFrame
       DEF WorkerReturns, workerUnchanged, TypeOK
<1>25. CASE Signal
  <2>1. ProcTypeOK'
    BY <1>0, <1>25 DEF Signal, ProcTypeOK
  <2> QED
    BY <1>0, <1>25, <2>1, PgFrame, FileFrame, SrcFrame, ChanFrame, DispFrame, WorkFrame,
       HistFrame
       DEF Signal, TypeOK
<1>26. CASE CommandCancels
  <2>1. ProcTypeOK'
    BY <1>0, <1>26 DEF CommandCancels, ProcTypeOK
  <2> QED
    BY <1>0, <1>26, <2>1, PgFrame, FileFrame, SrcFrame, ChanFrame, DispFrame, WorkFrame,
       HistFrame
       DEF CommandCancels, TypeOK
<1>27. CASE RunnerApplierDone
  <2>1. FileTypeOK'
    BY <1>0, <1>27 DEF RunnerApplierDone, SaveCheckpoint, StopSource, Return, runnerUnchanged, fileVars, SrcTypeOK, FileTypeOK
  <2>2. ProcTypeOK'
    BY <1>0, <1>27 DEF RunnerApplierDone, SaveCheckpoint, StopSource, Return, runnerUnchanged, ProcTypeOK
  <2>3. SrcTypeOK'
    BY <1>0, <1>27 DEF RunnerApplierDone, SaveCheckpoint, StopSource, Return, runnerUnchanged, SrcTypeOK
  <2> QED
    BY <1>0, <1>27, <2>1, <2>2, <2>3, PgFrame, ChanFrame, DispFrame, WorkFrame, HistFrame
       DEF RunnerApplierDone, SaveCheckpoint, StopSource, Return, runnerUnchanged, TypeOK
<1>28. CASE RunnerSignal
  <2>1. FileTypeOK'
    BY <1>0, <1>28 DEF RunnerSignal, SaveCheckpoint, StopSource, Return, runnerUnchanged, fileVars, SrcTypeOK, FileTypeOK
  <2>2. ProcTypeOK'
    BY <1>0, <1>28 DEF RunnerSignal, SaveCheckpoint, StopSource, Return, runnerUnchanged, ProcTypeOK
  <2>3. SrcTypeOK'
    BY <1>0, <1>28 DEF RunnerSignal, SaveCheckpoint, StopSource, Return, runnerUnchanged, SrcTypeOK
  <2> QED
    BY <1>0, <1>28, <2>1, <2>2, <2>3, PgFrame, ChanFrame, DispFrame, WorkFrame, HistFrame
       DEF RunnerSignal, SaveCheckpoint, StopSource, Return, runnerUnchanged, TypeOK
<1>29. CASE RunnerShutdown
  <2>1. FileTypeOK'
    BY <1>0, <1>29 DEF RunnerShutdown, SaveCheckpoint, StopSource, Return, runnerUnchanged, fileVars, SrcTypeOK, FileTypeOK
  <2>2. ProcTypeOK'
    BY <1>0, <1>29 DEF RunnerShutdown, SaveCheckpoint, StopSource, Return, runnerUnchanged, ProcTypeOK
  <2>3. SrcTypeOK'
    BY <1>0, <1>29 DEF RunnerShutdown, SaveCheckpoint, StopSource, Return, runnerUnchanged, SrcTypeOK
  <2> QED
    BY <1>0, <1>29, <2>1, <2>2, <2>3, PgFrame, ChanFrame, DispFrame, WorkFrame, HistFrame
       DEF RunnerShutdown, SaveCheckpoint, StopSource, Return, runnerUnchanged, TypeOK
<1>30. CASE RunnerDDLHalt
  <2>1. FileTypeOK'
    BY <1>0, <1>30 DEF RunnerDDLHalt, SaveCheckpoint, StopSource, Return, runnerUnchanged, fileVars, SrcTypeOK, FileTypeOK
  <2>2. ProcTypeOK'
    BY <1>0, <1>30 DEF RunnerDDLHalt, SaveCheckpoint, StopSource, Return, runnerUnchanged, ProcTypeOK
  <2>3. SrcTypeOK'
    BY <1>0, <1>30 DEF RunnerDDLHalt, SaveCheckpoint, StopSource, Return, runnerUnchanged, SrcTypeOK
  <2> QED
    BY <1>0, <1>30, <2>1, <2>2, <2>3, PgFrame, ChanFrame, DispFrame, WorkFrame, HistFrame
       DEF RunnerDDLHalt, SaveCheckpoint, StopSource, Return, runnerUnchanged, TypeOK
<1>31. CASE RunnerTick
  <2>1. FileTypeOK'
    BY <1>0, <1>31 DEF RunnerTick, SaveCheckpoint, StopSource, Return, runnerUnchanged, fileVars, SrcTypeOK, FileTypeOK
  <2>2. ProcTypeOK'
    BY <1>0, <1>31 DEF RunnerTick, SaveCheckpoint, StopSource, Return, runnerUnchanged, ProcTypeOK
  <2>3. SrcTypeOK'
    BY <1>0, <1>31 DEF RunnerTick, SaveCheckpoint, StopSource, Return, runnerUnchanged, SrcTypeOK
  <2> QED
    BY <1>0, <1>31, <2>1, <2>2, <2>3, PgFrame, ChanFrame, DispFrame, WorkFrame, HistFrame
       DEF RunnerTick, SaveCheckpoint, StopSource, Return, runnerUnchanged, TypeOK
<1>32. CASE RunnerCancelled
  <2>1. FileTypeOK'
    BY <1>0, <1>32 DEF RunnerCancelled, SaveCheckpoint, StopSource, Return, runnerUnchanged, fileVars, SrcTypeOK, FileTypeOK
  <2>2. ProcTypeOK'
    BY <1>0, <1>32 DEF RunnerCancelled, SaveCheckpoint, StopSource, Return, runnerUnchanged, ProcTypeOK
  <2>3. SrcTypeOK'
    BY <1>0, <1>32 DEF RunnerCancelled, SaveCheckpoint, StopSource, Return, runnerUnchanged, SrcTypeOK
  <2> QED
    BY <1>0, <1>32, <2>1, <2>2, <2>3, PgFrame, ChanFrame, DispFrame, WorkFrame, HistFrame
       DEF RunnerCancelled, SaveCheckpoint, StopSource, Return, runnerUnchanged, TypeOK
<1>33. CASE UNCHANGED vars
  BY <1>0, <1>33, PgFrame, FileFrame, ProcFrame, SrcFrame, ChanFrame, DispFrame, WorkFrame,
       HistFrame
     DEF vars, TypeOK
<1> QED
  BY <1>1, <1>2, <1>3, <1>4, <1>5, <1>6, <1>7, <1>8, <1>9, <1>10, <1>11, <1>12, <1>13,
     <1>14, <1>15, <1>16, <1>17, <1>18, <1>19, <1>20, <1>21, <1>22, <1>23, <1>24, <1>25,
     <1>26, <1>27, <1>28, <1>29, <1>30, <1>31, <1>32, <1>33, <1>34
     DEF Next, Environment, SourceStep, DispatchStep, WorkerStep, RunnerStep

\* Every variable keeps its type: in particular the channels and the worker
\* queues never exceed their capacities.
THEOREM TypeCorrect == Spec => []TypeOK
<1> QED
  BY InitType, NextType, PTL DEF Spec

(***************************************************************************)
(* What is confirmed has been parsed.  ConfirmedIsParsed alone is not      *)
(* inductive: a restart resumes at the larger of checkpoint and slot, and  *)
(* lsnCurrent then advances record by record, so every record before the   *)
(* walsender's next one must be covered while the stream is open.  A new   *)
(* slot begins at the end of the WAL, which is covered because nothing     *)
(* before it can be asked of that slot.                                    *)
(***************************************************************************)
ResumeInv ==
  /\ Covered(ckpt) /\ Covered(slot) /\ Covered(lsn)
  /\ src # "closed" => run # "down" /\ Covered(next - 1)
  /\ ckpt > 0 \/ run # "down" => slot # NoSlot
  /\ base <= walEnd /\ origin <= walEnd

\* What has been received, and how far a start may begin without a record.
Seen == parsed \cup unread
Jumped    == Larger(origin, base)

\* Receiving more, and jumping further, keeps what is covered.
LEMMA CoveredGrows ==
  ASSUME NEW p \in Int, Covered(p), Seen \subseteq Seen',
         Jumped \in Int, Jumped' \in Int, Jumped <= Jumped'
  PROVE  Covered(p)'
  BY DEF Covered, Seen, Jumped, Larger

\* AdvanceLSN, Larger and the walsender choose among covered positions.
LEMMA CoveredLarger ==
  ASSUME NEW p \in Int, NEW q \in Int, Covered(p), Covered(q)
  PROVE  Covered(Larger(p, q)) /\ Larger(p, q) \in Int /\ Larger(p, q) >= p
  BY DEF Covered, Larger

LEMMA TypeFacts ==
  ASSUME TypeOK
  PROVE  /\ walEnd \in Pos /\ slot \in Int /\ slot >= NoSlot /\ ckpt \in Nat
         /\ lsn \in Nat /\ next \in Nat \ {0} /\ base \in Nat /\ origin \in Nat
         /\ src \in {"recv", "send", "closed"}
  BY Constants DEF TypeOK, PgTypeOK, FileTypeOK, SrcTypeOK, HistTypeOK, Pos, NoSlot

\* The steps that touch neither what is confirmed nor the stream's position.
LEMMA ResumeFrame ==
  ASSUME ResumeInv,
         walEnd' = walEnd, slot' = slot, ckpt' = ckpt, lsn' = lsn, next' = next,
         UNCHANGED <<parsed, unread, origin, base>>,
         src' \in {src, "closed"}, run = "down" => run' = "down",
         run' = "down" => src' = "closed"
  PROVE  ResumeInv'
  BY DEF ResumeInv, Covered

\* The steps of streamLoop that keep its position: the slot may be acknowledged.
LEMMA AckKeeps ==
  ASSUME TypeOK, ResumeInv, MaybeAck(lsn), NextIteration, src # "closed",
         UNCHANGED <<walEnd, ckpt, run, lsn, next, parsed, unread, origin, base>>
  PROVE  ResumeInv'
<1> USE TypeFacts
<1>1. slot' = slot \/ slot' = Larger(slot, lsn)
  BY DEF MaybeAck
<1>2. Covered(slot)' /\ slot' # NoSlot
  BY <1>1, CoveredLarger DEF ResumeInv, Covered, NoSlot
<1> QED
  BY <1>2 DEF ResumeInv, Covered

LEMMA SaveKeeps ==
  ASSUME ResumeInv, TypeOK, run # "down", run' # "down", SaveCheckpoint,
         UNCHANGED <<walEnd, slot, src, lsn, next, parsed, unread, origin, base>>
  PROVE  ResumeInv'
<1>1. ckpt' \in {ckpt, lsn}
  BY DEF SaveCheckpoint, fileVars
<1>2. Covered(ckpt)'
  BY <1>1 DEF ResumeInv, Covered
<1> QED
  BY <1>2 DEF ResumeInv, Covered

LEMMA InitResume == Init => ResumeInv
  BY DEF Init, Stopped, ResumeInv, Covered, NoSlot

LEMMA NextResume == TypeOK /\ ResumeInv /\ [Next]_vars => ResumeInv'
<1> SUFFICES ASSUME TypeOK, ResumeInv, [Next]_vars PROVE ResumeInv'
  OBVIOUS
<1>0. /\ walEnd \in Pos /\ slot \in Int /\ slot >= NoSlot /\ ckpt \in Nat
      /\ lsn \in Nat /\ next \in Nat \ {0} /\ base \in Nat /\ origin \in Nat
      /\ src \in {"recv", "send", "closed"}
  BY TypeFacts
<1>1. CASE CommitTransaction
  <2>1. walEnd' > walEnd
    BY <1>0, <1>1, Constants DEF CommitTransaction, Pos
  <2> QED
    BY <1>0, <1>1, <2>1, Constants
       DEF CommitTransaction, ResumeInv, Covered, fileVars, procVars, srcVars, histVars, Pos
<1>2. CASE StartRun
  <2>1. /\ walEnd' = walEnd /\ ckpt' = ckpt /\ parsed' = parsed /\ unread' = unread
        /\ origin' = (IF slot = NoSlot THEN walEnd ELSE origin)
        /\ base' = (IF ckpt = 0 THEN walEnd ELSE base)
        /\ slot' = (IF slot = NoSlot THEN walEnd ELSE slot)
        /\ lsn' = StartLSN /\ src' = "recv" /\ run' = "loop"
    BY <1>2 DEF StartRun, fileVars
  <2>2. /\ base' \in Nat /\ base <= base' /\ base' <= walEnd'
        /\ origin' \in Nat /\ origin <= origin' /\ origin' <= walEnd'
    BY <1>0, <2>1, Constants DEF ResumeInv, Pos
  <2>3. \A p \in Int : p <= walEnd /\ ckpt = 0 => Covered(p)'
    BY <1>0, <2>1, <2>2, Constants DEF Covered, Larger, Pos
  <2>4. \A p \in Int : Covered(p) => Covered(p)'
    <3>1. Seen' = Seen /\ Jumped \in Int /\ Jumped' \in Int /\ Jumped <= Jumped'
      BY <1>0, <2>1, <2>2 DEF Seen, Jumped, Larger
    <3> QED
      BY <3>1, CoveredGrows
  <2>5. walEnd \in Int /\ Covered(ckpt)'
    BY <1>0, <2>1, <2>4, Constants DEF ResumeInv, Pos
  <2>6. slot' \in Int /\ slot' # NoSlot /\ Covered(slot)'
    <3>1. CASE slot = NoSlot
      <4>1. slot' = walEnd /\ origin' = walEnd /\ walEnd # NoSlot
        BY <1>0, <2>1, <3>1, Constants DEF NoSlot, Pos
      <4> QED
        BY <2>2, <2>5, <4>1 DEF Covered, Larger
    <3>2. CASE slot # NoSlot
      BY <1>0, <2>1, <2>4, <3>2 DEF ResumeInv, Covered
    <3> QED
      BY <3>1, <3>2
  <2>7. StartLSN \in Int /\ lsn' = StartLSN /\ Covered(lsn)'
    BY <1>0, <2>1, <2>3, <2>4, <2>5 DEF StartLSN, ResumeInv, Covered
  <2>8. Covered(next - 1)'
    <3> DEFINE p == Larger(StartLSN, slot')
    <3>1. p \in Int /\ \A i \in 1 .. p : i \in Seen' \/ i <= Jumped'
      BY <2>6, <2>7 DEF Larger, Covered, Seen, Jumped
    <3>2. PICK b \in ResumePoints(p) : next' = b + 1
      BY <1>2 DEF StartRun
    <3>3. b \in 0 .. p
      BY <3>2 DEF ResumePoints
    <3> QED
      BY <3>1, <3>2, <3>3 DEF Covered, Seen, Jumped
  <2> QED
    BY <2>1, <2>2, <2>5, <2>6, <2>7, <2>8 DEF ResumeInv
<1>3. CASE StartFails
  <2>0. /\ UNCHANGED <<walEnd, ckpt, run, lsn, next, src, parsed, unread, base>>
        /\ run = "down" /\ src = "closed"
    BY <1>3 DEF StartFails, ResumeInv, fileVars, srcVars
  <2>1. CASE UNCHANGED <<slot, origin>>
    BY <2>0, <2>1, ResumeFrame
  <2>2. CASE slot = NoSlot /\ slot' = walEnd /\ origin' = walEnd
    <3>1. /\ walEnd \in Int /\ walEnd' = walEnd /\ origin <= walEnd /\ walEnd # NoSlot
          /\ Jumped \in Int /\ Jumped' \in Int /\ Jumped <= Jumped' /\ walEnd <= Jumped'
      BY <1>0, <2>0, <2>2, Constants DEF ResumeInv, Jumped, Larger, Pos, NoSlot
    <3>2. Seen' = Seen
      BY <2>0 DEF Seen
    <3>3. Covered(ckpt)' /\ Covered(lsn)'
      BY <1>0, <2>0, <3>1, <3>2, CoveredGrows DEF ResumeInv, Covered
    <3>4. Covered(slot)' /\ slot' # NoSlot
      BY <2>2, <3>1 DEF Covered, Jumped
    <3>5. base' <= walEnd' /\ origin' <= walEnd'
      BY <2>0, <2>2, <3>1 DEF ResumeInv
    <3> QED
      BY <2>0, <3>3, <3>4, <3>5 DEF ResumeInv
  <2> QED
    BY <1>3, <2>1, <2>2 DEF StartFails
<1>4. CASE Crash \/ ProcessExit
  <2>1. PICK r : EndProcess(r)
    BY <1>4 DEF Crash, ProcessExit
  <2> QED
    BY <2>1, ResumeFrame DEF EndProcess, pgVars, fileVars
<1>5. CASE Keepalive \/ SendEvent
  BY <1>5, AckKeeps DEF Keepalive, SendEvent, fileVars, procVars, histVars
<1>6. CASE ReceiveRecord
  <2>1. /\ src = "recv" /\ lsn' = AdvanceLSN(lsn, next) /\ next' = next + 1
        /\ parsed' = parsed \cup {next} /\ unread' = unread \ {next}
        /\ UNCHANGED <<walEnd, ckpt, run, origin, base>>
    BY <1>6 DEF ReceiveRecord, fileVars, procVars
  <2>2. /\ Seen' = Seen \cup {next} /\ Jumped' = Jumped /\ Jumped \in Int
        /\ \A p \in Int : Covered(p) => Covered(p)'
    <3>1. Seen' = Seen \cup {next} /\ Jumped' = Jumped /\ Jumped \in Int
      BY <1>0, <2>1 DEF Seen, Jumped, Larger
    <3> QED
      BY <3>1, CoveredGrows
  <2>3. \A i \in 1 .. next : i \in Seen' \/ i <= Jumped'
    BY <1>0, <2>1, <2>2 DEF ResumeInv, Covered, Seen, Jumped
  <2>4. lsn' \in Nat /\ Covered(lsn)'
    <3>2. \/ lsn' = lsn /\ Covered(lsn)
          \/ lsn' = next
      BY <2>1 DEF AdvanceLSN, ResumeInv
    <3>3. CASE lsn' = lsn
      BY <1>0, <2>2, <3>2, <3>3 DEF ResumeInv, Covered
    <3>4. CASE lsn' = next
      BY <1>0, <2>1, <2>3, <3>4 DEF Covered, Seen, Jumped
    <3> QED
      BY <3>2, <3>3, <3>4
  <2>5. slot' \in {slot, Larger(slot, lsn')}
    BY <1>6 DEF ReceiveRecord, MaybeAck
  <2>6. Covered(slot)' /\ (slot # NoSlot => slot' # NoSlot)
    <3>1. \/ slot' = slot
          \/ slot' = lsn' /\ slot' > slot
      BY <1>0, <2>4, <2>5 DEF Larger
    <3>2. CASE slot' = slot
      BY <1>0, <2>2, <3>2 DEF ResumeInv, Covered
    <3>3. CASE slot' = lsn' /\ slot' > slot
      BY <1>0, <2>4, <3>3 DEF Covered, NoSlot
    <3> QED
      BY <3>1, <3>2, <3>3
  <2>7. Covered(next - 1)'
    BY <1>0, <2>1, <2>3 DEF Covered, Seen, Jumped
  <2> QED
    BY <1>0, <2>1, <2>2, <2>4, <2>6, <2>7 DEF ResumeInv
<1>14. CASE PassOver
  <2>1. /\ src = "recv" /\ next' = next + 1 /\ src' # "send"
        /\ parsed' = parsed /\ unread' = unread \cup {next}
        /\ UNCHANGED <<walEnd, slot, ckpt, lsn, run, origin, base>>
    BY <1>14 DEF PassOver, NextIteration, pgVars, fileVars, procVars
  <2>2. /\ Seen' = Seen \cup {next} /\ Jumped' = Jumped /\ Jumped \in Int
        /\ \A p \in Int : Covered(p) => Covered(p)'
    <3>1. Seen' = Seen \cup {next} /\ Jumped' = Jumped /\ Jumped \in Int
      BY <1>0, <2>1 DEF Seen, Jumped, Larger
    <3> QED
      BY <3>1, CoveredGrows
  <2>3. Covered(ckpt)' /\ Covered(slot)' /\ Covered(lsn)'
    BY <1>0, <2>1, <2>2 DEF ResumeInv, Covered
  <2>4. \A i \in 1 .. next : i \in Seen' \/ i <= Jumped'
    BY <1>0, <2>1, <2>2 DEF ResumeInv, Covered, Seen, Jumped
  <2>5. Covered(next - 1)'
    BY <1>0, <2>1, <2>4 DEF Covered, Seen, Jumped
  <2> QED
    BY <2>1, <2>3, <2>5 DEF ResumeInv
<1>7. CASE ParseFailure \/ StreamStops \/ ConnectionLost
  BY <1>7, ResumeFrame DEF ParseFailure, StreamStops, ConnectionLost, CloseStream, ResumeInv,
     pgVars, fileVars, procVars, histVars
<1>8. CASE DispatchStep
  <2>1. UNCHANGED <<pgVars, fileVars, procVars, srcVars, histVars>>
    BY <1>8 DEF DispatchStep, DispatchEvent, DispatchTick, DispatchClosed, DispatchCancelled,
       BeginLastFlush, FlushTable, FlushSend, FlushAbandoned, FlushDone, ApplierReturns
  <2> QED
    BY <2>1, ResumeFrame DEF ResumeInv, pgVars, fileVars, procVars, srcVars, histVars
<1>9. ASSUME NEW w \in Workers, WorkerStep(w) PROVE ResumeInv'
  <2>1. UNCHANGED workerUnchanged
    BY <1>9 DEF WorkerStep, SkipEvent, BeginApply, ApplySucceeds, ApplyFails, TransformHalts,
       SchemaHalts, WorkerReturns, StructuralHalt
  <2> QED
    BY <2>1, ResumeFrame DEF workerUnchanged, ResumeInv, pgVars, fileVars, procVars, srcVars
<1>10. CASE Signal \/ CommandCancels
  BY <1>10, ResumeFrame DEF Signal, CommandCancels, ResumeInv, pgVars, fileVars, srcVars, histVars
<1>11. CASE RunnerSignal \/ RunnerCancelled
  BY <1>11, ResumeFrame DEF RunnerSignal, RunnerCancelled, Return, runnerUnchanged, ResumeInv,
     pgVars, fileVars, histVars
<1>12. CASE RunnerApplierDone \/ RunnerShutdown \/ RunnerDDLHalt \/ RunnerTick
  BY <1>12, SaveKeeps DEF RunnerApplierDone, RunnerShutdown, RunnerDDLHalt, RunnerTick, Return,
     runnerUnchanged, pgVars, histVars
<1>13. CASE UNCHANGED vars
  BY <1>13, ResumeFrame DEF vars, ResumeInv, pgVars, fileVars, procVars, srcVars, histVars
<1> QED
  BY <1>1, <1>2, <1>3, <1>4, <1>5, <1>6, <1>7, <1>8, <1>9, <1>10, <1>11, <1>12, <1>13, <1>14
     DEF Next, Environment, SourceStep, RunnerStep

\* A position that the checkpoint, the slot or lsnCurrent confirms has been
\* parsed, lies before the slot or was jumped over by a start without a
\* checkpoint, or had an unreadable frame and was passed over.  A record whose
\* logical message could not be parsed is none of these, and is not confirmed.
THEOREM ConfirmedParsed == Spec => []ConfirmedIsParsed
<1>1. TypeOK /\ ResumeInv => ConfirmedIsParsed
  BY TypeFacts DEF ResumeInv, ConfirmedIsParsed, Confirmed, Covered, Larger
<1> QED
  BY <1>1, InitType, NextType, InitResume, NextResume, PTL DEF Spec

(***************************************************************************)
(* The checkpoint never moves backwards: a save writes lsnCurrent, which   *)
(* starts at the checkpoint and only advances while the process runs.      *)
(***************************************************************************)
SavedInv == run # "down" => lsn >= ckpt

LEMMA NextSaved == TypeOK /\ ResumeInv /\ SavedInv /\ [Next]_vars => SavedInv' /\ ckpt' >= ckpt
<1> SUFFICES ASSUME TypeOK, ResumeInv, SavedInv, [Next]_vars PROVE SavedInv' /\ ckpt' >= ckpt
  OBVIOUS
<1>0. /\ walEnd \in Nat /\ ckpt \in Nat /\ lsn \in Nat /\ next \in Nat
      /\ src # "closed" => run # "down"
  BY TypeFacts, Constants DEF Pos, ResumeInv
<1>1. CASE StartRun
  BY <1>0, <1>1 DEF StartRun, StartLSN, SavedInv, fileVars
<1>2. CASE ReceiveRecord
  BY <1>0, <1>2 DEF ReceiveRecord, AdvanceLSN, SavedInv, fileVars, procVars
<1>3. CASE RunnerApplierDone \/ RunnerShutdown \/ RunnerDDLHalt \/ RunnerTick
  <2>1. run # "down" /\ lsn' = lsn /\ ckpt' \in {ckpt, lsn}
    BY <1>3 DEF RunnerApplierDone, RunnerShutdown, RunnerDDLHalt, RunnerTick, SaveCheckpoint,
       runnerUnchanged, fileVars
  <2> QED
    BY <1>0, <2>1 DEF SavedInv
<1>4. CASE Crash \/ ProcessExit
  BY <1>0, <1>4 DEF Crash, ProcessExit, EndProcess, SavedInv, fileVars
<1>5. ASSUME UNCHANGED <<ckpt, lsn>>, run = "down" => run' = "down"
      PROVE  SavedInv' /\ ckpt' >= ckpt
  BY <1>0, <1>5 DEF SavedInv
<1>6. CASE CommitTransaction \/ StartFails \/ Signal \/ CommandCancels
  BY <1>5, <1>6 DEF CommitTransaction, StartFails, Signal, CommandCancels, fileVars, srcVars,
     procVars
<1>7. CASE Keepalive \/ SendEvent \/ PassOver \/ ParseFailure \/ StreamStops \/ ConnectionLost
  BY <1>5, <1>7 DEF Keepalive, SendEvent, PassOver, ParseFailure, StreamStops, ConnectionLost,
     CloseStream, fileVars, procVars
<1>8. CASE DispatchStep
  BY <1>5, <1>8 DEF DispatchStep, DispatchEvent, DispatchTick, DispatchClosed,
     DispatchCancelled, BeginLastFlush, FlushTable, FlushSend, FlushAbandoned, FlushDone,
     ApplierReturns, fileVars, procVars, srcVars
<1>9. ASSUME NEW w \in Workers, WorkerStep(w) PROVE SavedInv' /\ ckpt' >= ckpt
  BY <1>5, <1>9 DEF WorkerStep, SkipEvent, BeginApply, ApplySucceeds, ApplyFails,
     TransformHalts, SchemaHalts, WorkerReturns, StructuralHalt, workerUnchanged, fileVars,
     procVars, srcVars
<1>10. CASE RunnerSignal \/ RunnerCancelled
  BY <1>5, <1>10 DEF RunnerSignal, RunnerCancelled, Return, runnerUnchanged, fileVars
<1>11. CASE UNCHANGED vars
  BY <1>5, <1>11 DEF vars, fileVars, srcVars, procVars
<1> QED
  BY <1>1, <1>2, <1>3, <1>4, <1>6, <1>7, <1>8, <1>9, <1>10, <1>11
     DEF Next, Environment, SourceStep, RunnerStep

\* No step, in any run or between runs, moves the checkpoint file backwards.
THEOREM CheckpointMonotone == Spec => CheckpointNeverRegresses
<1>1. Init => SavedInv
  BY DEF Init, SavedInv
<1>2. TypeOK /\ ResumeInv /\ SavedInv /\ [Next]_vars => [ckpt' >= ckpt]_vars
  BY NextSaved
<1> QED
  BY <1>1, <1>2, InitType, NextType, InitResume, NextResume, NextSaved, PTL
     DEF Spec, CheckpointNeverRegresses

(***************************************************************************)
(* Where the events of a run are, and in which order.  Held[k] is what one *)
(* stage on the way to the target holds, from what has been settled (1)    *)
(* back to the event the source is about to send (7).                      *)
(***************************************************************************)
Before(i, j) == Log[i] = Log[j] => i < j
Sorted(s)    == \A a, b \in DOMAIN s : a < b => Before(s[a], s[b])

Stages == 1 .. 7
Held == <<applied \cup failed, {whand[w] : w \in Workers} \ {0},
          UNION {Elems(wch[w]) : w \in Workers}, Elems(out),
          UNION {Elems(buf[t]) : t \in Tables}, Elems(chan), {hand} \ {0}>>

\* Of the events of one table, those of an earlier stage come first.
Chain(H) == \A a, b \in Stages : a < b => \A i \in H[a], j \in H[b] : Before(i, j)

\* And within a stage the queues are in order.
Queued ==
  /\ Sorted(chan) /\ Sorted(out)
  /\ \A t \in Tables : Sorted(buf[t])
  /\ \A w \in Workers : Sorted(wch[w])

\* Everything is where its table belongs.
Routed ==
  /\ \A t \in Tables : \A i \in Elems(buf[t]) : Log[i] = t
  /\ \A w \in Workers : \A i \in Elems(wch[w]) \cup ({whand[w]} \ {0}) : Route[Log[i]] = w

\* What a stage holds has been received in this run.
Received ==
  /\ from <= next
  /\ \A k \in Stages : \A i \in Held[k] : i \in from .. next - 1 /\ IsEvent(i)

\* Nothing is lost while the applier has not been cancelled.
Kept ==
  run # "down" /\ ~AppDone =>
    \A i \in Sent : Log[i] \in SkipTables \/ \E k \in 1 .. 6 : i \in Held[k]

\* The events a worker has begun to apply have settled predecessors.
Begun == applied \cup Held[2]
InOrder == \A i \in Begun : \A j \in Sent : Log[j] = Log[i] /\ j < i => Settled(j)

\* A process that is down has no memory; streamLoop receives with empty hands.
Idle == (run = "down" => Stopped) /\ (src = "recv" => hand = 0)

\* How far the dispatch loop and the workers are with the end of the run.
Ending ==
  /\ cause = "closed" => chan = <<>> /\ src = "closed"
  /\ disp = "select" => cause = "none"
  /\ out # <<>> => disp = "flush"
  /\ cause # "none" /\ ~AppDone =>
       NonEmpty \subseteq flushing /\ (disp \in {"wait", "returned"} => flushing = {})
  /\ ~AppDone => \A w \in gone :
       disp \in {"wait", "returned"} /\ whand[w] = 0 /\ wch[w] = <<>>
  /\ disp \in {"wait", "returned"} => cause # "none"
  /\ disp = "returned" => gone = Workers

FlowInv ==
  /\ Chain(Held) /\ Queued /\ Routed /\ Received
  /\ Kept /\ InOrder /\ Idle /\ Ending

LEMMA ElemsAppend ==
  ASSUME NEW S, NEW s \in Seq(S), NEW i \in S
  PROVE  /\ Append(s, i) \in Seq(S) /\ Elems(Append(s, i)) = Elems(s) \cup {i}
         /\ Sorted(s) /\ (\A j \in Elems(s) : Before(j, i)) => Sorted(Append(s, i))
<1> DEFINE r == Append(s, i)
<1>1. /\ r \in Seq(S) /\ Len(s) \in Nat /\ Len(r) = Len(s) + 1 /\ r[Len(r)] = i
      /\ \A a \in 1 .. Len(s) : r[a] = s[a]
      /\ DOMAIN s = 1 .. Len(s) /\ DOMAIN r = 1 .. Len(r)
  OBVIOUS
<1> HIDE DEF r
<1>2. \A a \in 1 .. Len(r) : a \in 1 .. Len(s) \/ a = Len(r)
  BY <1>1
<1>3. Elems(r) = Elems(s) \cup {i}
  <2>1. Elems(r) = {r[a] : a \in 1 .. Len(r)} /\ Elems(s) = {s[a] : a \in 1 .. Len(s)}
    BY <1>1 DEF Elems
  <2>2. \A a \in 1 .. Len(r) : r[a] \in Elems(s) \cup {i}
    BY <1>1, <1>2, <2>1
  <2>3. Len(r) \in 1 .. Len(r) /\ \A a \in 1 .. Len(s) : a \in 1 .. Len(r)
    BY <1>1
  <2>4. i \in Elems(r) /\ \A a \in 1 .. Len(s) : s[a] \in Elems(r)
    BY <1>1, <2>1, <2>3
  <2> QED
    BY <2>1, <2>2, <2>4
<1>4. ASSUME Sorted(s), \A j \in Elems(s) : Before(j, i) PROVE Sorted(r)
  BY <1>1, <1>2, <1>4 DEF Sorted, Elems
<1> QED
  BY <1>1, <1>3, <1>4 DEF r

LEMMA ElemsTail ==
  ASSUME NEW S, NEW s \in Seq(S), s # <<>>
  PROVE  /\ Tail(s) \in Seq(S) /\ Head(s) \in S
         /\ Elems(s) = {Head(s)} \cup Elems(Tail(s))
         /\ Sorted(s) => Sorted(Tail(s)) /\ \A j \in Elems(Tail(s)) : Before(Head(s), j)
<1> DEFINE r == Tail(s)
<1>1. /\ r \in Seq(S) /\ Len(s) \in Nat /\ Len(s) > 0 /\ Len(r) = Len(s) - 1
      /\ Head(s) = s[1] /\ s[1] \in S
      /\ \A a \in 1 .. Len(r) : r[a] = s[a + 1]
      /\ DOMAIN s = 1 .. Len(s) /\ DOMAIN r = 1 .. Len(r)
  OBVIOUS
<1> HIDE DEF r
<1>2. /\ \A a \in 1 .. Len(s) : a = 1 \/ (a - 1 \in 1 .. Len(r) /\ s[a] = r[a - 1])
      /\ \A a \in 1 .. Len(r) : a + 1 \in 1 .. Len(s)
      /\ 1 \in 1 .. Len(s)
  BY <1>1
<1>3. Elems(s) = {Head(s)} \cup Elems(r)
  <2>1. Elems(r) = {r[a] : a \in 1 .. Len(r)} /\ Elems(s) = {s[a] : a \in 1 .. Len(s)}
    BY <1>1 DEF Elems
  <2>2. \A a \in 1 .. Len(s) : s[a] = s[1] \/ s[a] \in Elems(r)
    BY <1>2, <2>1
  <2>3. \A a \in 1 .. Len(r) : r[a] \in Elems(s)
    BY <1>1, <1>2, <2>1
  <2> QED
    BY <1>1, <1>2, <2>1, <2>2, <2>3
<1>4. ASSUME Sorted(s) PROVE Sorted(r) /\ \A j \in Elems(r) : Before(Head(s), j)
  <2>1. \A a, b \in 1 .. Len(s) : a < b => Before(s[a], s[b])
    BY <1>1, <1>4 DEF Sorted
  <2>2. \A a, b \in 1 .. Len(r) : a < b => Before(r[a], r[b])
    BY <1>1, <1>2, <2>1
  <2>3. \A a \in 1 .. Len(r) : Before(s[1], r[a])
    BY <1>1, <1>2, <2>1
  <2> QED
    BY <1>1, <2>2, <2>3 DEF Sorted, Elems
<1> QED
  BY <1>1, <1>3, <1>4 DEF r

LEMMA EmptySeq == Sorted(<<>>) /\ Elems(<<>>) = {}
  BY DEF Sorted, Elems

\* The stages, one by one.
LEMMA HeldIs ==
  /\ Held[1] = applied \cup failed
  /\ \A i : i \in Held[2] <=> i # 0 /\ \E w \in Workers : whand[w] = i
  /\ \A i : i \in Held[3] <=> \E w \in Workers : i \in Elems(wch[w])
  /\ Held[4] = Elems(out)
  /\ \A i : i \in Held[5] <=> \E t \in Tables : i \in Elems(buf[t])
  /\ Held[6] = Elems(chan) /\ Held[7] = {hand} \ {0}
  BY DEF Held

LEMMA HeldWillBe ==
  /\ Held'[1] = applied' \cup failed'
  /\ \A i : i \in Held'[2] <=> i # 0 /\ \E w \in Workers : whand'[w] = i
  /\ \A i : i \in Held'[3] <=> \E w \in Workers : i \in Elems(wch'[w])
  /\ Held'[4] = Elems(out')
  /\ \A i : i \in Held'[5] <=> \E t \in Tables : i \in Elems(buf'[t])
  /\ Held'[6] = Elems(chan') /\ Held'[7] = {hand'} \ {0}
  BY DEF Held, Elems

\* The events M pass from stage k to an earlier one and come before whatever is
\* left in the stages they pass; everything else stays where it is or is gone.
Moves(H, G, M, k, l) ==
  /\ k \in Stages /\ l \in Stages /\ l <= k /\ M \subseteq H[k]
  /\ \A s \in Stages : G[s] \subseteq H[s] \/ (s = l /\ G[s] \subseteq H[s] \cup M)
  /\ \A m \in l + 1 .. k : \A i \in M, j \in G[m] : Before(i, j)

LEMMA ChainMove ==
  ASSUME NEW H, NEW G, NEW M, NEW k, NEW l, Chain(H), Moves(H, G, M, k, l)
  PROVE  Chain(G)
<1> SUFFICES ASSUME NEW a \in Stages, NEW b \in Stages, a < b, NEW i \in G[a], NEW j \in G[b]
             PROVE  Before(i, j)
  BY DEF Chain
<1>1. CASE i \in H[a] /\ j \in H[b]
  BY <1>1 DEF Chain
<1>2. CASE i \notin H[a]
  <2>1. a = l /\ i \in M /\ j \in H[b]
    BY <1>2 DEF Stages, Moves
  <2> QED
    BY <2>1 DEF Chain, Stages, Moves
<1>3. CASE j \notin H[b]
  <2>1. b = l /\ j \in M /\ i \in H[a]
    BY <1>3 DEF Stages, Moves
  <2> QED
    BY <2>1 DEF Chain, Stages, Moves
<1> QED
  BY <1>1, <1>2, <1>3

LEMMA Moved ==
  ASSUME Chain(Held), Received, NEW M, NEW k, NEW l, Moves(Held, Held', M, k, l),
         from' = from, next' = next
  PROVE  Chain(Held') /\ Received'
<1>1. Chain(Held')
  BY ChainMove
<1>2. Received'
  BY DEF Received, IsEvent, Moves
<1> QED
  BY <1>1, <1>2

LEMMA FlowTypes ==
  ASSUME TypeOK
  PROVE  /\ chan \in Seq(Pos) /\ out \in Seq(Pos)
         /\ \A t \in Tables : buf[t] \in Seq(Pos)
         /\ \A w \in Workers : wch[w] \in Seq(Pos) /\ whand[w] \in Pos \cup {0}
         /\ next \in Nat \ {0} /\ from \in Int /\ from >= 1 /\ hand \in Pos \cup {0}
         /\ (src = "send" => hand # 0) /\ flushing \subseteq Tables /\ gone \subseteq Workers
  BY Constants DEF TypeOK, ChanTypeOK, DispTypeOK, WorkTypeOK, SrcTypeOK, HistTypeOK, Pos

\* Whoever moves is a goroutine of a process that runs, and goes on running.
RunStep ==
  \/ SourceStep \/ PassOver \/ ParseFailure \/ ConnectionLost \/ DispatchStep
  \/ \E w \in Workers : WorkerStep(w)
  \/ RunnerStep \/ CommandCancels \/ Signal

LEMMA Awake == ASSUME Idle, RunStep PROVE run # "down" /\ run' # "down"
<1>1. CASE SourceStep \/ PassOver \/ ParseFailure \/ ConnectionLost
  BY <1>1 DEF SourceStep, Keepalive, ReceiveRecord, SendEvent, StreamStops, CloseStream,
     PassOver, ParseFailure, ConnectionLost, Idle, Stopped, procVars
<1>2. CASE DispatchStep
  <2>1. run' = run /\ (disp # "off" \/ out # <<>>)
    BY <1>2 DEF DispatchStep, DispatchEvent, DispatchTick, DispatchClosed, DispatchCancelled,
       BeginLastFlush, FlushTable, FlushSend, FlushAbandoned, FlushDone, ApplierReturns, procVars
  <2> QED
    BY <2>1 DEF Idle, Stopped
<1>3. ASSUME NEW w \in Workers, WorkerStep(w) PROVE run # "down" /\ run' # "down"
  <2>1. run' = run /\ (whand[w] # 0 \/ wch[w] # <<>> \/ disp = "wait")
    BY <1>3 DEF WorkerStep, SkipEvent, BeginApply, ApplySucceeds, ApplyFails, TransformHalts,
       SchemaHalts, WorkerReturns, StructuralHalt, Ready, workerUnchanged, procVars
  <2> QED
    BY <2>1 DEF Idle, Stopped
<1>4. CASE RunnerStep \/ CommandCancels \/ Signal
  BY <1>4 DEF RunnerStep, RunnerApplierDone, RunnerSignal, RunnerShutdown, RunnerDDLHalt,
     RunnerTick, RunnerCancelled, Return, CommandCancels, Signal, Idle, Stopped
<1> QED
  BY <1>1, <1>2, <1>3, <1>4 DEF RunStep

\* A step of Next is one of a running process, or starts or ends one, or is not
\* the program's.
LEMMA Steps ==
  [Next]_vars => \/ RunStep \/ StartRun \/ Crash \/ ProcessExit
                 \/ StartFails \/ CommitTransaction \/ UNCHANGED vars
  BY DEF Next, Environment, RunStep

LEMMA NextIdle == ASSUME Idle, [Next]_vars PROVE Idle'
<1>1. CASE SourceStep \/ PassOver \/ ParseFailure \/ ConnectionLost
  <2>1. run' # "down"
    BY <1>1, Awake DEF RunStep
  <2>2. src' = "recv" => hand' = 0
    BY <1>1 DEF SourceStep, Keepalive, ReceiveRecord, SendEvent, StreamStops, CloseStream,
       NextIteration, PassOver, ParseFailure, ConnectionLost, Idle
  <2> QED
    BY <2>1, <2>2 DEF Idle
<1>2. CASE DispatchStep \/ (\E w \in Workers : WorkerStep(w)) \/ CommandCancels \/ Signal
  <2>1. run' # "down"
    BY <1>2, Awake DEF RunStep
  <2>2. UNCHANGED srcVars
    BY <1>2 DEF DispatchStep, DispatchEvent, DispatchTick, DispatchClosed, DispatchCancelled,
       BeginLastFlush, FlushTable, FlushSend, FlushAbandoned, FlushDone, ApplierReturns,
       WorkerStep, SkipEvent, BeginApply, ApplySucceeds, ApplyFails, TransformHalts,
       SchemaHalts, WorkerReturns, StructuralHalt, workerUnchanged, CommandCancels, Signal
  <2> QED
    BY <2>1, <2>2 DEF Idle, srcVars
<1>3. CASE RunnerStep
  <2>1. run' # "down"
    BY <1>3, Awake DEF RunStep
  <2>2. UNCHANGED <<src, hand>>
    BY <1>3 DEF RunnerStep, RunnerApplierDone, RunnerSignal, RunnerShutdown, RunnerDDLHalt,
       RunnerTick, RunnerCancelled, runnerUnchanged
  <2> QED
    BY <2>1, <2>2 DEF Idle
<1>4. CASE StartRun
  BY <1>4 DEF StartRun, Idle, Stopped
<1>5. CASE Crash \/ ProcessExit
  <2>1. PICK r : EndProcess(r)
    BY <1>5 DEF Crash, ProcessExit
  <2> QED
    BY <2>1 DEF EndProcess, Idle, Stopped
<1>6. CASE StartFails \/ CommitTransaction \/ UNCHANGED vars
  <2>1. UNCHANGED <<run, sig, cmdSig, ctxDone, srcVars, chan, dispVars, workVars, applied, failed>>
    BY <1>6 DEF StartFails, CommitTransaction, vars, procVars, histVars
  <2> QED
    BY <2>1 DEF Idle, Stopped, srcVars, dispVars, workVars
<1> QED
  BY <1>1, <1>2, <1>3, <1>4, <1>5, <1>6, Steps DEF RunStep

(***************************************************************************)
(* What a step has to show for the parts of FlowInv it disturbs.           *)
(***************************************************************************)
Orderly == Chain(Held) /\ Queued /\ Routed /\ Received

LEMMA OrderlyFrame ==
  ASSUME Orderly,
         UNCHANGED <<hand, chan, buf, out, wch, whand, applied, failed, from, next>>
  PROVE  Orderly' /\ Held' = Held
<1>1. Held' = Held
  BY DEF Held
<1> QED
  BY <1>1 DEF Orderly, Chain, Before, Queued, Sorted, Routed, Received, Elems, IsEvent

LEMMA KeptIf ==
  ASSUME Kept, run # "down", AppDone => AppDone',
         \A i \in Sent' : i \in Sent \/ \E k \in 1 .. 6 : i \in Held'[k],
         \A k \in 1 .. 6 : \A i \in Held[k] :
           Log[i] \in SkipTables \/ \E m \in 1 .. 6 : i \in Held'[m]
  PROVE  Kept'
  BY DEF Kept

LEMMA InOrderIf ==
  ASSUME InOrder, Begun' \subseteq Begun, applied \cup failed \subseteq applied' \cup failed',
         \A j \in Sent' : j \in Sent \/ \A i \in Begun' : ~(Log[j] = Log[i] /\ j < i)
  PROVE  InOrder'
  BY DEF InOrder, Settled

(***************************************************************************)
(* The steps, one lemma per goroutine.                                     *)
(***************************************************************************)
LEMMA SourceFlow ==
  ASSUME TypeOK, FlowInv, SourceStep \/ PassOver \/ ParseFailure \/ ConnectionLost
  PROVE  FlowInv'
<1>0. /\ Idle' /\ run # "down" /\ Orderly /\ Kept /\ InOrder /\ Ending
      /\ next \in Nat \ {0} /\ from \in Nat \ {0} /\ hand \in Pos \cup {0} /\ chan \in Seq(Pos)
  BY NextIdle, Awake, FlowTypes DEF FlowInv, Orderly, RunStep, Next, Environment
<1> SUFFICES Orderly' /\ Kept' /\ InOrder' /\ Ending'
  BY <1>0 DEF FlowInv, Orderly
<1>1. UNCHANGED <<dispVars, workVars, applied, failed, ctxDone, run, from>>
  BY DEF SourceStep, Keepalive, ReceiveRecord, SendEvent, StreamStops, CloseStream,
     PassOver, ParseFailure, ConnectionLost, histVars, procVars
<1>2. (src = "closed" => src' = "closed") /\ (cause = "closed" => chan' = chan) => Ending'
  BY <1>0, <1>1 DEF Ending, AppDone, NonEmpty, dispVars, workVars
<1>3. Begun' = Begun
  BY <1>1 DEF Begun, Held, workVars
<1>4. CASE Keepalive \/ StreamStops \/ ParseFailure \/ ConnectionLost
  <2>1. UNCHANGED <<chan, next, hand, unread>> /\ (src = "closed" => src' = "closed")
    BY <1>4 DEF Keepalive, StreamStops, CloseStream, ParseFailure, ConnectionLost, histVars
  <2>2. Orderly' /\ Held' = Held
    BY <1>0, <1>1, <2>1, OrderlyFrame DEF dispVars, workVars
  <2>3. Kept'
    BY <1>0, <1>1, <2>1, <2>2, KeptIf DEF Sent, IsEvent, AppDone, workVars
  <2>4. InOrder'
    BY <1>0, <1>1, <1>3, <2>1, InOrderIf DEF Sent, IsEvent
  <2> QED
    BY <1>2, <2>1, <2>2, <2>3, <2>4
<1>5. CASE (ReceiveRecord /\ ~IsEvent(next)) \/ PassOver
  <2>1. /\ UNCHANGED <<chan, hand>> /\ next' = next + 1 /\ src # "closed"
        /\ (~IsEvent(next) /\ unread' = unread \ {next}) \/ unread' = unread \cup {next}
    BY <1>5 DEF ReceiveRecord, PassOver
  <2>2. Held' = Held /\ Sent' = Sent
    <3>1. Held' = Held
      BY <1>0, <1>1, <1>5, <2>1 DEF Held, dispVars, workVars
    <3>2. from' = from /\ \A i \in from .. next : i \in from .. next - 1 \/ i = next
      BY <1>0, <1>1
    <3>3. \A i \in from .. next - 1 : i # next /\ (i \in unread' <=> i \in unread)
      BY <1>0, <2>1
    <3> QED
      BY <1>0, <2>1, <3>1, <3>2, <3>3 DEF Sent, IsEvent
  <2>3. Orderly'
    BY <1>0, <1>1, <2>1, <2>2 DEF Orderly, Chain, Before, Queued, Sorted, Routed, Received, Elems,
       IsEvent, dispVars, workVars
  <2>4. Kept'
    BY <1>0, <1>1, <2>2, KeptIf DEF AppDone, workVars
  <2>5. InOrder'
    BY <1>0, <1>1, <1>3, <2>2, InOrderIf
  <2> QED
    BY <1>2, <2>1, <2>3, <2>4, <2>5
<1>6. CASE ReceiveRecord /\ IsEvent(next)
  <2>1. chan' = chan /\ hand' = next /\ next' = next + 1 /\ src = "recv" /\ hand = 0
    BY <1>6 DEF ReceiveRecord, FlowInv, Idle
  <2>2. Sent' = Sent
    <3>1. unread' = unread \ {next}
      BY <1>6 DEF ReceiveRecord
    <3> QED
      BY <1>0, <1>1, <2>1, <3>1, FlowTypes DEF Sent, IsEvent
  <2>3. Held'[7] = {next} /\ \A k \in 1 .. 6 : Held'[k] = Held[k]
    BY <1>0, <1>1, <2>1, FlowTypes DEF Held, dispVars, workVars
  <2>4. \A k \in Stages : \A i \in Held[k] : i < next
    BY <1>0 DEF Orderly, Received
  <2>5. Chain(Held')
    <3> SUFFICES ASSUME NEW a \in Stages, NEW b \in Stages, a < b,
                        NEW i \in Held'[a], NEW j \in Held'[b]
                 PROVE  Before(i, j)
      BY DEF Chain
    <3>1. CASE b = 7
      BY <2>3, <2>4, <3>1 DEF Before, Stages
    <3>2. CASE b # 7
      BY <1>0, <2>3, <3>2 DEF Orderly, Chain, Stages
    <3> QED
      BY <3>1, <3>2
  <2>6. Received'
    <3> SUFFICES ASSUME NEW k \in Stages, NEW i \in Held'[k]
                 PROVE  i \in from .. next /\ IsEvent(i)
      BY <1>0, <1>1, <2>1 DEF Orderly, Received, IsEvent
    <3>1. CASE k = 7
      <4>1. from <= next
        BY <1>0 DEF Orderly, Received
      <4> QED
        BY <1>0, <1>6, <2>3, <3>1, <4>1
    <3>2. CASE k # 7
      BY <1>0, <2>3, <3>2 DEF Orderly, Received, Stages
    <3> QED
      BY <3>1, <3>2
  <2>7. Orderly'
    BY <1>0, <1>1, <2>1, <2>5, <2>6
       DEF Orderly, Chain, Before, Queued, Sorted, Routed, Elems, dispVars, workVars
  <2>8. Kept'
    BY <1>0, <1>1, <2>2, <2>3, KeptIf DEF AppDone, workVars
  <2>9. InOrder'
    BY <1>0, <1>1, <1>3, <2>2, InOrderIf
  <2> QED
    BY <1>2, <2>1, <2>7, <2>8, <2>9
<1>7. CASE SendEvent
  <2>1. /\ chan' = Append(chan, hand) /\ hand' = 0 /\ next' = next
        /\ src = "send" /\ hand # 0 /\ hand \in Pos
    BY <1>0, <1>7, FlowTypes DEF SendEvent
  <2>2. Elems(chan') = Elems(chan) \cup {hand}
    BY <1>0, <2>1, ElemsAppend
  <2>3. /\ Held'[7] = {} /\ Held'[6] = Held[6] \cup {hand} /\ hand \in Held[7]
        /\ \A k \in 1 .. 5 : Held'[k] = Held[k]
    BY <1>0, <1>1, <2>1, <2>2 DEF Held, dispVars, workVars
  <2>4. Chain(Held') /\ Received'
    <3>1. Moves(Held, Held', {hand}, 7, 6)
      BY <2>3 DEF Moves, Stages
    <3> QED
      BY <1>0, <1>1, <2>1, <3>1, Moved DEF Orderly
  <2>5. Sorted(chan')
    <3>1. \A j \in Elems(chan) : Before(j, hand)
      BY <1>0, <2>3, HeldIs DEF Orderly, Chain, Stages
    <3> QED
      BY <1>0, <2>1, <3>1, ElemsAppend DEF Orderly, Queued
  <2>6. Orderly'
    BY <1>0, <1>1, <2>1, <2>4, <2>5
       DEF Orderly, Before, Queued, Sorted, Routed, Elems, dispVars, workVars
  <2>7. Sent' \subseteq Sent \cup {hand}
    <3>1. unread' = unread
      BY <1>7 DEF SendEvent, histVars
    <3> QED
      BY <1>0, <1>1, <2>1, <2>3, <3>1, FlowTypes DEF Sent, Orderly, Received, IsEvent, Stages
  <2>8. Kept'
    BY <1>0, <1>1, <2>3, <2>7, KeptIf DEF AppDone, workVars
  <2>9. InOrder'
    <3>1. \A i \in Begun : Before(i, hand)
      BY <1>0, <2>3, HeldIs DEF Orderly, Chain, Stages, Begun
    <3>2. \A i \in Begun : i \in Int
      BY <1>0, HeldIs DEF Orderly, Received, Begun, Stages
    <3> QED
      BY <1>0, <1>1, <1>3, <2>1, <2>7, <3>1, <3>2, InOrderIf DEF Before, Pos
  <2> QED
    BY <1>0, <1>2, <2>1, <2>6, <2>8, <2>9 DEF Ending
<1> QED
  BY <1>4, <1>5, <1>6, <1>7 DEF SourceStep

\* An event is buffered, a table's buffer is flushed, an event is sent to its
\* worker: what the stages hold before and after, and where the events come from.
LEMMA Buffered ==
  ASSUME TypeOK, FlowInv, DispatchEvent
  PROVE  LET i == Head(chan)
             t == Log[i]
         IN  /\ t \in Tables /\ i \in Held[6] /\ chan' \in Seq(Pos) /\ Sorted(chan')
             /\ \A j \in Held'[6] : Before(i, j)
             /\ \A s \in Tables : Sorted(buf'[s]) /\ \A j \in Elems(buf'[s]) : Log[j] = s
             /\ \A s \in {1, 2, 3, 4, 7} : Held'[s] = Held[s]
             /\ Held'[5] = Held[5] \cup {i} /\ Held[6] = Held'[6] \cup {i}
<1>0. /\ Orderly /\ chan \in Seq(Pos) /\ \A t \in Tables : buf[t] \in Seq(Pos)
      /\ DOMAIN buf = Tables
  BY FlowTypes DEF FlowInv, Orderly, TypeOK, DispTypeOK
<1> DEFINE i == Head(chan)
           t == Log[i]
<1>1. /\ chan # <<>> /\ chan' = Tail(chan)
      /\ UNCHANGED <<out, wch, whand, hand, applied, failed>>
      /\ buf' = [buf EXCEPT ![t] = Append(buf[t], i)]
  BY DEF DispatchEvent, BeginFlush, workVars, srcVars, histVars
<1>2. /\ chan' \in Seq(Pos) /\ i \in Pos /\ Elems(chan) = {i} \cup Elems(chan')
      /\ Sorted(chan') /\ \A j \in Elems(chan') : Before(i, j)
  BY <1>0, <1>1, ElemsTail DEF Orderly, Queued
<1>3. i \in Held[6] /\ Held'[6] = Elems(chan') /\ Held[6] = Elems(chan)
  BY <1>2, HeldIs, HeldWillBe
<1>4. t \in Tables
  <2>1. IsEvent(i) /\ Log[i] \in Tables \cup {Commit}
    BY <1>0, <1>2, <1>3, Constants DEF Orderly, Received, Stages
  <2> QED
    BY <2>1 DEF IsEvent
<1> HIDE DEF i, t
<1>5. \A s \in Tables : buf'[s] = IF s = t THEN Append(buf[t], i) ELSE buf[s]
  BY <1>0, <1>1, <1>4
<1>6. Elems(buf'[t]) = Elems(buf[t]) \cup {i}
  BY <1>0, <1>2, <1>4, <1>5, ElemsAppend
<1>7. /\ \A s \in {1, 2, 3, 4, 7} : Held'[s] = Held[s]
      /\ Held'[5] = Held[5] \cup {i} /\ Held[6] = Held'[6] \cup {i}
  <2>1. /\ Held'[1] = Held[1] /\ Held'[2] = Held[2] /\ Held'[3] = Held[3]
        /\ Held'[4] = Held[4] /\ Held'[7] = Held[7]
    BY <1>1 DEF Held
  <2>2. Held'[5] = Held[5] \cup {i}
    BY <1>4, <1>5, <1>6, HeldIs, HeldWillBe
  <2> QED
    BY <1>2, <1>3, <2>1, <2>2
<1>8. \A s \in Tables : Sorted(buf'[s]) /\ \A j \in Elems(buf'[s]) : Log[j] = s
  <2>1. \A j \in Elems(buf[t]) : j \in Held[5]
    BY <1>4, HeldIs
  <2>2. \A j \in Elems(buf[t]) : Before(j, i)
    BY <1>0, <1>3, <2>1 DEF Orderly, Chain, Stages
  <2>3. Sorted(buf'[t])
    BY <1>0, <1>2, <1>4, <1>5, <2>2, ElemsAppend DEF Orderly, Queued
  <2>4. \A s \in Tables : \A j \in Elems(buf'[s]) : Log[j] = s
    BY <1>0, <1>5, <1>6 DEF Orderly, Routed, t
  <2> QED
    BY <1>0, <1>5, <2>3, <2>4 DEF Orderly, Queued
<1> QED
  BY <1>2, <1>3, <1>4, <1>7, <1>8 DEF i, t

LEMMA Flushed ==
  ASSUME TypeOK, FlowInv, NEW t \in Tables, FlushTable(t)
  PROVE  /\ \A s \in Tables : buf'[s] = IF s = t THEN <<>> ELSE buf[s]
         /\ \A s \in {1, 2, 3, 6, 7} : Held'[s] = Held[s]
         /\ Held[4] = {} /\ Held'[4] = Elems(buf[t])
         /\ \A i : i \in Held[5] <=> i \in Held'[5] \/ i \in Elems(buf[t])
         /\ \A i \in Elems(buf[t]), j \in Held'[5] : Before(i, j)
<1>0. Orderly /\ DOMAIN buf = Tables
  BY DEF FlowInv, Orderly, TypeOK, DispTypeOK
<1>1. /\ out = <<>> /\ out' = buf[t] /\ buf' = [buf EXCEPT ![t] = <<>>]
      /\ UNCHANGED <<chan, wch, whand, hand, applied, failed>>
  BY DEF FlushTable, workVars, srcVars, histVars
<1>2. \A s \in Tables : buf'[s] = IF s = t THEN <<>> ELSE buf[s]
  BY <1>0, <1>1
<1>3. /\ \A s \in {1, 2, 3, 6, 7} : Held'[s] = Held[s]
      /\ Held[4] = {} /\ Held'[4] = Elems(buf[t])
      /\ \A i : i \in Held[5] <=> i \in Held'[5] \/ i \in Elems(buf[t])
  <2>1. /\ Held'[1] = Held[1] /\ Held'[2] = Held[2] /\ Held'[3] = Held[3]
        /\ Held'[6] = Held[6] /\ Held'[7] = Held[7]
    BY <1>1 DEF Held
  <2>2. \A i : i \in Held[5] <=> i \in Held'[5] \/ i \in Elems(buf[t])
    BY <1>2, HeldIs, HeldWillBe, EmptySeq
  <2>3. Held[4] = {} /\ Held'[4] = Elems(buf[t])
    BY <1>1, HeldIs, HeldWillBe, EmptySeq
  <2> QED
    BY <2>1, <2>2, <2>3
<1>4. \A i \in Elems(buf[t]), j \in Held'[5] : Before(i, j)
  <2> SUFFICES ASSUME NEW i \in Elems(buf[t]), NEW j \in Held'[5] PROVE Log[i] # Log[j]
    BY DEF Before
  <2>1. PICK s \in Tables : j \in Elems(buf'[s])
    BY HeldWillBe
  <2>2. s # t /\ j \in Elems(buf[s])
    BY <1>2, <2>1, EmptySeq
  <2> QED
    BY <1>0, <2>2 DEF Orderly, Routed
<1> QED
  BY <1>2, <1>3, <1>4

LEMMA SentToWorker ==
  ASSUME TypeOK, FlowInv, FlushSend
  PROVE  LET i == Head(out) IN
         /\ out' \in Seq(Pos) /\ Sorted(out') /\ i \in Held[4]
         /\ \A j \in Held'[4] : Before(i, j)
         /\ \A w \in Workers : Sorted(wch'[w]) /\ \A j \in Elems(wch'[w]) : Route[Log[j]] = w
         /\ \A s \in {1, 2, 5, 6, 7} : Held'[s] = Held[s]
         /\ Held'[3] = Held[3] \cup {i} /\ Held[4] = Held'[4] \cup {i}
<1>0. /\ Orderly /\ out \in Seq(Pos) /\ \A w \in Workers : wch[w] \in Seq(Pos)
      /\ DOMAIN wch = Workers
  BY FlowTypes DEF FlowInv, Orderly, TypeOK, WorkTypeOK
<1> DEFINE i == Head(out)
           v == Route[Log[i]]
<1>1. /\ out # <<>> /\ out' = Tail(out) /\ wch' = [wch EXCEPT ![v] = Append(wch[v], i)]
      /\ UNCHANGED <<chan, buf, whand, hand, applied, failed>>
  BY DEF FlushSend, srcVars, histVars
<1>2. /\ out' \in Seq(Pos) /\ i \in Pos /\ Elems(out) = {i} \cup Elems(out')
      /\ Sorted(out') /\ \A j \in Elems(out') : Before(i, j)
  BY <1>0, <1>1, ElemsTail DEF Orderly, Queued
<1>3. i \in Held[4] /\ Held'[4] = Elems(out') /\ Held[4] = Elems(out)
  BY <1>2, HeldIs, HeldWillBe
<1>4. v \in Workers
  <2>1. IsEvent(i) /\ Log[i] \in Tables \cup {Commit}
    BY <1>0, <1>2, <1>3, Constants DEF Orderly, Received, Stages
  <2> QED
    BY <2>1, ConfigAssumption DEF IsEvent
<1> HIDE DEF i, v
<1>5. \A w \in Workers : wch'[w] = IF w = v THEN Append(wch[v], i) ELSE wch[w]
  BY <1>0, <1>1, <1>4
<1>6. Elems(wch'[v]) = Elems(wch[v]) \cup {i}
  BY <1>0, <1>2, <1>4, <1>5, ElemsAppend
<1>7. /\ \A s \in {1, 2, 5, 6, 7} : Held'[s] = Held[s]
      /\ Held'[3] = Held[3] \cup {i} /\ Held[4] = Held'[4] \cup {i}
  <2>1. /\ Held'[1] = Held[1] /\ Held'[2] = Held[2] /\ Held'[5] = Held[5]
        /\ Held'[6] = Held[6] /\ Held'[7] = Held[7]
    BY <1>1 DEF Held
  <2>2. Held'[3] = Held[3] \cup {i}
    BY <1>4, <1>5, <1>6, HeldIs, HeldWillBe
  <2> QED
    BY <1>2, <1>3, <2>1, <2>2
<1>8. \A w \in Workers : Sorted(wch'[w]) /\ \A j \in Elems(wch'[w]) : Route[Log[j]] = w
  <2>1. \A j \in Elems(wch[v]) : j \in Held[3]
    BY <1>4, HeldIs
  <2>2. \A j \in Elems(wch[v]) : Before(j, i)
    BY <1>0, <1>3, <2>1 DEF Orderly, Chain, Stages
  <2>3. Sorted(wch'[v])
    BY <1>0, <1>2, <1>4, <1>5, <2>2, ElemsAppend DEF Orderly, Queued
  <2>4. \A w \in Workers : \A j \in Elems(wch'[w]) : Route[Log[j]] = w
    BY <1>0, <1>5, <1>6 DEF Orderly, Routed, v
  <2> QED
    BY <1>0, <1>5, <2>3, <2>4 DEF Orderly, Queued
<1> QED
  BY <1>2, <1>3, <1>7, <1>8 DEF i

LEMMA Dropped ==
  ASSUME TypeOK, FlowInv, FlushAbandoned
  PROVE  \A s \in Stages : Held'[s] \subseteq Held[s]
<1>1. out' = <<>> /\ UNCHANGED <<chan, buf, wch, whand, hand, applied, failed>>
  BY DEF FlushAbandoned, workVars, srcVars, histVars
<1>2. /\ Held'[1] = Held[1] /\ Held'[2] = Held[2] /\ Held'[3] = Held[3] /\ Held'[5] = Held[5]
      /\ Held'[6] = Held[6] /\ Held'[7] = Held[7]
  BY <1>1 DEF Held
<1>3. Held'[4] = {}
  BY <1>1, HeldWillBe, EmptySeq
<1> QED
  BY <1>2, <1>3 DEF Stages

LEMMA DispatchFlow ==
  ASSUME TypeOK, FlowInv, DispatchStep
  PROVE  FlowInv'
<1>0. /\ Idle' /\ run # "down" /\ Orderly /\ Kept /\ InOrder /\ Ending
      /\ chan \in Seq(Pos) /\ out \in Seq(Pos) /\ \A t \in Tables : buf[t] \in Seq(Pos)
      /\ \A w \in Workers : wch[w] \in Seq(Pos)
      /\ DOMAIN buf = Tables /\ DOMAIN wch = Workers
      /\ flushing \subseteq Tables /\ from \in Nat \ {0}
  BY NextIdle, Awake, FlowTypes
     DEF FlowInv, Orderly, RunStep, Next, TypeOK, DispTypeOK, WorkTypeOK
<1> SUFFICES Orderly' /\ Kept' /\ InOrder' /\ Ending'
  BY <1>0 DEF FlowInv, Orderly
<1>1. /\ UNCHANGED <<procVars, srcVars, whand, gone, appFatal, applied, failed, from, unread>>
      /\ UNCHANGED <<run, src, next, hand, ctxDone>>
  BY DEF DispatchStep, DispatchEvent, DispatchTick, DispatchClosed, DispatchCancelled,
     BeginLastFlush, FlushTable, FlushSend, FlushAbandoned, FlushDone, ApplierReturns,
     workVars, histVars, procVars, srcVars
<1>2. AppDone' = AppDone /\ Sent' = Sent
  BY <1>1 DEF AppDone, Sent, IsEvent
<1>3. Held'[1] = Held[1] /\ Held'[2] = Held[2] /\ Held'[7] = Held[7]
  BY <1>1 DEF Held
<1>4. InOrder'
  BY <1>0, <1>1, <1>2, <1>3, InOrderIf DEF Begun
<1>5. ASSUME UNCHANGED <<chan, buf, out, wch>>, Ending' PROVE Orderly' /\ Kept' /\ Ending'
  <2>1. Orderly' /\ Held' = Held
    BY <1>0, <1>1, <1>5, OrderlyFrame
  <2>2. Kept'
    BY <1>0, <1>2, <2>1, KeptIf
  <2> QED
    BY <1>5, <2>1, <2>2
<1>6. CASE DispatchTick \/ DispatchClosed \/ DispatchCancelled \/ FlushDone \/ ApplierReturns
  <2>1. UNCHANGED <<chan, buf, out, wch>>
    BY <1>6 DEF DispatchTick, DispatchClosed, DispatchCancelled, BeginLastFlush, FlushDone,
       ApplierReturns, workVars
  <2>2. NonEmpty' = NonEmpty
    BY <2>1 DEF NonEmpty
  <2>3. Ending'
    BY <1>0, <1>1, <1>2, <1>6, <2>1, <2>2
       DEF Ending, DispatchTick, DispatchClosed, DispatchCancelled, BeginLastFlush, BeginFlush,
           FlushDone, ApplierReturns
  <2> QED
    BY <1>4, <1>5, <2>1, <2>3
<1>7. CASE DispatchEvent
  <2> DEFINE i == Head(chan)
  <2>1. disp = "select" /\ UNCHANGED <<out, wch, cause>> /\ disp' \in {"select", "flush"}
        /\ chan # <<>>
    BY <1>7 DEF DispatchEvent, BeginFlush, workVars
  <2>2. /\ i \in Held[6] /\ Sorted(chan') /\ \A j \in Held'[6] : Before(i, j)
        /\ \A s \in Tables : Sorted(buf'[s]) /\ \A j \in Elems(buf'[s]) : Log[j] = s
        /\ \A s \in {1, 2, 3, 4, 7} : Held'[s] = Held[s]
        /\ Held'[5] = Held[5] \cup {i} /\ Held[6] = Held'[6] \cup {i}
    BY <1>7, Buffered
  <2> HIDE DEF i
  <2>3. Chain(Held') /\ Received'
    <3>1. Moves(Held, Held', {i}, 6, 5)
      BY <2>2 DEF Moves, Stages
    <3> QED
      BY <1>0, <1>1, <3>1, Moved DEF Orderly
  <2>4. Queued'
    BY <1>0, <2>1, <2>2 DEF Orderly, Queued
  <2>5. Routed'
    BY <1>0, <1>1, <2>1, <2>2 DEF Orderly, Routed
  <2>6. Kept'
    BY <1>0, <1>2, <2>2, KeptIf
  <2>7. Ending'
    BY <1>0, <1>1, <2>1 DEF Ending, AppDone
  <2> QED
    BY <1>4, <2>3, <2>4, <2>5, <2>6, <2>7 DEF Orderly, Chain, Before
<1>8. ASSUME NEW t \in Tables, FlushTable(t) PROVE Orderly' /\ Kept' /\ Ending'
  <2>1. /\ disp = "flush" /\ out = <<>> /\ out' = buf[t]
        /\ flushing' = flushing \ {t} /\ UNCHANGED <<chan, disp, cause, wch>>
    BY <1>8 DEF FlushTable, workVars
  <2>2. /\ \A s \in Tables : buf'[s] = IF s = t THEN <<>> ELSE buf[s]
        /\ \A s \in {1, 2, 3, 6, 7} : Held'[s] = Held[s]
        /\ Held[4] = {} /\ Held'[4] = Elems(buf[t])
        /\ \A i : i \in Held[5] <=> i \in Held'[5] \/ i \in Elems(buf[t])
        /\ \A i \in Elems(buf[t]), j \in Held'[5] : Before(i, j)
    BY <1>8, Flushed
  <2>3. Chain(Held') /\ Received'
    <3>1. Moves(Held, Held', Elems(buf[t]), 5, 4)
      BY <2>2 DEF Moves, Stages
    <3> QED
      BY <1>0, <1>1, <3>1, Moved DEF Orderly
  <2>4. Queued' /\ Routed'
    BY <1>0, <1>1, <2>1, <2>2, EmptySeq DEF Orderly, Queued, Routed, Sorted, Before, Elems
  <2>5. Kept'
    BY <1>0, <1>2, <2>2, KeptIf
  <2>6. NonEmpty' \subseteq NonEmpty \ {t}
    BY <2>2 DEF NonEmpty
  <2>7. Ending'
    BY <1>0, <1>1, <1>2, <2>1, <2>6 DEF Ending
  <2> QED
    BY <2>3, <2>4, <2>5, <2>7 DEF Orderly, Chain, Before
<1>9. CASE FlushSend
  <2> DEFINE i == Head(out)
  <2>1. out # <<>> /\ UNCHANGED <<chan, disp, cause, buf, flushing>>
    BY <1>9 DEF FlushSend
  <2>2. /\ i \in Held[4] /\ Sorted(out') /\ \A j \in Held'[4] : Before(i, j)
        /\ \A w \in Workers : Sorted(wch'[w]) /\ \A j \in Elems(wch'[w]) : Route[Log[j]] = w
        /\ \A s \in {1, 2, 5, 6, 7} : Held'[s] = Held[s]
        /\ Held'[3] = Held[3] \cup {i} /\ Held[4] = Held'[4] \cup {i}
    BY <1>9, SentToWorker
  <2> HIDE DEF i
  <2>3. Chain(Held') /\ Received'
    <3>1. Moves(Held, Held', {i}, 4, 3)
      BY <2>2 DEF Moves, Stages
    <3> QED
      BY <1>0, <1>1, <3>1, Moved DEF Orderly
  <2>4. Queued'
    BY <1>0, <2>1, <2>2 DEF Orderly, Queued
  <2>5. Routed'
    BY <1>0, <1>1, <2>1, <2>2 DEF Orderly, Routed
  <2>6. Kept'
    BY <1>0, <1>2, <2>2, KeptIf
  <2>7. Ending'
    BY <1>0, <1>1, <1>2, <2>1 DEF Ending, NonEmpty
  <2> QED
    BY <1>4, <2>3, <2>4, <2>5, <2>6, <2>7 DEF Orderly, Chain, Before
<1>10. CASE FlushAbandoned
  <2>1. out # <<>> /\ out' = <<>> /\ AppDone /\ UNCHANGED <<chan, disp, cause, buf, wch>>
    BY <1>10 DEF FlushAbandoned, workVars
  <2>2. Chain(Held') /\ Received'
    <3>1. Moves(Held, Held', {}, 1, 1)
      BY <1>10, Dropped DEF Moves, Stages
    <3> QED
      BY <1>0, <1>1, <3>1, Moved DEF Orderly
  <2>3. Orderly'
    BY <1>0, <1>1, <2>1, <2>2, EmptySeq
       DEF Orderly, Chain, Queued, Routed, Sorted, Before, Elems
  <2>4. Kept' /\ Ending'
    BY <1>0, <1>1, <1>2, <2>1 DEF Kept, Ending
  <2> QED
    BY <1>4, <2>3, <2>4
<1> QED
  BY <1>4, <1>6, <1>7, <1>8, <1>9, <1>10 DEF DispatchStep

\* A worker takes the first event of its channel: it comes before all that stay.
LEMMA Dequeued ==
  ASSUME TypeOK, FlowInv, NEW w \in Workers, Ready(w), Dequeue(w)
  PROVE  LET i == Head(wch[w]) IN
         /\ i \in Pos /\ i \in Held[3] /\ Route[Log[i]] = w
         /\ Held[3] = Held'[3] \cup {i} /\ \A j \in Held'[3] : Before(i, j)
         /\ \A j \in Held[2] : Log[j] # Log[i]
         /\ \A v \in Workers : Sorted(wch'[v]) /\ Elems(wch'[v]) \subseteq Elems(wch[v])
         /\ \A v \in Workers : v # w => wch'[v] = wch[v]
<1> DEFINE i == Head(wch[w])
<1>0. /\ \A v \in Workers : wch[v] \in Seq(Pos) /\ DOMAIN wch = Workers
      /\ Queued /\ Routed
  BY FlowTypes DEF FlowInv, TypeOK, WorkTypeOK
<1>1. /\ i \in Pos /\ Elems(wch[w]) = {i} \cup Elems(Tail(wch[w])) /\ Sorted(Tail(wch[w]))
      /\ \A j \in Elems(Tail(wch[w])) : Before(i, j)
  BY <1>0, ElemsTail DEF Ready, Queued
<1> HIDE DEF i
<1>2. \A v \in Workers : wch'[v] = IF v = w THEN Tail(wch[w]) ELSE wch[v]
  BY <1>0 DEF Dequeue
<1>3. Route[Log[i]] = w /\ i \in Held[3]
  BY <1>0, <1>1, HeldIs DEF Routed
<1>4. Held[3] = Held'[3] \cup {i}
  BY <1>1, <1>2, <1>3, HeldIs, HeldWillBe
<1>5. \A j \in Held'[3] : Before(i, j)
  <2> SUFFICES ASSUME NEW v \in Workers, NEW j \in Elems(wch'[v]) PROVE Before(i, j)
    BY HeldWillBe
  <2>1. CASE v = w
    BY <1>1, <1>2, <2>1
  <2>2. CASE v # w
    <3>1. Route[Log[j]] = v
      BY <1>0, <1>2, <2>2 DEF Routed
    <3> QED
      BY <1>3, <2>2, <3>1 DEF Before
  <2> QED
    BY <2>1, <2>2
<1>6. \A j \in Held[2] : Log[j] # Log[i]
  <2> SUFFICES ASSUME NEW v \in Workers, whand[v] # 0, Log[whand[v]] = Log[i] PROVE FALSE
    BY HeldIs
  <2>1. Route[Log[whand[v]]] = v
    BY <1>0 DEF Routed
  <2> QED
    BY <1>3, <2>1 DEF Ready
<1>7. \A v \in Workers : Sorted(wch'[v]) /\ Elems(wch'[v]) \subseteq Elems(wch[v])
  BY <1>0, <1>1, <1>2 DEF Queued
<1> QED
  BY <1>1, <1>2, <1>3, <1>4, <1>5, <1>6, <1>7 DEF i

\* A worker is done with the event in its hand: the others' are of other tables.
LEMMA HandEmptied ==
  ASSUME TypeOK, FlowInv, NEW w \in Workers, whand[w] # 0,
         whand' = [whand EXCEPT ![w] = 0]
  PROVE  /\ whand[w] \in Pos /\ whand[w] \in Held[2]
         /\ Held[2] = Held'[2] \cup {whand[w]}
         /\ \A j \in Held'[2] : Log[j] # Log[whand[w]]
         /\ \A v \in Workers : whand'[v] = IF v = w THEN 0 ELSE whand[v]
<1>0. /\ \A v \in Workers : whand[v] \in Pos \cup {0} /\ DOMAIN whand = Workers
      /\ Routed
  BY FlowTypes DEF FlowInv, TypeOK, WorkTypeOK
<1>1. \A v \in Workers : whand'[v] = IF v = w THEN 0 ELSE whand[v]
  BY <1>0
<1>2. whand[w] \in Held[2] /\ Held[2] = Held'[2] \cup {whand[w]}
  BY <1>1, HeldIs, HeldWillBe
<1>3. \A v \in Workers : whand[v] # 0 => Route[Log[whand[v]]] = v
  BY <1>0 DEF Routed
<1>4. \A j \in Held'[2] : Log[j] # Log[whand[w]]
  BY <1>1, <1>3, HeldWillBe
<1> QED
  BY <1>0, <1>1, <1>2, <1>4

LEMMA WorkerFlow ==
  ASSUME TypeOK, FlowInv, NEW w \in Workers, WorkerStep(w)
  PROVE  FlowInv'
<1>0. /\ Idle' /\ run # "down" /\ Orderly /\ Kept /\ InOrder /\ Ending
      /\ \A v \in Workers : whand[v] \in Pos \cup {0} /\ DOMAIN whand = Workers
      /\ gone \subseteq Workers
  BY NextIdle, Awake, FlowTypes DEF FlowInv, Orderly, RunStep, Next, TypeOK, WorkTypeOK
<1> SUFFICES Orderly' /\ Kept' /\ InOrder' /\ Ending'
  BY <1>0 DEF FlowInv, Orderly
<1>1. /\ UNCHANGED <<chan, disp, cause, buf, flushing, out, run, src, next, hand, ctxDone>>
      /\ UNCHANGED <<from, unread>>
      /\ gone \subseteq gone' /\ gone' \subseteq gone \cup {w}
  BY DEF WorkerStep, SkipEvent, BeginApply, ApplySucceeds, ApplyFails, TransformHalts,
     SchemaHalts, WorkerReturns, StructuralHalt, workerUnchanged, dispVars, srcVars, procVars
<1>2. Sent' = Sent /\ NonEmpty' = NonEmpty
  BY <1>1 DEF Sent, IsEvent, NonEmpty
<1>3. \A k \in 4 .. 7 : Held'[k] = Held[k]
  <2>1. /\ Held'[4] = Held[4] /\ Held'[5] = Held[5]
        /\ Held'[6] = Held[6] /\ Held'[7] = Held[7]
    BY <1>1 DEF Held
  <2> QED
    BY <2>1
<1>4. Sorted(chan') /\ Sorted(out') /\ \A t \in Tables : Sorted(buf'[t]) /\ buf'[t] = buf[t]
  BY <1>0, <1>1 DEF Orderly, Queued
<1>5. ASSUME Ready(w), Dequeue(w), whand' = whand,
             AppDone => AppDone', gone' # gone => AppDone',
             UNCHANGED applied,
             \/ failed' = failed \cup {Head(wch[w])}
             \/ failed' = failed /\ Log[Head(wch[w])] \in SkipTables
      PROVE  Orderly' /\ Kept' /\ InOrder' /\ Ending'
  <2> DEFINE i == Head(wch[w])
  <2>1. /\ i \in Held[3] /\ Held[3] = Held'[3] \cup {i} /\ \A j \in Held'[3] : Before(i, j)
        /\ \A j \in Held[2] : Log[j] # Log[i]
        /\ \A v \in Workers : Sorted(wch'[v]) /\ Elems(wch'[v]) \subseteq Elems(wch[v])
        /\ \A v \in Workers : v # w => wch'[v] = wch[v]
    BY <1>5, Dequeued
  <2> HIDE DEF i
  <2>2. /\ Held'[2] = Held[2]
        /\ Held'[1] = Held[1] \/ Held'[1] = Held[1] \cup {i}
        /\ Log[i] \in SkipTables \/ i \in Held'[1]
    BY <1>5, HeldIs, HeldWillBe DEF Held, i
  <2>3. Chain(Held') /\ Received'
    <3>1. Moves(Held, Held', {i}, 3, 1)
      <4>1. \A j \in Held'[2] : Before(i, j)
        BY <2>1, <2>2 DEF Before
      <4> QED
        BY <1>3, <2>1, <2>2, <4>1 DEF Moves, Stages
    <3> QED
      BY <1>0, <1>1, <3>1, Moved DEF Orderly
  <2>4. Queued' /\ Routed'
    <3>1. Queued'
      BY <1>4, <2>1 DEF Queued
    <3>2. Routed'
      BY <1>0, <1>4, <1>5, <2>1 DEF Orderly, Routed
    <3> QED
      BY <3>1, <3>2
  <2>5. Kept'
    <3>1. \A k \in 1 .. 6 : \A j \in Held[k] :
            Log[j] \in SkipTables \/ \E m \in 1 .. 6 : j \in Held'[m]
      <4>1. \A j \in Held[3] : Log[j] \in SkipTables \/ j \in Held'[3] \/ j \in Held'[1]
        BY <2>1, <2>2
      <4>2. \A k \in {1, 2, 4, 5, 6} : Held[k] \subseteq Held'[k]
        BY <1>3, <2>2
      <4> QED
        BY <4>1, <4>2
    <3> QED
      BY <1>0, <1>2, <1>5, <3>1, KeptIf
  <2>6. InOrder'
    BY <1>0, <1>2, <1>5, <2>2, InOrderIf DEF Begun
  <2>7. Ending'
    <3>1. \A v \in gone : v # w
      BY <1>5 DEF Ready
    <3>2. ~AppDone' => \A v \in gone' : wch'[v] = wch[v] /\ v \in gone
      BY <1>0, <1>1, <1>5, <2>1, <3>1
    <3> QED
      BY <1>0, <1>1, <1>2, <1>5, <3>2 DEF Ending
  <2> QED
    BY <2>3, <2>4, <2>5, <2>6, <2>7 DEF Orderly, Chain, Before
<1>6. ASSUME whand[w] # 0, whand' = [whand EXCEPT ![w] = 0], wch' = wch,
             AppDone => AppDone', gone' # gone => AppDone',
             applied' \cup failed' = applied \cup failed \cup {whand[w]},
             applied' \subseteq applied \cup {whand[w]}
      PROVE  Orderly' /\ Kept' /\ InOrder' /\ Ending'
  <2> DEFINE i == whand[w]
  <2>1. /\ i \in Held[2] /\ Held[2] = Held'[2] \cup {i} /\ \A j \in Held'[2] : Log[j] # Log[i]
        /\ \A v \in Workers : whand'[v] = IF v = w THEN 0 ELSE whand[v]
    BY <1>6, HandEmptied
  <2>2. Held'[1] = Held[1] \cup {i} /\ Held'[3] = Held[3]
    BY <1>6, HeldIs, HeldWillBe DEF Held
  <2> HIDE DEF i
  <2>3. Chain(Held') /\ Received'
    <3>1. Moves(Held, Held', {i}, 2, 1)
      BY <1>3, <2>1, <2>2 DEF Moves, Stages, Before
    <3> QED
      BY <1>0, <1>1, <3>1, Moved DEF Orderly
  <2>4. Queued' /\ Routed'
    <3>1. Queued'
      BY <1>0, <1>4, <1>6 DEF Orderly, Queued
    <3>2. Routed'
      BY <1>0, <1>4, <1>6, <2>1 DEF Orderly, Routed
    <3> QED
      BY <3>1, <3>2
  <2>5. Kept'
    <3>1. \A k \in 1 .. 6 : \A j \in Held[k] : j \in Held'[k] \/ j \in Held'[1]
      BY <1>3, <2>1, <2>2
    <3> QED
      BY <1>0, <1>2, <1>6, <3>1, KeptIf
  <2>6. InOrder'
    <3>1. Begun' \subseteq Begun
      BY <1>6, <2>1 DEF Begun, i
    <3> QED
      BY <1>0, <1>2, <1>6, <3>1, InOrderIf
  <2>7. Ending'
    BY <1>0, <1>1, <1>2, <1>6, <2>1 DEF Ending
  <2> QED
    BY <2>3, <2>4, <2>5, <2>6, <2>7 DEF Orderly, Chain, Before
<1>7. CASE SkipEvent(w)
  BY <1>5, <1>7 DEF SkipEvent, AppDone, workerUnchanged, procVars
<1>8. CASE BeginApply(w) /\ AppDone
  BY <1>5, <1>8 DEF BeginApply, AppDone, workerUnchanged, procVars
<1>9. CASE TransformHalts(w)
  <2>1. Head(wch[w]) # 0
    BY <1>9, Dequeued, Constants DEF TransformHalts, Pos
  <2> QED
    BY <1>5, <1>9, <2>1 DEF TransformHalts, StructuralHalt, AppDone, workerUnchanged, procVars
<1>10. CASE ApplySucceeds(w)
  BY <1>6, <1>10 DEF ApplySucceeds, AppDone, workerUnchanged, procVars
<1>11. CASE ApplyFails(w)
  BY <1>6, <1>11 DEF ApplyFails, AppDone, workerUnchanged, procVars
<1>12. CASE SchemaHalts(w)
  BY <1>6, <1>12 DEF SchemaHalts, StructuralHalt, AppDone, workerUnchanged, procVars
<1>13. CASE WorkerReturns(w)
  <2>1. /\ UNCHANGED <<wch, whand, appFatal, applied, failed, ctxDone>>
        /\ disp = "wait" /\ whand[w] = 0 /\ wch[w] = <<>> /\ gone' = gone \cup {w}
    BY <1>13 DEF WorkerReturns, workerUnchanged, procVars
  <2>2. Orderly' /\ Held' = Held
    BY <1>0, <1>1, <2>1, OrderlyFrame
  <2>3. Kept' /\ InOrder'
    BY <1>0, <1>2, <2>1, <2>2, KeptIf, InOrderIf DEF AppDone, Begun
  <2>4. Ending'
    BY <1>0, <1>1, <1>2, <2>1 DEF Ending, AppDone
  <2> QED
    BY <2>2, <2>3, <2>4
<1>14. CASE BeginApply(w) /\ ~AppDone
  <2> DEFINE i == Head(wch[w])
  <2>1. /\ Ready(w) /\ Dequeue(w) /\ whand' = [whand EXCEPT ![w] = i]
        /\ UNCHANGED <<gone, appFatal, applied, failed>>
    BY <1>14 DEF BeginApply
  <2>2. /\ i \in Pos /\ i \in Held[3] /\ Route[Log[i]] = w
        /\ Held[3] = Held'[3] \cup {i} /\ \A j \in Held'[3] : Before(i, j)
        /\ \A j \in Held[2] : Log[j] # Log[i]
        /\ \A v \in Workers : Sorted(wch'[v]) /\ Elems(wch'[v]) \subseteq Elems(wch[v])
        /\ \A v \in Workers : v # w => wch'[v] = wch[v]
    BY <2>1, Dequeued
  <2> HIDE DEF i
  <2>3. \A v \in Workers : whand'[v] = IF v = w THEN i ELSE whand[v]
    BY <1>0, <2>1
  <2>4. Held'[1] = Held[1] /\ Held'[2] = Held[2] \cup {i} /\ i # 0
    <3>1. i # 0 /\ whand[w] = 0
      BY <2>1, <2>2, Constants DEF Pos, Ready
    <3> QED
      BY <2>1, <2>3, <3>1, HeldIs, HeldWillBe
  <2>5. Chain(Held') /\ Received'
    <3>1. Moves(Held, Held', {i}, 3, 2)
      BY <1>3, <2>2, <2>4 DEF Moves, Stages
    <3> QED
      BY <1>0, <1>1, <3>1, Moved DEF Orderly
  <2>6. Queued' /\ Routed'
    <3>1. Queued'
      BY <1>4, <2>2 DEF Queued
    <3>2. Routed'
      BY <1>0, <1>4, <2>2, <2>3 DEF Orderly, Routed
    <3> QED
      BY <3>1, <3>2
  <2>7. Kept'
    <3>1. \A k \in 1 .. 6 : \A j \in Held[k] : j \in Held'[k] \/ j \in Held'[2]
      BY <1>3, <2>2, <2>4
    <3> QED
      BY <1>0, <1>1, <1>2, <2>1, <3>1, KeptIf DEF AppDone
  <2>8. InOrder'
    <3>1. Begun' = Begun \cup {i}
      BY <2>1, <2>4 DEF Begun
    <3>2. ASSUME NEW j \in Sent, Log[j] = Log[i], j < i PROVE Settled(j)
      <4>1. Log[j] \in SkipTables \/ \E k \in 1 .. 6 : j \in Held[k]
        BY <1>0, <1>14 DEF Kept
      <4>2. j \in Int /\ i \in Int
        BY <1>0, <2>2 DEF Sent, Orderly, Received, Stages
      <4>3. j \notin Held[2] /\ j \notin Held[3]
        BY <2>2, <3>2, <4>2 DEF Before
      <4>4. \A k \in 4 .. 6 : j \notin Held[k]
        BY <1>0, <2>2, <3>2, <4>2 DEF Orderly, Chain, Stages, Before
      <4>5. Log[j] \in SkipTables \/ j \in Held[1]
        BY <4>1, <4>3, <4>4
      <4> QED
        BY <4>5, HeldIs DEF Settled
    <3>3. \A j : Settled(j) => Settled(j)'
      BY <2>1 DEF Settled
    <3> QED
      BY <1>0, <1>2, <3>1, <3>2, <3>3 DEF InOrder
  <2>9. Ending'
    <3>1. \A v \in gone : v # w /\ v \in Workers
      BY <1>0, <2>1 DEF Ready
    <3>2. \A v \in gone' : wch'[v] = wch[v] /\ whand'[v] = whand[v] /\ v \in gone
      BY <2>1, <2>2, <2>3, <3>1
    <3> QED
      BY <1>0, <1>1, <1>2, <2>1, <3>2 DEF Ending, AppDone
  <2> QED
    BY <2>5, <2>6, <2>7, <2>8, <2>9 DEF Orderly, Chain, Before
<1> QED
  BY <1>7, <1>8, <1>9, <1>10, <1>11, <1>12, <1>13, <1>14 DEF WorkerStep

LEMMA EmptyFlow ==
  ASSUME chan' = <<>>, out' = <<>>, hand' = 0, gone' = {}, applied' = {}, failed' = {},
         buf' = [t \in Tables |-> <<>>], wch' = [w \in Workers |-> <<>>],
         whand' = [w \in Workers |-> 0], disp' \in {"off", "select"}, cause' = "none",
         Idle', from' <= next', run' = "down" \/ from' = next', next' \in Int
  PROVE  FlowInv'
<1>1. /\ \A t \in Tables : buf'[t] = <<>>
      /\ \A w \in Workers : wch'[w] = <<>> /\ whand'[w] = 0
  OBVIOUS
<1>2. \A k \in Stages : Held'[k] = {}
  BY <1>1, HeldWillBe, EmptySeq DEF Stages
<1>3. Chain(Held')
  BY <1>2 DEF Chain
<1>4. Queued' /\ Routed'
  BY <1>1, EmptySeq DEF Queued, Routed, Sorted, Before, Elems
<1>5. Received'
  BY <1>2 DEF Received, IsEvent
<1>6. Kept' /\ InOrder'
  <2>1. Begun' = {}
    BY <1>2 DEF Begun, Stages
  <2>2. run' = "down" \/ Sent' = {}
    BY DEF Sent
  <2> QED
    BY <2>1, <2>2 DEF Kept, InOrder
<1>7. Ending'
  BY <1>1 DEF Ending
<1> QED
  BY <1>3, <1>4, <1>5, <1>6, <1>7 DEF FlowInv, Chain, Before

LEMMA InitFlow == Init => FlowInv
<1> SUFFICES ASSUME Init PROVE FlowInv
  OBVIOUS
<1>1. /\ \A t \in Tables : buf[t] = <<>>
      /\ \A w \in Workers : wch[w] = <<>> /\ whand[w] = 0
      /\ chan = <<>> /\ out = <<>> /\ hand = 0 /\ gone = {} /\ applied = {} /\ failed = {}
      /\ cause = "none" /\ disp = "off" /\ run = "down" /\ Stopped /\ from = 1 /\ next = 1
  BY DEF Init, Stopped
<1>2. \A k \in Stages : Held[k] = {}
  BY <1>1, HeldIs, EmptySeq DEF Stages
<1>3. Chain(Held) /\ Received /\ Queued /\ Routed
  BY <1>1, <1>2, EmptySeq DEF Chain, Received, Queued, Routed
<1>4. Kept /\ InOrder /\ Idle /\ Ending
  BY <1>1, <1>2 DEF Kept, InOrder, Begun, Idle, Ending, Stages
<1> QED
  BY <1>3, <1>4 DEF FlowInv

\* The runner and the signals move no event, and a cancellation stays.
LEMMA RunnerFlow ==
  ASSUME TypeOK, FlowInv, RunnerStep \/ CommandCancels \/ Signal
  PROVE  FlowInv'
<1>0. Idle' /\ run # "down" /\ Orderly /\ Kept /\ InOrder /\ Ending
  BY NextIdle, Awake DEF FlowInv, Orderly, RunStep, Next, Environment
<1>1. /\ UNCHANGED <<src, next, hand, chan, dispVars, workVars, histVars>>
      /\ ctxDone' \in {ctxDone, TRUE}
  <2>1. CASE RunnerStep
    BY <2>1 DEF RunnerStep, RunnerApplierDone, RunnerSignal, RunnerShutdown, RunnerDDLHalt,
       RunnerTick, RunnerCancelled, runnerUnchanged
  <2>2. CASE CommandCancels \/ Signal
    BY <2>2 DEF CommandCancels, Signal, srcVars
  <2> QED
    BY <2>1, <2>2
<1>2. Orderly' /\ Held' = Held
  BY <1>0, <1>1, OrderlyFrame DEF dispVars, workVars, histVars
<1>3. Sent' = Sent /\ (AppDone => AppDone') /\ NonEmpty' = NonEmpty
  <2>1. Sent' = Sent /\ NonEmpty' = NonEmpty
    BY <1>1 DEF Sent, IsEvent, NonEmpty, dispVars, histVars
  <2>2. appFatal' = appFatal
    BY <1>1 DEF workVars
  <2>3. ctxDone' = ctxDone \/ ctxDone' = TRUE
    BY <1>1
  <2>4. AppDone => AppDone'
    BY <2>2, <2>3, Zenon DEF AppDone
  <2> QED
    BY <2>1, <2>4
<1>4. Kept' /\ InOrder'
  BY <1>0, <1>1, <1>2, <1>3, KeptIf, InOrderIf DEF Begun, histVars
<1>5. Ending'
  BY <1>0, <1>1, <1>3 DEF Ending, dispVars, workVars
<1> QED
  BY <1>0, <1>2, <1>4, <1>5 DEF FlowInv, Orderly

LEMMA NextFlow == TypeOK /\ FlowInv /\ [Next]_vars => FlowInv'
<1> SUFFICES ASSUME TypeOK, FlowInv, [Next]_vars PROVE FlowInv'
  OBVIOUS
<1>0. Idle' /\ next \in Nat \ {0} /\ from \in Int
  BY NextIdle, FlowTypes DEF FlowInv
<1>1. CASE RunStep
  BY <1>1, SourceFlow, DispatchFlow, WorkerFlow, RunnerFlow DEF RunStep
<1>2. CASE StartRun
  <2>1. Stopped /\ cause = "none" /\ from' = next'
    BY <1>2 DEF StartRun, FlowInv, Idle, Stopped
  <2>2. next' \in Int
    BY <1>2, NextType DEF TypeOK, SrcTypeOK
  <2> QED
    BY <1>0, <1>2, <2>1, <2>2, EmptyFlow DEF StartRun, Stopped, workVars
<1>3. CASE Crash \/ ProcessExit
  <2>1. PICK r : EndProcess(r)
    BY <1>3 DEF Crash, ProcessExit
  <2>2. from' <= next' /\ next' \in Int
    BY <1>0, <2>1 DEF EndProcess, FlowInv, Received
  <2> QED
    BY <1>0, <2>1, <2>2, EmptyFlow DEF EndProcess
<1>4. CASE StartFails \/ CommitTransaction \/ UNCHANGED vars
  <2>1. /\ UNCHANGED <<run, ctxDone, srcVars, chan, dispVars, workVars>>
        /\ UNCHANGED <<applied, failed, unread, from>>
    BY <1>4 DEF StartFails, CommitTransaction, vars, procVars, histVars
  <2>2. Orderly' /\ Held' = Held
    BY <2>1, OrderlyFrame DEF FlowInv, Orderly, srcVars, dispVars, workVars
  <2>3. Sent' = Sent /\ AppDone' = AppDone /\ NonEmpty' = NonEmpty
    BY <2>1 DEF Sent, IsEvent, AppDone, NonEmpty, srcVars, dispVars, workVars
  <2>4. Kept' /\ InOrder'
    BY <2>1, <2>2, <2>3, InOrderIf DEF FlowInv, Kept, Begun
  <2>5. Ending'
    BY <2>1, <2>3 DEF FlowInv, Ending, srcVars, dispVars, workVars
  <2> QED
    BY <1>0, <2>2, <2>4, <2>5 DEF FlowInv, Orderly
<1> QED
  BY <1>1, <1>2, <1>3, <1>4, Steps

LEMMA AlwaysFlow == Spec => [](TypeOK /\ FlowInv)
  BY InitType, NextType, InitFlow, NextFlow, PTL DEF Spec

(***************************************************************************)
(* Conservation, order and drain.                                          *)
(***************************************************************************)
LEMMA PlaceIs ==
  ASSUME NEW i, NEW r \in Places(i)
  PROVE  \/ r \in {"chan"} \X Indexes(chan, i)
         \/ r \in {"out"} \X Indexes(out, i)
         \/ \E t \in Tables : r \in {t} \X Indexes(buf[t], i)
         \/ \E w \in Workers : r \in {w} \X Indexes(wch[w], i)
         \/ \E w \in Workers : whand[w] = i /\ r = <<w, 0>>
<1>1. r \in BufferPlaces(i) => \E t \in Tables : r \in {t} \X Indexes(buf[t], i)
  BY DEF BufferPlaces
<1>2. r \in WorkerPlaces(i) => \E w \in Workers : r \in {w} \X Indexes(wch[w], i)
  BY DEF WorkerPlaces
<1>3. r \in HandPlaces(i) => \E w \in Workers : whand[w] = i /\ r = <<w, 0>>
  BY DEF HandPlaces
<1> QED
  BY <1>1, <1>2, <1>3 DEF Places

\* The order leaves an event one place: two places of one event would come one
\* before the other.
LEMMA OnePlace ==
  ASSUME TypeOK, FlowInv, NEW i \in Pos, NEW p \in Places(i), NEW q \in Places(i)
  PROVE  p = q
<1>0. /\ Chain(Held) /\ Queued /\ Routed /\ i \in Int /\ i # 0
      /\ chan \in Seq(Pos) /\ out \in Seq(Pos) /\ \A t \in Tables : buf[t] \in Seq(Pos)
      /\ \A w \in Workers : wch[w] \in Seq(Pos)
  BY FlowTypes, Constants DEF FlowInv, Pos
<1>1. \A a, b \in Stages : i \in Held[a] /\ i \in Held[b] => a = b
  BY <1>0 DEF Chain, Before, Stages
<1>2. ASSUME NEW s \in Seq(Pos), Sorted(s), NEW a \in Indexes(s, i), NEW b \in Indexes(s, i)
      PROVE  a = b
  <2>1. a \in Nat /\ b \in Nat /\ a \in DOMAIN s /\ b \in DOMAIN s /\ s[a] = i /\ s[b] = i
    BY <1>2 DEF Indexes
  <2> QED
    BY <1>0, <1>2, <2>1 DEF Sorted, Before
<1> DEFINE At(r, k) ==
      \/ k = 6 /\ r \in {"chan"} \X Indexes(chan, i)
      \/ k = 4 /\ r \in {"out"} \X Indexes(out, i)
      \/ k = 5 /\ r \in {Log[i]} \X Indexes(buf[Log[i]], i) /\ Log[i] \in Tables
      \/ k = 3 /\ r \in {Route[Log[i]]} \X Indexes(wch[Route[Log[i]]], i)
               /\ Route[Log[i]] \in Workers
      \/ k = 2 /\ r = <<Route[Log[i]], 0>>
<1>3. ASSUME NEW r \in Places(i) PROVE \E k \in Stages : i \in Held[k] /\ At(r, k)
  <2>1. CASE r \in {"chan"} \X Indexes(chan, i)
    <3>1. i \in Held[6]
      BY <2>1, HeldIs DEF Indexes, Elems
    <3> QED
      BY <2>1, <3>1 DEF Stages
  <2>2. CASE r \in {"out"} \X Indexes(out, i)
    <3>1. i \in Held[4]
      BY <2>2, HeldIs DEF Indexes, Elems
    <3> QED
      BY <2>2, <3>1 DEF Stages
  <2>3. ASSUME NEW t \in Tables, r \in {t} \X Indexes(buf[t], i)
        PROVE  \E k \in Stages : i \in Held[k] /\ At(r, k)
    <3>1. i \in Elems(buf[t])
      BY <2>3 DEF Indexes, Elems
    <3>2. Log[i] = t /\ i \in Held[5]
      BY <1>0, <3>1, HeldIs DEF Routed
    <3> QED
      BY <2>3, <3>2 DEF Stages
  <2>4. ASSUME NEW w \in Workers, r \in {w} \X Indexes(wch[w], i)
        PROVE  \E k \in Stages : i \in Held[k] /\ At(r, k)
    <3>1. i \in Elems(wch[w])
      BY <2>4 DEF Indexes, Elems
    <3>2. Route[Log[i]] = w /\ i \in Held[3]
      BY <1>0, <3>1, HeldIs DEF Routed
    <3> QED
      BY <2>4, <3>2 DEF Stages
  <2>5. ASSUME NEW w \in Workers, whand[w] = i, r = <<w, 0>>
        PROVE  \E k \in Stages : i \in Held[k] /\ At(r, k)
    <3>1. Route[Log[i]] = w /\ i \in Held[2]
      BY <1>0, <2>5, HeldIs DEF Routed
    <3> QED
      BY <2>5, <3>1 DEF Stages
  <2> HIDE DEF At
  <2> QED
    BY <2>1, <2>2, <2>3, <2>4, <2>5, PlaceIs
<1>4. PICK k \in Stages : i \in Held[k] /\ At(p, k)
  BY <1>3
<1>5. i \in Held[k] /\ At(q, k)
  BY <1>1, <1>3, <1>4
<1>6. /\ k = 6 \/ k = 4 \/ k = 5 \/ k = 3 \/ k = 2
      /\ Sorted(chan) /\ Sorted(out) /\ (Log[i] \in Tables => Sorted(buf[Log[i]]))
      /\ (Route[Log[i]] \in Workers => Sorted(wch[Route[Log[i]]]))
  BY <1>0, <1>4 DEF Queued
<1>7. CASE k = 6
  BY <1>0, <1>2, <1>4, <1>5, <1>6, <1>7
<1>8. CASE k = 4
  BY <1>0, <1>2, <1>4, <1>5, <1>6, <1>8
<1>9. CASE k = 5
  BY <1>0, <1>2, <1>4, <1>5, <1>6, <1>9
<1>10. CASE k = 3
  BY <1>0, <1>2, <1>4, <1>5, <1>6, <1>10
<1>11. CASE k = 2
  BY <1>4, <1>5, <1>11
<1> QED
  BY <1>6, <1>7, <1>8, <1>9, <1>10, <1>11

LEMMA InFlightIs ==
  ASSUME TypeOK, NEW i \in Pos
  PROVE  InFlight(i) <=> \E k \in 2 .. 6 : i \in Held[k]
<1>0. i # 0
  BY Constants DEF Pos
<1>1. ASSUME NEW r \in Places(i) PROVE \E k \in 2 .. 6 : i \in Held[k]
  <2>1. CASE r \in {"chan"} \X Indexes(chan, i) \/ r \in {"out"} \X Indexes(out, i)
    <3>1. i \in Held[6] \/ i \in Held[4]
      BY <2>1, HeldIs DEF Indexes, Elems
    <3> QED
      BY <3>1
  <2>2. ASSUME NEW t \in Tables, r \in {t} \X Indexes(buf[t], i)
        PROVE  \E k \in 2 .. 6 : i \in Held[k]
    <3>1. i \in Elems(buf[t])
      BY <2>2 DEF Indexes, Elems
    <3>2. i \in Held[5]
      BY <3>1, HeldIs
    <3> QED
      BY <3>2
  <2>3. ASSUME NEW w \in Workers, r \in {w} \X Indexes(wch[w], i)
        PROVE  \E k \in 2 .. 6 : i \in Held[k]
    <3>1. i \in Elems(wch[w])
      BY <2>3 DEF Indexes, Elems
    <3>2. i \in Held[3]
      BY <3>1, HeldIs
    <3> QED
      BY <3>2
  <2>4. ASSUME NEW w \in Workers, whand[w] = i PROVE \E k \in 2 .. 6 : i \in Held[k]
    <3>1. i \in Held[2]
      BY <1>0, <2>4, HeldIs
    <3> QED
      BY <3>1
  <2> QED
    BY <2>1, <2>2, <2>3, <2>4, PlaceIs
<1>2. ASSUME NEW k \in 2 .. 6, i \in Held[k] PROVE Places(i) # {}
  <2>1. \A s : i \in Elems(s) => \E a : a \in Indexes(s, i)
    BY DEF Indexes, Elems
  <2>2. CASE k = 6
    <3>1. PICK a : a \in Indexes(chan, i)
      BY <1>2, <2>1, <2>2, HeldIs
    <3>2. <<"chan", a>> \in {"chan"} \X Indexes(chan, i)
      BY <3>1
    <3> QED
      BY <3>2 DEF Places
  <2>3. CASE k = 4
    <3>1. PICK a : a \in Indexes(out, i)
      BY <1>2, <2>1, <2>3, HeldIs
    <3>2. <<"out", a>> \in {"out"} \X Indexes(out, i)
      BY <3>1
    <3> QED
      BY <3>2 DEF Places
  <2>4. CASE k = 5
    <3>1. PICK t \in Tables : i \in Elems(buf[t])
      BY <1>2, <2>4, HeldIs
    <3>2. PICK a : a \in Indexes(buf[t], i)
      BY <2>1, <3>1
    <3>3. <<t, a>> \in BufferPlaces(i)
      BY <3>2 DEF BufferPlaces
    <3> QED
      BY <3>3 DEF Places
  <2>5. CASE k = 3
    <3>1. PICK w \in Workers : i \in Elems(wch[w])
      BY <1>2, <2>5, HeldIs
    <3>2. PICK a : a \in Indexes(wch[w], i)
      BY <2>1, <3>1
    <3>3. <<w, a>> \in WorkerPlaces(i)
      BY <3>2 DEF WorkerPlaces
    <3> QED
      BY <3>3 DEF Places
  <2>6. CASE k = 2
    <3>1. PICK w \in Workers : whand[w] = i
      BY <1>2, <2>6, HeldIs
    <3>2. <<w, 0>> \in HandPlaces(i)
      BY <3>1 DEF HandPlaces
    <3> QED
      BY <3>2 DEF Places
  <2> QED
    BY <2>2, <2>3, <2>4, <2>5, <2>6
<1> QED
  BY <1>1, <1>2 DEF InFlight

LEMMA SentAre == ASSUME TypeOK, FlowInv PROVE Sent \subseteq Pos
  BY FlowTypes, Constants DEF Sent, Pos, TypeOK, SrcTypeOK

\* While nothing has cancelled the applier, every event the source has sent is
\* settled or in exactly one slot between the channel and the target.
THEOREM Conserved == Spec => []EventsConserved
<1>1. TypeOK /\ FlowInv => EventsConserved
  <2> SUFFICES ASSUME TypeOK, FlowInv, run # "down", ~AppDone, NEW i \in Sent
               PROVE  /\ InFlight(i) \/ Settled(i)
                      /\ InFlight(i) => Cardinality(Places(i)) = 1 /\ i \notin applied \cup failed
    BY DEF EventsConserved
  <2>1. i \in Pos
    BY SentAre
  <2>2. Log[i] \in SkipTables \/ \E k \in 1 .. 6 : i \in Held[k]
    BY DEF FlowInv, Kept
  <2>3. InFlight(i) \/ Settled(i)
    BY <2>1, <2>2, InFlightIs, HeldIs DEF Settled
  <2>4. ASSUME InFlight(i) PROVE Cardinality(Places(i)) = 1 /\ i \notin applied \cup failed
    <3>1. PICK p : p \in Places(i)
      BY <2>4 DEF InFlight
    <3>2. Places(i) = {p}
      BY <2>1, <3>1, OnePlace
    <3>3. PICK k \in 2 .. 6 : i \in Held[k]
      BY <2>1, <2>4, InFlightIs
    <3>4. i \notin Held[1]
      BY <2>1, <3>3, Constants DEF FlowInv, Chain, Stages, Before, Pos
    <3> QED
      BY <3>2, <3>4, HeldIs, FS_Singleton
  <2> QED
    BY <2>3, <2>4
<1> QED
  BY <1>1, AlwaysFlow, PTL

\* An event reaches the target only after every earlier event of its table in
\* this run has been applied, given up or skipped, cancelled or not.
THEOREM InTableOrder == Spec => []AppliedInOrder
<1>1. FlowInv => AppliedInOrder
  BY DEF FlowInv, InOrder, Begun, AppliedInOrder
<1> QED
  BY <1>1, AlwaysFlow, PTL

\* An applier that ends on a closed channel, not cancelled, has settled every
\* event of the run.
THEOREM DrainsAll == Spec => []DrainComplete
<1>1. TypeOK /\ FlowInv => DrainComplete
  <2> SUFFICES ASSUME TypeOK, FlowInv, disp = "returned", cause = "closed", ~AppDone,
                      NEW i \in Sent
               PROVE  Settled(i)
    BY DEF DrainComplete
  <2>1. /\ Ending /\ run # "down"
        /\ Log[i] \in SkipTables \/ \E k \in 1 .. 6 : i \in Held[k]
    BY DEF FlowInv, Idle, Stopped, Kept
  <2>2. /\ chan = <<>> /\ out = <<>> /\ NonEmpty = {}
        /\ \A w \in Workers : whand[w] = 0 /\ wch[w] = <<>>
    BY <2>1 DEF Ending
  <2>3. \A t \in Tables : buf[t] = <<>>
    BY <2>2 DEF NonEmpty
  <2>4. \A k \in 2 .. 6 : i \notin Held[k]
    BY <2>2, <2>3, HeldIs, EmptySeq
  <2> QED
    BY <2>1, <2>4, HeldIs DEF Settled
<1> QED
  BY <1>1, AlwaysFlow, PTL

(***************************************************************************)
(* The pipeline implements the delivery of CDCDelivery.                    *)
(***************************************************************************)
LEMMA PendingIs ==
  /\ \A i : i \in Pending <=> \/ src = "send" /\ i = hand
                              \/ \E k \in 2 .. 6 : i \in Held[k]
  /\ \A i : i \in Pending' <=> \/ src' = "send" /\ i = hand'
                               \/ \E k \in 2 .. 6 : i \in Held'[k]
<1>1. \A i : i \in Pending <=>
        \/ src = "send" /\ i = hand
        \/ i # 0 /\ \E w \in Workers : whand[w] = i
        \/ \E w \in Workers : i \in Elems(wch[w])
        \/ i \in Elems(out)
        \/ \E t \in Tables : i \in Elems(buf[t])
        \/ i \in Elems(chan)
  BY DEF Pending
<1>2. \A i : i \in Pending' <=>
        \/ src' = "send" /\ i = hand'
        \/ i # 0 /\ \E w \in Workers : whand'[w] = i
        \/ \E w \in Workers : i \in Elems(wch'[w])
        \/ i \in Elems(out')
        \/ \E t \in Tables : i \in Elems(buf'[t])
        \/ i \in Elems(chan')
  BY DEF Pending, Elems
<1>3. \A k \in 2 .. 6 : k = 2 \/ k = 3 \/ k = 4 \/ k = 5 \/ k = 6
  OBVIOUS
<1> QED
  BY <1>1, <1>2, <1>3, HeldIs, HeldWillBe

\* What CDCDelivery calls lossy.
Lossy == AppDone \/ stopReq

LEMMA Stutters ==
  ASSUME (run' # "down") <=> (run # "down"), next' = next, Pending' = Pending, Lossy' <=> Lossy
  PROVE  UNCHANGED Delivery!vars
<1>1. (run' # "down") = (run # "down") /\ Lossy' = Lossy
  BY Zenon DEF Lossy
<1> QED
  BY <1>1, Zenon DEF Delivery!vars, Lossy

LEMMA CancelsOrNot ==
  ASSUME run # "down", run' # "down", next' = next, Pending' = Pending, Lossy => Lossy'
  PROVE  [Delivery!Next]_(Delivery!vars)
<1>1. CASE Lossy'
  <2>1. (run' # "down") = (run # "down") /\ Lossy' = TRUE
    BY <1>1, Zenon DEF Lossy
  <2>2. Delivery!Cancel
    BY <2>1, Zenon DEF Delivery!Cancel, Lossy
  <2> QED
    BY <2>2, Zenon DEF Delivery!Next
<1>2. CASE ~Lossy'
  BY <1>2, Stutters, Zenon
<1> QED
  BY <1>1, <1>2

LEMMA Abandons ==
  ASSUME run # "down", run' # "down", next' = next, Pending' \subseteq Pending,
         Lossy, Lossy'
  PROVE  Delivery!Abandon
<1>1. (run' # "down") = (run # "down") /\ Lossy' = Lossy
  BY Zenon DEF Lossy
<1> QED
  BY <1>1, Zenon DEF Delivery!Abandon, Lossy

LEMMA Settles ==
  ASSUME run # "down", run' # "down", next' = next, Lossy => Lossy',
         NEW i \in Pending, \A j \in Pending : Log[j] = Log[i] => i <= j,
         Pending' = Pending \ {i}
  PROVE  Delivery!Settle
<1>1. (run' # "down") = (run # "down") /\ (Lossy' = Lossy \/ Lossy' = TRUE)
  BY Zenon DEF Lossy
<1> QED
  BY <1>1, Zenon DEF Delivery!Settle, Lossy

\* An event leaves the last stages in the order of its table.
LEMMA SettlesOldest ==
  ASSUME TypeOK, TypeOK', FlowInv, run # "down", run' # "down", next' = next,
         Lossy => Lossy', UNCHANGED <<src, hand>>,
         NEW k \in {2, 3}, NEW i \in Held[k],
         Held[k] = Held'[k] \cup {i}, \A j \in Held'[k] : Before(i, j),
         \A m \in 2 .. k - 1 : \A j \in Held[m] : Log[j] # Log[i],
         \A m \in 2 .. 6 : m # k => Held'[m] = Held[m]
  PROVE  Delivery!Settle
<1>1. Chain(Held) /\ (src = "send" => hand \in Held[7])
  BY FlowTypes, HeldIs DEF FlowInv
<1>2. \A m \in k + 1 .. 7 : \A j \in Held[m] : Before(i, j)
  BY <1>1 DEF Chain, Stages
<1>3. i \in Int
  BY DEF FlowInv, Received, Stages
<1>4. i \notin Held'[k] /\ \A m \in 2 .. 6 : m # k => i \notin Held[m]
  BY <1>2, <1>3 DEF Before
<1>5. src = "send" => hand # i
  BY <1>1, <1>2, <1>3 DEF Before
<1>6. i \in Pending /\ Pending' = Pending \ {i}
  BY <1>4, <1>5, PendingIs
<1>7. \A j \in Pending : Log[j] = Log[i] => i <= j
  <2> SUFFICES ASSUME NEW j \in Pending, Log[j] = Log[i], j # i PROVE i <= j
    BY <1>3
  <2>1. (src = "send" /\ j = hand) \/ \E m \in 2 .. 6 : j \in Held[m]
    BY PendingIs
  <2>2. PICK m \in 2 .. 7 : j \in Held[m]
    BY <1>1, <2>1
  <2>3. j \in Int
    BY <2>2 DEF FlowInv, Received, Stages
  <2>4. Before(i, j)
    BY <1>2, <2>2
  <2> QED
    BY <1>3, <2>3, <2>4 DEF Before
<1> QED
  BY <1>6, <1>7, Settles

LEMMA SourceDelivers ==
  ASSUME TypeOK, TypeOK', FlowInv, SourceStep \/ PassOver \/ ParseFailure \/ ConnectionLost
  PROVE  [Delivery!Next]_(Delivery!vars)
<1>0. /\ run # "down" /\ run' # "down" /\ (src = "recv" => hand = 0)
      /\ next \in Nat \ {0} /\ hand \in Pos \cup {0} /\ chan \in Seq(Pos)
      /\ walEnd \in Pos
  BY Awake, FlowTypes DEF FlowInv, Idle, RunStep, TypeOK, PgTypeOK
<1>1. UNCHANGED <<out, buf, wch, whand, stopReq, ctxDone, appFatal>>
  BY DEF SourceStep, Keepalive, ReceiveRecord, SendEvent, StreamStops, CloseStream,
     PassOver, ParseFailure, ConnectionLost, procVars, dispVars, workVars
<1>2. (Lossy' <=> Lossy) /\ (run' # "down") = (run # "down")
  BY <1>0, <1>1 DEF Lossy, AppDone
<1>3. \A k \in 2 .. 5 : Held'[k] = Held[k]
  <2>1. /\ Held'[2] = Held[2] /\ Held'[3] = Held[3]
        /\ Held'[4] = Held[4] /\ Held'[5] = Held[5]
    BY <1>1 DEF Held
  <2> QED
    BY <2>1
<1>4. CASE Keepalive \/ ParseFailure \/ ConnectionLost \/ (StreamStops /\ src = "recv")
  <2>1. src = "recv" /\ src' # "send" /\ UNCHANGED <<next, chan>>
    BY <1>4 DEF Keepalive, ParseFailure, ConnectionLost, StreamStops, CloseStream, NextIteration
  <2>2. Held'[6] = Held[6]
    BY <2>1, HeldIs, HeldWillBe DEF Elems
  <2>3. \A i : i \in Pending' <=> i \in Pending
    BY <1>3, <2>1, <2>2, PendingIs
  <2>4. Pending' = Pending
    BY <2>3
  <2> QED
    BY <1>0, <1>2, <2>1, <2>4, Stutters
<1>5. CASE ReceiveRecord
  <2>1. /\ src = "recv" /\ next' = next + 1 /\ chan' = chan /\ next <= Len(Log)
        /\ IF IsEvent(next) THEN src' = "send" /\ hand' = next ELSE src' # "send"
    BY <1>0, <1>5 DEF ReceiveRecord, NextIteration, Pos
  <2>2. Held'[6] = Held[6]
    BY <2>1, HeldIs, HeldWillBe DEF Elems
  <2>3. \A i : i \in Pending' <=> i \in Pending \/ (IsEvent(next) /\ i = next)
    BY <1>3, <2>1, <2>2, PendingIs
  <2>4. (Log[next] # Commit /\ Pending' = Pending \cup {next}) \/ Pending' = Pending
    BY <2>3 DEF IsEvent
  <2>5. Lossy' = Lossy
    BY <1>2, Zenon DEF Lossy
  <2>6. Delivery!Read
    BY <1>0, <1>2, <2>1, <2>4, <2>5, Zenon DEF Delivery!Read, Lossy
  <2> QED
    BY <2>6, Zenon DEF Delivery!Next
<1>8. CASE PassOver
  <2>1. /\ src = "recv" /\ src' # "send" /\ next' = next + 1 /\ chan' = chan
        /\ next <= Len(Log)
    BY <1>0, <1>8 DEF PassOver, NextIteration, Pos
  <2>2. Held'[6] = Held[6]
    BY <2>1, HeldIs, HeldWillBe DEF Elems
  <2>3. \A i : i \in Pending' <=> i \in Pending
    BY <1>3, <2>1, <2>2, PendingIs
  <2>4. Pending' = Pending
    BY <2>3
  <2>5. Lossy' = Lossy
    BY <1>2, Zenon DEF Lossy
  <2>6. Delivery!Read
    BY <1>0, <1>2, <2>1, <2>4, <2>5, Zenon DEF Delivery!Read, Lossy
  <2> QED
    BY <2>6, Zenon DEF Delivery!Next
<1>6. CASE SendEvent
  <2>1. src = "send" /\ src' # "send" /\ chan' = Append(chan, hand) /\ next' = next
        /\ hand \in Pos
    BY <1>0, <1>6, FlowTypes DEF SendEvent, NextIteration
  <2>2. Held'[6] = Held[6] \cup {hand}
    BY <1>0, <2>1, HeldIs, HeldWillBe, ElemsAppend
  <2>3. \A i : i \in Pending' <=> i \in Pending
    BY <1>3, <2>1, <2>2, PendingIs
  <2>4. Pending' = Pending
    BY <2>3
  <2> QED
    BY <1>0, <1>2, <2>1, <2>4, Stutters
<1>7. CASE StreamStops /\ src = "send"
  <2>1. src' = "closed" /\ Lossy /\ UNCHANGED <<next, chan>>
    BY <1>7 DEF StreamStops, CloseStream, Lossy, AppDone
  <2>2. Held'[6] = Held[6]
    BY <2>1, HeldIs, HeldWillBe DEF Elems
  <2>3. Pending' \subseteq Pending
    BY <1>3, <2>1, <2>2, PendingIs
  <2>4. Delivery!Abandon
    BY <1>0, <1>2, <2>1, <2>3, Abandons
  <2> QED
    BY <2>4, Zenon DEF Delivery!Next
<1> QED
  BY <1>4, <1>5, <1>6, <1>7, <1>8, FlowTypes DEF SourceStep, StreamStops

LEMMA DispatchDelivers ==
  ASSUME TypeOK, TypeOK', FlowInv, DispatchStep
  PROVE  [Delivery!Next]_(Delivery!vars)
<1>0. run # "down" /\ run' # "down"
  BY Awake DEF FlowInv, RunStep
<1>1. UNCHANGED <<src, hand, next, stopReq, ctxDone, appFatal>>
  BY DEF DispatchStep, DispatchEvent, DispatchTick, DispatchClosed, DispatchCancelled,
     BeginLastFlush, FlushTable, FlushSend, FlushAbandoned, FlushDone, ApplierReturns,
     workVars, procVars, srcVars
<1>2. (Lossy' <=> Lossy) /\ ((run' # "down") <=> (run # "down"))
  BY <1>0, <1>1 DEF Lossy, AppDone
<1>3. ASSUME \A i : (\E k \in 2 .. 6 : i \in Held'[k]) <=> (\E k \in 2 .. 6 : i \in Held[k])
      PROVE  UNCHANGED Delivery!vars
  <2>1. \A i : i \in Pending' <=> i \in Pending
    BY <1>1, <1>3, PendingIs
  <2>2. Pending' = Pending
    BY <2>1
  <2> QED
    BY <1>1, <1>2, <2>2, Stutters
<1>4. CASE DispatchTick \/ DispatchClosed \/ DispatchCancelled \/ FlushDone \/ ApplierReturns
  <2>1. UNCHANGED <<chan, buf, out, wch, whand, applied, failed, hand>>
    BY <1>4 DEF DispatchTick, DispatchClosed, DispatchCancelled, BeginLastFlush, FlushDone,
       ApplierReturns, workVars, histVars, srcVars
  <2>2. Held' = Held
    BY <2>1 DEF Held
  <2> QED
    BY <1>3, <2>2
<1>5. CASE DispatchEvent
  <2> DEFINE i == Head(chan)
  <2>1. /\ \A s \in {1, 2, 3, 4, 7} : Held'[s] = Held[s]
        /\ Held'[5] = Held[5] \cup {i} /\ Held[6] = Held'[6] \cup {i}
    BY <1>5, Buffered
  <2> HIDE DEF i
  <2>2. \A j : (\E k \in 2 .. 6 : j \in Held'[k]) <=> (\E k \in 2 .. 6 : j \in Held[k])
    BY <2>1
  <2> QED
    BY <1>3, <2>2
<1>6. ASSUME NEW t \in Tables, FlushTable(t) PROVE UNCHANGED Delivery!vars
  <2>1. /\ \A s \in {1, 2, 3, 6, 7} : Held'[s] = Held[s]
        /\ Held[4] = {} /\ Held'[4] = Elems(buf[t])
        /\ \A i : i \in Held[5] <=> i \in Held'[5] \/ i \in Elems(buf[t])
    BY <1>6, Flushed
  <2>2. \A j : (\E k \in 2 .. 6 : j \in Held'[k]) <=> (\E k \in 2 .. 6 : j \in Held[k])
    BY <2>1
  <2> QED
    BY <1>3, <2>2
<1>7. CASE FlushSend
  <2> DEFINE i == Head(out)
  <2>1. /\ \A s \in {1, 2, 5, 6, 7} : Held'[s] = Held[s]
        /\ Held'[3] = Held[3] \cup {i} /\ Held[4] = Held'[4] \cup {i}
    BY <1>7, SentToWorker
  <2> HIDE DEF i
  <2>2. \A j : (\E k \in 2 .. 6 : j \in Held'[k]) <=> (\E k \in 2 .. 6 : j \in Held[k])
    BY <2>1
  <2> QED
    BY <1>3, <2>2
<1>8. CASE FlushAbandoned
  <2>1. Lossy
    BY <1>8 DEF FlushAbandoned, Lossy
  <2>2. Pending' \subseteq Pending
    BY <1>1, <1>8, Dropped, PendingIs DEF Stages
  <2>3. Delivery!Abandon
    BY <1>0, <1>1, <1>2, <2>1, <2>2, Abandons
  <2> QED
    BY <2>3, Zenon DEF Delivery!Next
<1> QED
  BY <1>4, <1>5, <1>3, <1>6, <1>7, <1>8 DEF DispatchStep

LEMMA WorkerDelivers ==
  ASSUME TypeOK, TypeOK', FlowInv, NEW w \in Workers, WorkerStep(w)
  PROVE  [Delivery!Next]_(Delivery!vars)
<1>0. /\ run # "down" /\ run' # "down" /\ DOMAIN whand = Workers
  BY Awake DEF FlowInv, RunStep, TypeOK, WorkTypeOK
<1>1. UNCHANGED <<src, hand, next, stopReq, ctxDone, chan, out, buf>>
  BY DEF WorkerStep, SkipEvent, BeginApply, ApplySucceeds, ApplyFails, TransformHalts,
     SchemaHalts, WorkerReturns, StructuralHalt, workerUnchanged, dispVars, srcVars, procVars
<1>2. Lossy => Lossy'
  <2>1. appFatal # 0 => appFatal' # 0
    BY DEF WorkerStep, SkipEvent, BeginApply, ApplySucceeds, ApplyFails, TransformHalts,
       SchemaHalts, WorkerReturns, StructuralHalt
  <2> QED
    BY <1>1, <2>1 DEF Lossy, AppDone
<1>3. /\ Held'[4] = Held[4] /\ Held'[5] = Held[5] /\ Held'[6] = Held[6]
  BY <1>1 DEF Held
<1>4. CASE SkipEvent(w) \/ TransformHalts(w) \/ (BeginApply(w) /\ AppDone)
  <2> DEFINE i == Head(wch[w])
  <2>1. Ready(w) /\ Dequeue(w) /\ whand' = whand
    BY <1>4 DEF SkipEvent, TransformHalts, BeginApply
  <2>2. /\ i \in Held[3] /\ Held[3] = Held'[3] \cup {i} /\ \A j \in Held'[3] : Before(i, j)
        /\ \A j \in Held[2] : Log[j] # Log[i]
    BY <2>1, Dequeued
  <2> HIDE DEF i
  <2>3. Held'[2] = Held[2]
    BY <2>1 DEF Held
  <2>4. /\ \A m \in 2 .. 3 - 1 : \A j \in Held[m] : Log[j] # Log[i]
        /\ \A m \in 2 .. 6 : m # 3 => Held'[m] = Held[m]
    BY <1>3, <2>2, <2>3
  <2>5. Delivery!Settle
    BY <1>0, <1>1, <1>2, <2>2, <2>4, SettlesOldest
  <2> QED
    BY <2>5, Zenon DEF Delivery!Next
<1>5. CASE ApplySucceeds(w) \/ ApplyFails(w) \/ SchemaHalts(w)
  <2> DEFINE i == whand[w]
  <2>1. whand[w] # 0 /\ whand' = [whand EXCEPT ![w] = 0] /\ wch' = wch
    BY <1>5 DEF ApplySucceeds, ApplyFails, SchemaHalts
  <2>2. i \in Held[2] /\ Held[2] = Held'[2] \cup {i} /\ \A j \in Held'[2] : Log[j] # Log[i]
    BY <2>1, HandEmptied
  <2> HIDE DEF i
  <2>3. Held'[3] = Held[3]
    BY <2>1 DEF Held
  <2>4. /\ \A m \in 2 .. 2 - 1 : \A j \in Held[m] : Log[j] # Log[i]
        /\ \A m \in 2 .. 6 : m # 2 => Held'[m] = Held[m]
        /\ \A j \in Held'[2] : Before(i, j)
    BY <1>3, <2>2, <2>3 DEF Before
  <2>5. Delivery!Settle
    BY <1>0, <1>1, <1>2, <2>2, <2>4, SettlesOldest
  <2> QED
    BY <2>5, Zenon DEF Delivery!Next
<1>6. CASE WorkerReturns(w) \/ (BeginApply(w) /\ ~AppDone)
  <2>1. appFatal' = appFatal /\ (Lossy' <=> Lossy)
    BY <1>1, <1>6 DEF WorkerReturns, BeginApply, Lossy, AppDone
  <2>2. \A j : (\E k \in 2 .. 6 : j \in Held'[k]) <=> (\E k \in 2 .. 6 : j \in Held[k])
    <3>1. CASE WorkerReturns(w)
      <4>1. Held'[2] = Held[2] /\ Held'[3] = Held[3]
        BY <3>1 DEF WorkerReturns, Held
      <4> QED
        BY <1>3, <4>1
    <3>2. CASE BeginApply(w) /\ ~AppDone
      <4> DEFINE i == Head(wch[w])
      <4>1. Ready(w) /\ Dequeue(w) /\ whand' = [whand EXCEPT ![w] = i]
        BY <3>2 DEF BeginApply
      <4>2. i \in Pos /\ Held[3] = Held'[3] \cup {i}
        BY <4>1, Dequeued
      <4> HIDE DEF i
      <4>3. Held'[2] = Held[2] \cup {i}
        <5>1. \A v \in Workers : whand'[v] = IF v = w THEN i ELSE whand[v]
          BY <1>0, <4>1
        <5>2. i # 0 /\ whand[w] = 0
          BY <4>1, <4>2, Constants DEF Pos, Ready
        <5> QED
          BY <5>1, <5>2, HeldIs, HeldWillBe
      <4> QED
        BY <1>3, <4>2, <4>3
    <3> QED
      BY <1>6, <3>1, <3>2
  <2>3. \A i : i \in Pending' <=> i \in Pending
    BY <1>1, <2>2, PendingIs
  <2>4. Pending' = Pending
    BY <2>3
  <2> QED
    BY <1>0, <1>1, <2>1, <2>4, Stutters
<1> QED
  BY <1>4, <1>5, <1>6 DEF WorkerStep

LEMMA RunDelivers ==
  ASSUME TypeOK, TypeOK', FlowInv, [Next]_vars
  PROVE  [Delivery!Next]_(Delivery!vars)
<1>1. CASE RunnerStep \/ CommandCancels \/ Signal
  <2>1. run # "down" /\ run' # "down"
    BY <1>1, Awake DEF FlowInv, RunStep
  <2>2. /\ UNCHANGED <<src, next, hand, chan, dispVars, workVars>>
        /\ ctxDone' \in {ctxDone, TRUE} /\ stopReq' \in {stopReq, stopReq \/ src # "closed"}
    <3>1. CASE RunnerStep
      BY <3>1 DEF RunnerStep, RunnerApplierDone, RunnerSignal, RunnerShutdown, RunnerDDLHalt,
         RunnerTick, RunnerCancelled, runnerUnchanged, StopSource
    <3>2. CASE CommandCancels \/ Signal
      BY <3>2 DEF CommandCancels, Signal, srcVars
    <3> QED
      BY <1>1, <3>1, <3>2
  <2>3. Lossy => Lossy'
    <3>1. appFatal' = appFatal
      BY <2>2 DEF workVars
    <3>2. (ctxDone' = ctxDone \/ ctxDone' = TRUE)
          /\ (stopReq' = stopReq \/ stopReq' = (stopReq \/ src # "closed"))
      BY <2>2, Zenon
    <3> QED
      BY <3>1, <3>2, Zenon DEF Lossy, AppDone
  <2>4. Held'[2] = Held[2] /\ Held'[3] = Held[3] /\ Held'[4] = Held[4]
        /\ Held'[5] = Held[5] /\ Held'[6] = Held[6]
    BY <2>2 DEF Held, dispVars, workVars
  <2>5. \A i : i \in Pending' <=> i \in Pending
    BY <2>2, <2>4, PendingIs
  <2>6. Pending' = Pending
    BY <2>5
  <2> QED
    BY <2>1, <2>2, <2>3, <2>6, CancelsOrNot
<1>2. CASE StartRun
  <2>1. run = "down" /\ Stopped /\ ~Lossy
    BY <1>2 DEF StartRun, FlowInv, Idle, Stopped, Lossy, AppDone
  <2>2. run' = "loop" /\ src' = "recv" /\ UNCHANGED <<ctxDone, stopReq, appFatal>>
        /\ UNCHANGED <<chan, out, buf, wch, whand>>
    BY <1>2 DEF StartRun, workVars
  <2>3. Held'[2] = Held[2] /\ Held'[3] = Held[3] /\ Held'[4] = Held[4]
        /\ Held'[5] = Held[5] /\ Held'[6] = Held[6]
    BY <2>2 DEF Held
  <2>4. \A i : i \in Pending' <=> i \in Pending
    BY <2>1, <2>2, <2>3, PendingIs DEF Stopped
  <2>5. Pending' = Pending
    BY <2>4
  <2>6. (run' # "down") = TRUE /\ ~(run # "down") /\ next' \in 1 .. Len(Log) + 1
    BY <2>1, <2>2 DEF TypeOK, SrcTypeOK
  <2>7. Lossy' = Lossy
    BY <2>2, Zenon DEF Lossy, AppDone
  <2>8. Delivery!Begin
    BY <2>5, <2>6, <2>7, Zenon DEF Delivery!Begin, Lossy
  <2> QED
    BY <2>8, Zenon DEF Delivery!Next
<1>3. CASE Crash \/ ProcessExit
  <2>1. run # "down" /\ \E r : EndProcess(r)
    BY <1>3 DEF Crash, ProcessExit
  <2>2. /\ run' = "down" /\ src' = "closed" /\ next' = next
        /\ chan' = <<>> /\ out' = <<>> /\ ctxDone' = FALSE /\ stopReq' = FALSE /\ appFatal' = 0
        /\ buf' = [t \in Tables |-> <<>>] /\ wch' = [w \in Workers |-> <<>>]
        /\ whand' = [w \in Workers |-> 0]
    BY <2>1 DEF EndProcess
  <2>3. /\ \A t \in Tables : buf'[t] = <<>>
        /\ \A w \in Workers : wch'[w] = <<>> /\ whand'[w] = 0
    BY <2>2
  <2>4. Held'[2] = {} /\ Held'[3] = {} /\ Held'[4] = {} /\ Held'[5] = {} /\ Held'[6] = {}
    BY <2>2, <2>3, HeldWillBe, EmptySeq
  <2>5. \A i : i \notin Pending'
    BY <2>2, <2>4, PendingIs
  <2>6. Pending' = {}
    BY <2>5
  <2>7. (run' # "down") = FALSE /\ ~Lossy'
    BY <2>2 DEF Lossy, AppDone
  <2>8. Lossy' = FALSE
    BY <2>7, Zenon DEF Lossy
  <2>9. Delivery!End
    BY <2>1, <2>2, <2>6, <2>7, <2>8, Zenon DEF Delivery!End, Lossy
  <2> QED
    BY <2>9, Zenon DEF Delivery!Next
<1>4. CASE StartFails \/ CommitTransaction \/ UNCHANGED vars
  <2>1. UNCHANGED <<run, ctxDone, srcVars, chan, dispVars, workVars>>
    BY <1>4 DEF StartFails, CommitTransaction, vars, procVars
  <2>2. UNCHANGED <<src, hand, next, stopReq, appFatal, out, buf, wch, whand>>
    BY <2>1 DEF srcVars, dispVars, workVars
  <2>3. Held'[2] = Held[2] /\ Held'[3] = Held[3] /\ Held'[4] = Held[4]
        /\ Held'[5] = Held[5] /\ Held'[6] = Held[6]
    BY <2>1, <2>2 DEF Held
  <2>4. \A i : i \in Pending' <=> i \in Pending
    BY <2>2, <2>3, PendingIs
  <2>5. Pending' = Pending
    BY <2>4
  <2>6. Lossy' <=> Lossy
    BY <2>1, <2>2 DEF Lossy, AppDone
  <2> QED
    BY <2>1, <2>2, <2>5, <2>6, Stutters
<1> QED
  BY <1>1, <1>2, <1>3, <1>4, SourceDelivers, DispatchDelivers, WorkerDelivers, Steps DEF RunStep

LEMMA InitDelivers == Init => Delivery!Init
<1> SUFFICES ASSUME Init PROVE Delivery!Init
  OBVIOUS
<1>1. /\ \A t \in Tables : buf[t] = <<>>
      /\ \A w \in Workers : wch[w] = <<>> /\ whand[w] = 0
      /\ chan = <<>> /\ out = <<>> /\ src = "closed" /\ run = "down" /\ next = 1
      /\ ~ctxDone /\ ~stopReq /\ appFatal = 0
  BY DEF Init, Stopped
<1>2. Held[2] = {} /\ Held[3] = {} /\ Held[4] = {} /\ Held[5] = {} /\ Held[6] = {}
  BY <1>1, HeldIs, EmptySeq
<1>3. \A i : i \notin Pending
  BY <1>1, <1>2, PendingIs
<1>4. Pending = {}
  BY <1>3
<1> QED
  BY <1>1, <1>4 DEF Delivery!Init, AppDone

(***************************************************************************)
(* With the channels, buffers and goroutines left out, a run of the code   *)
(* is a run of CDCDelivery: it reads in WAL order, settles the oldest      *)
(* pending event of a table, and abandons nothing before it is cancelled   *)
(* or told to stop.                                                        *)
(***************************************************************************)
THEOREM DeliveryImplemented == Spec => ImplementsDelivery
<1>1. TypeOK /\ TypeOK' /\ FlowInv /\ [Next]_vars => [Delivery!Next]_(Delivery!vars)
  BY RunDelivers
<1> QED
  BY <1>1, InitDelivers, AlwaysFlow, PTL DEF Spec, ImplementsDelivery, Delivery!Spec
=============================================================================
