----------------------------- MODULE CDCPipeline -----------------------------
(***************************************************************************)
(* The incremental replication process, `pg2tidb cdc` (internal/cdc).      *)
(*                                                                         *)
(* One process runs these goroutines:                                      *)
(*   - the source's streamLoop, which receives WAL records from a          *)
(*     PostgreSQL replication slot and puts row events on a channel;       *)
(*   - the applier's dispatch loop, which buffers events per table and     *)
(*     flushes full or old buffers to the workers;                         *)
(*   - one worker per channel, which executes events on TiDB;              *)
(*   - the runner's select loop, which saves the checkpoint and decides    *)
(*     when the process ends;                                              *)
(*   - the command's signal goroutine, which cancels the run's context.    *)
(* What survives the process is the slot (PostgreSQL) and the checkpoint   *)
(* file.                                                                   *)
(*                                                                         *)
(* The WAL is the constant Log, in the order in which the walsender sends  *)
(* it: transaction after transaction.  An element is the table of a row    *)
(* change or Commit.  A record's position in Log stands for its LSN; the   *)
(* first element stands for everything written before the slot existed.    *)
(***************************************************************************)
EXTENDS Integers, Sequences, FiniteSets

CONSTANTS
  Tables,      \* replicated tables ("schema.table" keys)
  SkipTables,  \* tables applyEvent skips: BatchConfig.SkipTables, pg2tidb_ddl_log
  Workers,     \* indexes of the applier's worker channels
  Route,       \* Route[t]: the worker workerFor picks for table t
  Commit,      \* a commit record; carries no row event
  Log,         \* the WAL as the walsender sends it
  EventsCap,   \* capacity of the events channel
  BatchSize,   \* size of a table buffer and capacity of a worker channel
  Occurs,      \* bound: which of the events in Occurrences may happen
  MaxStarts,   \* bound: how many times the process is started
  MaxUnread    \* bound: how many unreadable frames at a time

\* Timer expirations and faults a configuration may switch off to stay small.
Occurrences == {"ack", "tick", "save error", "crash", "signal", "parse error",
                "unreadable", "drain timeout", "disconnect", "apply error", "structural",
                "ddl halt"}

Pos    == 1 .. Len(Log)
NoSlot == -1

ASSUME LogAssumption ==
  /\ Commit \notin Tables
  /\ Log \in Seq(Tables \cup {Commit})
  /\ Len(Log) > 0 /\ Log[1] = Commit
ASSUME ConfigAssumption ==
  /\ SkipTables \subseteq Tables
  /\ Route \in [Tables -> Workers]
  /\ EventsCap \in Nat \ {0}
  /\ BatchSize \in Nat \ {0}
  /\ Occurs \subseteq Occurrences
  /\ MaxStarts \in Nat /\ MaxUnread \in Nat

VARIABLES
  walEnd,    \* PostgreSQL: last committed WAL position
  slot,      \* PostgreSQL: confirmed_flush_lsn of the slot, NoSlot before it exists
  ckpt,      \* checkpoint file: its LSN, 0 when there is no file
  torn,      \* checkpoint file: a failed write left it truncated
  run,       \* runner: "down", "loop", "sigwait", "exiting"
  exit,      \* how the last run ended: "none", "clean", "error", "crash"
  starts,    \* number of starts so far
  sig,       \* a signal waits in the runner's sigCh
  cmdSig,    \* a signal waits in the command's sigCh
  ctxDone,   \* the run's context is cancelled
  src,       \* streamLoop: "recv", "send", "closed"
  next,      \* position of the next record the walsender sends
  lsn,       \* source.lsnCurrent
  hand,      \* the event streamLoop is putting on the channel, 0 for none
  stopReq,   \* source.stopCh is closed
  srcFatal,  \* position of the record that could not be parsed, 0 for none
  chan,      \* the events channel
  disp,      \* dispatch loop: "off", "select", "flush", "wait", "returned"
  cause,     \* why the dispatch loop ends: "none", "closed", "cancelled"
  buf,       \* buf[t]: the table's buffer
  flushing,  \* tables the current flush has still to visit
  out,       \* flushed events of one table not yet sent to its worker
  wch,       \* wch[w]: worker channel
  whand,     \* whand[w]: the event worker w is executing, 0 for none
  gone,      \* workers that have returned
  appFatal,  \* applier.fatalErr: position of the event, 0 for nil
  applied,   \* history: positions this run executed on the target
  failed,    \* history: positions this run gave up on (EventsFailed or fatal)
  parsed,    \* history: positions parsed by any run
  unread,    \* history: positions streamLoop passed over when last received
  origin,    \* history: position at which the slot was created
  base,      \* history: last position a start without a checkpoint jumped to
  from       \* history: position of the first record sent to this run

pgVars   == <<walEnd, slot>>
fileVars == <<ckpt, torn>>
procVars == <<run, exit, starts, sig, cmdSig, ctxDone>>
srcVars  == <<src, next, lsn, hand, stopReq, srcFatal>>
dispVars == <<disp, cause, buf, flushing, out>>
workVars == <<wch, whand, gone, appFatal>>
histVars == <<applied, failed, parsed, unread, origin, base, from>>
vars == <<pgVars, fileVars, procVars, srcVars, chan, dispVars, workVars, histVars>>

Elems(s) == {s[i] : i \in DOMAIN s}
Larger(p, q) == IF p > q THEN p ELSE q

IsEvent(i) == Log[i] # Commit

\* The applier's own context: derived from the run's, and cancelled by a
\* worker that meets a structural error.
AppDone == ctxDone \/ appFatal # 0

(***************************************************************************)
(* PostgreSQL.  A transaction becomes visible as a whole.  The walsender,  *)
(* asked to start at p, resends every transaction whose commit lies after  *)
(* p; transactions are never split.                                        *)
(***************************************************************************)
CommitTransaction ==
  /\ \E c \in walEnd + 1 .. Len(Log) :
       /\ Log[c] = Commit
       /\ \A i \in walEnd + 1 .. c - 1 : IsEvent(i)
       /\ walEnd' = c
  /\ UNCHANGED <<slot, fileVars, procVars, srcVars, chan, dispVars, workVars, histVars>>

ResumePoints(p) ==
  {b \in 0 .. p : /\ b = 0 \/ Log[b] = Commit
                  /\ \A i \in b + 1 .. p : IsEvent(i)}

(***************************************************************************)
(* Process start and end.  Stopped is the memory of a process that is not  *)
(* running.  StartRun is Runner.Run up to its select loop, with            *)
(* Source.Start; without a checkpoint the stream starts at the server's    *)
(* current WAL position.                                                   *)
(***************************************************************************)
Stopped ==
  /\ sig = FALSE /\ cmdSig = FALSE /\ ctxDone = FALSE
  /\ src = "closed" /\ hand = 0 /\ stopReq = FALSE /\ srcFatal = 0
  /\ chan = <<>>
  /\ disp = "off" /\ cause = "none" /\ flushing = {} /\ out = <<>>
  /\ buf = [t \in Tables |-> <<>>]
  /\ wch = [w \in Workers |-> <<>>]
  /\ whand = [w \in Workers |-> 0]
  /\ gone = {} /\ appFatal = 0
  /\ applied = {} /\ failed = {}

StartLSN == IF ckpt > 0 THEN ckpt ELSE walEnd

StartRun ==
  /\ run = "down" /\ starts < MaxStarts /\ ~torn
  /\ run' = "loop" /\ exit' = "none" /\ starts' = starts + 1
  /\ slot' = IF slot = NoSlot THEN walEnd ELSE slot
  /\ origin' = IF slot = NoSlot THEN walEnd ELSE origin
  /\ base' = IF ckpt = 0 THEN walEnd ELSE base
  /\ lsn' = StartLSN
  /\ \E b \in ResumePoints(Larger(StartLSN, slot')) : next' = b + 1 /\ from' = b + 1
  /\ src' = "recv" /\ disp' = "select"
  /\ UNCHANGED <<walEnd, fileVars, sig, cmdSig, ctxDone, hand, stopReq, srcFatal, chan,
                 cause, buf, flushing, out, workVars, applied, failed, parsed, unread>>

\* Run returns before it streams: the checkpoint file does not parse, a
\* connection cannot be made, or START_REPLICATION is refused, which leaves
\* behind a slot created just before.
StartFails ==
  /\ run = "down" /\ starts < MaxStarts
  /\ starts' = starts + 1 /\ exit' = "error"
  /\ \/ UNCHANGED <<slot, origin>>
     \/ slot = NoSlot /\ ~torn /\ slot' = walEnd /\ origin' = walEnd
  /\ UNCHANGED <<walEnd, fileVars, run, sig, cmdSig, ctxDone, srcVars, chan, dispVars,
                 workVars, applied, failed, parsed, unread, base, from>>

EndProcess(result) ==
  /\ run' = "down" /\ exit' = result
  /\ sig' = FALSE /\ cmdSig' = FALSE /\ ctxDone' = FALSE
  /\ src' = "closed" /\ hand' = 0 /\ stopReq' = FALSE /\ srcFatal' = 0
  /\ chan' = <<>>
  /\ disp' = "off" /\ cause' = "none" /\ flushing' = {} /\ out' = <<>>
  /\ buf' = [t \in Tables |-> <<>>]
  /\ wch' = [w \in Workers |-> <<>>]
  /\ whand' = [w \in Workers |-> 0]
  /\ gone' = {} /\ appFatal' = 0
  /\ applied' = {} /\ failed' = {}
  /\ UNCHANGED <<pgVars, fileVars, starts, next, lsn, parsed, unread,
                 origin, base, from>>

\* Run has returned; the process ends and takes its goroutines with it.
ProcessExit == run = "exiting" /\ EndProcess(exit)

Crash == "crash" \in Occurs /\ run # "down" /\ EndProcess("crash")

(***************************************************************************)
(* Source.streamLoop.  "recv": blocked in ReceiveMessage; "send": in the   *)
(* select that puts an event on the channel; "closed": it has returned and *)
(* closed the channel.  The check at the top of the loop is taken together *)
(* with the end of the previous iteration.                                 *)
(***************************************************************************)
\* (Wrong variant: the position last seen, also when a record is sent again.)
LastSeenLSN(l, p) == p
AdvanceLSN(l, p) == IF p > l THEN p ELSE l

NextIteration == src' = IF ctxDone \/ stopReq THEN "closed" ELSE "recv"

\* The periodic standby status update; PostgreSQL ignores a position that
\* is behind the one it has.
MaybeAck(l) == slot' = slot \/ ("ack" \in Occurs /\ slot' = Larger(slot, l))

Keepalive ==
  /\ src = "recv"
  /\ MaybeAck(lsn)
  /\ NextIteration
  /\ UNCHANGED <<walEnd, fileVars, procVars, next, lsn, hand, stopReq, srcFatal,
                 chan, dispVars, workVars, histVars>>

\* A record is parsed, then lsnCurrent advances, then an event is offered.
ReceiveRecord ==
  /\ src = "recv" /\ next <= walEnd
  /\ parsed' = parsed \cup {next} /\ unread' = unread \ {next}
  /\ lsn' = AdvanceLSN(lsn, next)
  /\ next' = next + 1
  /\ IF IsEvent(next)
       THEN src' = "send" /\ hand' = next /\ UNCHANGED slot
       ELSE NextIteration /\ MaybeAck(lsn') /\ UNCHANGED hand
  /\ UNCHANGED <<walEnd, fileVars, procVars, stopReq, srcFatal, chan, dispVars,
                 workVars, applied, failed, origin, base, from>>

SendEvent ==
  /\ src = "send" /\ Len(chan) < EventsCap
  /\ chan' = Append(chan, hand) /\ hand' = 0
  /\ MaybeAck(lsn)
  /\ NextIteration
  /\ UNCHANGED <<walEnd, fileVars, procVars, next, lsn, stopReq, srcFatal,
                 dispVars, workVars, histVars>>

\* A frame whose XLogData header cannot be read is logged and passed over: the
\* loop continues, and the next record moves lsnCurrent past it.
PassOver ==
  /\ "unreadable" \in Occurs /\ Cardinality(unread) < MaxUnread
  /\ src = "recv" /\ next <= walEnd
  /\ unread' = unread \cup {next}
  /\ next' = next + 1
  /\ NextIteration
  /\ UNCHANGED <<pgVars, fileVars, procVars, lsn, hand, stopReq, srcFatal, chan,
                 dispVars, workVars, applied, failed, parsed, origin, base, from>>

\* (Wrong variant: lsnCurrent advances before the record is parsed.)
ParseFailureAdvanced ==
  /\ src = "recv" /\ next <= walEnd
  /\ srcFatal' = next
  /\ lsn' = AdvanceLSN(lsn, next)
  /\ src' = "closed"
  /\ UNCHANGED <<pgVars, fileVars, procVars, next, hand, stopReq, chan,
                 dispVars, workVars, histVars>>

\* A record whose logical message cannot be parsed halts the stream; lsnCurrent
\* is held.
ParseFailure ==
  /\ "parse error" \in Occurs
  /\ src = "recv" /\ next <= walEnd
  /\ srcFatal' = next
  /\ src' = "closed"
  /\ UNCHANGED <<pgVars, fileVars, procVars, next, lsn, hand, stopReq, chan,
                 dispVars, workVars, histVars>>

CloseStream ==
  /\ src' = "closed"
  /\ UNCHANGED <<pgVars, fileVars, procVars, next, lsn, hand, stopReq, srcFatal,
                 chan, dispVars, workVars, histVars>>

\* Cancellation ends a blocked receive; cancellation or Stop ends a blocked send.
StreamStops ==
  /\ \/ src = "recv" /\ ctxDone
     \/ src = "send" /\ (ctxDone \/ stopReq)
  /\ CloseStream

\* A receive error or an ErrorResponse ends the stream without a fatal error.
ConnectionLost == "disconnect" \in Occurs /\ src = "recv" /\ CloseStream

(***************************************************************************)
(* Applier.Start, the dispatch loop.  A flush visits the tables one by one *)
(* and sends the events of each to the table's worker, waiting while that  *)
(* worker's channel is full; cancellation abandons the events already      *)
(* taken from the buffer and ends the flush.                               *)
(***************************************************************************)
NonEmpty == {t \in Tables : buf[t] # <<>>}
Full     == {t \in Tables : Len(buf[t]) >= BatchSize}

BeginFlush(S) == flushing' = S /\ disp' = "flush"

\* bufferEvent and flushFullTo.
DispatchEvent ==
  /\ disp = "select" /\ chan # <<>>
  /\ chan' = Tail(chan)
  /\ LET t == Log[Head(chan)] IN buf' = [buf EXCEPT ![t] = Append(@, Head(chan))]
  /\ IF Full' = {} THEN UNCHANGED <<flushing, disp>> ELSE BeginFlush(Full')
  /\ UNCHANGED <<pgVars, fileVars, procVars, srcVars, cause, out, workVars, histVars>>

\* The flush ticker.
DispatchTick ==
  /\ disp = "select" /\ NonEmpty # {}
  /\ BeginFlush(NonEmpty)
  /\ UNCHANGED <<pgVars, fileVars, procVars, srcVars, chan, cause, buf, out,
                 workVars, histVars>>

BeginLastFlush(why) ==
  /\ disp = "select"
  /\ cause' = why
  /\ BeginFlush(NonEmpty)
  /\ UNCHANGED <<pgVars, fileVars, procVars, srcVars, chan, buf, out, workVars, histVars>>

\* (Wrong variant: the workers are closed without a last flush.)
DispatchClosedUnflushed ==
  /\ disp = "select" /\ chan = <<>> /\ src = "closed"
  /\ cause' = "closed" /\ disp' = "wait"
  /\ UNCHANGED <<pgVars, fileVars, procVars, srcVars, chan, buf, flushing, out,
                 workVars, histVars>>
DispatchClosed == chan = <<>> /\ src = "closed" /\ BeginLastFlush("closed")

DispatchCancelled == AppDone /\ BeginLastFlush("cancelled")

\* (Wrong variant: the buffer is not emptied.)
FlushTableCopied(t) ==
  /\ disp = "flush" /\ out = <<>> /\ t \in flushing
  /\ out' = buf[t]
  /\ flushing' = flushing \ {t}
  /\ UNCHANGED <<pgVars, fileVars, procVars, srcVars, chan, disp, cause, buf,
                 workVars, histVars>>
FlushTable(t) ==
  /\ disp = "flush" /\ out = <<>> /\ t \in flushing
  /\ out' = buf[t]
  /\ buf' = [buf EXCEPT ![t] = <<>>]
  /\ flushing' = flushing \ {t}
  /\ UNCHANGED <<pgVars, fileVars, procVars, srcVars, chan, disp, cause, workVars, histVars>>

\* (Wrong variant: any worker takes the event.)
FlushSendShared ==
  /\ out # <<>>
  /\ \E w \in Workers :
       /\ Len(wch[w]) < BatchSize
       /\ wch' = [wch EXCEPT ![w] = Append(@, Head(out))]
  /\ out' = Tail(out)
  /\ UNCHANGED <<pgVars, fileVars, procVars, srcVars, chan, disp, cause, buf,
                 flushing, whand, gone, appFatal, histVars>>
FlushSend ==
  /\ out # <<>>
  /\ LET w == Route[Log[Head(out)]] IN
       /\ Len(wch[w]) < BatchSize
       /\ wch' = [wch EXCEPT ![w] = Append(@, Head(out))]
  /\ out' = Tail(out)
  /\ UNCHANGED <<pgVars, fileVars, procVars, srcVars, chan, disp, cause, buf,
                 flushing, whand, gone, appFatal, histVars>>

FlushAbandoned ==
  /\ out # <<>> /\ AppDone
  /\ out' = <<>> /\ flushing' = {}
  /\ UNCHANGED <<pgVars, fileVars, procVars, srcVars, chan, disp, cause, buf,
                 workVars, histVars>>

\* Back to the select; or, after the last flush, the worker channels are closed.
FlushDone ==
  /\ disp = "flush" /\ out = <<>> /\ flushing = {}
  /\ disp' = IF cause = "none" THEN "select" ELSE "wait"
  /\ UNCHANGED <<pgVars, fileVars, procVars, srcVars, chan, cause, buf, flushing,
                 out, workVars, histVars>>

ApplierReturns ==
  /\ disp = "wait" /\ gone = Workers
  /\ disp' = "returned"
  /\ UNCHANGED <<pgVars, fileVars, procVars, srcVars, chan, cause, buf, flushing,
                 out, workVars, histVars>>

\* The error Start returns: nil when it ended on a closed channel.
ApplierError == cause = "cancelled"

(***************************************************************************)
(* Applier.worker and applyEvent.                                          *)
(***************************************************************************)
Ready(w) == w \notin gone /\ whand[w] = 0 /\ wch[w] # <<>>
Dequeue(w) == wch' = [wch EXCEPT ![w] = Tail(@)]

workerUnchanged == <<pgVars, fileVars, procVars, srcVars, chan, dispVars, parsed,
                     unread, origin, base, from>>

\* (Wrong variant: the worker returns at a skipped table.)
SkipEventReturns(w) ==
  /\ Ready(w) /\ Log[Head(wch[w])] \in SkipTables
  /\ Dequeue(w) /\ gone' = gone \cup {w}
  /\ UNCHANGED <<workerUnchanged, whand, appFatal, applied, failed>>
SkipEvent(w) ==
  /\ Ready(w) /\ Log[Head(wch[w])] \in SkipTables
  /\ Dequeue(w)
  /\ UNCHANGED <<workerUnchanged, whand, gone, appFatal, applied, failed>>

\* The transformed statement is handed to TiDB; a cancelled context refuses it.
\* (Wrong variant: the statement does not carry the context.)
BeginApplyDetached(w) ==
  /\ Ready(w) /\ Log[Head(wch[w])] \notin SkipTables
  /\ Dequeue(w)
  /\ whand' = [whand EXCEPT ![w] = Head(wch[w])]
  /\ UNCHANGED <<workerUnchanged, gone, appFatal, applied, failed>>
BeginApply(w) ==
  /\ Ready(w) /\ Log[Head(wch[w])] \notin SkipTables
  /\ Dequeue(w)
  /\ IF AppDone
       THEN failed' = failed \cup {Head(wch[w])} /\ UNCHANGED whand
       ELSE whand' = [whand EXCEPT ![w] = Head(wch[w])] /\ UNCHANGED failed
  /\ UNCHANGED <<workerUnchanged, gone, appFatal, applied>>

ApplySucceeds(w) ==
  /\ whand[w] # 0
  /\ applied' = applied \cup {whand[w]}
  /\ whand' = [whand EXCEPT ![w] = 0]
  /\ UNCHANGED <<workerUnchanged, wch, gone, appFatal, failed>>

\* Retries exhausted, an "apply fatal" error, or cancellation while waiting:
\* counted in EventsFailed, and the worker goes on with the next event.
ApplyFails(w) ==
  /\ whand[w] # 0 /\ (AppDone \/ "apply error" \in Occurs)
  /\ failed' = failed \cup {whand[w]}
  /\ whand' = [whand EXCEPT ![w] = 0]
  /\ UNCHANGED <<workerUnchanged, wch, gone, appFatal, applied>>

\* A StructuralError: the worker records it, cancels the applier and returns.
StructuralHalt(w, e) ==
  /\ "structural" \in Occurs
  /\ appFatal' = IF appFatal = 0 THEN e ELSE appFatal
  /\ failed' = failed \cup {e}
  /\ gone' = gone \cup {w}
  /\ UNCHANGED <<workerUnchanged, applied>>

\* The transformer refuses the event (no usable replica identity).
TransformHalts(w) ==
  /\ Ready(w) /\ Log[Head(wch[w])] \notin SkipTables
  /\ Dequeue(w) /\ UNCHANGED whand
  /\ StructuralHalt(w, Head(wch[w]))

\* The target table is still missing after the schema retries.
SchemaHalts(w) ==
  /\ whand[w] # 0
  /\ whand' = [whand EXCEPT ![w] = 0] /\ UNCHANGED wch
  /\ StructuralHalt(w, whand[w])

\* The worker's channel is closed and drained.
WorkerReturns(w) ==
  /\ disp = "wait" /\ w \notin gone /\ whand[w] = 0 /\ wch[w] = <<>>
  /\ gone' = gone \cup {w}
  /\ UNCHANGED <<workerUnchanged, wch, whand, appFatal, applied, failed>>

(***************************************************************************)
(* Signals and the runner's select loop.  SIGTERM reaches two handlers:    *)
(* the command's, which cancels the context, and the runner's own.         *)
(***************************************************************************)
\* Bound: one signal per run; a second one changes nothing but sigCh.
Signal ==
  /\ "signal" \in Occurs
  /\ run = "loop" /\ ~sig /\ ~cmdSig /\ ~ctxDone
  /\ sig' = TRUE /\ cmdSig' = TRUE
  /\ UNCHANGED <<pgVars, fileVars, run, exit, starts, ctxDone, srcVars, chan,
                 dispVars, workVars, histVars>>

CommandCancels ==
  /\ cmdSig
  /\ cmdSig' = FALSE /\ ctxDone' = TRUE
  /\ UNCHANGED <<pgVars, fileVars, run, exit, starts, sig, srcVars, chan,
                 dispVars, workVars, histVars>>

\* checkpoint.Update(source.CurrentLSN()) and Save: it succeeds, cannot open
\* the file, or fails in the middle of writing it.
SaveCheckpoint ==
  \/ ckpt' = lsn /\ torn' = FALSE
  \/ "save error" \in Occurs /\ UNCHANGED fileVars
  \/ "save error" \in Occurs /\ torn' = TRUE /\ UNCHANGED ckpt

\* source.Stop: closes stopCh while the stream runs.
StopSource == stopReq' = (stopReq \/ src # "closed")

runnerUnchanged == <<pgVars, starts, cmdSig, ctxDone, src, next, lsn, hand, srcFatal,
                     chan, dispVars, workVars, histVars>>

Return(result) == run' = "exiting" /\ exit' = result

RunnerApplierDone ==
  /\ run = "loop" /\ disp = "returned"
  /\ SaveCheckpoint /\ StopSource
  /\ Return(IF srcFatal # 0 \/ (ApplierError /\ appFatal # 0) THEN "error" ELSE "clean")
  /\ UNCHANGED <<runnerUnchanged, sig>>

RunnerSignal ==
  /\ "signal" \in Occurs
  /\ run = "loop" /\ sig
  /\ sig' = FALSE
  /\ StopSource
  /\ run' = "sigwait"
  /\ UNCHANGED <<runnerUnchanged, fileVars, exit>>

\* The applier has answered, or 30 seconds have passed.
RunnerShutdown ==
  /\ run = "sigwait"
  /\ disp = "returned" \/ "drain timeout" \in Occurs
  /\ SaveCheckpoint
  /\ Return("clean")
  /\ UNCHANGED <<runnerUnchanged, sig, stopReq>>

\* The DDL poller reported a statement that could not be applied.
RunnerDDLHalt ==
  /\ "ddl halt" \in Occurs /\ run = "loop"
  /\ SaveCheckpoint /\ StopSource
  /\ Return("error")
  /\ UNCHANGED <<runnerUnchanged, sig>>

RunnerTick ==
  /\ "tick" \in Occurs /\ run = "loop"
  /\ SaveCheckpoint
  /\ UNCHANGED <<runnerUnchanged, run, exit, sig, stopReq>>

\* ctx.Done: no save; the command treats context.Canceled as a clean end.
RunnerCancelled ==
  /\ run = "loop" /\ ctxDone
  /\ StopSource
  /\ Return("clean")
  /\ UNCHANGED <<runnerUnchanged, fileVars, sig>>

-----------------------------------------------------------------------------
Init ==
  /\ walEnd = 1 /\ slot = NoSlot
  /\ ckpt = 0 /\ torn = FALSE
  /\ run = "down" /\ exit = "none" /\ starts = 0
  /\ Stopped
  /\ next = 1 /\ lsn = 0 /\ from = 1
  /\ parsed = {} /\ unread = {}
  /\ origin = 0 /\ base = 0

SourceStep == Keepalive \/ ReceiveRecord \/ SendEvent \/ StreamStops

DispatchStep ==
  \/ DispatchEvent \/ DispatchTick \/ DispatchClosed \/ DispatchCancelled
  \/ \E t \in Tables : FlushTable(t)
  \/ FlushSend \/ FlushAbandoned \/ FlushDone \/ ApplierReturns

WorkerStep(w) ==
  \/ SkipEvent(w) \/ BeginApply(w) \/ ApplySucceeds(w) \/ ApplyFails(w)
  \/ TransformHalts(w) \/ SchemaHalts(w) \/ WorkerReturns(w)

RunnerStep ==
  \/ RunnerApplierDone \/ RunnerSignal \/ RunnerShutdown \/ RunnerDDLHalt
  \/ RunnerTick \/ RunnerCancelled

Environment ==
  \/ CommitTransaction \/ StartRun \/ StartFails \/ Crash \/ Signal
  \/ PassOver \/ ParseFailure \/ ConnectionLost

Next ==
  \/ Environment
  \/ SourceStep
  \/ DispatchStep
  \/ \E w \in Workers : WorkerStep(w)
  \/ RunnerStep \/ CommandCancels \/ ProcessExit

Spec == Init /\ [][Next]_vars

(***************************************************************************)
(* Every goroutine keeps running, PostgreSQL keeps sending keepalives, the *)
(* flush ticker keeps firing, a statement in progress ends.  A case that   *)
(* stays ready is eventually taken by Go's select, which chooses among the *)
(* ready ones at random.  Nothing is assumed of the environment.           *)
(***************************************************************************)
Fairness ==
  /\ WF_vars(Keepalive) /\ WF_vars(ReceiveRecord) /\ WF_vars(SendEvent)
  /\ WF_vars(StreamStops)
  /\ WF_vars(DispatchEvent) /\ WF_vars(DispatchTick)
  /\ WF_vars(DispatchClosed) /\ WF_vars(DispatchCancelled)
  /\ WF_vars(\E t \in Tables : FlushTable(t))
  /\ WF_vars(FlushSend) /\ WF_vars(FlushAbandoned)
  /\ WF_vars(FlushDone) /\ WF_vars(ApplierReturns)
  /\ \A w \in Workers : WF_vars(WorkerStep(w))
  /\ WF_vars(RunnerApplierDone) /\ WF_vars(RunnerSignal) /\ WF_vars(RunnerShutdown)
  /\ WF_vars(RunnerCancelled) /\ WF_vars(CommandCancels) /\ WF_vars(ProcessExit)

FairSpec == Spec /\ Fairness

-----------------------------------------------------------------------------
(***************************************************************************)
(* Type invariant.                                                         *)
(***************************************************************************)
PgTypeOK   == walEnd \in Pos /\ slot \in Pos \cup {0, NoSlot}
FileTypeOK == ckpt \in Pos \cup {0} /\ torn \in BOOLEAN
ProcTypeOK ==
  /\ run \in {"down", "loop", "sigwait", "exiting"}
  /\ exit \in {"none", "clean", "error", "crash"}
  /\ starts \in 0 .. MaxStarts
  /\ sig \in BOOLEAN /\ cmdSig \in BOOLEAN /\ ctxDone \in BOOLEAN
SrcTypeOK ==
  /\ src \in {"recv", "send", "closed"}
  /\ next \in 1 .. Len(Log) + 1 /\ lsn \in Pos \cup {0}
  /\ hand \in Pos \cup {0} /\ (src = "send" => hand # 0)
  /\ stopReq \in BOOLEAN /\ srcFatal \in Pos \cup {0}
ChanTypeOK == chan \in Seq(Pos) /\ Len(chan) <= EventsCap
DispTypeOK ==
  /\ disp \in {"off", "select", "flush", "wait", "returned"}
  /\ cause \in {"none", "closed", "cancelled"}
  /\ buf \in [Tables -> Seq(Pos)]
  /\ flushing \subseteq Tables /\ out \in Seq(Pos)
WorkTypeOK ==
  /\ wch \in [Workers -> Seq(Pos)] /\ \A w \in Workers : Len(wch[w]) <= BatchSize
  /\ whand \in [Workers -> Pos \cup {0}]
  /\ gone \subseteq Workers /\ appFatal \in Pos \cup {0}
HistTypeOK ==
  /\ applied \subseteq Pos /\ failed \subseteq Pos
  /\ parsed \subseteq Pos /\ unread \subseteq Pos
  /\ origin \in Pos \cup {0} /\ base \in Pos \cup {0}
  /\ from \in 1 .. Len(Log) + 1

TypeOK ==
  /\ PgTypeOK /\ FileTypeOK /\ ProcTypeOK /\ SrcTypeOK
  /\ ChanTypeOK /\ DispTypeOK /\ WorkTypeOK /\ HistTypeOK

(***************************************************************************)
(* Where the events of a run are.                                          *)
(***************************************************************************)
\* Events the source has put on the channel in this run.
Sent == {i \in from .. next - 1 : IsEvent(i) /\ i \notin unread} \ {hand}

\* The slots that hold position i on its way to the target.
Indexes(q, i)   == {k \in DOMAIN q : q[k] = i}
BufferPlaces(i) == UNION {{t} \X Indexes(buf[t], i) : t \in Tables}
WorkerPlaces(i) == UNION {{w} \X Indexes(wch[w], i) : w \in Workers}
HandPlaces(i)   == {<<w, 0>> : w \in {v \in Workers : whand[v] = i}}
Places(i) ==
  ({"chan"} \X Indexes(chan, i)) \cup ({"out"} \X Indexes(out, i))
    \cup BufferPlaces(i) \cup WorkerPlaces(i) \cup HandPlaces(i)

InFlight(i) == Places(i) # {}
Settled(i)  == i \in applied \cup failed \/ Log[i] \in SkipTables

(***************************************************************************)
(* Safety.                                                                 *)
(***************************************************************************)
\* While nothing has cancelled the applier, every event the source has sent
\* is in exactly one place: one slot of the channel, the buffers, the flush or
\* the workers, or settled.  (flush() empties the buffer before sending; the
\* select of a flush keeps what it has not sent.)
EventsConserved ==
  run # "down" /\ ~AppDone =>
    \A i \in Sent :
      /\ InFlight(i) \/ Settled(i)
      /\ InFlight(i) => Cardinality(Places(i)) = 1 /\ i \notin applied \cup failed

\* An event reaches the target only after every earlier event of its table in
\* this run has been applied, given up or skipped: the reason for a fixed
\* worker per table (applier.go, "would reorder same-row events").
AppliedInOrder ==
  \A i \in applied : \A j \in Sent :
    Log[j] = Log[i] /\ j < i => Settled(j)

\* An applier that ends because the channel was closed, with no cancellation,
\* leaves no event of the run behind ("returns when the input channel is
\* closed and all buffered events are flushed").
DrainComplete ==
  disp = "returned" /\ cause = "closed" /\ ~AppDone => \A i \in Sent : Settled(i)

\* What the checkpoint, the slot or lsnCurrent confirms has been parsed; or it
\* was never asked for, because it lies before the slot or because a start
\* without a checkpoint jumped over it; or streamLoop passed over it, its frame
\* unreadable.  So a record whose logical message could not be parsed is sent
\* again after a restart; one passed over is not, which source.go rules out
\* ("lsnCurrent advances only on a successfully parsed XLogData record").
Confirmed == Larger(Larger(ckpt, slot), lsn)
Covered(p) == \A i \in 1 .. p : i \in parsed \cup unread \/ i <= Larger(origin, base)

ConfirmedIsParsed == Covered(Confirmed)

\* A checkpoint file never moves backwards, although a restart receives
\* again records that lie before the position it started from.
CheckpointNeverRegresses == [][ckpt' >= ckpt]_vars

(***************************************************************************)
(* The pipeline implements the delivery of CDCDelivery: its pending events *)
(* are those in the hands of the source, the channels, the buffers, the    *)
(* flush and the workers.                                                  *)
(***************************************************************************)
Pending ==
  (IF src = "send" THEN {hand} ELSE {}) \cup Elems(chan) \cup Elems(out)
    \cup (UNION {Elems(buf[t]) : t \in Tables})
    \cup (UNION {Elems(wch[w]) : w \in Workers})
    \cup ({whand[w] : w \in Workers} \ {0})

Delivery == INSTANCE CDCDelivery WITH
  Last <- Len(Log), up <- run # "down", read <- next, pending <- Pending,
  lossy <- AppDone \/ stopReq

\* The runs of the code are runs of CDCDelivery.
ImplementsDelivery == Delivery!Spec

(***************************************************************************)
(* Liveness.                                                               *)
(***************************************************************************)
\* When the stream has ended or the applier was cancelled, the run ends,
\* however full the channels are.
EndIsNoticed == (run = "loop" /\ (src = "closed" \/ AppDone)) ~> run # "loop"

\* Every event put on the channel is settled, unless the run ends first.
EventsSettle ==
  \A i \in {j \in Pos : IsEvent(j)} :
    (run = "loop" /\ i \in Sent) ~> (Settled(i) \/ run # "loop")

\* Both.
RunSettles == EndIsNoticed /\ EventsSettle

(***************************************************************************)
(* What the repository says of this program and the code does not do.      *)
(***************************************************************************)
\* source.go, streamLoop: "PG retains the WAL -> on restart the record is
\* re-sent".  No record committed after the slot was created is jumped over
\* before it has been parsed.
UnparsedIsResent ==
  run # "down" => \A i \in origin + 1 .. from - 1 : i \in parsed
=============================================================================
