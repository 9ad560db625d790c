------------------------------- MODULE TaskLogs -------------------------------
(***************************************************************************)
(* The log of a task, from the server's buffer (logbuffer.go) over the     *)
(* call that reads it and the web socket that goes on from there           *)
(* (handleTaskLogs, handleLogStream) to the log drawer of the detail page. *)
(* Entries are numbered in each buffer; that the page shows most of them   *)
(* twice, from the call and from the socket, is not told apart.            *)
(***************************************************************************)
EXTENDS TaskDetailView

CONSTANTS
  Logged,      \* bound: tasks that log
  MaxLogs,     \* bound: entries of a buffer
  Kept,        \* entries that a buffer keeps (1000)
  ChanSize,    \* entries that wait for a socket (64)
  MaxStreams,  \* bound: sockets at the server
  MaxLogCalls  \* bound: loadLogs calls in flight

ASSUME LogAssumption ==
  /\ Logged \subseteq Tasks /\ MaxLogs \in Nat /\ Kept \in Nat \ {0} /\ ChanSize \in Nat
  /\ MaxStreams \in Nat /\ MaxLogCalls \in Nat

VARIABLES
  buffers,   \* buffers[t]: the entries of t's buffers so far; the last is in use
  streams,   \* streams[i]: a socket
  logs,      \* the entries shown
  logCalls,  \* loadLogs calls in flight
  logWs      \* the page's socket, 0 for none

logVars == <<buffers, streams, logs, logCalls, logWs>>

\* A socket is "opening", has found its "buffer", is "subscribed", and after the
\* entries that are there is "streaming".  from: the first entry it has sent.
NoStream == [st |-> "none", task |-> {}, buffer |-> 0, chan |-> <<>>, missed |-> {}, from |-> 0,
             closed |-> FALSE, stray |-> FALSE]
Streams == 1 .. MaxStreams
Sending == {"subscribed", "streaming"}

\* A load: its page, and the answer.
Load == [st |-> "asked", task |-> taskId', visit |-> visit', answer |-> {}]

Entries(b, n) == {<<b, k>> : k \in {k \in 1 .. n : k > n - Kept}}
All(t)        == LET b == Len(buffers[t]) IN Entries(b, buffers[t][b])
Mine(load)    == On("detail") /\ load.visit = visit

-------------------------------------------------------------------------------
\* TaskLogBuffer.Append: a subscriber whose channel is full misses the entry.
AppendLog(t) ==
  LET b == Len(buffers[t])
      n == buffers[t][b] + 1
      Sent(s) == IF s.st \in Sending /\ t \in s.task /\ s.buffer = b
                 THEN IF Len(s.chan) < ChanSize THEN [s EXCEPT !.chan = Append(@, n)]
                      ELSE [s EXCEPT !.missed = @ \cup {n}]
                 ELSE s
  IN /\ n <= MaxLogs /\ row[t] \notin {"none", "created"}
     /\ buffers' = [buffers EXCEPT ![t][b] = n]
     /\ streams' = [i \in Streams |-> Sent(streams[i])]
     /\ UNCHANGED <<logs, logCalls, logWs, detailVars, routerVars, row>>

\* RemoveBuffer, when a task is started: its subscribers stay with the old one.
\* (A buffer without entries and subscribers is as good as a new one.)
Used(t) ==
  LET b == Len(buffers[t]) IN
    buffers[t][b] > 0 \/ \E i \in Streams : t \in streams[i].task /\ streams[i].buffer = b
RemoveBuffer(ts) ==
  /\ buffers' = [t \in Tasks |-> IF t \in ts /\ Used(t) THEN Append(buffers[t], 0) ELSE buffers[t]]
  /\ UNCHANGED <<streams, logs, logCalls, logWs>>

-------------------------------------------------------------------------------
\* handleLogStream.  (Wrong variant: the entries first, then Subscribe.)
StreamOpens(i) ==
  /\ streams[i].st = "opening"
  /\ \E t \in streams[i].task :
       streams' = [streams EXCEPT ![i] =
         IF Exists(t) THEN [@ EXCEPT !.st = "buffer", !.buffer = Len(buffers[t])] ELSE NoStream]
  /\ UNCHANGED <<buffers, logs, logCalls, logWs, detailVars, routerVars, row>>

StreamSubscribes(i) ==
  /\ streams[i].st = "buffer"
  /\ streams' = [streams EXCEPT ![i].st = "subscribed"]
  /\ UNCHANGED <<buffers, logs, logCalls, logWs, detailVars, routerVars, row>>

\* Entries that reach a socket are shown by its page, unless it has closed it.
Shows(i, entries) ==
  logs' = IF i = logWs /\ ~streams[i].closed THEN logs \cup entries ELSE logs

Replay(i, from, to) ==
  LET s == streams[i]
      n == CHOOSE n \in 0 .. MaxLogs : \A t \in s.task : n = buffers[t][s.buffer]
  IN /\ s.st = from
     /\ streams' = [streams EXCEPT ![i].st = to, ![i].from = IF n > Kept THEN n - Kept + 1 ELSE 1]
     /\ Shows(i, Entries(s.buffer, n))
     /\ UNCHANGED <<buffers, logCalls, logWs, detailVars, routerVars, row>>

ReplayFirst(i) ==
  \/ Replay(i, "buffer", "replayed")
  \/ /\ streams[i].st = "replayed"
     /\ streams' = [streams EXCEPT ![i].st = "streaming"]
     /\ UNCHANGED <<buffers, logs, logCalls, logWs, detailVars, routerVars, row>>
StreamReplays(i) == Replay(i, "subscribed", "streaming")

StreamSends(i) ==
  /\ streams[i].st = "streaming" /\ streams[i].chan # <<>>
  /\ streams' = [streams EXCEPT ![i].chan = Tail(@)]
  /\ Shows(i, {<<streams[i].buffer, Head(streams[i].chan)>>})
  /\ UNCHANGED <<buffers, logCalls, logWs, detailVars, routerVars, row>>

\* The page has closed it: Unsubscribe, once the entries have been sent.
StreamEnds(i) ==
  /\ streams[i].closed /\ streams[i].st = "streaming"
  /\ streams' = [streams EXCEPT ![i] = NoStream]
  /\ UNCHANGED <<buffers, logs, logCalls, logWs, detailVars, routerVars, row>>

\* The connection breaks; the page does not notice.
StreamBreaks(i) ==
  /\ streams[i].st # "none"
  /\ streams' = [streams EXCEPT ![i] = NoStream]
  /\ Unanswered("stream")
  /\ UNCHANGED <<buffers, logs, logCalls, logWs, detailVars, row>>

StreamStep(i) ==
  \/ StreamOpens(i) \/ StreamSubscribes(i) \/ StreamReplays(i) \/ StreamSends(i) \/ StreamEnds(i)

-------------------------------------------------------------------------------
\* onMounted and onUnmounted.  A load that is in flight then goes on, and opens a
\* socket that nobody closes.
Hung(i) == [streams EXCEPT ![i] = IF @.st = "none" THEN @ ELSE [@ EXCEPT !.closed = TRUE]]

LogsInit ==
  /\ buffers = [t \in Tasks |-> <<0>>]
  /\ streams = [i \in Streams |-> NoStream]
  /\ logs = {} /\ logWs = 0
  /\ logCalls = (IF On("detail")
                 THEN <<[st |-> "asked", task |-> {page[2]}, visit |-> visit, answer |-> {}]>>
                 ELSE <<>>)

LogsRoutes ==
  IF On("detail") = On("detail")' THEN UNCHANGED logVars
  ELSE /\ streams' = IF logWs = 0 THEN streams ELSE Hung(logWs)
       /\ logs' = {} /\ logWs' = 0
       /\ logCalls' = IF On("detail")' THEN Append(logCalls, Load) ELSE logCalls
       /\ UNCHANGED buffers

LogsReload ==
  /\ streams' = [i \in Streams |-> Hung(i)[i]]
  /\ logs' = {} /\ logWs' = 0
  /\ logCalls' = IF On("detail")' THEN <<Load>> ELSE <<>>
  /\ UNCHANGED buffers

\* openLogs loads while there is nothing to show.
OpenLogs ==
  /\ On("detail") /\ task \notin {"none", "created"} /\ logs = {} /\ Len(logCalls) < MaxLogCalls
  /\ UNCHANGED <<detailVars, routerVars, row>>
  /\ logCalls' = Append(logCalls, Load)
  /\ UNCHANGED <<buffers, streams, logs, logWs>>

LogsServed(i) ==
  /\ i \in DOMAIN logCalls /\ logCalls[i].st = "asked"
  /\ \E t \in logCalls[i].task :
       logCalls' = [logCalls EXCEPT ![i].st = IF Exists(t) THEN "served" ELSE "refused",
                                    ![i].answer = IF Exists(t) THEN All(t) ELSE {}]
  /\ UNCHANGED <<buffers, streams, logs, logWs, detailVars, routerVars, row>>

\* connectLogWS: the socket before is closed.  (Wrong variant: it is not.)
Free(load) == {i \in Streams : streams[i].st = "none" /\ (Mine(load) \/ i # logWs)}
Opening(load) == [NoStream EXCEPT !.st = "opening", !.task = load.task, !.stray = ~Mine(load)]

ConnectOver(i, load) ==
  /\ i \in Free(load) /\ \A k \in Free(load) : i <= k
  /\ streams' = [streams EXCEPT ![i] = Opening(load)]
  /\ logWs' = IF Mine(load) THEN i ELSE logWs
ConnectLogWS(i, load) ==
  /\ i \in Free(load) /\ \A k \in Free(load) : i <= k
  /\ streams' = [(IF Mine(load) /\ logWs # 0 THEN Hung(logWs) ELSE streams) EXCEPT ![i] = Opening(load)]
  /\ logWs' = IF Mine(load) THEN i ELSE logWs

\* The answer, an error, or none; the socket is opened in any case.
LogsAnswered(i) ==
  /\ i \in DOMAIN logCalls
  /\ LET load == logCalls[i] IN
     /\ \/ load.st = "served" /\ logs' = (IF Mine(load) THEN load.answer ELSE logs) /\ Answered
        \/ load.st = "refused" /\ UNCHANGED logs /\ Answered
        \/ UNCHANGED logs /\ Unanswered("logs")
     /\ \E s \in Streams : ConnectLogWS(s, load)
     /\ logCalls' = [k \in 1 .. Len(logCalls) - 1 |-> logCalls[IF k < i THEN k ELSE k + 1]]
  /\ UNCHANGED <<buffers, detailVars, row>>

LogsNext ==
  \/ \E t \in Logged : AppendLog(t)
  \/ \E i \in Streams : StreamStep(i) \/ StreamBreaks(i)
  \/ OpenLogs
  \/ \E i \in DOMAIN logCalls : LogsServed(i) \/ LogsAnswered(i)

-------------------------------------------------------------------------------
\* Nothing is lost between the entries that are there when a socket is opened and
\* those that come while it is: once it streams and has nothing to send, the page
\* has shown every entry of its buffer, but for those that the full channel
\* dropped, however many loads replace what is shown meanwhile.
LogsComplete ==
  logWs # 0 =>
    LET s == streams[logWs] IN
      s.st = "streaming" /\ ~s.closed /\ s.chan = <<>> =>
        \A t \in s.task : \A k \in s.from .. buffers[t][s.buffer] :
          k \in s.missed \/ <<s.buffer, k>> \in logs

\* The page has one socket, however often the log is loaded; only a load that was
\* in flight when the page was left leaves one behind.
OneStream ==
  \A i \in Streams :
    streams[i].st # "none" /\ ~streams[i].closed /\ ~streams[i].stray => i = logWs
===============================================================================
