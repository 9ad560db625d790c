----------------------------- MODULE CDCDelivery -----------------------------
(***************************************************************************)
(* What the replication pipeline promises of one run, without channels,    *)
(* buffers, workers or goroutines: events are read in WAL order, and the   *)
(* events of a table are settled (applied, given up or skipped) in the     *)
(* order in which they were read.  Nothing is abandoned as long as the run *)
(* has not been cancelled or told to stop.  The promise is about one run   *)
(* only: a run may begin anywhere.                                         *)
(***************************************************************************)
EXTENDS Integers

CONSTANTS
  Commit,  \* a record that carries no event
  Log,     \* the records, in the order in which they are read
  Last     \* their number

VARIABLES
  up,       \* a run is in progress
  read,     \* position of the next record to read
  pending,  \* positions read and not settled
  lossy     \* the run has been cancelled or told to stop

vars == <<up, read, pending, lossy>>

Init == ~up /\ read = 1 /\ pending = {} /\ ~lossy

Begin ==
  /\ ~up
  /\ up' = TRUE /\ read' \in 1 .. Last + 1
  /\ UNCHANGED <<pending, lossy>>

\* A record becomes pending, unless it carries no event or cannot be read.
Read ==
  /\ up /\ read <= Last
  /\ \/ Log[read] # Commit /\ pending' = pending \cup {read}
     \/ UNCHANGED pending
  /\ read' = read + 1
  /\ UNCHANGED <<up, lossy>>

\* The oldest pending event of its table is settled, and may be the one that
\* makes the run give up.
Settle ==
  /\ \E i \in pending :
       /\ \A j \in pending : Log[j] = Log[i] => i <= j
       /\ pending' = pending \ {i}
  /\ lossy' \in {lossy, TRUE}
  /\ UNCHANGED <<up, read>>

Cancel ==
  /\ up /\ lossy' = TRUE
  /\ UNCHANGED <<up, read, pending>>

Abandon ==
  /\ lossy
  /\ pending' \in SUBSET pending
  /\ UNCHANGED <<up, read, lossy>>

End ==
  /\ up
  /\ up' = FALSE /\ pending' = {} /\ lossy' = FALSE
  /\ UNCHANGED read

Next == Begin \/ Read \/ Settle \/ Cancel \/ Abandon \/ End

Spec == Init /\ [][Next]_vars
=============================================================================
