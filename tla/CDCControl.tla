------------------------------ MODULE CDCControl ------------------------------
(***************************************************************************)
(* What the supervisor of the replication process promises, without        *)
(* goroutines, channels and locks: one process at a time; a process that   *)
(* ends by itself is started again a bounded number of times; none is      *)
(* started again after a stop.  It promises so for as long as its own      *)
(* program runs (a restarted web server may not find the process again)    *)
(* and nobody starts it while it is still stopping.                        *)
(***************************************************************************)
EXTENDS Integers

CONSTANT MaxRestarts

VARIABLES
  wanted,  \* the process is to run
  alive,   \* it runs
  budget,  \* restarts left
  kept,    \* the supervisor has not been restarted itself
  overrun  \* it was started while it was stopping

vars == <<wanted, alive, budget, kept, overrun>>

Init == ~wanted /\ ~alive /\ budget = 0 /\ kept = TRUE /\ overrun = FALSE

Start ==
  /\ ~wanted /\ ~alive
  /\ wanted' = TRUE /\ alive' = TRUE /\ budget' = MaxRestarts

End == alive /\ alive' = FALSE /\ UNCHANGED <<wanted, budget>>

\* A restart, which may fail.
Restart ==
  /\ wanted /\ ~alive /\ budget > 0
  /\ budget' = budget - 1 /\ alive' \in BOOLEAN
  /\ UNCHANGED wanted

\* A stop, or giving up once the process has ended.
Stop == wanted /\ wanted' = FALSE /\ budget' = 0 /\ UNCHANGED alive

\* It is started before its stop is over, which only happens when it is not
\* wanted; from then on anything may happen.
Overrun == ~wanted /\ overrun' = TRUE

\* The supervisor is restarted, and from then on anything may happen.
Void == kept' = FALSE

Next ==
  \/ /\ kept /\ ~overrun /\ kept' = kept
     /\ \/ (Start \/ End \/ Restart \/ Stop) /\ overrun' = overrun
        \/ Overrun
  \/ overrun /\ overrun' = overrun
  \/ Void

Spec == Init /\ [][Next]_vars
=============================================================================
