---------------------------- MODULE CDCPipelineMC ----------------------------
(***************************************************************************)
(* Instances of CDCPipeline for TLC.                                       *)
(***************************************************************************)
EXTENDS CDCPipeline

CONSTANTS t1, t2, w1, w2

\* Two tables on two workers, and two tables that hash to the same worker.
RouteApart  == [t \in Tables |-> IF t = t1 THEN w1 ELSE w2]
RouteShared == [t \in Tables |-> w1]

\* Two transactions over two tables; a table occurs in both of them.
LogTwoTables == <<Commit, t1, t2, Commit, t1, t2, Commit>>
\* For restarts; t2 is a skipped table there.
LogRestart == <<Commit, t2, t1, t1, Commit>>

\* The process is not started again once the bound on starts is reached.
Finished == run = "down" /\ starts = MaxStarts /\ UNCHANGED vars

MCSpec == Init /\ [][Next \/ Finished]_vars
MCFairSpec == MCSpec /\ Fairness
=============================================================================
