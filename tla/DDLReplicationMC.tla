-------------------------- MODULE DDLReplicationMC --------------------------
\* DDLReplication for TLC: names for a table and its columns.
EXTENDS DDLReplication

CONSTANTS t1, a

\* The process is not started again once the bound on starts is reached.
Finished == run = "down" /\ starts = MaxStarts /\ UNCHANGED vars

MCSpec == Init /\ [][Next \/ Finished]_vars
=============================================================================
