------------------------------ MODULE WebTasksMC ------------------------------
\* WebTasks for TLC: names for a task and two requests, which are alike.
EXTENDS WebTasks, TLC

CONSTANTS t1, c1, c2

RequestSymmetry == Permutations(Requests)
==============================================================================
