--------------------------- MODULE CDCSupervisorMC ---------------------------
(***************************************************************************)
(* Instances of CDCSupervisor for TLC.                                     *)
(***************************************************************************)
EXTENDS CDCSupervisor

CONSTANTS c1, c2

\* Every Stop returns and "starting" does not last.  The requests are alike, so
\* one of them stands for all.
SupervisionSettles == StopTerminates(c1) /\ StartingEnds
=============================================================================
