------------------------------- MODULE WebAppMC -------------------------------
(***************************************************************************)
(* Instances of WebApp: two source databases, one of whose tables both have. *)
(***************************************************************************)
EXTENDS WebApp, TLC

CONSTANTS pg1, pg2, both, only1

MCTablesOf == pg1 :> {both, only1} @@ pg2 :> {both}

\* A source without tables, where the wizard is not what a run is about.
MCNoTables == pg1 :> {}

\* Nothing typed (at first), and a text that only the table of both sources matches.
MCSearches == {{both}}

\* The wizard and the page of its task are left.
MCLeave == {<<"wizard", "assess">>, <<"detail", "assess">>}

\* Between the pages that share a task, and away from the panel.
MCWays ==
  {<<"tasks", "detail">>, <<"history", "detail">>, <<"detail", "history">>,
   <<"detail", "detail">>, <<"cdc", "assess">>}
===============================================================================
