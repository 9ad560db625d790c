--------------------------- MODULE DataMigrationMC ---------------------------
EXTENDS DataMigration

CONSTANTS t1, t2

TwoTables == <<t1, t2>>

Opt(l, p, e, c, s) ==
  [lightning |-> l, policy |-> p, onError |-> e, onErrorContinue |-> c, skip |-> s]

\* Lightning under the policy truncate and INSERT with "skip", each without the
\* other phases, and a run of all the phases that goes on after errors.
Commands ==
  {Opt(TRUE, "truncate", "abort", FALSE, {"precheck", "schema", "validate"}),
   Opt(FALSE, "insert", "skip", FALSE, {"precheck", "schema", "validate"}),
   Opt(FALSE, "drop", "abort", TRUE, {})}

DropWithLightning == {Opt(TRUE, "drop", "abort", FALSE, {"precheck"})}
=============================================================================
