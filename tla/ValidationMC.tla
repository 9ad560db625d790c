----------------------------- MODULE ValidationMC -----------------------------
(* An instance of Validation for TLC: table t1 has up to two rows in either  *)
(* database, the other tables are empty.                                     *)
EXTENDS Validation

CONSTANTS t1, t2, t3

A       == [base |-> "a", padded |-> FALSE]
APadded == [base |-> "a", padded |-> TRUE]
B       == [base |-> "b", padded |-> FALSE]

RowsOf(kinds) ==
  IF kinds[2] = "text" THEN {<<A, A>>, <<A, APadded>>, <<Null, B>>, <<B, Null>>}
  ELSE {<<A, A>>, <<A, B>>, <<B, A>>}

Contents(kinds) == {<<>>} \cup {<<r>> : r \in RowsOf(kinds)} \cup (RowsOf(kinds) \X RowsOf(kinds))

Rank(v) == IF v = Null THEN 3 ELSE IF v.base = "a" THEN 1 ELSE 2
ByFirstColumn(rows) == \A i, j \in DOMAIN rows : i < j => Rank(rows[i][1]) <= Rank(rows[j][1])

Keys(kinds) == {<<>>, <<1>>} \cup (IF kinds[2] = "text" THEN {<<1, 2>>} ELSE {})

ContentsOf(kinds) ==
  {d \in [kinds : {kinds}, pk : Keys(kinds), unique : {FALSE},
          source : Contents(kinds), target : Contents(kinds)] :
     /\ ByFirstColumn(d.source)
     /\ d.pk # <<>> => IsKey(kinds, d.pk, d.source) /\ IsKey(kinds, d.pk, d.target)}

UniqueTable ==
  [kinds : {<<"exact", "text">>}, pk : {<<>>}, unique : {TRUE},
   source : {<<<<A, A>>, <<A, Null>>>>}, target : {<<<<A, A>>, <<A, Null>>>>, <<<<A, A>>>>}]

Empty == [kinds |-> <<"exact">>, pk |-> <<1>>, unique |-> FALSE, source |-> <<>>, target |-> <<>>]

Correct ==
  {[kinds |-> <<"exact", "text">>, pk |-> pk, unique |-> FALSE,
    source |-> <<<<A, APadded>>, <<B, A>>>>, target |-> <<<<A, A>>, <<B, A>>>>] : pk \in {<<>>, <<1>>}}

Options == {<<"quick", "auto">>, <<"checksum", "auto">>, <<"full", "auto">>} \cup
  {<<"sample", s>> : s \in {"auto", "hash_group", "aggregate", "bucket", "exact"}}

InputsFor(asked, tables) ==
  {[order |-> asked, mode |-> o[1], strategy |-> o[2],
    db |-> [t \in Tables |-> IF t = t1 THEN d ELSE Empty]] : o \in Options, d \in tables}

\* Every content of one table, and three tables of which one is not empty.
MCInputs ==
  InputsFor(<<t1>>, UniqueTable \cup UNION {ContentsOf(<<"exact", k>>) : k \in {"text", "approximate", "array"}})
    \cup InputsFor(<<t2, t1, t3>>, Correct)

MCBucketOf(hash) == Cardinality({c \in DOMAIN hash : hash[c] = A}) % 2
=============================================================================
