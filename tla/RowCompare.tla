------------------------------ MODULE RowCompare ------------------------------
(***************************************************************************)
(* How the validator decides whether the rows of a table are the same in   *)
(* PostgreSQL and in TiDB (internal/validator/validator.go, nopk.go), and  *)
(* what it means that they are.                                            *)
(*                                                                         *)
(* A row is a sequence of values, a value Null or a text with or without   *)
(* trailing white space; values are what normalizeValue leaves of them.    *)
(* Both sides have the same columns.  A column has a kind: "exact",        *)
(* "text" (CHAR, VARCHAR, TEXT), "approximate" (floats and JSON) or        *)
(* "array", which is a type of its own in PostgreSQL and JSON in TiDB.     *)
(* A hash stands for the values it is computed from.                       *)
(***************************************************************************)
EXTENDS Integers, Sequences, FiniteSets, Functions

CONSTANTS
  Bases,       \* texts without trailing white space
  Null,
  MaxColumns,  \* the columns of the widest table
  Buckets,     \* NoPKBucketCount
  BucketOf(_)  \* the bucket of a hash: its first 32 bits modulo Buckets

Kinds == {"exact", "text", "approximate", "array"}
Texts == [base : Bases, padded : BOOLEAN]
Values == {Null} \cup Texts
RowHashes == UNION {[cols -> Values] : cols \in SUBSET (1 .. MaxColumns)}

ASSUME RowCompareAssumption ==
  /\ Null \notin Texts /\ MaxColumns \in Nat /\ Buckets \in Nat \ {0}
  /\ \A hash \in RowHashes : BucketOf(hash) \in 0 .. Buckets - 1

(***************************************************************************)
(* Bags: the elements of g at S and those of h at T, each as often.        *)
(***************************************************************************)
Times(g, S, x) == Cardinality({i \in S : g[i] = x})

SameBag(g, S, h, T) ==
  \A x \in {g[i] : i \in S} \cup {h[j] : j \in T} : Times(g, S, x) = Times(h, T, x)

(***************************************************************************)
(* What a faithful copy stores: the same value, but floats and JSON may    *)
(* read differently and the trailing white space of texts may be gone.  A  *)
(* plain copy has no such texts and no arrays.                             *)
(***************************************************************************)
Trim(v) == IF v = Null THEN Null ELSE [v EXCEPT !.padded = FALSE]

\* A primary key, of columns that both databases compare alike.
IsKey(kinds, pk, rows) ==
  /\ \A c \in Range(pk) :
       /\ kinds[c] \in {"exact", "text"}
       /\ \A i \in DOMAIN rows : rows[i][c] # Null
  /\ \A i, j \in DOMAIN rows :
       (\A c \in Range(pk) : Trim(rows[i][c]) = Trim(rows[j][c])) => i = j

\* A table: its columns, the primary key and whether it has a unique index
\* besides, and its rows in PostgreSQL, in the order of the first column, and
\* in TiDB, in the order in which it returns them.
IsTable(d) ==
  LET Rows == [DOMAIN d.kinds -> Values]
  IN  /\ d.kinds \in Seq(Kinds) /\ Len(d.kinds) <= MaxColumns
      /\ d.pk \in Seq(DOMAIN d.kinds) /\ d.unique \in BOOLEAN
      /\ d.source \in Seq(Rows) /\ d.target \in Seq(Rows)
      /\ d.pk # <<>> => IsKey(d.kinds, d.pk, d.source)

StoredAs(kinds, r, s) ==
  \A c \in DOMAIN kinds :
    /\ kinds[c] = "text" => Trim(r[c]) = Trim(s[c])
    /\ kinds[c] \in {"exact", "array"} => r[c] = s[c]

StoredPlain(kinds, r, s) ==
  \A c \in DOMAIN kinds : kinds[c] # "array" /\ (kinds[c] # "approximate" => r[c] = s[c])

IsCopy(kinds, source, target) ==
  /\ Len(source) = Len(target)
  /\ \E f \in Injection(DOMAIN source, DOMAIN target) :
       \A i \in DOMAIN source : StoredAs(kinds, source[i], target[f[i]])

IsPlainCopy(kinds, source, target) ==
  /\ Len(source) = Len(target)
  /\ \E f \in Injection(DOMAIN source, DOMAIN target) :
       \A i \in DOMAIN source : StoredPlain(kinds, source[i], target[f[i]])

\* Every row has a row of the target to itself that agrees with it on the
\* columns that both databases can be compared on.
AgreesWith(kinds, r, s) ==
  \A c \in DOMAIN kinds :
    /\ kinds[c] = "text" => Trim(r[c]) = Trim(s[c])
    /\ kinds[c] = "exact" => r[c] = s[c]

Found(kinds, rows, target) ==
  \E f \in Injection(DOMAIN rows, DOMAIN target) :
    \A i \in DOMAIN rows : AgreesWith(kinds, rows[i], target[f[i]])

(***************************************************************************)
(* Column sets.  Each side has type names of its own; hash_group and       *)
(* sampling skip a column that either side skips, aggregate and bucket     *)
(* skip on each side what that side skips.                                 *)
(***************************************************************************)
SkippedBySource(kinds) == {c \in DOMAIN kinds : kinds[c] = "approximate"}
SkippedByTarget(kinds) == {c \in DOMAIN kinds : kinds[c] \in {"approximate", "array"}}
UnifiedSkip(kinds) == SkippedBySource(kinds) \cup SkippedByTarget(kinds)

RowHash(row, cols) == [c \in cols |-> row[c]]

\* (Wrong variant: white space is kept.)
RowHashUntrimmed(kinds, row, cols) == RowHash(row, cols)

RowHashTrimmed(kinds, row, cols) ==
  [c \in cols |-> IF kinds[c] = "text" THEN Trim(row[c]) ELSE row[c]]

TrimmedHashes(kinds, rows) ==
  [i \in DOMAIN rows |-> RowHashTrimmed(kinds, rows[i], DOMAIN kinds \ UnifiedSkip(kinds))]

SourceHashes(kinds, source) ==
  [i \in DOMAIN source |-> RowHash(source[i], DOMAIN kinds \ SkippedBySource(kinds))]

TargetHashes(kinds, target) ==
  [i \in DOMAIN target |-> RowHash(target[i], DOMAIN kinds \ SkippedByTarget(kinds))]

(***************************************************************************)
(* Tables without a key.                                                   *)
(***************************************************************************)
HashGroupMatches(kinds, source, target) ==
  SameBag(TrimmedHashes(kinds, source), DOMAIN source, TrimmedHashes(kinds, target), DOMAIN target)

\* Two sorted lists of hashes are equal exactly if the bags are.
AggregateMatches(kinds, source, target) ==
  SameBag(SourceHashes(kinds, source), DOMAIN source, TargetHashes(kinds, target), DOMAIN target)

InBucket(g, b) == {i \in DOMAIN g : BucketOf(g[i]) = b}

\* (Wrong variant: no look into buckets of equal size.)
BucketsMatchInSize(g, h) ==
  \A b \in 0 .. Buckets - 1 : Cardinality(InBucket(g, b)) = Cardinality(InBucket(h, b))

BucketsMatch(g, h) ==
  \A b \in 0 .. Buckets - 1 :
    /\ Cardinality(InBucket(g, b)) = Cardinality(InBucket(h, b))
    /\ SameBag(g, InBucket(g, b), h, InBucket(h, b))

BucketCompareMatches(kinds, source, target) ==
  BucketsMatch(SourceHashes(kinds, source), TargetHashes(kinds, target))

(***************************************************************************)
(* Sampling: rows is the window read from PostgreSQL.                      *)
(***************************************************************************)
NeverNull(rows, c) == \A i \in DOMAIN rows : rows[i][c] # Null

\* The columns of the primary key; without one, the first column that is not
\* skipped and has no null in the window; none if there is no such column.
KeyColumns(kinds, pk, rows) ==
  LET pkCols   == {pk[i] : i \in {j \in DOMAIN pk : NeverNull(rows, pk[j])}}
      fallback == {c \in DOMAIN kinds \ SkippedBySource(kinds) : NeverNull(rows, c)}
  IN  IF pkCols # {} THEN pkCols
      ELSE {c \in fallback : \A d \in fallback : c <= d}

\* WHERE c IN (...) in TiDB: texts compare without their trailing blanks, a
\* JSON array equals no text, a null equals nothing.
KeyEquals(kinds, c, sent, stored) ==
  /\ stored # Null /\ sent # Null
  /\ kinds[c] # "array"
  /\ IF kinds[c] = "text" THEN Trim(sent) = Trim(stored) ELSE sent = stored

KeyHits(kinds, keyCols, rows, target) ==
  {j \in DOMAIN target :
     \E i \in DOMAIN rows : \A c \in keyCols : KeyEquals(kinds, c, rows[i][c], target[j][c])}

\* A row of TiDB uses up one entry of the window with its hash; neither a row
\* nor an entry may be left over.
KeyedMatches(kinds, keyCols, rows, target) ==
  SameBag(TrimmedHashes(kinds, rows), DOMAIN rows,
          TrimmedHashes(kinds, target), KeyHits(kinds, keyCols, rows, target))

\* No key column: LIMIT and OFFSET without an order, row by row.
PositionsMatch(kinds, from, rows, target) ==
  \A i \in DOMAIN rows : from + i <= Len(target) =>
    LET cols == DOMAIN kinds \ SkippedBySource(kinds)
    IN  RowHashTrimmed(kinds, rows[i], cols) = RowHashTrimmed(kinds, target[from + i], cols)

SampleMatches(kinds, pk, from, rows, target) ==
  LET keyCols == KeyColumns(kinds, pk, rows)
  IN  IF keyCols # {} THEN KeyedMatches(kinds, keyCols, rows, target)
      ELSE PositionsMatch(kinds, from, rows, target)
=============================================================================
