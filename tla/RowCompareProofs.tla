--------------------------- MODULE RowCompareProofs ---------------------------
(***************************************************************************)
(* That the comparisons of RowCompare show what they are taken to show:    *)
(* rows that match are in TiDB, and a faithful copy matches.               *)
(***************************************************************************)
EXTENDS RowCompare, FunctionTheorems, FiniteSetTheorems, TLAPS

(***************************************************************************)
(* Bags and injections.                                                    *)
(***************************************************************************)
At(g, S, x) == {i \in S : g[i] = x}

\* The elements of equal bags can be paired off.
LEMMA PairsFromBag ==
  ASSUME NEW g, NEW S, NEW h, NEW T, IsFiniteSet(S), IsFiniteSet(T), SameBag(g, S, h, T)
  PROVE  \E f \in Injection(S, T) : \A i \in S : g[i] = h[f[i]]
<1> DEFINE Bij(x) == Bijection(At(g, S, x), At(h, T, x))
           pick(x) == CHOOSE b : b \in Bij(x)
           F == [i \in S |-> pick(g[i])[i]]
<1>1. ASSUME NEW i \in S
      PROVE  pick(g[i]) \in Bij(g[i])
  <2>1. Cardinality(At(g, S, g[i])) = Cardinality(At(h, T, g[i]))
    BY DEF SameBag, Times, At
  <2>2. IsFiniteSet(At(g, S, g[i])) /\ IsFiniteSet(At(h, T, g[i]))
    BY FS_Subset DEF At
  <2>3. ExistsBijection(At(g, S, g[i]), At(h, T, g[i]))
    BY <2>1, <2>2, FS_SameCardinalityBij
  <2>4. Bij(g[i]) # {}
    BY <2>3, Fun_ExistsBij
  <2> QED
    BY <2>4
<1>2. ASSUME NEW i \in S
      PROVE  F[i] \in At(h, T, g[i])
  <2>1. pick(g[i]) \in [At(g, S, g[i]) -> At(h, T, g[i])]
    BY <1>1, Fun_BijectionProperties
  <2>2. i \in At(g, S, g[i])
    BY DEF At
  <2> QED
    BY <2>1, <2>2
<1>3. ASSUME NEW i \in S, NEW j \in S, F[i] = F[j]
      PROVE  i = j
  <2>1. g[i] = g[j]
    BY <1>2, <1>3 DEF At
  <2>2. \A a, b \in At(g, S, g[i]) : pick(g[i])[a] = pick(g[i])[b] => a = b
    BY <1>1, Fun_BijectionProperties
  <2>3. i \in At(g, S, g[i]) /\ j \in At(g, S, g[i])
    BY <2>1 DEF At
  <2>4. pick(g[i])[i] = pick(g[i])[j]
    BY <2>1, <1>3
  <2> QED
    BY <2>2, <2>3, <2>4
<1>4. F \in [S -> T]
  BY <1>2 DEF At
<1>5. F \in Injection(S, T)
  BY <1>3, <1>4, Fun_IsInj
<1>6. \A i \in S : g[i] = h[F[i]]
  BY <1>2 DEF At
<1> QED
  BY <1>5, <1>6

\* What is paired off makes equal bags.
LEMMA BagFromPairs ==
  ASSUME NEW g, NEW S, NEW h, NEW T, IsFiniteSet(S), NEW f \in Bijection(S, T),
         \A i \in S : g[i] = h[f[i]]
  PROVE  SameBag(g, S, h, T)
<1>0. f \in [S -> T] /\ (\A a, b \in S : f[a] = f[b] => a = b) /\ (\A t \in T : \E s \in S : f[s] = t)
  BY Fun_BijectionProperties
<1> SUFFICES ASSUME NEW x
             PROVE  Cardinality(At(g, S, x)) = Cardinality(At(h, T, x))
  BY DEF SameBag, Times, At
<1> DEFINE F == [i \in At(g, S, x) |-> f[i]]
<1>1. F \in [At(g, S, x) -> At(h, T, x)]
  BY <1>0 DEF At
<1>2. \A a, b \in At(g, S, x) : F[a] = F[b] => a = b
  BY <1>0 DEF At
<1>3. ASSUME NEW t \in At(h, T, x)
      PROVE  \E s \in At(g, S, x) : F[s] = t
  <2>1. PICK s \in S : f[s] = t
    BY <1>0 DEF At
  <2>2. s \in At(g, S, x)
    BY <2>1 DEF At
  <2> QED
    BY <2>1, <2>2
<1>4. F \in Bijection(At(g, S, x), At(h, T, x))
  BY <1>1, <1>2, <1>3, Fun_IsBij
<1>5. IsFiniteSet(At(g, S, x))
  BY FS_Subset DEF At
<1>6. ExistsBijection(At(g, S, x), At(h, T, x))
  BY <1>4, Fun_ExistsBij
<1> QED
  BY <1>5, <1>6, FS_Bijection

LEMMA FiniteDomain ==
  ASSUME NEW R, NEW s \in Seq(R)
  PROVE  IsFiniteSet(DOMAIN s) /\ Cardinality(DOMAIN s) = Len(s) /\ DOMAIN s = 1 .. Len(s)
<1>1. DOMAIN s = 1 .. Len(s) /\ Len(s) \in Nat
  OBVIOUS
<1> QED
  BY <1>1, FS_Interval

-----------------------------------------------------------------------------
(***************************************************************************)
(* Rows that match are in TiDB.                                            *)
(***************************************************************************)
\* The columns both databases can be compared on.
Comparable(kinds) == {c \in DOMAIN kinds : kinds[c] \in {"exact", "text"}}

LEMMA EqualTrimmedHashesAgree ==
  ASSUME NEW kinds, NEW r, NEW s, NEW cols, Comparable(kinds) \subseteq cols,
         RowHashTrimmed(kinds, r, cols) = RowHashTrimmed(kinds, s, cols)
  PROVE  AgreesWith(kinds, r, s)
<1>1. ASSUME NEW c \in Comparable(kinds)
      PROVE  RowHashTrimmed(kinds, r, cols)[c] = RowHashTrimmed(kinds, s, cols)[c] /\ c \in cols
  OBVIOUS
<1>2. \A c \in Comparable(kinds) :
        (IF kinds[c] = "text" THEN Trim(r[c]) ELSE r[c]) = (IF kinds[c] = "text" THEN Trim(s[c]) ELSE s[c])
  BY <1>1 DEF RowHashTrimmed
<1> QED
  BY <1>2 DEF AgreesWith, Comparable

LEMMA EqualHashesAgree ==
  ASSUME NEW kinds, NEW r, NEW s, NEW cols, NEW others, Comparable(kinds) \subseteq cols,
         RowHash(r, cols) = RowHash(s, others)
  PROVE  AgreesWith(kinds, r, s)
<1>1. cols = others
  BY DOMAIN RowHash(r, cols) = cols, DOMAIN RowHash(s, others) = others DEF RowHash
<1>2. ASSUME NEW c \in Comparable(kinds)
      PROVE  r[c] = s[c]
  <2>1. RowHash(r, cols)[c] = RowHash(s, others)[c] /\ c \in cols
    OBVIOUS
  <2> QED
    BY <1>1, <2>1 DEF RowHash
<1> QED
  BY <1>2 DEF AgreesWith, Comparable

\* validateHashGroup: if the hash counts are equal, every row is in TiDB, with
\* its multiplicity.
THEOREM HashGroupSound ==
  ASSUME NEW kinds, NEW R, NEW s \in Seq(R), NEW t \in Seq(R), HashGroupMatches(kinds, s, t)
  PROVE  Found(kinds, s, t)
<1>1. PICK f \in Injection(DOMAIN s, DOMAIN t) :
        \A i \in DOMAIN s : TrimmedHashes(kinds, s)[i] = TrimmedHashes(kinds, t)[f[i]]
  BY FiniteDomain, PairsFromBag DEF HashGroupMatches
<1>2. \A i \in DOMAIN s : f[i] \in DOMAIN t
  BY Fun_InjectionProperties
<1>3. ASSUME NEW i \in DOMAIN s
      PROVE  AgreesWith(kinds, s[i], t[f[i]])
  <2> DEFINE cols == DOMAIN kinds \ UnifiedSkip(kinds)
  <2>1. RowHashTrimmed(kinds, s[i], cols) = RowHashTrimmed(kinds, t[f[i]], cols)
    BY <1>1, <1>2 DEF TrimmedHashes
  <2>2. Comparable(kinds) \subseteq cols
    BY DEF Comparable, UnifiedSkip, SkippedBySource, SkippedByTarget
  <2> HIDE DEF cols
  <2> QED
    BY <2>1, <2>2, EqualTrimmedHashesAgree
<1> QED
  BY <1>3 DEF Found

\* validateAggregateHash: "if the aggregate hashes match, the tables are
\* identical" on the columns that can be compared.
THEOREM AggregateSound ==
  ASSUME NEW kinds, NEW R, NEW s \in Seq(R), NEW t \in Seq(R), AggregateMatches(kinds, s, t)
  PROVE  Found(kinds, s, t)
<1>1. PICK f \in Injection(DOMAIN s, DOMAIN t) :
        \A i \in DOMAIN s : SourceHashes(kinds, s)[i] = TargetHashes(kinds, t)[f[i]]
  BY FiniteDomain, PairsFromBag DEF AggregateMatches
<1>2. \A i \in DOMAIN s : f[i] \in DOMAIN t
  BY Fun_InjectionProperties
<1>3. ASSUME NEW i \in DOMAIN s
      PROVE  AgreesWith(kinds, s[i], t[f[i]])
  <2> DEFINE cols   == DOMAIN kinds \ SkippedBySource(kinds)
             others == DOMAIN kinds \ SkippedByTarget(kinds)
  <2>1. RowHash(s[i], cols) = RowHash(t[f[i]], others)
    BY <1>1, <1>2 DEF SourceHashes, TargetHashes
  <2>2. Comparable(kinds) \subseteq cols
    BY DEF Comparable, SkippedBySource
  <2> HIDE DEF cols, others
  <2> QED
    BY <2>1, <2>2, EqualHashesAgree
<1> QED
  BY <1>3 DEF Found

\* Equal buckets make equal bags, whatever the number of buckets.
LEMMA BagFromBuckets ==
  ASSUME NEW g, NEW h, BucketsMatch(g, h),
         \A i \in DOMAIN g : BucketOf(g[i]) \in 0 .. Buckets - 1,
         \A j \in DOMAIN h : BucketOf(h[j]) \in 0 .. Buckets - 1
  PROVE  SameBag(g, DOMAIN g, h, DOMAIN h)
<1> SUFFICES ASSUME NEW x \in {g[i] : i \in DOMAIN g} \cup {h[j] : j \in DOMAIN h}
             PROVE  Times(g, DOMAIN g, x) = Times(h, DOMAIN h, x)
  BY DEF SameBag
<1> DEFINE b == BucketOf(x)
<1>1. b \in 0 .. Buckets - 1
  OBVIOUS
<1>2. x \in {g[i] : i \in InBucket(g, b)} \cup {h[j] : j \in InBucket(h, b)}
  BY DEF InBucket
<1>3. SameBag(g, InBucket(g, b), h, InBucket(h, b))
  BY <1>1 DEF BucketsMatch
<1>4. Times(g, InBucket(g, b), x) = Times(h, InBucket(h, b), x)
  BY <1>2, <1>3 DEF SameBag
<1>5. {i \in InBucket(g, b) : g[i] = x} = {i \in DOMAIN g : g[i] = x}
  BY DEF InBucket
<1>6. {i \in InBucket(h, b) : h[i] = x} = {i \in DOMAIN h : h[i] = x}
  BY DEF InBucket
<1> QED
  BY <1>4, <1>5, <1>6 DEF Times

LEMMA HashesAreHashes ==
  ASSUME NEW kinds \in Seq(Kinds), Len(kinds) <= MaxColumns,
         NEW s \in Seq([DOMAIN kinds -> Values])
  PROVE  /\ \A i \in DOMAIN SourceHashes(kinds, s) : SourceHashes(kinds, s)[i] \in RowHashes
         /\ \A i \in DOMAIN TargetHashes(kinds, s) : TargetHashes(kinds, s)[i] \in RowHashes
<1>1. DOMAIN kinds \subseteq 1 .. MaxColumns
  BY RowCompareAssumption
<1>2. \A i \in DOMAIN s : s[i] \in [DOMAIN kinds -> Values]
  OBVIOUS
<1>3. ASSUME NEW cols \in SUBSET DOMAIN kinds, NEW i \in DOMAIN s
      PROVE  RowHash(s[i], cols) \in RowHashes
  <2>1. RowHash(s[i], cols) \in [cols -> Values]
    BY <1>2 DEF RowHash
  <2>2. cols \in SUBSET (1 .. MaxColumns)
    BY <1>1
  <2> QED
    BY <2>1, <2>2 DEF RowHashes
<1>4. DOMAIN kinds \ SkippedBySource(kinds) \in SUBSET DOMAIN kinds
  OBVIOUS
<1>5. DOMAIN kinds \ SkippedByTarget(kinds) \in SUBSET DOMAIN kinds
  OBVIOUS
<1>6. \A i \in DOMAIN SourceHashes(kinds, s) : SourceHashes(kinds, s)[i] \in RowHashes
  BY <1>3, <1>4 DEF SourceHashes
<1>7. \A i \in DOMAIN TargetHashes(kinds, s) : TargetHashes(kinds, s)[i] \in RowHashes
  BY <1>3, <1>5 DEF TargetHashes
<1> QED
  BY <1>6, <1>7

\* validateBucketCompare: whatever the number of buckets and wherever the
\* hashes fall, equal buckets mean that every row is in TiDB.
THEOREM BucketSound ==
  ASSUME NEW kinds \in Seq(Kinds), Len(kinds) <= MaxColumns,
         NEW s \in Seq([DOMAIN kinds -> Values]), NEW t \in Seq([DOMAIN kinds -> Values]),
         BucketCompareMatches(kinds, s, t)
  PROVE  Found(kinds, s, t)
<1> DEFINE g == SourceHashes(kinds, s)
           h == TargetHashes(kinds, t)
<1>1. BucketsMatch(g, h)
  BY DEF BucketCompareMatches
<1>2. \A i \in DOMAIN g : BucketOf(g[i]) \in 0 .. Buckets - 1
  BY HashesAreHashes, RowCompareAssumption
<1>3. \A j \in DOMAIN h : BucketOf(h[j]) \in 0 .. Buckets - 1
  BY HashesAreHashes, RowCompareAssumption
<1> HIDE DEF g, h
<1>4. SameBag(g, DOMAIN g, h, DOMAIN h)
  BY <1>1, <1>2, <1>3, BagFromBuckets
<1>5. DOMAIN g = DOMAIN s /\ DOMAIN h = DOMAIN t
  BY DEF g, h, SourceHashes, TargetHashes
<1>6. AggregateMatches(kinds, s, t)
  BY <1>4, <1>5 DEF AggregateMatches, g, h
<1> QED
  BY <1>6, AggregateSound

\* validateSampling with key columns, whatever they are: if no row and no entry
\* of the window is left over, every row of the window is in TiDB.
THEOREM KeyedSound ==
  ASSUME NEW kinds, NEW cols, NEW R, NEW s \in Seq(R), NEW t \in Seq(R),
         KeyedMatches(kinds, cols, s, t)
  PROVE  Found(kinds, s, t)
<1> DEFINE hits == KeyHits(kinds, cols, s, t)
<1>1. hits \subseteq DOMAIN t
  BY DEF KeyHits
<1>2. IsFiniteSet(DOMAIN s) /\ IsFiniteSet(hits)
  BY <1>1, FiniteDomain, FS_Subset
<1>3. PICK f \in Injection(DOMAIN s, hits) :
        \A i \in DOMAIN s : TrimmedHashes(kinds, s)[i] = TrimmedHashes(kinds, t)[f[i]]
  BY <1>2, PairsFromBag DEF KeyedMatches
<1>4. f \in [DOMAIN s -> DOMAIN t] /\ \A i, j \in DOMAIN s : f[i] = f[j] => i = j
  BY <1>1, Fun_InjectionProperties
<1>5. f \in Injection(DOMAIN s, DOMAIN t)
  BY <1>4, Fun_IsInj
<1>6. ASSUME NEW i \in DOMAIN s
      PROVE  AgreesWith(kinds, s[i], t[f[i]])
  <2> DEFINE hashed == DOMAIN kinds \ UnifiedSkip(kinds)
  <2>1. RowHashTrimmed(kinds, s[i], hashed) = RowHashTrimmed(kinds, t[f[i]], hashed)
    BY <1>3, <1>4 DEF TrimmedHashes
  <2>2. Comparable(kinds) \subseteq hashed
    BY DEF Comparable, UnifiedSkip, SkippedBySource, SkippedByTarget
  <2> HIDE DEF hashed
  <2> QED
    BY <2>1, <2>2, EqualTrimmedHashesAgree
<1> QED
  BY <1>5, <1>6 DEF Found

\* The positional comparison, when the window lies within TiDB's table.
THEOREM PositionsSound ==
  ASSUME NEW kinds, NEW from \in Nat, NEW R, NEW s \in Seq(R), NEW t \in Seq(R),
         from + Len(s) <= Len(t), PositionsMatch(kinds, from, s, t)
  PROVE  Found(kinds, s, t)
<1> DEFINE f == [i \in DOMAIN s |-> from + i]
<1>0. DOMAIN s = 1 .. Len(s) /\ DOMAIN t = 1 .. Len(t) /\ Len(s) \in Nat /\ Len(t) \in Nat
  OBVIOUS
<1>1. f \in [DOMAIN s -> DOMAIN t] /\ \A i, j \in DOMAIN s : f[i] = f[j] => i = j
  BY <1>0
<1>2. f \in Injection(DOMAIN s, DOMAIN t)
  BY <1>1, Fun_IsInj
<1>3. ASSUME NEW i \in DOMAIN s
      PROVE  AgreesWith(kinds, s[i], t[f[i]])
  <2> DEFINE cols == DOMAIN kinds \ SkippedBySource(kinds)
  <2>1. from + i <= Len(t)
    BY <1>0
  <2>2. RowHashTrimmed(kinds, s[i], cols) = RowHashTrimmed(kinds, t[f[i]], cols)
    BY <2>1 DEF PositionsMatch
  <2>3. Comparable(kinds) \subseteq cols
    BY DEF Comparable, SkippedBySource
  <2> HIDE DEF cols
  <2> QED
    BY <2>2, <2>3, EqualTrimmedHashesAgree
<1> QED
  BY <1>2, <1>3 DEF Found

-----------------------------------------------------------------------------
(***************************************************************************)
(* A faithful copy matches.                                                *)
(***************************************************************************)
LEMMA CopyPairs ==
  ASSUME NEW R, NEW s \in Seq(R), NEW t \in Seq(R), Len(s) = Len(t),
         NEW f \in Injection(DOMAIN s, DOMAIN t)
  PROVE  f \in Bijection(DOMAIN s, DOMAIN t)
<1>1. f \in Surjection(DOMAIN s, DOMAIN t)
  BY FiniteDomain, FS_Injection
<1> QED
  BY <1>1, Fun_IsBij

LEMMA StoredAsSameHash ==
  ASSUME NEW kinds \in Seq(Kinds), NEW r, NEW s, StoredAs(kinds, r, s)
  PROVE  LET cols == DOMAIN kinds \ UnifiedSkip(kinds)
         IN  RowHashTrimmed(kinds, r, cols) = RowHashTrimmed(kinds, s, cols)
<1> DEFINE cols == DOMAIN kinds \ UnifiedSkip(kinds)
<1>1. ASSUME NEW c \in cols
      PROVE  (IF kinds[c] = "text" THEN Trim(r[c]) ELSE r[c]) = (IF kinds[c] = "text" THEN Trim(s[c]) ELSE s[c])
  <2>1. c \in DOMAIN kinds /\ kinds[c] \in {"exact", "text"}
    BY DEF UnifiedSkip, SkippedBySource, SkippedByTarget, Kinds
  <2> QED
    BY <2>1 DEF StoredAs
<1> HIDE DEF cols
<1>2. RowHashTrimmed(kinds, r, cols) = RowHashTrimmed(kinds, s, cols)
  BY <1>1 DEF RowHashTrimmed
<1> QED
  BY <1>2 DEF cols

\* hash_group gives no false alarm: a faithful copy, in any order of its rows
\* and with texts trimmed, has the same hash counts.
THEOREM CopyMatchesHashGroup ==
  ASSUME NEW kinds \in Seq(Kinds), NEW R, NEW s \in Seq(R), NEW t \in Seq(R),
         IsCopy(kinds, s, t)
  PROVE  HashGroupMatches(kinds, s, t)
<1>1. PICK f \in Injection(DOMAIN s, DOMAIN t) :
        \A i \in DOMAIN s : StoredAs(kinds, s[i], t[f[i]])
  BY DEF IsCopy
<1>2. f \in Bijection(DOMAIN s, DOMAIN t)
  BY CopyPairs DEF IsCopy
<1>3. \A i \in DOMAIN s : f[i] \in DOMAIN t
  BY <1>2, Fun_BijectionProperties
<1>4. \A i \in DOMAIN s : TrimmedHashes(kinds, s)[i] = TrimmedHashes(kinds, t)[f[i]]
  BY <1>1, <1>3, StoredAsSameHash DEF TrimmedHashes
<1> QED
  BY <1>2, <1>4, FiniteDomain, BagFromPairs DEF HashGroupMatches

LEMMA PlainCopySameHashes ==
  ASSUME NEW kinds \in Seq(Kinds), NEW R, NEW s \in Seq(R), NEW t \in Seq(R),
         IsPlainCopy(kinds, s, t)
  PROVE  \E f \in Bijection(DOMAIN s, DOMAIN t) :
           \A i \in DOMAIN s : SourceHashes(kinds, s)[i] = TargetHashes(kinds, t)[f[i]]
<1>1. PICK f \in Injection(DOMAIN s, DOMAIN t) :
        \A i \in DOMAIN s : StoredPlain(kinds, s[i], t[f[i]])
  BY DEF IsPlainCopy
<1>2. f \in Bijection(DOMAIN s, DOMAIN t)
  BY CopyPairs DEF IsPlainCopy
<1>3. \A i \in DOMAIN s : f[i] \in DOMAIN t
  BY <1>2, Fun_BijectionProperties
<1>4. ASSUME NEW i \in DOMAIN s
      PROVE  SourceHashes(kinds, s)[i] = TargetHashes(kinds, t)[f[i]]
  <2>1. SkippedBySource(kinds) = SkippedByTarget(kinds)
    BY <1>1 DEF SkippedBySource, SkippedByTarget, StoredPlain
  <2>2. \A c \in DOMAIN kinds \ SkippedBySource(kinds) : s[i][c] = t[f[i]][c]
    BY <1>1 DEF SkippedBySource, StoredPlain
  <2>3. RowHash(s[i], DOMAIN kinds \ SkippedBySource(kinds)) = RowHash(t[f[i]], DOMAIN kinds \ SkippedByTarget(kinds))
    BY <2>1, <2>2 DEF RowHash
  <2> QED
    BY <1>3, <2>3 DEF SourceHashes, TargetHashes
<1> QED
  BY <1>2, <1>4

\* aggregate gives no false alarm on a plain copy.
THEOREM CopyMatchesAggregate ==
  ASSUME NEW kinds \in Seq(Kinds), NEW R, NEW s \in Seq(R), NEW t \in Seq(R),
         IsPlainCopy(kinds, s, t)
  PROVE  AggregateMatches(kinds, s, t)
<1>1. PICK f \in Bijection(DOMAIN s, DOMAIN t) :
        \A i \in DOMAIN s : SourceHashes(kinds, s)[i] = TargetHashes(kinds, t)[f[i]]
  BY PlainCopySameHashes
<1> QED
  BY <1>1, FiniteDomain, BagFromPairs DEF AggregateMatches

\* Nor does bucket: a row falls into the bucket of its copy.
THEOREM CopyMatchesBuckets ==
  ASSUME NEW kinds \in Seq(Kinds), NEW R, NEW s \in Seq(R), NEW t \in Seq(R),
         IsPlainCopy(kinds, s, t)
  PROVE  BucketCompareMatches(kinds, s, t)
<1> DEFINE g == SourceHashes(kinds, s)
           h == TargetHashes(kinds, t)
<1>1. PICK f \in Bijection(DOMAIN s, DOMAIN t) : \A i \in DOMAIN s : g[i] = h[f[i]]
  BY PlainCopySameHashes
<1>2. DOMAIN g = DOMAIN s /\ DOMAIN h = DOMAIN t
  BY DEF SourceHashes, TargetHashes
<1>3. f \in [DOMAIN s -> DOMAIN t] /\ (\A a, b \in DOMAIN s : f[a] = f[b] => a = b) /\ (\A j \in DOMAIN t : \E i \in DOMAIN s : f[i] = j)
  BY Fun_BijectionProperties
<1> HIDE DEF g, h
<1> SUFFICES ASSUME NEW b \in 0 .. Buckets - 1
             PROVE  /\ Cardinality(InBucket(g, b)) = Cardinality(InBucket(h, b))
                    /\ SameBag(g, InBucket(g, b), h, InBucket(h, b))
  BY DEF BucketCompareMatches, BucketsMatch, g, h
<1> DEFINE F == [i \in InBucket(g, b) |-> f[i]]
<1>4. F \in [InBucket(g, b) -> InBucket(h, b)]
  BY <1>1, <1>2, <1>3 DEF InBucket
<1>5. \A a, c \in InBucket(g, b) : F[a] = F[c] => a = c
  BY <1>2, <1>3 DEF InBucket
<1>6. ASSUME NEW j \in InBucket(h, b)
      PROVE  \E i \in InBucket(g, b) : F[i] = j
  <2>1. PICK i \in DOMAIN s : f[i] = j
    BY <1>2, <1>3 DEF InBucket
  <2>2. i \in InBucket(g, b)
    BY <1>1, <1>2, <2>1 DEF InBucket
  <2> QED
    BY <2>1, <2>2
<1>7. F \in Bijection(InBucket(g, b), InBucket(h, b))
  BY <1>4, <1>5, <1>6, Fun_IsBij
<1>8. IsFiniteSet(InBucket(g, b))
  BY <1>2, FiniteDomain, FS_Subset DEF InBucket
<1>9. \A i \in InBucket(g, b) : g[i] = h[F[i]]
  BY <1>1, <1>2 DEF InBucket
<1>10. ExistsBijection(InBucket(g, b), InBucket(h, b))
  BY <1>7, Fun_ExistsBij
<1> HIDE DEF F
<1>11. SameBag(g, InBucket(g, b), h, InBucket(h, b))
  BY <1>7, <1>8, <1>9, BagFromPairs
<1> QED
  BY <1>8, <1>10, <1>11, FS_Bijection

\* The trimmed value of a row of the target is that of its copy, and null only
\* if that is.
LEMMA StoredKey ==
  ASSUME NEW kinds, NEW r, NEW s, StoredAs(kinds, r, s), NEW c \in DOMAIN kinds,
         kinds[c] \in {"exact", "text"}, r[c] \in Values, s[c] \in Values
  PROVE  Trim(r[c]) = Trim(s[c]) /\ (r[c] # Null => s[c] # Null)
<1>1. kinds[c] = "exact" => r[c] = s[c]
  BY DEF StoredAs
<1>2. kinds[c] = "text" => Trim(r[c]) = Trim(s[c])
  BY DEF StoredAs
<1>3. Trim(r[c]) = Trim(s[c])
  BY <1>1, <1>2
<1>4. \A v \in Values : v # Null => Trim(v) \in Texts
  BY DEF Trim, Values, Texts
<1>5. Null \notin Texts /\ Trim(Null) = Null
  BY RowCompareAssumption DEF Trim
<1>6. r[c] # Null => s[c] # Null
  BY <1>3, <1>4, <1>5
<1> QED
  BY <1>3, <1>6

\* Sampling by primary key gives no false alarm: the rows that TiDB finds for the
\* keys of the window are the copies of its rows, and of no others.
THEOREM CopyMatchesSample ==
  ASSUME NEW kinds \in Seq(Kinds), NEW s \in Seq([DOMAIN kinds -> Values]),
         NEW t \in Seq([DOMAIN kinds -> Values]), IsCopy(kinds, s, t),
         NEW pk \in Seq(DOMAIN kinds), pk # <<>>, IsKey(kinds, pk, s),
         NEW from \in Nat, NEW w \in Seq([DOMAIN kinds -> Values]), from + Len(w) <= Len(s),
         \A i \in DOMAIN w : w[i] = s[from + i]
  PROVE  SampleMatches(kinds, pk, from, w, t)
<1>0. /\ DOMAIN s = 1 .. Len(s) /\ DOMAIN t = 1 .. Len(t) /\ DOMAIN w = 1 .. Len(w)
      /\ Len(s) \in Nat /\ Len(t) \in Nat /\ Len(w) \in Nat /\ DOMAIN pk = 1 .. Len(pk) /\ Len(pk) \in Nat
  OBVIOUS
<1>i. \A i \in DOMAIN w : from + i \in DOMAIN s
  BY <1>0
<1>k. /\ \A c \in Range(pk) : c \in DOMAIN kinds /\ kinds[c] \in {"exact", "text"}
      /\ \A c \in Range(pk) : \A i \in DOMAIN s : s[i][c] # Null
      /\ \A i, j \in DOMAIN s : (\A c \in Range(pk) : Trim(s[i][c]) = Trim(s[j][c])) => i = j
  <2>1. \A c \in Range(pk) : c \in DOMAIN kinds
    BY <1>0 DEF Range
  <2> QED
    BY <2>1 DEF IsKey
<1>v. /\ \A i \in DOMAIN s : \A c \in DOMAIN kinds : s[i][c] \in Values
      /\ \A i \in DOMAIN t : \A c \in DOMAIN kinds : t[i][c] \in Values
  OBVIOUS
<1>1. PICK f \in Injection(DOMAIN s, DOMAIN t) :
        \A i \in DOMAIN s : StoredAs(kinds, s[i], t[f[i]])
  BY DEF IsCopy
<1>2. /\ f \in [DOMAIN s -> DOMAIN t] /\ (\A a, b \in DOMAIN s : f[a] = f[b] => a = b)
      /\ \A j \in DOMAIN t : \E i \in DOMAIN s : f[i] = j
  <2>1. Len(s) = Len(t)
    BY DEF IsCopy
  <2>2. f \in Bijection(DOMAIN s, DOMAIN t)
    BY <2>1, CopyPairs
  <2> QED
    BY <2>2, Fun_BijectionProperties
<1>3. KeyColumns(kinds, pk, w) = Range(pk) /\ Range(pk) # {}
  <2>1. \A j \in DOMAIN pk : NeverNull(w, pk[j])
    BY <1>i, <1>k DEF NeverNull, Range
  <2>2. {pk[i] : i \in {j \in DOMAIN pk : NeverNull(w, pk[j])}} = Range(pk)
    BY <2>1 DEF Range
  <2>3. 1 \in DOMAIN pk
    <3>1. Len(pk) # 0
      OBVIOUS
    <3> QED
      BY <1>0, <3>1
  <2>4. pk[1] \in Range(pk)
    BY <2>3 DEF Range
  <2> QED
    BY <2>2, <2>4 DEF KeyColumns
<1> DEFINE hits == KeyHits(kinds, Range(pk), w, t)
           g == [i \in DOMAIN w |-> f[from + i]]
<1>4. ASSUME NEW k \in DOMAIN s, NEW c \in Range(pk)
      PROVE  /\ Trim(s[k][c]) = Trim(t[f[k]][c]) /\ t[f[k]][c] # Null
             /\ kinds[c] = "exact" => s[k][c] = t[f[k]][c]
  <2>1. /\ c \in DOMAIN kinds /\ kinds[c] \in {"exact", "text"} /\ f[k] \in DOMAIN t /\ s[k][c] # Null
        /\ StoredAs(kinds, s[k], t[f[k]])
    BY <1>1, <1>2, <1>k
  <2>2. s[k][c] \in Values /\ t[f[k]][c] \in Values
    BY <1>v, <2>1
  <2>3. Trim(s[k][c]) = Trim(t[f[k]][c]) /\ t[f[k]][c] # Null
    BY <2>1, <2>2, StoredKey
  <2>4. kinds[c] = "exact" => s[k][c] = t[f[k]][c]
    BY <2>1 DEF StoredAs
  <2> QED
    BY <2>3, <2>4
<1>5. ASSUME NEW k \in DOMAIN s, NEW i \in DOMAIN w
      PROVE  (\A c \in Range(pk) : KeyEquals(kinds, c, w[i][c], t[f[k]][c])) <=> k = from + i
  <2>1. from + i \in DOMAIN s /\ w[i] = s[from + i]
    BY <1>i
  <2>2. ASSUME \A c \in Range(pk) : KeyEquals(kinds, c, w[i][c], t[f[k]][c]) PROVE k = from + i
    <3>1. ASSUME NEW c \in Range(pk) PROVE Trim(s[from + i][c]) = Trim(s[k][c])
      <4>1. KeyEquals(kinds, c, s[from + i][c], t[f[k]][c])
        BY <2>1, <2>2
      <4>2. Trim(s[from + i][c]) = Trim(t[f[k]][c])
        BY <4>1 DEF KeyEquals
      <4> QED
        BY <1>4, <4>2
    <3> QED
      BY <1>k, <2>1, <3>1
  <2>3. ASSUME k = from + i, NEW c \in Range(pk) PROVE KeyEquals(kinds, c, w[i][c], t[f[k]][c])
    <3>1. w[i][c] = s[k][c] /\ s[k][c] # Null /\ kinds[c] \in {"exact", "text"}
      BY <1>k, <2>1, <2>3
    <3> QED
      BY <1>4, <3>1 DEF KeyEquals
  <2> QED
    BY <2>2, <2>3
<1>6. hits = {g[i] : i \in DOMAIN w}
  <2>1. ASSUME NEW j \in hits PROVE j \in {g[i] : i \in DOMAIN w}
    <3>1. j \in DOMAIN t /\ \E i \in DOMAIN w : \A c \in Range(pk) : KeyEquals(kinds, c, w[i][c], t[j][c])
      BY DEF KeyHits
    <3>2. PICK k \in DOMAIN s : f[k] = j
      BY <1>2, <3>1
    <3>3. PICK i \in DOMAIN w : \A c \in Range(pk) : KeyEquals(kinds, c, w[i][c], t[f[k]][c])
      BY <3>1, <3>2
    <3>4. k = from + i
      BY <1>5, <3>3
    <3> QED
      BY <3>2, <3>4
  <2>2. ASSUME NEW i \in DOMAIN w PROVE f[from + i] \in hits
    <3>1. from + i \in DOMAIN s /\ f[from + i] \in DOMAIN t
      BY <1>2, <1>i
    <3>2. \A c \in Range(pk) : KeyEquals(kinds, c, w[i][c], t[f[from + i]][c])
      BY <1>5, <3>1
    <3> QED
      BY <3>1, <3>2 DEF KeyHits
  <2> QED
    BY <2>1, <2>2
<1>7. g \in Bijection(DOMAIN w, hits)
  <2>1. g \in [DOMAIN w -> hits]
    BY <1>6
  <2>2. \A a, b \in DOMAIN w : g[a] = g[b] => a = b
    <3> SUFFICES ASSUME NEW a \in DOMAIN w, NEW b \in DOMAIN w, f[from + a] = f[from + b] PROVE a = b
      OBVIOUS
    <3>1. from + a = from + b
      BY <1>2, <1>i
    <3> QED
      BY <1>0, <3>1
  <2>3. \A j \in hits : \E i \in DOMAIN w : g[i] = j
    BY <1>6
  <2> HIDE DEF g, hits
  <2> QED
    BY <2>1, <2>2, <2>3, Fun_IsBij
<1>8. ASSUME NEW i \in DOMAIN w PROVE TrimmedHashes(kinds, w)[i] = TrimmedHashes(kinds, t)[g[i]]
  <2>1. from + i \in DOMAIN s /\ g[i] = f[from + i] /\ f[from + i] \in DOMAIN t /\ w[i] = s[from + i]
    BY <1>2, <1>i
  <2>2. StoredAs(kinds, w[i], t[g[i]])
    BY <1>1, <2>1
  <2> DEFINE cols == DOMAIN kinds \ UnifiedSkip(kinds)
  <2>3. RowHashTrimmed(kinds, w[i], cols) = RowHashTrimmed(kinds, t[g[i]], cols)
    BY <2>2, StoredAsSameHash
  <2>4. g[i] \in DOMAIN t
    BY <2>1
  <2> HIDE DEF g
  <2> QED
    BY <2>3, <2>4 DEF TrimmedHashes
<1>9. IsFiniteSet(DOMAIN w)
  BY FiniteDomain
<1> HIDE DEF g, hits
<1>10. SameBag(TrimmedHashes(kinds, w), DOMAIN w, TrimmedHashes(kinds, t), hits)
  BY <1>7, <1>8, <1>9, BagFromPairs
<1> QED
  BY <1>3, <1>10 DEF SampleMatches, KeyedMatches, hits

\* A plain copy is a faithful one.
LEMMA PlainCopyIsCopy ==
  ASSUME NEW kinds, NEW s, NEW t, IsPlainCopy(kinds, s, t)
  PROVE  IsCopy(kinds, s, t)
<1>1. \A r, u : StoredPlain(kinds, r, u) => StoredAs(kinds, r, u)
  BY DEF StoredPlain, StoredAs
<1> QED
  BY <1>1 DEF IsPlainCopy, IsCopy
=============================================================================
