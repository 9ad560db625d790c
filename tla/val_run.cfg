CONSTANTS
  t1 = t1
  t2 = t2
  t3 = t3
  Null = Null
  Bases = {"a", "b"}
  Tables = {t1, t2, t3}
  Inputs <- MCInputs
  MaxColumns = 2
  Buckets = 2
  BucketOf <- MCBucketOf
  Parallel = 2
  SourcePool = 1
  TargetPool = 2
  Threshold = 1
  SampleMax = 2
  Occurs = {"error", "cut"}
SPECIFICATION FairSpec
INVARIANTS PassIsSound CopyPasses
PROPERTY ValidationEnds
CHECK_DEADLOCK FALSE
