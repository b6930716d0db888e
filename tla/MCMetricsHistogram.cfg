SPECIFICATION Spec
CONSTANTS
  Buckets = 3
  Observations = 3
INVARIANTS
  BucketsAreCumulative
CHECK_DEADLOCK FALSE
