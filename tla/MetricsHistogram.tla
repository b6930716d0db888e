-------------------------- MODULE MetricsHistogram --------------------------
(***************************************************************************)
(* One series of a histogram in MetricsRegistry                            *)
(* (packages/core/src/services/metrics.ts): what observeHistogram counts   *)
(* and what render makes of it for the /metrics endpoint.                  *)
(*                                                                         *)
(* A value is the number of the first bucket that is large enough for it,  *)
(* one more than there are buckets when none is.                           *)
(***************************************************************************)
EXTENDS Naturals, Functions

CONSTANTS
  Buckets,      \* how many buckets the histogram has
  Observations  \* bounds the model: how many values are observed

VARIABLES
  bucketCounts, \* per bucket
  count,
  observed      \* history: how many values were of each size

vars == <<bucketCounts, count, observed>>

Values == 1..(Buckets + 1)

Init ==
  /\ bucketCounts = [i \in 1..Buckets |-> 0]
  /\ count = 0
  /\ observed = [v \in Values |-> 0]

\* observeHistogram: every bucket the value is within counts it.
Observe(v) ==
  /\ count < Observations
  /\ bucketCounts' = [i \in 1..Buckets |-> bucketCounts[i] + IF v <= i THEN 1 ELSE 0]
  /\ count' = count + 1
  /\ observed' = [observed EXCEPT ![v] = @ + 1]

Next == \E v \in Values : Observe(v)

Spec == Init /\ [][Next]_vars

Sum(f, S) == FoldFunctionOnSet(+, 0, f, S)

\* render: the line of bucket i is the sum of the counts up to it; the line
\* of le="+Inf" is `count`.
Rendered(i) == Sum(bucketCounts, 1..i)

\* /metrics is "Prometheus text v0.0.4 (counters, histograms, gauges)", in
\* which a bucket's line says how many values were at most its bound.
BucketsAreCumulative ==
  \A i \in 1..Buckets : Rendered(i) = Sum(observed, 1..i)

=============================================================================
