---------------------------- MODULE HostBaselines ----------------------------
(***************************************************************************)
(* The nightly job that learns what is normal for a host.  For each metric *)
(* of its list it queries a week of values from Prometheus, computes p50   *)
(* and p95, and upserts a row of host_fingerprints; a metric without data  *)
(* leaves the row of an earlier night.  Prometheus is external.            *)
(*                                                                         *)
(* A sample is the list of values a query returned.  p50 is kept doubled,  *)
(* as the median of an even number of values is halfway between two.       *)
(***************************************************************************)
EXTENDS Integers, SequencesExt

CONSTANTS
    Host, Metric, \* labels
    Value,        \* the values a metric takes
    Sample        \* what Prometheus may return: lists of values

ASSUME ValueAssumption  == Value \subseteq Nat \ {0}
ASSUME SampleAssumption == Sample \subseteq Seq(Value)
ASSUME MetricAssumption == IsFiniteSet(Metric)

NoRow == [p50 |-> 0, p95 |-> 0]    \* no value is 0
NoJob == [host |-> "none", left |-> <<>>]

VARIABLES
    table, \* host_fingerprints: table[h][m], NoRow if there is none
    job,   \* the host and the metrics the job has left
    data   \* history: the latest sample with a value in it, by host and metric

baselineVars == <<table, job, data>>

NoData == <<>>

BaselineInit ==
    /\ table = [h \in Host |-> [m \in Metric |-> NoRow]]
    /\ job = NoJob
    /\ data = [h \in Host |-> [m \in Metric |-> NoData]]

-----------------------------------------------------------------------------

\* How many of the first n of a list are v at most.
UpTo(list, n, v) == Cardinality({i \in 1..n : list[i] <= v})

\* sorted(values): each value goes behind those that are not greater.
Insert(list, v) ==
    LET before == UpTo(list, Len(list), v)
    IN  [i \in 1..(Len(list) + 1) |-> IF i <= before     THEN list[i]
                                     ELSE IF i = before + 1 THEN v
                                     ELSE list[i - 1]]

Sorted(values) ==
    LET sorted[n \in 0..Len(values)] ==
            IF n = 0 THEN <<>> ELSE Insert(sorted[n - 1], values[n])
    IN  sorted[Len(values)]

\* statistics.median, doubled.
Median(sorted) ==
    LET n == Len(sorted)
    IN  sorted[(n + 1) \div 2] + sorted[n \div 2 + 1]

\* Faulty variant: the index is rounded up.
NinetyFifthRoundedUp(sorted) ==
    LET n == Len(sorted)
        i == (95 * n + 99) \div 100
    IN  sorted[IF i >= n THEN n ELSE i + 1]

\* sorted_vals[int(n * 0.95)], indexed from 0 and capped.
NinetyFifth(sorted) ==
    LET n == Len(sorted)
        i == (95 * n) \div 100
    IN  sorted[IF i >= n THEN n ELSE i + 1]

ComputePercentiles(sample) ==
    IF sample = <<>> THEN NoRow
    ELSE LET sorted == Sorted(sample)
         IN  [p50 |-> Median(sorted), p95 |-> NinetyFifth(sorted)]

\* update_host_baselines is called for a host and a list of metrics.
StartJob(h, metrics) ==
    /\ job = NoJob
    /\ job' = [host |-> h, left |-> metrics]
    /\ UNCHANGED <<table, data>>

\* One metric: no values, or a query that failed in a way it handles, leave
\* the row as it is.
UpdateBaseline(sample) ==
    /\ job.left # <<>>
    /\ LET m   == Head(job.left)
           row == ComputePercentiles(sample)
       IN  /\ table' = IF row = NoRow THEN table ELSE [table EXCEPT ![job.host][m] = row]
           /\ data' = IF sample = <<>> THEN data ELSE [data EXCEPT ![job.host][m] = sample]
    /\ job' = [job EXCEPT !.left = Tail(@)]

\* The list is done; or an exception (a late answer of Prometheus, a locked
\* database, the process killed) leaves the function in the middle of it.
EndJob ==
    /\ job # NoJob
    /\ job' = NoJob
    /\ UNCHANGED <<table, data>>

BaselineNext ==
    \/ \E h \in Host, metrics \in SetToSeqs(Metric) : StartJob(h, metrics)
    \/ \E sample \in Sample : UpdateBaseline(sample)
    \/ EndJob

-----------------------------------------------------------------------------
(* The percentiles, counted in the sample itself.                          *)

\* At most v are so many of the sample, and v is the least such value.
IsLeastWith(v, sample, Enough(_)) ==
    /\ Enough(UpTo(sample, Len(sample), v))
    /\ \A u \in Value : Enough(UpTo(sample, Len(sample), u)) => v <= u

\* The least value that more than a share of the sample does not exceed.
LeastAbove(sample, percent) ==
    CHOOSE v \in Value :
        IsLeastWith(v, sample, LAMBDA n : 100 * n > percent * Len(sample))

\* Half of the values are on either side: the middle of the highest of the
\* lower half and the lowest of the upper one.
Middle(sample) ==
    LET lower == CHOOSE v \in Value :
                     IsLeastWith(v, sample, LAMBDA n : 2 * n >= Len(sample))
    IN  lower + LeastAbove(sample, 50)

\* Whatever nights failed, or failed halfway, each row holds the percentiles
\* of the latest data there was for its own host and metric.
BaselinesFollowData ==
    \A h \in Host, m \in Metric :
        table[h][m] = IF data[h][m] = NoData THEN NoRow
                      ELSE [p50 |-> Middle(data[h][m]), p95 |-> LeastAbove(data[h][m], 95)]
=============================================================================
