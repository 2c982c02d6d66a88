--------------------------- MODULE LatencyHistogram ---------------------------
(***************************************************************************)
(* engine::LatencyHistogram (util/histogram.hpp): threads record latencies *)
(* into atomic counters while another takes snapshots.  Every atomic       *)
(* access is a step: a record is four of them and the loop that raises the *)
(* maximum, a snapshot reads the buckets in order, then the totals.        *)
(***************************************************************************)
EXTENDS Integers, FiniteSets, FiniteSetsExt, Functions

CONSTANTS
    Threads,      \* those that record
    Latencies,    \* what they record, in ns
    MaxRecords,   \* bound: calls of record between two resets
    Permilles     \* the percentiles asked for, in thousandths

ASSUME HistogramAssumption ==
    /\ Latencies \subseteq Nat
    /\ MaxRecords \in Nat
    /\ Permilles \subseteq 0 .. 1000

-----------------------------------------------------------------------------
(* The bucket layout *)

kTotalBuckets == 1000 + 90 + 90 + 90 + 1

\* Mutant: the second range starts one bucket early.
bucket_indexOffByOne(ns) ==
    IF ns < 1000 THEN ns
    ELSE IF ns < 10000 THEN 1000 + (ns \div 100) - 11
    ELSE IF ns < 100000 THEN 1090 + (ns \div 1000) - 10
    ELSE IF ns < 1000000 THEN 1180 + (ns \div 10000) - 10
    ELSE kTotalBuckets - 1

bucket_index(ns) ==
    IF ns < 1000 THEN ns
    ELSE IF ns < 10000 THEN 1000 + (ns \div 100) - 10
    ELSE IF ns < 100000 THEN 1090 + (ns \div 1000) - 10
    ELSE IF ns < 1000000 THEN 1180 + (ns \div 10000) - 10
    ELSE kTotalBuckets - 1

bucket_lower_ns(idx) ==
    IF idx < 1000 THEN idx
    ELSE IF idx < 1090 THEN (idx - 1000 + 10) * 100
    ELSE IF idx < 1180 THEN (idx - 1090 + 10) * 1000
    ELSE IF idx < 1270 THEN (idx - 1180 + 10) * 10000
    ELSE 1000000

bucket_upper_ns(idx) == bucket_lower_ns(idx + 1) - 1

-----------------------------------------------------------------------------
VARIABLES
    buckets_, total_, sum_ns_, max_ns_,
    pc, arg, cur_max,    \* each thread: where it is in record, latency_ns, cur_max
    spc, i, snap,        \* the thread that takes snapshots: where it is, the
                         \* bucket it reads next, and what it has read
    begun, done,         \* history: how often each latency was passed to a record
                         \* that has begun, that has returned
    before               \* history: done when the snapshot began

counters == <<buckets_, total_, sum_ns_, max_ns_>>
threads == <<pc, arg, cur_max>>
snapshot == <<spc, i, snap, before>>
vars == <<counters, threads, snapshot, begun, done>>

\* Only buckets of a recorded latency can be other than zero.
Buckets == {bucket_index(ns) : ns \in Latencies}

Total(f) == FoldFunction(+, 0, f)
Sum(f) == Total([ns \in DOMAIN f |-> ns * f[ns]])
Largest(f) == Max({0} \cup {ns \in DOMAIN f : f[ns] > 0})
Plus1(f, x) == [f EXCEPT ![x] = @ + 1]
Nothing == [ns \in Latencies |-> 0]

-----------------------------------------------------------------------------
(* record *)

Record(t, ns) ==
    /\ pc[t] = "idle"
    /\ Total(begun) < MaxRecords
    /\ buckets_' = Plus1(buckets_, bucket_index(ns))
    /\ begun' = Plus1(begun, ns)
    /\ arg' = [arg EXCEPT ![t] = ns]
    /\ pc' = [pc EXCEPT ![t] = "total"]
    /\ UNCHANGED <<total_, sum_ns_, max_ns_, cur_max, snapshot, done>>

AddTotal(t) ==
    /\ pc[t] = "total"
    /\ total_' = total_ + 1
    /\ pc' = [pc EXCEPT ![t] = "sum"]
    /\ UNCHANGED <<buckets_, sum_ns_, max_ns_, arg, cur_max, snapshot, begun, done>>

AddSum(t) ==
    /\ pc[t] = "sum"
    /\ sum_ns_' = sum_ns_ + arg[t]
    /\ pc' = [pc EXCEPT ![t] = "max"]
    /\ UNCHANGED <<buckets_, total_, max_ns_, arg, cur_max, snapshot, begun, done>>

LoadMax(t) ==
    /\ pc[t] = "max"
    /\ cur_max' = [cur_max EXCEPT ![t] = max_ns_]
    /\ pc' = [pc EXCEPT ![t] = "loop"]
    /\ UNCHANGED <<counters, arg, snapshot, begun, done>>

\* record returns and its locals are gone.
Return(t) ==
    /\ pc' = [pc EXCEPT ![t] = "idle"]
    /\ arg' = [arg EXCEPT ![t] = 0]
    /\ cur_max' = [cur_max EXCEPT ![t] = 0]
    /\ done' = Plus1(done, arg[t])

NotLarger(t) ==
    /\ pc[t] = "loop" /\ arg[t] <= cur_max[t]
    /\ Return(t)
    /\ UNCHANGED <<counters, snapshot, begun>>

\* Mutant: a plain store instead of the compare-and-exchange.
RaiseMaxStores(t) ==
    /\ pc[t] = "loop" /\ arg[t] > cur_max[t]
    /\ max_ns_' = arg[t]
    /\ Return(t)
    /\ UNCHANGED <<buckets_, total_, sum_ns_, snapshot, begun>>

RaiseMax(t) ==
    /\ pc[t] = "loop" /\ arg[t] > cur_max[t]
    /\ max_ns_ = cur_max[t]
    /\ max_ns_' = arg[t]
    /\ Return(t)
    /\ UNCHANGED <<buckets_, total_, sum_ns_, snapshot, begun>>

\* The exchange fails, also without reason (it is the weak form).
Retry(t) ==
    /\ pc[t] = "loop" /\ arg[t] > cur_max[t]
    /\ cur_max' = [cur_max EXCEPT ![t] = max_ns_]
    /\ UNCHANGED <<counters, pc, arg, snapshot, begun, done>>

record(t) ==
    \/ \E ns \in Latencies : Record(t, ns)
    \/ AddTotal(t) \/ AddSum(t) \/ LoadMax(t) \/ NotLarger(t) \/ RaiseMax(t) \/ Retry(t)

-----------------------------------------------------------------------------
(* take_snapshot, reset *)

NoSnapshot == [counts |-> [b \in Buckets |-> 0], total |-> 0, sum_ns |-> 0, max_ns |-> 0]

BeginSnapshot ==
    /\ spc = "idle"
    /\ spc' = "counts" /\ i' = Min(Buckets)
    /\ snap' = NoSnapshot
    /\ before' = done
    /\ UNCHANGED <<counters, threads, begun, done>>

ReadBucket ==
    LET rest == {b \in Buckets : b > i}
    IN  /\ spc = "counts"
        /\ snap' = [snap EXCEPT !.counts[i] = buckets_[i]]
        /\ IF rest = {} THEN spc' = "total" /\ i' = 0 ELSE spc' = spc /\ i' = Min(rest)
        /\ UNCHANGED <<counters, threads, before, begun, done>>

ReadTotal ==
    /\ spc = "total"
    /\ snap' = [snap EXCEPT !.total = total_]
    /\ spc' = "sum"
    /\ UNCHANGED <<counters, threads, i, before, begun, done>>

ReadSum ==
    /\ spc = "sum"
    /\ snap' = [snap EXCEPT !.sum_ns = sum_ns_]
    /\ spc' = "max"
    /\ UNCHANGED <<counters, threads, i, before, begun, done>>

ReadMax ==
    /\ spc = "max"
    /\ snap' = [snap EXCEPT !.max_ns = max_ns_]
    /\ spc' = "taken"
    /\ UNCHANGED <<counters, threads, i, before, begun, done>>

\* The caller is through with the snapshot.
EndSnapshot ==
    /\ spc = "taken"
    /\ spc' = "idle"
    /\ snap' = NoSnapshot
    /\ before' = Nothing
    /\ UNCHANGED <<counters, threads, i, begun, done>>

take_snapshot ==
    BeginSnapshot \/ ReadBucket \/ ReadTotal \/ ReadSum \/ ReadMax \/ EndSnapshot

\* Called between measurements, when no record or snapshot is under way.
reset ==
    /\ spc = "idle" /\ \A t \in Threads : pc[t] = "idle"
    /\ buckets_' = [b \in Buckets |-> 0]
    /\ total_' = 0 /\ sum_ns_' = 0 /\ max_ns_' = 0
    /\ begun' = Nothing /\ done' = Nothing
    /\ UNCHANGED <<threads, snapshot>>

\* The first bucket at which more than target samples are counted.
percentile(s, p) ==
    LET target == (p * s.total) \div 1000
        hit == {b \in Buckets : Total([k \in {k \in Buckets : k <= b} |-> s.counts[k]]) > target}
    IN  IF s.total = 0 THEN 0
        ELSE IF hit = {} THEN s.max_ns ELSE bucket_lower_ns(Min(hit))

-----------------------------------------------------------------------------
Init ==
    /\ buckets_ = [b \in Buckets |-> 0]
    /\ total_ = 0 /\ sum_ns_ = 0 /\ max_ns_ = 0
    /\ pc = [t \in Threads |-> "idle"]
    /\ arg = [t \in Threads |-> 0]
    /\ cur_max = [t \in Threads |-> 0]
    /\ spc = "idle" /\ i = 0 /\ snap = NoSnapshot
    /\ begun = Nothing /\ done = Nothing /\ before = Nothing

Next == (\E t \in Threads : record(t)) \/ take_snapshot \/ reset

Spec == Init /\ [][Next]_vars

-----------------------------------------------------------------------------
(* Properties *)

Quiet == \A t \in Threads : pc[t] = "idle"

\* The largest sample so far: a latency that was recorded, and no smaller than
\* any whose record has returned.  The loop on max_ns_ loses no update to a
\* thread that raises it at the same time.
MaxCovers ==
    /\ max_ns_ = 0 \/ \E ns \in Latencies : ns = max_ns_ /\ begun[ns] > 0
    /\ \A ns \in Latencies : done[ns] > 0 => ns <= max_ns_

\* When no record is under way the counters say exactly what was recorded:
\* every sample in its bucket, the number, the sum, and the largest one.
QuietIsExact ==
    /\ MaxCovers
    /\ Quiet =>
          /\ done = begun
          /\ total_ = Total(done) /\ sum_ns_ = Sum(done) /\ max_ns_ = Largest(done)
          /\ \A b \in Buckets : buckets_[b] =
                Total([ns \in {ns \in Latencies : bucket_index(ns) = b} |-> done[ns]])

\* The sample of which a p-th part of all lies below, from the samples themselves.
Quantile(f, p) ==
    Min({ns \in Latencies :
            Total([m \in {m \in Latencies : m <= ns} |-> f[m]]) > (p * Total(f)) \div 1000})

\* A finished snapshot counts every sample whose record had returned when it
\* began, and none whose record has not begun ("counts may be slightly off
\* during a concurrent burst").  Taken while nothing is recorded its
\* percentiles are the true ones, rounded down to the bucket: below the sample
\* by less than the bucket is wide.
SnapshotSound ==
    spc = "taken" =>
        /\ Total(snap.counts) \in Total(before) .. Total(begun)
        /\ snap.total \in Total(before) .. Total(begun)
        /\ snap.sum_ns \in Sum(before) .. Sum(begun)
        /\ snap.max_ns \in Largest(before) .. Largest(begun)
        /\ before = begun /\ Total(begun) > 0 => \A p \in Permilles \ {1000} :
              LET q == Quantile(begun, p)
                  r == percentile(snap, p)
              IN  r <= q /\ (q < 1000000 => q <= bucket_upper_ns(bucket_index(r)))
        /\ before = begun => percentile(snap, 1000) = Largest(begun)
=============================================================================
