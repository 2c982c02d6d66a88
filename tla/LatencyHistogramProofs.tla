------------------------ MODULE LatencyHistogramProofs ------------------------
(***************************************************************************)
(* The bucket layout of LatencyHistogram for every latency, and the loop   *)
(* that raises max_ns_ for every set of threads and latencies.             *)
(***************************************************************************)
EXTENDS LatencyHistogram, TLAPS

\* Every latency has a bucket of the array, and lies inside it: bucket_lower_ns
\* and bucket_upper_ns are the bounds of what bucket_index puts there.  The
\* last bucket has no upper bound.
THEOREM BucketHolds ==
    ASSUME NEW ns \in Nat
    PROVE  /\ bucket_index(ns) \in 0 .. kTotalBuckets - 1
           /\ bucket_lower_ns(bucket_index(ns)) <= ns
           /\ ns < 1000000 => ns <= bucket_upper_ns(bucket_index(ns))
<1>1. CASE ns < 1000
  BY <1>1 DEF bucket_index, bucket_lower_ns, bucket_upper_ns, kTotalBuckets
<1>2. CASE ns >= 1000 /\ ns < 10000
  BY <1>2 DEF bucket_index, bucket_lower_ns, bucket_upper_ns, kTotalBuckets
<1>3. CASE ns >= 10000 /\ ns < 100000
  BY <1>3 DEF bucket_index, bucket_lower_ns, bucket_upper_ns, kTotalBuckets
<1>4. CASE ns >= 100000 /\ ns < 1000000
  BY <1>4 DEF bucket_index, bucket_lower_ns, bucket_upper_ns, kTotalBuckets
<1>5. CASE ns >= 1000000
  BY <1>5 DEF bucket_index, bucket_lower_ns, kTotalBuckets
<1> QED BY <1>1, <1>2, <1>3, <1>4, <1>5

-----------------------------------------------------------------------------
\* The inductive invariant: a thread in the loop has read a maximum that was
\* the current one once, and the maximum does not fall before reset; the
\* latency a thread is recording counts as begun.
MaxInv ==
    /\ pc \in [Threads -> {"idle", "total", "sum", "max", "loop"}]
    /\ arg \in [Threads -> Nat] /\ cur_max \in [Threads -> Nat] /\ max_ns_ \in Nat
    /\ begun \in [Latencies -> Nat] /\ done \in [Latencies -> Nat]
    /\ \A t \in Threads : pc[t] # "idle" => arg[t] \in Latencies /\ begun[arg[t]] > 0
    /\ \A t \in Threads : pc[t] = "loop" => cur_max[t] <= max_ns_
    /\ MaxCovers

USE DEF counters, threads, snapshot

\* A thread that starts a record, whatever it records.
LEMMA RecordKeeps ==
    ASSUME MaxInv, NEW t \in Threads, NEW ns \in Latencies, Record(t, ns)
    PROVE  MaxInv'
<1>1. /\ begun' = [begun EXCEPT ![ns] = @ + 1] /\ UNCHANGED <<max_ns_, cur_max, done>>
      /\ arg' = [arg EXCEPT ![t] = ns] /\ pc' = [pc EXCEPT ![t] = "total"]
  BY DEF Record, Plus1
<1>2. ns \in Nat BY HistogramAssumption
<1>3. \A m \in Latencies : begun'[m] \in Nat /\ begun'[m] >= begun[m]
  BY <1>1 DEF MaxInv
<1>4. begun'[ns] > 0 /\ begun' \in [Latencies -> Nat]
  BY <1>1 DEF MaxInv
<1>5. \A u \in Threads : pc'[u] # "idle" => arg'[u] \in Latencies /\ begun'[arg'[u]] > 0
  <2> SUFFICES ASSUME NEW u \in Threads, pc'[u] # "idle"
               PROVE  arg'[u] \in Latencies /\ begun'[arg'[u]] > 0
    OBVIOUS
  <2>1. CASE u = t BY <2>1, <1>1, <1>4 DEF MaxInv
  <2>2. CASE u # t
    <3>1. arg'[u] = arg[u] /\ arg[u] \in Latencies /\ begun[arg[u]] > 0
      BY <2>2, <1>1 DEF MaxInv
    <3> QED BY <3>1, <1>3 DEF MaxInv
  <2> QED BY <2>1, <2>2
<1>6. \A u \in Threads : pc'[u] = "loop" => cur_max'[u] <= max_ns_'
  BY <1>1 DEF MaxInv
<1>7. MaxCovers'
  BY <1>1, <1>3 DEF MaxInv, MaxCovers
<1>8. pc' \in [Threads -> {"idle", "total", "sum", "max", "loop"}] /\ arg' \in [Threads -> Nat]
  BY <1>1, <1>2 DEF MaxInv
<1> QED BY <1>1, <1>4, <1>5, <1>6, <1>7, <1>8 DEF MaxInv

\* A thread that returns leaves the maximum at its latency or above.
LEMMA ReturnKeeps ==
    ASSUME MaxInv, NEW t \in Threads, pc[t] = "loop", Return(t), begun' = begun,
           max_ns_' \in {max_ns_, arg[t]}, max_ns_' >= max_ns_, arg[t] <= max_ns_'
    PROVE  MaxInv'
<1>1. /\ done' = [done EXCEPT ![arg[t]] = @ + 1] /\ pc' = [pc EXCEPT ![t] = "idle"]
      /\ arg' = [arg EXCEPT ![t] = 0] /\ cur_max' = [cur_max EXCEPT ![t] = 0]
  BY DEF Return, Plus1
<1>2. arg[t] \in Latencies /\ begun[arg[t]] > 0 /\ arg[t] \in Nat
  BY DEF MaxInv
<1>3. done' \in [Latencies -> Nat] /\ \A m \in Latencies : m # arg[t] => done'[m] = done[m]
  BY <1>1, <1>2 DEF MaxInv
<1>4. max_ns_' = 0 \/ \E m \in Latencies : m = max_ns_' /\ begun'[m] > 0
  BY <1>2 DEF MaxInv, MaxCovers
<1>5. \A m \in Latencies : done'[m] > 0 => m <= max_ns_'
  <2> SUFFICES ASSUME NEW m \in Latencies, done'[m] > 0 PROVE m <= max_ns_'
    OBVIOUS
  <2>1. CASE m = arg[t] BY <2>1
  <2>2. CASE m # arg[t]
    <3>1. m <= max_ns_ BY <2>2, <1>3 DEF MaxInv, MaxCovers
    <3> QED BY <3>1, <1>2, HistogramAssumption DEF MaxInv
  <2> QED BY <2>1, <2>2
<1>6. \A u \in Threads : pc'[u] = "loop" => cur_max'[u] <= max_ns_'
  BY <1>1, <1>2 DEF MaxInv
<1>7. \A u \in Threads : pc'[u] # "idle" => arg'[u] \in Latencies /\ begun'[arg'[u]] > 0
  BY <1>1 DEF MaxInv
<1>8. /\ pc' \in [Threads -> {"idle", "total", "sum", "max", "loop"}] /\ arg' \in [Threads -> Nat]
      /\ cur_max' \in [Threads -> Nat] /\ max_ns_' \in Nat
  BY <1>1, <1>2 DEF MaxInv
<1> QED BY <1>3, <1>4, <1>5, <1>6, <1>7, <1>8 DEF MaxInv, MaxCovers

\* max_ns_ is the largest latency recorded, for any number of threads: each of
\* them may read it, be overtaken, and find its exchange fail.
THEOREM MaxIsLargest == Spec => []MaxCovers
<1>1. Init => MaxInv
  BY HistogramAssumption DEF Init, MaxInv, MaxCovers, Nothing
<1>2. ASSUME MaxInv, [Next]_vars PROVE MaxInv'
  <2>1. ASSUME NEW t \in Threads, record(t) PROVE MaxInv'
    <3>1. ASSUME NEW ns \in Latencies, Record(t, ns) PROVE MaxInv'
      BY <3>1, <1>2, RecordKeeps
    <3>2. CASE AddTotal(t)
      BY <3>2, <1>2 DEF AddTotal, MaxInv, MaxCovers
    <3>3. CASE AddSum(t)
      BY <3>3, <1>2 DEF AddSum, MaxInv, MaxCovers
    <3>4. CASE LoadMax(t)
      BY <3>4, <1>2 DEF LoadMax, MaxInv, MaxCovers
    <3>5. CASE NotLarger(t)
      <4>1. /\ pc[t] = "loop" /\ Return(t) /\ begun' = begun /\ max_ns_' = max_ns_
            /\ arg[t] <= cur_max[t]
        BY <3>5 DEF NotLarger
      <4>2. cur_max[t] <= max_ns_ /\ arg[t] \in Nat /\ cur_max[t] \in Nat /\ max_ns_ \in Nat
        BY <4>1, <1>2 DEF MaxInv
      <4> QED BY <4>1, <4>2, <1>2, ReturnKeeps
    <3>6. CASE RaiseMax(t)
      <4>1. /\ pc[t] = "loop" /\ Return(t) /\ begun' = begun /\ max_ns_' = arg[t]
            /\ arg[t] > max_ns_
        BY <3>6 DEF RaiseMax
      <4>2. arg[t] \in Nat /\ max_ns_ \in Nat
        BY <1>2 DEF MaxInv
      <4> QED BY <4>1, <4>2, <1>2, ReturnKeeps
    <3>7. CASE Retry(t)
      BY <3>7, <1>2 DEF Retry, MaxInv, MaxCovers
    <3> QED BY <2>1, <3>1, <3>2, <3>3, <3>4, <3>5, <3>6, <3>7 DEF record
  <2>2. CASE take_snapshot \/ UNCHANGED vars
    <3>1. UNCHANGED <<pc, arg, cur_max, max_ns_, begun, done>>
      BY <2>2 DEF take_snapshot, BeginSnapshot, ReadBucket, ReadTotal, ReadSum, ReadMax,
                  EndSnapshot, vars
    <3> QED BY <3>1, <1>2 DEF MaxInv, MaxCovers
  <2>3. CASE reset
    BY <2>3, <1>2, HistogramAssumption DEF reset, MaxInv, MaxCovers, Nothing
  <2> QED BY <1>2, <2>1, <2>2, <2>3 DEF Next
<1>3. MaxInv => MaxCovers
  BY DEF MaxInv
<1> QED BY <1>1, <1>2, <1>3, PTL DEF Spec
=============================================================================
