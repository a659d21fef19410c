---------------------------- MODULE MetricSeries ----------------------------
(***************************************************************************)
(* internal/monitor: the samples and task outcomes of an agent and the time *)
(* series over them.  Appends and queries take the repository's lock for    *)
(* one call each: a series reads the samples, then the outcomes.            *)
(***************************************************************************)
EXTENDS Integers, Sequences, FiniteSetsExt

CONSTANTS
  Interval,    \* BucketInterval
  MaxBuckets,  \* MaxSeriesBuckets
  Window,      \* DefaultSeriesWindow
  Time,        \* times of samples and bounds of queries; 0 is the zero time
  Cpu,         \* measured values
  MaxData      \* bound of the samples and outcomes

VARIABLES
  samples,  \* samples of the agent: [at, cpu]
  outcomes, \* outcomes of its tasks: [at, success]
  op        \* the query under way, its answer at the end

vars == <<samples, outcomes, op>>

-----------------------------------------------------------------------------
Floor(t) == (t \div Interval) * Interval

\* Mutant of Bounds: the end is aligned downwards.
BoundsFloored(start, end) ==
  LET first == IF start = 0 \/ start >= end THEN end - Window ELSE start
      total == (Floor(end) - Floor(first)) \div Interval + 1
  IN IF total > MaxBuckets
     THEN [start |-> Floor(end) - MaxBuckets * Interval, end |-> Floor(end), total |-> MaxBuckets]
     ELSE [start |-> Floor(first), end |-> Floor(end), total |-> total]

\* The window of a query: an empty one becomes the default window, its bounds
\* become those of buckets, and from a long one the latest buckets are taken.
Bounds(start, end) ==
  LET first == IF start = 0 \/ start >= end THEN end - Window ELSE start
      last == Floor(end) + Interval
      total == (last - Floor(first)) \div Interval + 1
  IN IF total > MaxBuckets
     THEN [start |-> last - MaxBuckets * Interval, end |-> last, total |-> MaxBuckets]
     ELSE [start |-> Floor(first), end |-> last, total |-> total]

\* QuerySamples, QueryTaskOutcomes: both bounds belong to the window.
Query(data, w) == {i \in DOMAIN data : data[i].at >= w.start /\ data[i].at <= w.end}

Bucket(w, t) == (t - w.start) \div Interval

\* The points of a series, numbered from 0.
Points(w, seen, done) ==
  [b \in 0 .. w.total - 1 |->
     LET here == {i \in seen : Bucket(w, samples[i].at) = b}
         tasks == {i \in done : Bucket(w, outcomes[i].at) = b}
     IN [samples |-> Cardinality(here),
         cpuSum |-> MapThenSumSet(LAMBDA i : samples[i].cpu, here),
         cpuPeak |-> Max({0} \cup {samples[i].cpu : i \in here}),
         tasks |-> Cardinality(tasks),
         ok |-> Cardinality({i \in tasks : outcomes[i].success})]]

Total(points, Field(_)) == MapThenSumSet(LAMBDA b : Field(points[b]), DOMAIN points)

Summary(w, points) ==
  [start |-> w.start, end |-> w.end, points |-> points,
   sampleCount |-> Total(points, LAMBDA p : p.samples),
   cpuPeak |-> Max({0} \cup {points[b].cpuPeak : b \in DOMAIN points}),
   taskCount |-> Total(points, LAMBDA p : p.tasks),
   taskOk |-> Total(points, LAMBDA p : p.ok)]

-----------------------------------------------------------------------------
Idle == [pc |-> "idle"]

Init == samples = <<>> /\ outcomes = <<>> /\ op = Idle

AppendSample(at, cpu) ==
  /\ Len(samples) + Len(outcomes) < MaxData
  /\ samples' = Append(samples, [at |-> at, cpu |-> cpu])
  /\ UNCHANGED <<outcomes, op>>

AppendTaskOutcome(at, success) ==
  /\ Len(samples) + Len(outcomes) < MaxData
  /\ outcomes' = Append(outcomes, [at |-> at, success |-> success])
  /\ UNCHANGED <<samples, op>>

\* GetTimeSeries queries the samples ...
GetTimeSeries(start, end) ==
  /\ op = Idle /\ end > 0
  /\ LET w == Bounds(start, end) IN
       op' = [pc |-> "outcomes", from |-> start, to |-> end, window |-> w, seen |-> Query(samples, w)]
  /\ UNCHANGED <<samples, outcomes>>

\* ... then the outcomes, and sorts both into buckets.
FillBuckets ==
  /\ op.pc = "outcomes"
  /\ LET done == Query(outcomes, op.window) IN
       op' = [pc |-> "answer", from |-> op.from, to |-> op.to, seen |-> op.seen, done |-> done,
              series |-> Summary(op.window, Points(op.window, op.seen, done))]
  /\ UNCHANGED <<samples, outcomes>>

Answer == op.pc = "answer" /\ op' = Idle /\ UNCHANGED <<samples, outcomes>>

Next ==
  \/ \E at \in Time \ {0}, cpu \in Cpu : AppendSample(at, cpu)
  \/ \E at \in Time \ {0}, success \in BOOLEAN : AppendTaskOutcome(at, success)
  \/ \E start, end \in Time : GetTimeSeries(start, end)
  \/ FillBuckets \/ Answer

Spec == Init /\ [][Next]_vars

-----------------------------------------------------------------------------
TypeOK ==
  /\ Len(samples) + Len(outcomes) <= MaxData
  /\ op.pc \in {"idle", "outcomes", "answer"}

\* Every sample of the window asked for that was there when the query began is
\* in exactly the bucket of its time, unless it lies before the start the series
\* names; that start is later than the one asked for only when all MaxBuckets
\* buckets are used, so that it is the latest of them that are kept.
SeriesExact ==
  op.pc = "answer" => LET s == op.series IN
    /\ s.start % Interval = 0 /\ s.end > op.to
    /\ DOMAIN s.points = 0 .. Cardinality(DOMAIN s.points) - 1
    /\ s.start > op.from /\ op.from > 0 /\ op.from < op.to =>
         Cardinality(DOMAIN s.points) = MaxBuckets /\ s.end - s.start = MaxBuckets * Interval
    /\ \A i \in op.seen :
         samples[i].at >= s.start /\ samples[i].at <= op.to =>
           \E b \in DOMAIN s.points : /\ s.points[b].samples > 0
                                      /\ samples[i].at - (s.start + b * Interval) \in 0 .. Interval - 1
                                      /\ s.points[b].cpuPeak >= samples[i].cpu
    /\ s.sampleCount >= Cardinality({i \in op.seen : samples[i].at \in s.start .. op.to})
    /\ s.taskCount >= Cardinality({i \in op.done : outcomes[i].at \in s.start .. op.to})
    /\ s.taskOk <= s.taskCount
=============================================================================
