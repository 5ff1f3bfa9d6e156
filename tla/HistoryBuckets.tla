--------------------------- MODULE HistoryBuckets --------------------------
(***************************************************************************)
(* How plugin/usagedatabase.cpp draws a history of cost or requests:       *)
(* observations are put into buckets of equal length twice, once by the    *)
(* SQL of getHistorySeries and once more, with what that returned, by      *)
(* buildHistorySeriesPayload, which also marks the gaps.                   *)
(*                                                                         *)
(* The query keeps observations of different quality apart, the payload    *)
(* does not; the query returns rows of one bucket in no particular order.  *)
(***************************************************************************)
EXTENDS Integers, FiniteSetsExt, Functions, SequencesExt

CONSTANTS
  To,          \* end of the range that begins at 0
  Base,        \* length of a bucket the view asks for
  MaxPoints,   \* MAX_SERIES_POINTS: 240
  Qualities,   \* data_quality of an observation
  Values,      \* of an observation
  MaxSamples   \* bound: observations stored

(* An interval total is what was used in an interval, a gauge what was     *)
(* seen at a moment.                                                       *)
Semantics == {"interval_total", "gauge"}

VARIABLE samples   \* observations, in the order they were stored

Init == samples = <<>>

(* An observation is stored; its time is the provider's, which may lie     *)
(* before that of an earlier one, or after the range.                      *)
Record ==
  /\ Len(samples) < MaxSamples
  /\ \E at \in 0 .. To + 1, v \in Values, q \in Qualities, s \in Semantics :
       samples' = Append(samples, [at |-> at, value |-> v, quality |-> q, semantic |-> s])

Next == Record

Spec == Init /\ [][Next]_samples

-----------------------------------------------------------------------------
(* The query *)

Ceiling(a, b) == (a + b - 1) \div b

(* effectiveBucketSeconds                                                  *)
EffectiveBucketSeconds == Max({Base, Ceiling(To, MaxPoints)})

Bucket(at) == at \div EffectiveBucketSeconds

(* WHERE: the range includes both its ends.                                *)
Filtered == {i \in DOMAIN samples : samples[i].at \in 0 .. To}

(* ROW_NUMBER() OVER (ORDER BY time DESC, id DESC) = 1                     *)
Latest(rows) ==
  CHOOSE i \in rows : \A j \in rows \ {i} :
    \/ samples[j].at < samples[i].at
    \/ samples[j].at = samples[i].at /\ j < i

(* Mutant: the query keeps the latest row of a bucket, whatever it means.  *)
RowValueLatest(s, rows) == samples[Latest(rows)].value

(* CASE semantic: a bucket of intervals is their sum.                      *)
RowValue(s, rows) ==
  IF s = "interval_total" THEN SumFunction([i \in rows |-> samples[i].value])
  ELSE samples[Latest(rows)].value

(* The rows the query returns: one for each bucket, meaning and quality.   *)
Key(i) == <<Bucket(samples[i].at), samples[i].semantic, samples[i].quality>>
Partition(k) == {i \in Filtered : Key(i) = k}
Row(k) == [bucket |-> k[1], semantic |-> k[2], quality |-> k[3],
           value |-> RowValue(k[2], Partition(k))]
QueryRows == {Row(k) : k \in {Key(i) : i \in Filtered}}

-----------------------------------------------------------------------------
(* The payload *)

Segment(s) == {r \in QueryRows : r.semantic = s}
Buckets(s) == {r.bucket : r \in Segment(s)}
RowsIn(s, b) == {r \in Segment(s) : r.bucket = b}

(* The values the point of a bucket may have: rows of a bucket are added,  *)
(* or replace each other in the order they come.                           *)
IntervalValue(b) == SumFunction([r \in RowsIn("interval_total", b) |-> r.value])
PointValues(s, b) ==
  IF s = "interval_total" THEN {IntervalValue(b)} ELSE {r.value : r \in RowsIn(s, b)}

(* The points without a value, each in the first of the buckets it stands  *)
(* for.                                                                    *)
Gaps(s) == {p + 1 : p \in {p \in Buckets(s) :
                             /\ p + 1 \notin Buckets(s)
                             /\ \E b \in Buckets(s) : b > p}}

-----------------------------------------------------------------------------
(* Properties *)

InBucket(s, b) ==
  {i \in Filtered : samples[i].semantic = s /\ Bucket(samples[i].at) = b}

(* Intervals are neither lost nor counted twice by adding them up twice    *)
(* (usagedatabase.cpp, bucket_sum and intervalTotal).                      *)
IntervalsKept ==
  LET kept == {i \in Filtered : samples[i].semantic = "interval_total"}
  IN SumFunction([b \in Buckets("interval_total") |-> IntervalValue(b)])
       = SumFunction([i \in kept |-> samples[i].value])

(* A gauge shows the observation of the latest time in each bucket, in     *)
(* whatever order the observations were stored, if they are of one quality *)
(* (usagedatabase.cpp, bucket_rank).                                       *)
LatestShown ==
  \A b \in Buckets("gauge") :
    LET seen == InBucket("gauge", b)
    IN Cardinality({samples[i].quality : i \in seen}) = 1 =>
         \A v \in PointValues("gauge", b) :
           \E i \in seen : /\ samples[i].value = v
                           /\ \A j \in seen : samples[j].at <= samples[i].at

(* A gap is marked exactly where time without observations lies between    *)
(* two with: the chart never joins points that are not neighbours          *)
(* (buildHistorySeriesPayload, previousIndex).                             *)
GapsAreMissing ==
  \A s \in Semantics :
    /\ Gaps(s) \intersect Buckets(s) = {}
    /\ \A a, b \in Buckets(s) :
         a < b /\ (\A c \in Buckets(s) : ~(a < c /\ c < b)) =>
           (b > a + 1 <=> \E g \in Gaps(s) : a < g /\ g < b)

(* The buckets cover the range, both ends included, and are never more     *)
(* than one above the cap (MAX_SERIES_POINTS).                             *)
BucketsBounded ==
  \A s \in Semantics :
    /\ Buckets(s) \subseteq 0 .. MaxPoints
    /\ \A i \in Filtered : Bucket(samples[i].at) * EffectiveBucketSeconds <= samples[i].at

SeriesIsFaithful == IntervalsKept /\ LatestShown /\ GapsAreMissing /\ BucketsBounded
=============================================================================
