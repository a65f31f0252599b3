----------------------------- MODULE Histogram -----------------------------
(***************************************************************************)
(* The latency histograms: recorded from any number of threads without a   *)
(* lock, read as percentiles, merged with Add.  A call of RecordMany adds  *)
(* to the counters and then loads the minimum, and after it the maximum,   *)
(* and exchanges them if they have not changed since.                      *)
(***************************************************************************)
LOCAL INSTANCE Integers
LOCAL INSTANCE FiniteSets
LOCAL INSTANCE FiniteSetsExt

CONSTANTS
  Recorders,        \* threads that call RecordMany
  HistValues,       \* the values they record
  HistWeights,      \* the counts they record them with
  MaxTrackable,     \* max_trackable_
  Digits,           \* significant_digits_
  HistCalls         \* bound on the calls

ASSUME HistogramAssumption == MaxTrackable \in Nat \ {0, 1} /\ Digits \in 1 .. 5

VARIABLES
  hist,             \* the histograms: the one read, and one to be merged
  task,             \* the call each recorder is in
  samples,          \* how often each value has been recorded in each
  hollow,           \* an empty histogram has been merged
  calls             \* how many calls have been made

histVars == <<hist, task, samples, hollow, calls>>

Unset == 1000000    \* INT64_MAX, the min_ of an empty histogram
-----------------------------------------------------------------------------
(***************************************************************************)
(* The layout.                                                             *)
(***************************************************************************)
PrecisionBits == CHOOSE b \in 1 .. 20 : 2^b >= 2 * 10^Digits /\ 2^(b - 1) < 2 * 10^Digits

SubBuckets == 2^PrecisionBits
HalfCount == SubBuckets \div 2

BucketCount ==
  1 + Cardinality({k \in 0 .. 20 : SubBuckets * 2^k <= MaxTrackable})

CountsLen == (BucketCount + 1) * HalfCount

BitLength(v) == CHOOSE n \in 0 .. 30 : v < 2^n /\ (n > 0 => v >= 2^(n - 1))

(* value | sub_bucket_mask_ has as many bits as the larger of the two.     *)
BucketOf(v) == BitLength(Max({v, SubBuckets - 1})) - PrecisionBits

IndexFor(v) ==
  LET b == BucketOf(v)
      index == (b + 1) * HalfCount + (v \div 2^b - HalfCount)
  IN  IF index < CountsLen THEN index ELSE CountsLen - 1

ValueForIndex(index) ==
  LET b == index \div HalfCount - 1
  IN  IF b < 0 THEN index % HalfCount
      ELSE ((index % HalfCount) + HalfCount) * 2^b

SlotWidth(index) ==
  LET b == index \div HalfCount IN 2^(IF b > 0 THEN b - 1 ELSE 0)

(* The samples at or below slot i, and the percentile (in thousandths)     *)
(* that ValueAtPercentile reads off them.                                  *)
Running(h, i) == MapThenSumSet(LAMBDA k : h.counts[k], 0 .. i)

Rank(total, permille) ==
  LET target == (2 * permille * total + 1000) \div 2000
  IN  IF target = 0 THEN 1 ELSE IF target > total THEN total ELSE target

ValueAtPercentile(h, permille) ==
  LET target == Rank(h.total, permille)
      reached == {i \in 0 .. CountsLen - 1 : Running(h, i) >= target}
  IN  IF h.total = 0 THEN 0
      ELSE IF reached = {} THEN h.max
      ELSE ValueForIndex(Min(reached)) + SlotWidth(Min(reached)) - 1

HistMin(h) == IF h.min = Unset THEN 0 ELSE h.min
-----------------------------------------------------------------------------
Empty == [counts |-> [i \in 0 .. CountsLen - 1 |-> 0], total |-> 0,
          overflow |-> 0, min |-> Unset, max |-> 0, sum |-> 0]

Idle == [at |-> "idle", into |-> "none", value |-> 0, seen |-> 0]

Clamped(v) == IF v < 0 THEN 0 ELSE IF v > MaxTrackable THEN MaxTrackable ELSE v

Hists == {"read", "other"}

HistInit ==
  /\ hist = [h \in Hists |-> Empty]
  /\ task = [r \in Recorders |-> Idle]
  /\ samples = [h \in Hists |-> [v \in HistValues |-> 0]]
  /\ hollow = FALSE
  /\ calls = 0

AllIdle == \A r \in Recorders : task[r] = Idle

(* The part of RecordMany that only adds: to a slot, the count, the sum    *)
(* and the overflow.  The additions commute with every step of another     *)
(* call, and are one step.                                                 *)
RecordMany(r, h, v, n) ==
  /\ task[r] = Idle /\ calls < HistCalls
  /\ LET value == Clamped(v)
     IN  /\ hist' = [hist EXCEPT ![h].counts[IndexFor(value)] = @ + n,
                                 ![h].total = @ + n,
                                 ![h].overflow = IF v > MaxTrackable THEN @ + n ELSE @,
                                 ![h].sum = @ + value * n]
         /\ task' = [task EXCEPT ![r] = [at |-> "min", into |-> h, value |-> value, seen |-> 0]]
  /\ samples' = [samples EXCEPT ![h][v] = @ + n]
  /\ calls' = calls + 1
  /\ UNCHANGED hollow

(* The field an extreme is kept in, whether a value replaces what was      *)
(* observed there, and what RecordMany goes on to.                         *)
Extreme(at) == CASE at \in {"min", "mincas"} -> "min"
                 [] at \in {"max", "maxcas"} -> "max"

Beyond(field, value, observed) ==
  IF field = "min" THEN value < observed ELSE value > observed

Trying(field) == IF field = "min" THEN "mincas" ELSE "maxcas"

After(r, field) ==
  IF field = "min" THEN [task[r] EXCEPT !.at = "max", !.seen = 0] ELSE Idle

(* The load, or the failed exchange, that shows the value in the field.    *)
Observe(r, field) ==
  LET observed == hist[task[r].into][field]
  IN  task' = [task EXCEPT ![r] =
        IF Beyond(field, task[r].value, observed)
        THEN [task[r] EXCEPT !.at = Trying(field), !.seen = observed]
        ELSE After(r, field)]

RecordLoad(r) ==
  /\ task[r].at \in {"min", "max"}
  /\ Observe(r, Extreme(task[r].at))
  /\ UNCHANGED <<hist, samples, hollow, calls>>

\* The value is stored whatever the field has become.
Bug_RecordExchange(r) ==
  LET field == Extreme(task[r].at)
  IN  /\ task[r].at \in {"mincas", "maxcas"}
      /\ hist' = [hist EXCEPT ![task[r].into][field] = task[r].value]
      /\ task' = [task EXCEPT ![r] = After(r, field)]
      /\ UNCHANGED <<samples, hollow, calls>>

RecordExchange(r) ==
  LET field == Extreme(task[r].at)
  IN  /\ task[r].at \in {"mincas", "maxcas"}
      /\ \/ /\ hist[task[r].into][field] = task[r].seen
            /\ hist' = [hist EXCEPT ![task[r].into][field] = task[r].value]
            /\ task' = [task EXCEPT ![r] = After(r, field)]
         \/ Observe(r, field) /\ UNCHANGED hist
      /\ UNCHANGED <<samples, hollow, calls>>

(* Add and Reset, called while nobody records.                             *)
Add ==
  /\ AllIdle /\ calls < HistCalls
  /\ LET o == hist.other
     IN  hist' = [hist EXCEPT !.read =
           [counts |-> [i \in DOMAIN o.counts |-> @.counts[i] + o.counts[i]],
            total |-> @.total + o.total,
            overflow |-> @.overflow + o.overflow,
            min |-> Min({@.min, HistMin(o)}),
            max |-> Max({@.max, o.max}),
            sum |-> @.sum + o.sum]]
  /\ samples' = [samples EXCEPT !.read = [v \in HistValues |-> @[v] + samples.other[v]]]
  /\ hollow' = (hollow \/ hist.other.total = 0)
  /\ calls' = calls + 1
  /\ UNCHANGED task

Reset ==
  /\ AllIdle /\ calls < HistCalls
  /\ hist' = [hist EXCEPT !.read = Empty]
  /\ samples' = [samples EXCEPT !.read = [v \in HistValues |-> 0]]
  /\ hollow' = FALSE
  /\ calls' = calls + 1
  /\ UNCHANGED task

HistNext ==
  \/ \E r \in Recorders :
       \/ \E h \in Hists, v \in HistValues, n \in HistWeights : RecordMany(r, h, v, n)
       \/ RecordLoad(r) \/ RecordExchange(r)
  \/ Add \/ Reset
-----------------------------------------------------------------------------
(* What the samples say: how many lie in a set of recordable values.       *)
Tally(h, in(_)) == MapThenSumSet(LAMBDA v : IF in(v) THEN samples[h][v] ELSE 0, HistValues)

Recorded(h) == {Clamped(v) : v \in {w \in HistValues : samples[h][w] > 0}}

(* "Safe to call concurrently from any number of threads": once every call *)
(* has returned, nothing recorded by RecordMany or merged by Add is        *)
(* missing from the count, the sum, the overflow or the extremes.  The     *)
(* minimum is excepted after an empty histogram has been merged.           *)
NothingMissed ==
  AllIdle =>
    \A h \in Hists :
      /\ hist[h].total = Tally(h, LAMBDA v : TRUE)
      /\ Running(hist[h], CountsLen - 1) = hist[h].total
      /\ hist[h].overflow = Tally(h, LAMBDA v : v > MaxTrackable)
      /\ hist[h].sum = MapThenSumSet(LAMBDA v : samples[h][v] * Clamped(v), HistValues)
      /\ Recorded(h) # {} => hist[h].max = Max(Recorded(h))
      /\ Recorded(h) # {} /\ ~(hollow /\ h = "read") => HistMin(hist[h]) = Min(Recorded(h))

(* ValueAtPercentile covers the share of the samples it is asked for, to   *)
(* within the half sample it rounds by, and exceeds a sample of that rank  *)
(* by no more than the significant digits allow.                           *)
PercentilesBound ==
  AllIdle =>
    \A h \in {g \in Hists : Recorded(g) # {}}, permille \in {500, 900, 950, 990, 999} :
      LET p == ValueAtPercentile(hist[h], permille)
          wanted == 2 * permille * hist[h].total
      IN  /\ 2000 * Tally(h, LAMBDA v : Clamped(v) <= p) >= wanted - 1000
          /\ \E s \in Recorded(h) :
               /\ p >= s /\ (p - s) * 10^Digits <= s
               /\ 2000 * Tally(h, LAMBDA v : Clamped(v) < s) <= wanted - 1000

(* What a reader of the histogram is told is what was recorded in it.      *)
HistogramTells == NothingMissed /\ PercentilesBound
=============================================================================
