------------------------------- MODULE Grade -------------------------------
(***************************************************************************)
(* The report (internal/grade): one summary per source of the rollup rows   *)
(* and outages of a window, its label, and the comparison of two sources.   *)
(*                                                                         *)
(* The state is what the agents have written to the database; everything    *)
(* else is computed from it.  A weighted mean is kept as a fraction, a      *)
(* pair <<numerator, denominator>>.  The columns p50, p90 and dns failures, *)
(* which neither the label nor the comparison looks at, are left out.       *)
(***************************************************************************)
EXTENDS Integers, FiniteSets, FiniteSetsExt, Functions

CONSTANTS
  Source, Target, Bucket,
  Rows,          \* the rollup rows an agent may write
  Durations,     \* how long an outage may last, in seconds
  LossBands, P95Bands, P99Bands,   \* thresholds: [Band -> Nat], in percent and ms
  MediumDays, HighDays,            \* days of data (2 and 7), in buckets
  MediumSamples, HighSamples,      \* samples (10000 and 100000)
  MaxRows,       \* bound: how many rows are written
  MaxOutages,    \* bound: [Source -> Nat], how many outages are recorded
  NoRow,
  Tie            \* the winner where there is none

Label == {"excellent", "good", "fair", "poor", "bad"}
Band == Label \ {"bad"}

ASSUME GradeAssumption ==
  /\ \A r \in Rows : /\ r.samples \in Nat \ {0}
                     /\ r.fails \in 0 .. r.samples
                     /\ r.p95 \in Nat /\ r.p99 \in Nat
  /\ {LossBands, P95Bands, P99Bands} \subseteq [Band -> Nat]
  /\ NoRow \notin Rows
  /\ {MediumDays, HighDays, MediumSamples, HighSamples} \subseteq Nat
  /\ MediumDays <= HighDays /\ MediumSamples <= HighSamples
  /\ Durations \subseteq Nat
  /\ IsFiniteSet(Target) /\ IsFiniteSet(Bucket) /\ IsFiniteSet(Durations)
  /\ Tie \notin Source

VARIABLES
  table,     \* ping_rollups: [Source -> [Target \X Bucket -> Row or NoRow]]
  outages    \* outage_events: [Source -> [Durations -> Nat]], how many of each duration

vars == <<table, outages>>

-----------------------------------------------------------------------------
(* Summarize.                                                              *)

Keys(s, targets) == {k \in targets \X Bucket : table[s][k] # NoRow}

Samples(s, keys) == MapThenSumSet(LAMBDA k : table[s][k].samples, keys)

Loss(s, keys) ==
  <<100 * MapThenSumSet(LAMBDA k : table[s][k].fails, keys), Samples(s, keys)>>

\* The mean of a column over some rows, weighted by samples.
P95(s, keys) ==
  <<MapThenSumSet(LAMBDA k : table[s][k].p95 * table[s][k].samples, keys),
    Samples(s, keys)>>
P99(s, keys) ==
  <<MapThenSumSet(LAMBDA k : table[s][k].p99 * table[s][k].samples, keys),
    Samples(s, keys)>>

\* What stays 0 where there are no samples.
OrZero(v) == IF v[2] = 0 THEN <<0, 1>> ELSE v

\* The durations of the outages in a table of them.
Ended(events) == {d \in Durations : events[d] > 0}

\* Variant: the shortest outage is kept for the longest.
LongestTurned(events) == Min(Ended(events) \cup {1000})
Longest(events) == Max(Ended(events) \cup {0})

\* The rows of one target, in perTarget.
\* Variant: the sums are not weighted, though the divisor is.
TargetP95Plain(s, t) ==
  <<MapThenSumSet(LAMBDA k : table[s][k].p95, Keys(s, {t})), Samples(s, Keys(s, {t}))>>
TargetP95(s, t) == P95(s, Keys(s, {t}))

Known(s) == Keys(s, Target) # {} \/ Ended(outages[s]) # {}

Summary(s, events) ==
  LET own == Keys(s, Target)
  IN [samples |-> Samples(s, own),
      loss |-> OrZero(Loss(s, own)),
      p95 |-> OrZero(P95(s, own)),
      p99 |-> OrZero(P99(s, own)),
      count |-> SumFunction(events),
      longest |-> Longest(events),
      days |-> Cardinality({k[2] : k \in own})]   \* in buckets

-----------------------------------------------------------------------------
(* The label of a source.                                                  *)

Under(v, x) == v[1] < x * v[2]

Latency(v, b) ==
  CASE Under(v, b["excellent"]) -> "excellent"
    [] ~ Under(v, b["excellent"]) /\ Under(v, b["good"]) -> "good"
    [] ~ Under(v, b["excellent"]) /\ ~ Under(v, b["good"]) /\ Under(v, b["fair"]) -> "fair"
    [] OTHER -> IF Under(v, b["poor"]) THEN "poor" ELSE "bad"

\* bandLossPct takes its first band to the threshold itself.
LossLabel(v, b) ==
  IF v[1] <= b["excellent"] * v[2] THEN "excellent"
  ELSE Latency(v, [b EXCEPT !["excellent"] = 0])

OutageLabel(count, longest) ==
  CASE count = 0 -> "excellent"
    [] count = 1 /\ longest < 60 -> "good"
    [] count \in 1 .. 3 /\ longest < 300 /\ ~ (count = 1 /\ longest < 60) -> "fair"
    [] count \in 1 .. 10 /\ ~ (count <= 3 /\ longest < 300) -> "poor"
    [] count > 10 -> "bad"

LabelRank(l) ==
  CASE l = "excellent" -> 4 [] l = "good" -> 3 [] l = "fair" -> 2 [] l = "poor" -> 1
    [] l = "bad" -> 0

Grade(s, events) ==
  LET x == Summary(s, events)
      labels == {LossLabel(x.loss, LossBands), Latency(x.p95, P95Bands),
                 Latency(x.p99, P99Bands), OutageLabel(x.count, x.longest)}
  IN CHOOSE l \in labels : \A m \in labels : LabelRank(l) <= LabelRank(m)

Confidence(days, samples) ==
  IF days >= HighDays /\ samples >= HighSamples THEN "high"
  ELSE IF days >= MediumDays /\ samples >= MediumSamples THEN "medium" ELSE "low"

SingleConfidence(s) ==
  LET x == Summary(s, outages[s]) IN Confidence(x.days, x.samples)

-----------------------------------------------------------------------------
(* PickWinner.                                                             *)

Abs(n) == IF n < 0 THEN -n ELSE n
Less(v, w) == v[1] * w[2] < w[1] * v[2]

\* Differences below 0.0001 do not count.
Near(v, w) == 10000 * Abs(v[1] * w[2] - w[1] * v[2]) < v[2] * w[2]

\* 1 if the first source leads on an axis, -1 if the second one does.
\* Variant: no two values are the same.
CmpPlain(v, w) == IF Less(v, w) THEN 1 ELSE -1
CmpLower(v, w) == IF Near(v, w) THEN 0 ELSE IF Less(v, w) THEN 1 ELSE -1

\* The targets both have rows for on which a has the lower p95.
Leads(a, b) == {t \in Target : /\ Keys(a, {t}) # {} /\ Keys(b, {t}) # {}
                               /\ Less(TargetP95(a, t), TargetP95(b, t))}

Sign(n) == IF n > 0 THEN 1 ELSE IF n < 0 THEN -1 ELSE 0

TargetAxis(a, b) == Sign(Cardinality(Leads(a, b)) - Cardinality(Leads(b, a)))

\* x and y are the summaries of sources a and b.
Axes(a, b, x, y) ==
  <<CmpLower(x.loss, y.loss), CmpLower(x.p95, y.p95), CmpLower(x.p99, y.p99),
    CmpLower(<<x.count, 1>>, <<y.count, 1>>), TargetAxis(a, b)>>

\* Variant: the source with more samples vouches for both.
ScoreConfidenceOfMore(x, y, lead) ==
  LET days == Min({x.days, y.days})
      samples == Max({x.samples, y.samples})
  IN IF lead >= 3 THEN Confidence(days, samples)
     ELSE IF lead = 2 /\ Confidence(days, samples) # "low" THEN "medium" ELSE "low"

\* A lead of three is asked of a high confidence, one of two of a medium one.
ScoreConfidence(x, y, lead) ==
  LET days == Min({x.days, y.days})
      samples == Min({x.samples, y.samples})
  IN IF lead >= 3 THEN Confidence(days, samples)
     ELSE IF lead = 2 /\ Confidence(days, samples) # "low" THEN "medium" ELSE "low"

PickWinner(a, b) ==
  IF ~ Known(a) \/ ~ Known(b) THEN [source |-> Tie, confidence |-> "low"]
  ELSE LET x == Summary(a, outages[a])
           y == Summary(b, outages[b])
           axes == Axes(a, b, x, y)
           scoreA == Cardinality({i \in 1 .. 5 : axes[i] = 1})
           scoreB == Cardinality({i \in 1 .. 5 : axes[i] = -1})
       IN [source |-> IF scoreA = scoreB THEN Tie
                      ELSE IF scoreA > scoreB THEN a ELSE b,
           confidence |-> ScoreConfidence(x, y, Abs(scoreA - scoreB))]

-----------------------------------------------------------------------------
(* What the agents write.                                                  *)

Written == {w \in Source \X (Target \X Bucket) : table[w[1]][w[2]] # NoRow}

WriteRow ==
  \E s \in Source : \E k \in Target \X Bucket : \E r \in Rows :
    /\ Cardinality(Written) < MaxRows
    /\ table[s][k] = NoRow
    /\ table' = [table EXCEPT ![s][k] = r]
    /\ UNCHANGED outages

RecordOutage ==
  \E s \in Source : \E d \in Durations :
    /\ SumFunction(outages[s]) < MaxOutages[s]
    /\ outages' = [outages EXCEPT ![s][d] = @ + 1]
    /\ UNCHANGED table

Init ==
  /\ table = [s \in Source |-> [k \in Target \X Bucket |-> NoRow]]
  /\ outages = [s \in Source |-> [d \in Durations |-> 0]]

Next == WriteRow \/ RecordOutage

Spec == Init /\ [][Next]_vars

-----------------------------------------------------------------------------
(* Properties.                                                             *)

\* An outage never helps: without any one of its outages the label of a source would
\* be the same or a better one, however short that outage was.
OutagesNeverHelp ==
  \A s \in Source : \A d \in Ended(outages[s]) :
    LET without == [outages[s] EXCEPT ![d] = @ - 1]
    IN LabelRank(Grade(s, outages[s])) <= LabelRank(Grade(s, without))

\* The verdict on two sources, with its confidence, does not depend on which of them
\* is named first.
WinnerSymmetric ==
  \A a, b \in Source : a # b => PickWinner(a, b) = PickWinner(b, a)

\* Row by row, a has done at least as well as b on the same number of samples.
NoWorse(a, b) ==
  /\ SumFunction(outages[a]) <= SumFunction(outages[b])
  /\ \A k \in Target \X Bucket :
       LET x == table[a][k]
           y == table[b][k]
       IN \/ x = NoRow /\ y = NoRow
          \/ /\ x # NoRow /\ y # NoRow
             /\ x.samples = y.samples /\ x.fails <= y.fails
             /\ x.p95 <= y.p95 /\ x.p99 <= y.p99

\* A source that did at least as well in every row, and has no more outages, does not
\* lose the comparison: the five axes, each averaged in its own way, agree.
BetterNeverLoses ==
  \A a, b \in Source : a # b /\ NoWorse(a, b) => PickWinner(a, b).source # b

ConfidenceRank(c) == CASE c = "low" -> 0 [] c = "medium" -> 1 [] c = "high" -> 2

\* A comparison is never more confident than the report on either source alone.
ConfidenceEarned ==
  \A a, b \in Source : a # b =>
    LET c == ConfidenceRank(PickWinner(a, b).confidence)
    IN c <= ConfidenceRank(SingleConfidence(a)) /\ c <= ConfidenceRank(SingleConfidence(b))

\* The p95 of a source lies between those of its best and its worst target: the two
\* tables of a report agree.
SourceBetweenTargets ==
  \A s \in Source :
    LET own == {t \in Target : Keys(s, {t}) # {}}
        all == P95(s, Keys(s, Target))
    IN own # {} => /\ \E t \in own : ~ Less(all, TargetP95(s, t))
                   /\ \E t \in own : ~ Less(TargetP95(s, t), all)

\* A source that lost every ping is never the winner over one that lost none
\* ("Winner picks the better source for multi-ISP mode").
DeadNeverWins ==
  \A a, b \in Source :
    LET x == Summary(a, outages[a])
        y == Summary(b, outages[b])
    IN /\ x.samples > 0 /\ x.loss[1] = 100 * x.loss[2]
       /\ y.samples > 0 /\ y.loss[1] = 0
       => PickWinner(a, b).source # a

=============================================================================
