------------------------------- MODULE Rollup -------------------------------
(***************************************************************************)
(* The rollup accumulator (internal/rollup) and the ping_rollups table that *)
(* UpsertRollups adds its rows to (internal/db), for one source and target.  *)
(*                                                                         *)
(* A bucket may reach the table in several segments: a late sample makes a   *)
(* flushed bucket anew, and a restart flushes an open one.  The rows of one  *)
(* bucket are then combined by the ON CONFLICT clause.                      *)
(*                                                                         *)
(* A sample is its outcome: Lost or the latency of the reply.  The table's   *)
(* fractional columns are kept as Scale times their value times the number   *)
(* of samples, a weighted mean being then a sum; Scale is a multiple of all   *)
(* that is divided by, so this is exact.  The columns about lookups           *)
(* (dns_failures, dns_failure_pct) are left out, and so is loss_pct, which is  *)
(* always the quotient of two columns that are kept.                         *)
(***************************************************************************)
EXTENDS Integers, Sequences, FiniteSets, SequencesExt

CONSTANTS
  Window,    \* the rollup window, in steps of time
  MaxTime,   \* bound: the last step of time
  Late,      \* bound: how many steps a sample may be late
  MaxSample, \* bound: how many samples are taken
  Latency,   \* the latencies of replies
  Crashing,  \* may the process be killed in this run?
  Scale,     \* unit of the table's fractional columns
  Lost       \* the outcome of a ping without a reply

ASSUME RollupAssumption ==
  /\ Window \in Nat \ {0}
  /\ MaxTime \in Nat /\ Late \in Nat
  /\ MaxSample \in Nat /\ Scale \in Nat \ {0}
  /\ \A n \in (1 .. MaxSample) \cup {100} : Scale % n = 0
  /\ Latency \subseteq Nat \ {0}
  /\ Crashing \in BOOLEAN
  /\ Lost \notin Latency

Quantile == {50, 90, 95, 99}
Bucket == 0 .. MaxTime \div Window

VARIABLES
  now,
  buckets,   \* [Bucket -> Seq(outcome)]: the accumulator; <<>> if there is no entry
  table,     \* [Bucket -> row]: ping_rollups; samples = 0 if there is no row
  flushed    \* history: [Bucket -> Seq(outcome)]: the samples behind the table

vars == <<now, buckets, table, flushed>>

-----------------------------------------------------------------------------
(* Finalize: the row of a bucket.                                          *)

Replies(seq) ==
  FlattenSeq([i \in DOMAIN seq |-> IF seq[i] = Lost THEN <<>> ELSE <<seq[i]>>])

Arranged(seq) == {[i \in DOMAIN seq |-> seq[p[i]]] : p \in Bijection(DOMAIN seq, DOMAIN seq)}

\* sort.Float64s: the replies in ascending order.
Sorted(seq) == CHOOSE s \in Arranged(Replies(seq)) : IsSorted(s, <=)

\* Variant: a lost ping is counted with its failed lookup, too.
LossesTwice(seq) == 2 * (Len(seq) - Len(Replies(seq)))

Losses(seq) == Len(seq) - Len(Replies(seq))

\* Variant: the two ranks change places in the interpolation.
PercentileSwapped(sorted, k) ==
  LET rank == k * (Len(sorted) - 1)
      lo == rank \div 100
      frac == rank % 100
  IN IF frac = 0 THEN Scale * sorted[lo + 1]
     ELSE Scale * sorted[lo + 2]
            + (Scale \div 100) * frac * (sorted[lo + 1] - sorted[lo + 2])

\* Linear interpolation between the two nearest ranks, times Scale.
Percentile(sorted, k) ==
  LET rank == k * (Len(sorted) - 1)
      lo == rank \div 100
      frac == rank % 100
  IN IF frac = 0 THEN Scale * sorted[lo + 1]
     ELSE Scale * sorted[lo + 1]
            + (Scale \div 100) * frac * (sorted[lo + 2] - sorted[lo + 1])

NoRow == [samples |-> 0, fails |-> 0, min |-> 0, max |-> 0, avg |-> 0,
          q |-> [k \in Quantile |-> 0]]

\* Without a reply every latency column is 0.
Finalize(seq) ==
  LET s == Sorted(seq)
      n == Len(seq)
  IN IF s = <<>> THEN [NoRow EXCEPT !.samples = n, !.fails = n]
     ELSE [samples |-> n,
           fails |-> Losses(seq),
           min |-> s[1],
           max |-> s[Len(s)],
           avg |-> n * ((Scale * SumFunction(s)) \div Len(s)),
           q |-> [k \in Quantile |-> n * Percentile(s, k)]]

-----------------------------------------------------------------------------
(* SampleAggregates: the same columns, computed from raw samples in SQL.     *)

\* The latency of rank n among the replies, counted from 0.
Ranked(seq, n) ==
  LET upTo(v) == Cardinality({i \in DOMAIN seq : seq[i] # Lost /\ seq[i] <= v})
  IN CHOOSE v \in ToSet(Replies(seq)) :
       /\ upTo(v) > n
       /\ \A w \in ToSet(Replies(seq)) : w < v => upTo(w) <= n

\* percentile_cont, times Scale: the rows on either side of the wanted one, each weighted
\* by its distance from the other.
PercentileCont(seq, k) ==
  LET row == k * (Len(Replies(seq)) - 1)   \* in hundredths
      floor == row \div 100
      ceiling == (row + 99) \div 100
  IN IF floor = ceiling THEN Scale * Ranked(seq, floor)
     ELSE (Scale \div 100) * ( (100 * ceiling - row) * Ranked(seq, floor)
                              + (row - 100 * floor) * Ranked(seq, ceiling) )

\* A failed ping has latency NULL, which every aggregate but COUNT(*) passes over.
Query(seq) ==
  LET n == Len(seq)
      replies == ToSet(Replies(seq))
  IN IF replies = {} THEN [NoRow EXCEPT !.samples = n, !.fails = n]
     ELSE [samples |-> n,
           fails |-> Cardinality({i \in DOMAIN seq : seq[i] = Lost}),
           min |-> Min(replies),
           max |-> Max(replies),
           avg |-> n * ((Scale * SumFunction(Replies(seq))) \div Len(Replies(seq))),
           q |-> [k \in Quantile |-> n * PercentileCont(seq, k)]]

-----------------------------------------------------------------------------
(* UpsertRollups: ON CONFLICT DO UPDATE.                                   *)

\* Variant: LEAST without the guard for rows that had no reply.
LeastPlain(a, b) == IF a <= b THEN a ELSE b

\* 0 stands for no minimum.
LeastSet(a, b) == IF a = 0 THEN b ELSE IF b = 0 \/ a <= b THEN a ELSE b

Combine(old, row) ==
  [samples |-> old.samples + row.samples,
   fails |-> old.fails + row.fails,
   min |-> LeastSet(old.min, row.min),
   max |-> IF old.max >= row.max THEN old.max ELSE row.max,
   avg |-> old.avg + row.avg,
   q |-> [k \in Quantile |-> old.q[k] + row.q[k]]]

\* The rows of the buckets in B are written and their entries deleted.
Upsert(B) ==
  /\ table' = [b \in Bucket |->
                 IF b \in B THEN IF table[b].samples = 0 THEN Finalize(buckets[b])
                                 ELSE Combine(table[b], Finalize(buckets[b]))
                 ELSE table[b]]
  /\ flushed' = [b \in Bucket |-> IF b \in B THEN flushed[b] \o buckets[b]
                                  ELSE flushed[b]]
  /\ buckets' = [b \in Bucket |-> IF b \in B THEN <<>> ELSE buckets[b]]

-----------------------------------------------------------------------------
Taken == SumFunction([b \in Bucket |-> Len(buckets[b]) + Len(flushed[b])])

\* A sample arrives some time after its timestamp was taken.
Consume ==
  /\ Taken < MaxSample
  /\ \E ts \in 0 .. now, x \in Latency \cup {Lost} :
       /\ ts + Late >= now
       /\ buckets' = [buckets EXCEPT ![ts \div Window] = Append(@, x)]
  /\ UNCHANGED <<now, table, flushed>>

Entries == {b \in Bucket : buckets[b] # <<>>}

\* A bucket is closed when its window has ended.
Flush ==
  /\ \E b \in Entries : (b + 1) * Window <= now
  /\ Upsert({b \in Entries : (b + 1) * Window <= now})
  /\ UNCHANGED now

\* The final flush; a new process goes on with an empty accumulator.
FlushAll ==
  /\ Entries # {}
  /\ Upsert(Entries)
  /\ UNCHANGED now

Crash ==
  /\ Crashing
  /\ Entries # {}
  /\ buckets' = [b \in Bucket |-> <<>>]
  /\ UNCHANGED <<now, table, flushed>>

Tick ==
  /\ now < MaxTime
  /\ now' = now + 1
  /\ UNCHANGED <<buckets, table, flushed>>

Init ==
  /\ now = 0
  /\ buckets = [b \in Bucket |-> <<>>]
  /\ table = [b \in Bucket |-> NoRow]
  /\ flushed = [b \in Bucket |-> <<>>]

Next == Consume \/ Flush \/ FlushAll \/ Crash \/ Tick

Spec == Init /\ [][Next]_vars

-----------------------------------------------------------------------------
(* Properties.                                                             *)

TypeOK ==
  /\ now \in 0 .. MaxTime
  /\ \A b \in Bucket :
       /\ ToSet(buckets[b] \o flushed[b]) \subseteq Latency \cup {Lost}
       /\ table[b].samples \in 0 .. MaxSample
       /\ table[b].fails \in 0 .. table[b].samples

\* However a bucket came to the table, in one segment or several, with late samples
\* and restarts between them, its counts, its minimum and its maximum are those of
\* all its samples together.
SegmentsAddUp ==
  \A b \in Bucket :
    LET whole == Finalize(flushed[b])
    IN /\ table[b].samples = whole.samples
       /\ table[b].fails = whole.fails
       /\ table[b].min = whole.min
       /\ table[b].max = whole.max

\* The percentile columns of a row never cross, blended or not.
QuantilesOrdered ==
  \A b \in Bucket : \A j, k \in Quantile :
    j < k => table[b].q[j] <= table[b].q[k]

\* Charts of short windows, which ask the raw samples, and those of long ones, which draw
\* the rows, use the same measures: a bucket flushed now would get, in every column kept, the
\* values that the query finds for its samples ("matching the rollup accumulator's
\* linear-interpolation definition").
RowsMatchQuery ==
  \A b \in Entries : Finalize(buckets[b]) = Query(buckets[b])

=============================================================================
