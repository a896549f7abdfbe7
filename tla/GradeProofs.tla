----------------------------- MODULE GradeProofs -----------------------------
(***************************************************************************)
(* Proofs about the report and the comparison, for any tables that agents   *)
(* may have written, any thresholds and any number of sources.              *)
(***************************************************************************)
EXTENDS Grade, Folding

\* What the database holds.
TablesOK ==
  /\ table \in [Source -> [Target \X Bucket -> Rows \cup {NoRow}]]
  /\ outages \in [Source -> [Durations -> Nat]]

LEMMA TablesStayOK == Spec => []TablesOK
<1>1. Init => TablesOK
  BY DEF Init, TablesOK
<1>2. TablesOK /\ [Next]_vars => TablesOK'
  <2>. SUFFICES ASSUME TablesOK, [Next]_vars PROVE TablesOK'
    OBVIOUS
  <2>1. CASE WriteRow
    <3>1. PICK s \in Source, k \in Target \X Bucket, r \in Rows :
            table' = [table EXCEPT ![s][k] = r]
      BY <2>1 DEF WriteRow
    <3>2. table' \in [Source -> [Target \X Bucket -> Rows \cup {NoRow}]]
      <4>. DEFINE C == Target \X Bucket
                  R == Rows \cup {NoRow}
      <4>1. table \in [Source -> [C -> R]] /\ k \in C /\ r \in R
        BY DEF TablesOK
      <4>. HIDE DEF C, R
      <4>2. [table[s] EXCEPT ![k] = r] \in [C -> R]
        BY <4>1
      <4>. QED
        BY <3>1, <4>1, <4>2 DEF C, R
    <3>. QED
      BY <2>1, <3>2 DEF WriteRow, TablesOK
  <2>2. CASE RecordOutage
    <3>1. PICK s \in Source, d \in Durations :
            outages' = [outages EXCEPT ![s][d] = @ + 1]
      BY <2>2 DEF RecordOutage
    <3>2. outages \in [Source -> [Durations -> Nat]]
      BY DEF TablesOK
    <3>3. [outages[s] EXCEPT ![d] = @ + 1] \in [Durations -> Nat]
      BY <3>2
    <3>4. outages' \in [Source -> [Durations -> Nat]]
      BY <3>1, <3>2, <3>3
    <3>. QED
      BY <2>2, <3>4 DEF RecordOutage, TablesOK
  <2>3. CASE UNCHANGED vars
    BY <2>3 DEF vars, TablesOK
  <2>. QED
    BY <2>1, <2>2, <2>3 DEF Next
<1>. QED
  BY <1>1, <1>2, PTL DEF Spec

-----------------------------------------------------------------------------
(* Sums over the rows of a source.                                         *)

Cell == Target \X Bucket

LEMMA CellsFinite == \A keys \in SUBSET Cell : IsFiniteSet(keys)
<1>1. IsFiniteSet(Cell)
  BY GradeAssumption, FS_Product DEF Cell
<1>. QED
  BY <1>1, FS_Subset

SamplesOf(s) == [k \in Cell |-> table[s][k].samples]
FailsOf(s) == [k \in Cell |-> table[s][k].fails]
P95Of(s) == [k \in Cell |-> table[s][k].p95 * table[s][k].samples]
P99Of(s) == [k \in Cell |-> table[s][k].p99 * table[s][k].samples]

LEMMA SamplesTotal ==
  ASSUME NEW s, NEW keys \in SUBSET Cell
  PROVE  Samples(s, keys) = Total(keys, SamplesOf(s))
<1>. DEFINE Adds(f) == f = [T \in SUBSET keys |->
              IF T = {} THEN 0 ELSE table[s][Chosen(T)].samples + f[T \ {Chosen(T)}]]
            h == CHOOSE f : Adds(f)
<1>1. \A T \in SUBSET keys : T # {} => Chosen(T) \in Cell
  BY ChosenIn
<1>2. \A f : Adds(f) <=> Sums(f, keys, SamplesOf(s))
  BY <1>1 DEF Sums, SamplesOf
<1>3. Samples(s, keys) = h[keys]
  BY DEF Samples, MapThenSumSet, MapThenFoldSet, Chosen
<1>4. \E f : Adds(f)
  <2>. HIDE DEF Adds
  <2>. QED
    BY <1>2, SumsExist, CellsFinite
<1>. HIDE DEF Adds
<1>5. Adds(h)
  BY <1>4
<1>. HIDE DEF h
<1>6. Sums(h, keys, SamplesOf(s))
  BY <1>2, <1>5
<1>. QED
  BY <1>3, <1>6, TotalUnique, CellsFinite

LEMMA FailsTotal ==
  ASSUME NEW s, NEW keys \in SUBSET Cell
  PROVE  MapThenSumSet(LAMBDA k : table[s][k].fails, keys) = Total(keys, FailsOf(s))
<1>. DEFINE Adds(f) == f = [T \in SUBSET keys |->
              IF T = {} THEN 0 ELSE table[s][Chosen(T)].fails + f[T \ {Chosen(T)}]]
            h == CHOOSE f : Adds(f)
<1>1. \A T \in SUBSET keys : T # {} => Chosen(T) \in Cell
  BY ChosenIn
<1>2. \A f : Adds(f) <=> Sums(f, keys, FailsOf(s))
  BY <1>1 DEF Sums, FailsOf
<1>3. MapThenSumSet(LAMBDA k : table[s][k].fails, keys) = h[keys]
  BY DEF MapThenSumSet, MapThenFoldSet, Chosen
<1>4. \E f : Adds(f)
  <2>. HIDE DEF Adds
  <2>. QED
    BY <1>2, SumsExist, CellsFinite
<1>. HIDE DEF Adds
<1>5. Adds(h)
  BY <1>4
<1>. HIDE DEF h
<1>6. Sums(h, keys, FailsOf(s))
  BY <1>2, <1>5
<1>. QED
  BY <1>3, <1>6, TotalUnique, CellsFinite

LEMMA P95Total ==
  ASSUME NEW s, NEW keys \in SUBSET Cell
  PROVE  MapThenSumSet(LAMBDA k : table[s][k].p95 * table[s][k].samples, keys) = Total(keys, P95Of(s))
<1>. DEFINE Adds(f) == f = [T \in SUBSET keys |->
              IF T = {} THEN 0 ELSE table[s][Chosen(T)].p95 * table[s][Chosen(T)].samples + f[T \ {Chosen(T)}]]
            h == CHOOSE f : Adds(f)
<1>1. \A T \in SUBSET keys : T # {} => Chosen(T) \in Cell
  BY ChosenIn
<1>2. \A f : Adds(f) <=> Sums(f, keys, P95Of(s))
  BY <1>1 DEF Sums, P95Of
<1>3. MapThenSumSet(LAMBDA k : table[s][k].p95 * table[s][k].samples, keys) = h[keys]
  BY DEF MapThenSumSet, MapThenFoldSet, Chosen
<1>4. \E f : Adds(f)
  <2>. HIDE DEF Adds
  <2>. QED
    BY <1>2, SumsExist, CellsFinite
<1>. HIDE DEF Adds
<1>5. Adds(h)
  BY <1>4
<1>. HIDE DEF h
<1>6. Sums(h, keys, P95Of(s))
  BY <1>2, <1>5
<1>. QED
  BY <1>3, <1>6, TotalUnique, CellsFinite

LEMMA P99Total ==
  ASSUME NEW s, NEW keys \in SUBSET Cell
  PROVE  MapThenSumSet(LAMBDA k : table[s][k].p99 * table[s][k].samples, keys) = Total(keys, P99Of(s))
<1>. DEFINE Adds(f) == f = [T \in SUBSET keys |->
              IF T = {} THEN 0 ELSE table[s][Chosen(T)].p99 * table[s][Chosen(T)].samples + f[T \ {Chosen(T)}]]
            h == CHOOSE f : Adds(f)
<1>1. \A T \in SUBSET keys : T # {} => Chosen(T) \in Cell
  BY ChosenIn
<1>2. \A f : Adds(f) <=> Sums(f, keys, P99Of(s))
  BY <1>1 DEF Sums, P99Of
<1>3. MapThenSumSet(LAMBDA k : table[s][k].p99 * table[s][k].samples, keys) = h[keys]
  BY DEF MapThenSumSet, MapThenFoldSet, Chosen
<1>4. \E f : Adds(f)
  <2>. HIDE DEF Adds
  <2>. QED
    BY <1>2, SumsExist, CellsFinite
<1>. HIDE DEF Adds
<1>5. Adds(h)
  BY <1>4
<1>. HIDE DEF h
<1>6. Sums(h, keys, P99Of(s))
  BY <1>2, <1>5
<1>. QED
  BY <1>3, <1>6, TotalUnique, CellsFinite

\* What the rows of a source hold.
LEMMA ColumnsNat ==
  ASSUME TablesOK, NEW s \in Source, NEW k \in Keys(s, Target)
  PROVE  /\ k \in Cell
         /\ SamplesOf(s)[k] \in Nat \ {0}
         /\ FailsOf(s)[k] \in Nat
         /\ P95Of(s)[k] \in Nat
         /\ P99Of(s)[k] \in Nat
<1>1. k \in Cell /\ table[s][k] \in Rows
  BY DEF Keys, TablesOK, Cell
<1>. DEFINE r == table[s][k]
<1>2. r.samples \in Nat \ {0} /\ r.fails \in 0 .. r.samples /\ r.p95 \in Nat /\ r.p99 \in Nat
  BY <1>1, GradeAssumption
<1>3. /\ SamplesOf(s)[k] = r.samples
      /\ FailsOf(s)[k] = r.fails
      /\ P95Of(s)[k] = r.p95 * r.samples
      /\ P99Of(s)[k] = r.p99 * r.samples
  BY <1>1 DEF SamplesOf, FailsOf, P95Of, P99Of
<1>. HIDE DEF r
<1>4. r.p95 * r.samples \in Nat /\ r.p99 * r.samples \in Nat
  BY <1>2
<1>. QED
  BY <1>1, <1>2, <1>3, <1>4

LEMMA KeysFinite ==
  ASSUME NEW s, NEW T \in SUBSET Target
  PROVE  Keys(s, T) \in SUBSET Cell /\ IsFiniteSet(Keys(s, T)) /\ Keys(s, T) \subseteq Keys(s, Target)
<1>1. Keys(s, T) \in SUBSET Cell /\ Keys(s, T) \subseteq Keys(s, Target)
  BY DEF Keys, Cell
<1>. QED
  BY <1>1, CellsFinite

\* A fraction whose denominator is not 0.
Fraction == Nat \X (Nat \ {0})

\* The figures of a source, for any table of outages.
LEMMA SummaryTypes ==
  ASSUME TablesOK, NEW s \in Source, NEW events \in [Durations -> Nat]
  PROVE  /\ Summary(s, events).samples \in Nat
         /\ Summary(s, events).days \in Nat
         /\ Summary(s, events).count \in Nat
         /\ Summary(s, events).loss \in Fraction
         /\ Summary(s, events).p95 \in Fraction
         /\ Summary(s, events).p99 \in Fraction
<1>. DEFINE own == Keys(s, Target)
<1>1. own \in SUBSET Cell /\ IsFiniteSet(own)
  BY KeysFinite
<1>2. Samples(s, own) \in Nat
  BY <1>1, ColumnsNat, SamplesTotal, TotalNat
<1>3. Total(own, FailsOf(s)) \in Nat /\ Total(own, P95Of(s)) \in Nat /\ Total(own, P99Of(s)) \in Nat
  BY <1>1, ColumnsNat, TotalNat
<1>4. \A v \in Nat \X Nat : OrZero(v) \in Fraction
  BY DEF OrZero, Fraction
<1>5. Loss(s, own) \in Nat \X Nat
  <2>1. Loss(s, own) = <<100 * Total(own, FailsOf(s)), Samples(s, own)>>
    BY <1>1, FailsTotal DEF Loss
  <2>2. 100 * Total(own, FailsOf(s)) \in Nat
    BY <1>3
  <2>. QED
    BY <1>2, <2>1, <2>2
<1>6. P95(s, own) \in Nat \X Nat
  BY <1>1, <1>2, <1>3, P95Total DEF P95
<1>7. P99(s, own) \in Nat \X Nat
  BY <1>1, <1>2, <1>3, P99Total DEF P99
<1>8. SumFunction(events) \in Nat
  <2>1. SumFunction(events) = Total(Durations, events)
    <3>1. DOMAIN events = Durations
      OBVIOUS
    <3>. QED
      BY <3>1, TotalFunction
  <2>2. \A d \in Durations : events[d] \in Nat
    OBVIOUS
  <2>3. IsFiniteSet(Durations)
    BY GradeAssumption
  <2>. QED
    BY <2>1, <2>2, <2>3, TotalNat
<1>9. Cardinality({k[2] : k \in own}) \in Nat
  <2>1. {k[2] : k \in own} \in SUBSET Bucket
    BY DEF Keys
  <2>. QED
    BY <2>1, GradeAssumption, FS_Subset, FS_CardinalityType
<1>. QED
  BY <1>2, <1>4, <1>5, <1>6, <1>7, <1>8, <1>9 DEF Summary

-----------------------------------------------------------------------------
(* Comparing two figures.                                                  *)

\* The cross products that a comparison looks at.
LEMMA Products ==
  ASSUME NEW v \in Fraction, NEW w \in Fraction
  PROVE  /\ v[1] * w[2] \in Nat /\ w[1] * v[2] \in Nat
         /\ v[2] * w[2] \in Nat \ {0} /\ w[2] * v[2] = v[2] * w[2]
<1>1. \A m, n \in Nat : m * n \in Nat
  OBVIOUS
<1>2. \A m, n \in Nat \ {0} : m * n # 0 /\ n * m = m * n
  OBVIOUS
<1>. QED
  BY <1>1, <1>2 DEF Fraction

LEMMA CmpAntisymmetric ==
  ASSUME NEW v \in Fraction, NEW w \in Fraction
  PROVE  CmpLower(v, w) \in {-1, 0, 1} /\ CmpLower(w, v) = 0 - CmpLower(v, w)
<1>. DEFINE p == v[1] * w[2]
            q == w[1] * v[2]
            n == v[2] * w[2]
<1>1. p \in Nat /\ q \in Nat /\ n \in Nat \ {0}
  BY Products
<1>2. Near(v, w) <=> 10000 * Abs(p - q) < n
  BY DEF Near
<1>3. Near(w, v) <=> 10000 * Abs(q - p) < n
  BY Products DEF Near
<1>4. Less(v, w) <=> p < q
  BY DEF Less
<1>5. Less(w, v) <=> q < p
  BY DEF Less
<1>. HIDE DEF p, q, n
<1>6. Abs(p - q) = Abs(q - p) /\ Abs(p - q) \in Nat /\ (Abs(p - q) = 0 <=> p = q)
  BY <1>1 DEF Abs
<1>7. CASE Near(v, w)
  <2>1. Near(w, v)
    BY <1>2, <1>3, <1>6, <1>7
  <2>2. CmpLower(v, w) = 0 /\ CmpLower(w, v) = 0
    BY <2>1, <1>7 DEF CmpLower
  <2>. QED
    BY <2>2
<1>8. CASE ~ Near(v, w)
  <2>1. ~ Near(w, v)
    BY <1>2, <1>3, <1>6, <1>8
  <2>2. p # q
    BY <1>1, <1>2, <1>6, <1>8
  <2>3. Less(v, w) <=> ~ Less(w, v)
    BY <1>1, <1>4, <1>5, <2>2
  <2>4. CASE Less(v, w)
    <3>1. CmpLower(v, w) = 1 /\ CmpLower(w, v) = -1
      BY <2>1, <2>3, <2>4, <1>8 DEF CmpLower
    <3>. QED
      BY <3>1
  <2>5. CASE Less(w, v)
    <3>1. CmpLower(v, w) = -1 /\ CmpLower(w, v) = 1
      BY <2>1, <2>3, <2>5, <1>8 DEF CmpLower
    <3>. QED
      BY <3>1
  <2>. QED
    BY <2>3, <2>4, <2>5
<1>. QED
  BY <1>7, <1>8

\* A figure that is no higher does not lose.
LEMMA CmpNoWorse ==
  ASSUME NEW v \in Fraction, NEW w \in Fraction, v[1] * w[2] <= w[1] * v[2]
  PROVE  CmpLower(v, w) # -1
<1>. DEFINE p == v[1] * w[2]
            q == w[1] * v[2]
            n == v[2] * w[2]
<1>1. p \in Nat /\ q \in Nat /\ n \in Nat \ {0} /\ p <= q
  BY Products
<1>2. Near(v, w) <=> 10000 * Abs(p - q) < n
  BY DEF Near
<1>3. Less(v, w) <=> p < q
  BY DEF Less
<1>. HIDE DEF p, q, n
<1>4. p = q => Near(v, w)
  BY <1>1, <1>2 DEF Abs
<1>5. p < q \/ p = q
  BY <1>1
<1>. QED
  BY <1>3, <1>4, <1>5 DEF CmpLower

LEMMA TargetAxisAntisymmetric ==
  ASSUME NEW a, NEW b
  PROVE  /\ TargetAxis(a, b) \in {-1, 0, 1} /\ TargetAxis(b, a) = 0 - TargetAxis(a, b)
         /\ Leads(b, a) = {} => TargetAxis(a, b) # -1
<1>1. \A c, d : Leads(c, d) \in SUBSET Target
  BY DEF Leads
<1>2. \A c, d : Cardinality(Leads(c, d)) \in Nat
  BY <1>1, GradeAssumption, FS_Subset, FS_CardinalityType
<1>. DEFINE m == Cardinality(Leads(a, b))
            n == Cardinality(Leads(b, a))
<1>3. m \in Nat /\ n \in Nat
  BY <1>2
<1>4. TargetAxis(a, b) = Sign(m - n) /\ TargetAxis(b, a) = Sign(n - m)
  BY DEF TargetAxis
<1>5. Leads(b, a) = {} => n = 0
  BY FS_EmptySet
<1>. HIDE DEF m, n
<1>. QED
  BY <1>3, <1>4, <1>5 DEF Sign

-----------------------------------------------------------------------------
(* The comparison of two sources is symmetric.                             *)

Figures(s) == Summary(s, outages[s])
AxesOf(a, b) == Axes(a, b, Figures(a), Figures(b))
Score(a, b, sign) == Cardinality({i \in 1 .. 5 : AxesOf(a, b)[i] = sign})

LEMMA FigureTypes ==
  ASSUME TablesOK, NEW s \in Source
  PROVE  /\ Figures(s).samples \in Nat /\ Figures(s).days \in Nat /\ Figures(s).count \in Nat
         /\ Figures(s).loss \in Fraction /\ Figures(s).p95 \in Fraction
         /\ Figures(s).p99 \in Fraction
<1>1. outages[s] \in [Durations -> Nat]
  BY DEF TablesOK
<1>. QED
  BY <1>1, SummaryTypes DEF Figures

LEMMA AxesOpposite ==
  ASSUME TablesOK, NEW a \in Source, NEW b \in Source
  PROVE  \A i \in 1 .. 5 : /\ AxesOf(a, b)[i] \in {-1, 0, 1}
                           /\ AxesOf(b, a)[i] = 0 - AxesOf(a, b)[i]
<1>. DEFINE x == Figures(a)
            y == Figures(b)
            m == <<x.count, 1>>
            n == <<y.count, 1>>
<1>1. /\ {x.loss, y.loss, x.p95, y.p95, x.p99, y.p99} \subseteq Fraction
      /\ x.count \in Nat /\ y.count \in Nat
  BY FigureTypes
<1>2. m \in Fraction /\ n \in Fraction
  BY <1>1 DEF Fraction
<1>3. /\ CmpLower(x.loss, y.loss) \in {-1, 0, 1}
      /\ CmpLower(y.loss, x.loss) = 0 - CmpLower(x.loss, y.loss)
  BY <1>1, CmpAntisymmetric
<1>4. /\ CmpLower(x.p95, y.p95) \in {-1, 0, 1}
      /\ CmpLower(y.p95, x.p95) = 0 - CmpLower(x.p95, y.p95)
  BY <1>1, CmpAntisymmetric
<1>5. /\ CmpLower(x.p99, y.p99) \in {-1, 0, 1}
      /\ CmpLower(y.p99, x.p99) = 0 - CmpLower(x.p99, y.p99)
  BY <1>1, CmpAntisymmetric
<1>6. CmpLower(m, n) \in {-1, 0, 1} /\ CmpLower(n, m) = 0 - CmpLower(m, n)
  BY <1>2, CmpAntisymmetric
<1>7. AxesOf(a, b) = <<CmpLower(x.loss, y.loss), CmpLower(x.p95, y.p95),
                       CmpLower(x.p99, y.p99), CmpLower(m, n), TargetAxis(a, b)>>
  BY DEF AxesOf, Axes
<1>8. AxesOf(b, a) = <<CmpLower(y.loss, x.loss), CmpLower(y.p95, x.p95),
                       CmpLower(y.p99, x.p99), CmpLower(n, m), TargetAxis(b, a)>>
  BY DEF AxesOf, Axes
<1>. HIDE DEF x, y, m, n
<1>. QED
  BY <1>3, <1>4, <1>5, <1>6, <1>7, <1>8, TargetAxisAntisymmetric

LEMMA Scores ==
  ASSUME NEW a, NEW b, NEW sign
  PROVE  Score(a, b, sign) \in Nat
<1>1. {i \in 1 .. 5 : AxesOf(a, b)[i] = sign} \in SUBSET (1 .. 5)
  OBVIOUS
<1>2. IsFiniteSet(1 .. 5)
  <2>. DEFINE n == 5
  <2>1. n \in Int
    OBVIOUS
  <2>. HIDE DEF n
  <2>2. IsFiniteSet(1 .. n)
    BY <2>1, FS_Interval
  <2>. QED
    BY <2>2 DEF n
<1>. QED
  BY <1>1, <1>2, FS_Subset, FS_CardinalityType DEF Score

\* PickWinner in terms of scores.
LEMMA WinnerByScores ==
  ASSUME NEW a, NEW b, Known(a), Known(b)
  PROVE  /\ PickWinner(a, b).source = IF Score(a, b, 1) = Score(a, b, -1) THEN Tie
                                      ELSE IF Score(a, b, 1) > Score(a, b, -1) THEN a ELSE b
         /\ PickWinner(a, b).confidence =
              ScoreConfidence(Figures(a), Figures(b), Abs(Score(a, b, 1) - Score(a, b, -1)))
         /\ DOMAIN PickWinner(a, b) = {"source", "confidence"}
BY DEF PickWinner, Score, AxesOf, Figures

LEMMA ScoresSwap ==
  ASSUME TablesOK, NEW a \in Source, NEW b \in Source
  PROVE  Score(b, a, 1) = Score(a, b, -1) /\ Score(b, a, -1) = Score(a, b, 1)
<1>1. \A i \in 1 .. 5 : (AxesOf(b, a)[i] = 1) <=> (AxesOf(a, b)[i] = -1)
  BY AxesOpposite
<1>2. \A i \in 1 .. 5 : (AxesOf(b, a)[i] = -1) <=> (AxesOf(a, b)[i] = 1)
  BY AxesOpposite
<1>3. {i \in 1 .. 5 : AxesOf(b, a)[i] = 1} = {i \in 1 .. 5 : AxesOf(a, b)[i] = -1}
  BY <1>1
<1>4. {i \in 1 .. 5 : AxesOf(b, a)[i] = -1} = {i \in 1 .. 5 : AxesOf(a, b)[i] = 1}
  BY <1>2
<1>. QED
  BY <1>3, <1>4 DEF Score

LEMMA ScoreConfidenceSymmetric ==
  ASSUME NEW x, NEW y, NEW lead
  PROVE  ScoreConfidence(x, y, lead) = ScoreConfidence(y, x, lead)
<1>1. {x.days, y.days} = {y.days, x.days} /\ {x.samples, y.samples} = {y.samples, x.samples}
  OBVIOUS
<1>. QED
  BY <1>1 DEF ScoreConfidence

LEMMA Symmetric ==
  ASSUME TablesOK, NEW a \in Source, NEW b \in Source, a # b
  PROVE  PickWinner(a, b) = PickWinner(b, a)
<1>1. CASE ~ Known(a) \/ ~ Known(b)
  BY <1>1 DEF PickWinner
<1>2. CASE Known(a) /\ Known(b)
  <2>. DEFINE m == Score(a, b, 1)
              n == Score(a, b, -1)
              x == Figures(a)
              y == Figures(b)
  <2>1. m \in Nat /\ n \in Nat
    BY Scores
  <2>2. PickWinner(a, b) = [source |-> IF m = n THEN Tie ELSE IF m > n THEN a ELSE b,
                            confidence |-> ScoreConfidence(x, y, Abs(m - n))]
    BY <1>2 DEF PickWinner, Score, AxesOf, Figures
  <2>3. PickWinner(b, a) = [source |-> IF n = m THEN Tie ELSE IF n > m THEN b ELSE a,
                            confidence |-> ScoreConfidence(y, x, Abs(n - m))]
    <3>1. PickWinner(b, a)
            = [source |-> IF Score(b, a, 1) = Score(b, a, -1) THEN Tie
                          ELSE IF Score(b, a, 1) > Score(b, a, -1) THEN b ELSE a,
               confidence |-> ScoreConfidence(y, x, Abs(Score(b, a, 1) - Score(b, a, -1)))]
      BY <1>2 DEF PickWinner, Score, AxesOf, Figures
    <3>. QED
      BY <3>1, ScoresSwap
  <2>. HIDE DEF m, n, x, y
  <2>4. Abs(m - n) = Abs(n - m)
    BY <2>1 DEF Abs
  <2>5. ScoreConfidence(x, y, Abs(m - n)) = ScoreConfidence(y, x, Abs(n - m))
    BY <2>4, ScoreConfidenceSymmetric
  <2>6. (IF m = n THEN Tie ELSE IF m > n THEN a ELSE b)
          = (IF n = m THEN Tie ELSE IF n > m THEN b ELSE a)
    BY <2>1
  <2>. QED
    BY <2>2, <2>3, <2>5, <2>6
<1>. QED
  BY <1>1, <1>2

-----------------------------------------------------------------------------
(* Confidence.                                                             *)

LEMMA LowerOfTwo ==
  ASSUME NEW m \in Nat, NEW n \in Nat
  PROVE  Min({m, n}) \in Nat /\ Min({m, n}) <= m /\ Min({m, n}) <= n
<1>1. \E x \in {m, n} : \A y \in {m, n} : x <= y
  OBVIOUS
<1>2. Min({m, n}) \in {m, n} /\ \A y \in {m, n} : Min({m, n}) <= y
  BY <1>1 DEF Min
<1>. QED
  BY <1>2

\* More data never makes a report less confident.
LEMMA ConfidenceGrows ==
  ASSUME NEW d \in Nat, NEW e \in Nat, d <= e, NEW m \in Nat, NEW n \in Nat, m <= n
  PROVE  \/ Confidence(d, m) = "low"
         \/ Confidence(d, m) = Confidence(e, n)
         \/ Confidence(d, m) = "medium" /\ Confidence(e, n) = "high"
<1>1. /\ MediumDays \in Nat /\ HighDays \in Nat
      /\ MediumSamples \in Nat /\ HighSamples \in Nat
  BY GradeAssumption
<1>2. d >= HighDays /\ m >= HighSamples => e >= HighDays /\ n >= HighSamples
  BY <1>1
<1>3. d >= MediumDays /\ m >= MediumSamples => e >= MediumDays /\ n >= MediumSamples
  BY <1>1
<1>. QED
  BY <1>2, <1>3 DEF Confidence

LEMMA Ranks ==
  ConfidenceRank("low") = 0 /\ ConfidenceRank("medium") = 1 /\ ConfidenceRank("high") = 2
BY DEF ConfidenceRank

LEMMA ConfidenceBounded ==
  ASSUME TablesOK, NEW a \in Source, NEW b \in Source, NEW s \in {a, b}
  PROVE  ConfidenceRank(PickWinner(a, b).confidence) <= ConfidenceRank(SingleConfidence(s))
<1>. DEFINE x == Figures(a)
            y == Figures(b)
            d == Min({x.days, y.days})
            n == Min({x.samples, y.samples})
            own == Confidence(Figures(s).days, Figures(s).samples)
            lead == Abs(Score(a, b, 1) - Score(a, b, -1))
<1>1. /\ x.days \in Nat /\ y.days \in Nat /\ x.samples \in Nat /\ y.samples \in Nat
      /\ Figures(s).days \in Nat /\ Figures(s).samples \in Nat
  BY FigureTypes
<1>2. d \in Nat /\ n \in Nat /\ d <= Figures(s).days /\ n <= Figures(s).samples
  BY <1>1, LowerOfTwo
<1>3. SingleConfidence(s) = own
  BY DEF SingleConfidence, Figures
<1>4. own \in {"low", "medium", "high"}
  BY <1>1, GradeAssumption DEF Confidence
<1>5. \/ Confidence(d, n) = "low" \/ Confidence(d, n) = own
      \/ Confidence(d, n) = "medium" /\ own = "high"
  <2>. HIDE DEF d, n
  <2>. QED
    BY <1>1, <1>2, ConfidenceGrows
<1>6. PickWinner(a, b).confidence \in {"low", ScoreConfidence(x, y, lead)}
  <2>1. CASE ~ Known(a) \/ ~ Known(b)
    BY <2>1 DEF PickWinner
  <2>2. CASE Known(a) /\ Known(b)
    BY <2>2, WinnerByScores
  <2>. QED
    BY <2>1, <2>2
<1>7. \/ ScoreConfidence(x, y, lead) = "low"
      \/ ScoreConfidence(x, y, lead) = Confidence(d, n)
      \/ ScoreConfidence(x, y, lead) = "medium" /\ Confidence(d, n) # "low"
  BY DEF ScoreConfidence
<1>8. Confidence(d, n) \in {"low", "medium", "high"}
  BY DEF Confidence
<1>. HIDE DEF x, y, d, n, own, lead
<1>9. \/ PickWinner(a, b).confidence = "low"
      \/ PickWinner(a, b).confidence = own /\ own \in {"medium", "high"}
      \/ PickWinner(a, b).confidence = "medium" /\ own = "high"
  BY <1>4, <1>5, <1>6, <1>7, <1>8
<1>. QED
  BY <1>3, <1>4, <1>9, Ranks

-----------------------------------------------------------------------------
(* A source that is no worse anywhere does not lose.                       *)

LEMMA SameKeys ==
  ASSUME NEW a, NEW b, NoWorse(a, b), NEW T \in SUBSET Target
  PROVE  Keys(a, T) = Keys(b, T)
<1>1. \A k \in T \X Bucket : k \in Target \X Bucket
  OBVIOUS
<1>2. \A k \in T \X Bucket : (table[a][k] = NoRow) <=> (table[b][k] = NoRow)
  BY <1>1 DEF NoWorse
<1>. QED
  BY <1>2 DEF Keys

LEMMA Multiplied ==
  ASSUME NEW m \in Nat, NEW n \in Nat, m <= n, NEW c \in Nat
  PROVE  m * c <= n * c /\ m * c \in Nat /\ n * c \in Nat
<1>. DEFINE d == n - m
<1>1. d \in Nat /\ n = m + d
  OBVIOUS
<1>. HIDE DEF d
<1>2. n * c = m * c + d * c
  BY <1>1
<1>3. m * c \in Nat /\ d * c \in Nat
  BY <1>1
<1>. QED
  BY <1>2, <1>3

\* Row by row: what two sources with the same keys have.
LEMMA RowsOrdered ==
  ASSUME TablesOK, NEW a \in Source, NEW b \in Source, NoWorse(a, b), NEW k \in Keys(a, Target)
  PROVE  /\ SamplesOf(a)[k] = SamplesOf(b)[k]
         /\ FailsOf(a)[k] <= FailsOf(b)[k]
         /\ P95Of(a)[k] <= P95Of(b)[k]
         /\ P99Of(a)[k] <= P99Of(b)[k]
<1>. DEFINE x == table[a][k]
            y == table[b][k]
<1>1. k \in Cell /\ k \in Target \X Bucket /\ x \in Rows /\ x # NoRow
  BY DEF Keys, TablesOK, Cell
<1>2. /\ y # NoRow /\ x.samples = y.samples /\ x.fails <= y.fails
      /\ x.p95 <= y.p95 /\ x.p99 <= y.p99
  BY <1>1 DEF NoWorse
<1>3. y \in Rows
  BY <1>1, <1>2 DEF TablesOK
<1>4. /\ x.samples \in Nat /\ x.p95 \in Nat /\ x.p99 \in Nat
      /\ y.samples \in Nat /\ y.p95 \in Nat /\ y.p99 \in Nat
  BY <1>1, <1>3, GradeAssumption
<1>5. /\ SamplesOf(a)[k] = x.samples /\ SamplesOf(b)[k] = y.samples
      /\ FailsOf(a)[k] = x.fails /\ FailsOf(b)[k] = y.fails
      /\ P95Of(a)[k] = x.p95 * x.samples /\ P95Of(b)[k] = y.p95 * y.samples
      /\ P99Of(a)[k] = x.p99 * x.samples /\ P99Of(b)[k] = y.p99 * y.samples
  BY <1>1 DEF SamplesOf, FailsOf, P95Of, P99Of
<1>. HIDE DEF x, y
<1>6. x.p95 * x.samples <= y.p95 * x.samples /\ x.p99 * x.samples <= y.p99 * x.samples
  BY <1>2, <1>4, Multiplied
<1>. QED
  BY <1>2, <1>5, <1>6

\* And so for the sums over any targets.
LEMMA SumsOrdered ==
  ASSUME TablesOK, NEW a \in Source, NEW b \in Source, NoWorse(a, b), NEW T \in SUBSET Target
  PROVE  LET keys == Keys(a, T) IN
         /\ keys = Keys(b, T)
         /\ Total(keys, SamplesOf(a)) = Total(keys, SamplesOf(b))
         /\ Total(keys, FailsOf(a)) <= Total(keys, FailsOf(b))
         /\ Total(keys, P95Of(a)) <= Total(keys, P95Of(b))
         /\ Total(keys, P99Of(a)) <= Total(keys, P99Of(b))
<1>. DEFINE keys == Keys(a, T)
<1>1. keys = Keys(b, T) /\ Keys(a, Target) = Keys(b, Target)
  BY SameKeys
<1>2. IsFiniteSet(keys) /\ keys \subseteq Keys(a, Target) /\ keys \subseteq Keys(b, Target)
  BY <1>1, KeysFinite
<1>3. \A k \in keys : /\ SamplesOf(a)[k] = SamplesOf(b)[k]
                      /\ FailsOf(a)[k] <= FailsOf(b)[k]
                      /\ P95Of(a)[k] <= P95Of(b)[k]
                      /\ P99Of(a)[k] <= P99Of(b)[k]
  BY <1>2, RowsOrdered
<1>4. \A k \in keys : /\ FailsOf(a)[k] \in Nat /\ FailsOf(b)[k] \in Nat
                      /\ P95Of(a)[k] \in Nat /\ P95Of(b)[k] \in Nat
                      /\ P99Of(a)[k] \in Nat /\ P99Of(b)[k] \in Nat
  BY <1>2, ColumnsNat
<1>. HIDE DEF keys
<1>5. Total(keys, SamplesOf(a)) = Total(keys, SamplesOf(b))
  BY <1>2, <1>3, TotalSame
<1>6. Total(keys, FailsOf(a)) <= Total(keys, FailsOf(b))
  BY <1>2, <1>3, <1>4, TotalMonotone
<1>7. Total(keys, P95Of(a)) <= Total(keys, P95Of(b))
  BY <1>2, <1>3, <1>4, TotalMonotone
<1>8. Total(keys, P99Of(a)) <= Total(keys, P99Of(b))
  BY <1>2, <1>3, <1>4, TotalMonotone
<1>. QED
  BY <1>1, <1>5, <1>6, <1>7, <1>8 DEF keys

LEMMA OrZeroOrdered ==
  ASSUME NEW p \in Nat, NEW q \in Nat, p <= q, NEW n \in Nat
  PROVE  LET v == OrZero(<<p, n>>)
             w == OrZero(<<q, n>>)
         IN v[1] * w[2] <= w[1] * v[2]
<1>1. CASE n = 0
  BY <1>1 DEF OrZero
<1>2. CASE n # 0
  <2>1. OrZero(<<p, n>>) = <<p, n>> /\ OrZero(<<q, n>>) = <<q, n>>
    BY <1>2 DEF OrZero
  <2>. QED
    BY <2>1, Multiplied
<1>. QED
  BY <1>1, <1>2

LEMMA TotalsOf ==
  ASSUME TablesOK, NEW s \in Source, NEW T \in SUBSET Target
  PROVE  LET keys == Keys(s, T) IN
         /\ Total(keys, SamplesOf(s)) \in Nat /\ Total(keys, FailsOf(s)) \in Nat
         /\ Total(keys, P95Of(s)) \in Nat /\ Total(keys, P99Of(s)) \in Nat
         /\ Loss(s, keys) = <<100 * Total(keys, FailsOf(s)), Total(keys, SamplesOf(s))>>
         /\ P95(s, keys) = <<Total(keys, P95Of(s)), Total(keys, SamplesOf(s))>>
         /\ P99(s, keys) = <<Total(keys, P99Of(s)), Total(keys, SamplesOf(s))>>
<1>. DEFINE keys == Keys(s, T)
<1>1. keys \in SUBSET Cell /\ IsFiniteSet(keys) /\ keys \subseteq Keys(s, Target)
  BY KeysFinite
<1>2. /\ Total(keys, SamplesOf(s)) \in Nat /\ Total(keys, FailsOf(s)) \in Nat
      /\ Total(keys, P95Of(s)) \in Nat /\ Total(keys, P99Of(s)) \in Nat
  BY <1>1, ColumnsNat, TotalNat
<1>3. Loss(s, keys) = <<100 * Total(keys, FailsOf(s)), Total(keys, SamplesOf(s))>>
  BY <1>1, SamplesTotal, FailsTotal DEF Loss
<1>4. P95(s, keys) = <<Total(keys, P95Of(s)), Total(keys, SamplesOf(s))>>
  BY <1>1, SamplesTotal, P95Total DEF P95
<1>5. P99(s, keys) = <<Total(keys, P99Of(s)), Total(keys, SamplesOf(s))>>
  BY <1>1, SamplesTotal, P99Total DEF P99
<1>. QED
  BY <1>2, <1>3, <1>4, <1>5

LEMMA FiguresOrdered ==
  ASSUME TablesOK, NEW a \in Source, NEW b \in Source, NoWorse(a, b)
  PROVE  LET x == Figures(a)
             y == Figures(b)
         IN /\ x.loss[1] * y.loss[2] <= y.loss[1] * x.loss[2]
            /\ x.p95[1] * y.p95[2] <= y.p95[1] * x.p95[2]
            /\ x.p99[1] * y.p99[2] <= y.p99[1] * x.p99[2]
            /\ x.count <= y.count
<1>. DEFINE keys == Keys(a, Target)
            n == Total(keys, SamplesOf(a))
            f == Total(keys, FailsOf(a))
            g == Total(keys, FailsOf(b))
            p == Total(keys, P95Of(a))
            q == Total(keys, P95Of(b))
            u == Total(keys, P99Of(a))
            v == Total(keys, P99Of(b))
<1>1. keys = Keys(b, Target) /\ n = Total(keys, SamplesOf(b)) /\ f <= g /\ p <= q /\ u <= v
  BY SumsOrdered
<1>2. n \in Nat /\ f \in Nat /\ p \in Nat /\ u \in Nat
  BY TotalsOf
<1>3. g \in Nat /\ q \in Nat /\ v \in Nat
  BY <1>1, TotalsOf
<1>4. /\ Figures(a).loss = OrZero(<<100 * f, n>>)
      /\ Figures(a).p95 = OrZero(<<p, n>>)
      /\ Figures(a).p99 = OrZero(<<u, n>>)
      /\ Figures(a).count = SumFunction(outages[a])
  BY TotalsOf DEF Figures, Summary
<1>5. /\ Figures(b).loss = OrZero(<<100 * g, n>>)
      /\ Figures(b).p95 = OrZero(<<q, n>>)
      /\ Figures(b).p99 = OrZero(<<v, n>>)
      /\ Figures(b).count = SumFunction(outages[b])
  BY <1>1, TotalsOf DEF Figures, Summary
<1>6. SumFunction(outages[a]) <= SumFunction(outages[b])
  BY DEF NoWorse
<1>. HIDE DEF keys, n, f, g, p, q, u, v
<1>7. 100 * f \in Nat /\ 100 * g \in Nat /\ 100 * f <= 100 * g
  BY <1>1, <1>2, <1>3
<1>. QED
  BY <1>1, <1>2, <1>3, <1>4, <1>5, <1>6, <1>7, OrZeroOrdered

LEMMA NeverLeads ==
  ASSUME TablesOK, NEW a \in Source, NEW b \in Source, NoWorse(a, b)
  PROVE  Leads(b, a) = {}
<1>. SUFFICES ASSUME NEW t \in Target, Less(TargetP95(b, t), TargetP95(a, t))
              PROVE  FALSE
  BY DEF Leads
<1>. DEFINE keys == Keys(a, {t})
            n == Total(keys, SamplesOf(a))
            p == Total(keys, P95Of(a))
            q == Total(keys, P95Of(b))
<1>0. {t} \in SUBSET Target
  OBVIOUS
<1>1. keys = Keys(b, {t}) /\ n = Total(keys, SamplesOf(b)) /\ p <= q
  BY <1>0, SumsOrdered
<1>2. n \in Nat /\ p \in Nat /\ P95(a, keys) = <<p, n>>
  BY <1>0, TotalsOf
<1>3. q \in Nat /\ P95(b, keys) = <<q, n>>
  BY <1>0, <1>1, TotalsOf
<1>4. TargetP95(a, t) = <<p, n>> /\ TargetP95(b, t) = <<q, n>>
  BY <1>1, <1>2, <1>3 DEF TargetP95
<1>. HIDE DEF keys, n, p, q
<1>5. p * n <= q * n /\ p * n \in Nat /\ q * n \in Nat
  BY <1>1, <1>2, <1>3, Multiplied
<1>6. q * n < p * n
  BY <1>4 DEF Less
<1>. QED
  BY <1>5, <1>6

LEMMA BetterDoesNotLose ==
  ASSUME TablesOK, NEW a \in Source, NEW b \in Source, a # b, NoWorse(a, b)
  PROVE  PickWinner(a, b).source # b
<1>0. Tie # b
  BY GradeAssumption
<1>1. CASE ~ Known(a) \/ ~ Known(b)
  BY <1>0, <1>1 DEF PickWinner
<1>2. CASE Known(a) /\ Known(b)
  <2>. DEFINE x == Figures(a)
              y == Figures(b)
              m == <<x.count, 1>>
              n == <<y.count, 1>>
  <2>1. /\ x.loss \in Fraction /\ y.loss \in Fraction /\ x.p95 \in Fraction
        /\ y.p95 \in Fraction /\ x.p99 \in Fraction /\ y.p99 \in Fraction
        /\ x.count \in Nat /\ y.count \in Nat
    BY FigureTypes
  <2>2. m \in Fraction /\ n \in Fraction /\ m[1] * n[2] <= n[1] * m[2]
    BY <2>1, FiguresOrdered DEF Fraction
  <2>3. CmpLower(x.loss, y.loss) # -1
    BY <2>1, FiguresOrdered, CmpNoWorse
  <2>4. CmpLower(x.p95, y.p95) # -1
    BY <2>1, FiguresOrdered, CmpNoWorse
  <2>5. CmpLower(x.p99, y.p99) # -1
    BY <2>1, FiguresOrdered, CmpNoWorse
  <2>6. CmpLower(m, n) # -1
    BY <2>2, CmpNoWorse
  <2>7. TargetAxis(a, b) # -1
    BY NeverLeads, TargetAxisAntisymmetric
  <2>8. AxesOf(a, b) = <<CmpLower(x.loss, y.loss), CmpLower(x.p95, y.p95),
                         CmpLower(x.p99, y.p99), CmpLower(m, n), TargetAxis(a, b)>>
    BY DEF AxesOf, Axes
  <2>. HIDE DEF x, y, m, n
  <2>9. {i \in 1 .. 5 : AxesOf(a, b)[i] = -1} = {}
    BY <2>3, <2>4, <2>5, <2>6, <2>7, <2>8
  <2>10. Score(a, b, -1) = 0
    BY <2>9, FS_EmptySet DEF Score
  <2>11. Score(a, b, 1) \in Nat
    BY Scores
  <2>12. PickWinner(a, b).source \in {Tie, a}
    BY <1>2, <2>10, <2>11, WinnerByScores
  <2>. QED
    BY <1>0, <2>12
<1>. QED
  BY <1>1, <1>2

-----------------------------------------------------------------------------
(* An outage never helps.                                                  *)

LEMMA LongestIs ==
  ASSUME NEW events \in [Durations -> Nat]
  PROVE  /\ Longest(events) \in Ended(events) \cup {0} /\ Longest(events) \in Nat
         /\ \A d \in Ended(events) \cup {0} : Longest(events) >= d
<1>. DEFINE S == Ended(events) \cup {0}
<1>1. Ended(events) \in SUBSET Durations
  BY DEF Ended
<1>2. IsFiniteSet(Ended(events))
  BY <1>1, GradeAssumption, FS_Subset
<1>3. S \in SUBSET Nat /\ IsFiniteSet(S) /\ S # {}
  <2>1. Durations \subseteq Nat
    BY GradeAssumption
  <2>2. S = {0} \cup Ended(events) /\ IsFiniteSet({0})
    <3>1. \A x : IsFiniteSet({x})
      BY FS_Singleton
    <3>. QED
      BY <3>1
  <2>3. IsFiniteSet(S)
    BY <1>2, <2>2, FS_Union
  <2>4. 0 \in S /\ \A x \in S : x \in Nat
    <3>1. \A x \in Ended(events) : x \in Nat
      BY <1>1, <2>1
    <3>2. \A x \in S : x \in Ended(events) \/ x = 0
      OBVIOUS
    <3>3. 0 \in S
      OBVIOUS
    <3>. HIDE DEF S
    <3>. QED
      BY <3>1, <3>2, <3>3
  <2>. HIDE DEF S
  <2>. QED
    BY <2>3, <2>4
<1>. HIDE DEF S
<1>4. \E x \in S : \A y \in S : x >= y
  BY <1>3, LargestOfFinite
<1>5. Max(S) \in S /\ \A y \in S : Max(S) >= y
  BY <1>4 DEF Max
<1>. QED
  BY <1>3, <1>5 DEF Longest, S

\* One outage less: one less is counted, and the longest one is no longer.
LEMMA OneOutageLess ==
  ASSUME NEW events \in [Durations -> Nat], NEW d \in Ended(events),
         NEW without, without = [events EXCEPT ![d] = @ - 1]
  PROVE  /\ without \in [Durations -> Nat]
         /\ SumFunction(events) \in Nat \ {0}
         /\ SumFunction(without) = SumFunction(events) - 1
         /\ Longest(without) <= Longest(events)
<1>1. d \in Durations /\ events[d] \in Nat /\ events[d] > 0
  BY DEF Ended
<1>2. without \in [Durations -> Nat]
  BY <1>1
<1>3. IsFiniteSet(Durations)
  BY GradeAssumption
<1>. DEFINE rest == Durations \ {d}
<1>4. IsFiniteSet(rest) /\ rest \subseteq Durations
  BY <1>3, FS_Subset
<1>5. DOMAIN events = Durations /\ DOMAIN without = Durations
  BY <1>2
<1>6. SumFunction(events) = Total(Durations, events)
  BY <1>5, TotalFunction
<1>7. SumFunction(without) = Total(Durations, without)
  BY <1>5, TotalFunction
<1>8. \A x \in Durations : events[x] \in Nat /\ without[x] \in Nat
  BY <1>2
<1>9. Total(Durations, events) = events[d] + Total(rest, events)
  BY <1>1, <1>3, <1>8, TotalRemove
<1>10. Total(Durations, without) = without[d] + Total(rest, without)
  BY <1>1, <1>3, <1>8, TotalRemove
<1>11. \A x \in rest : events[x] = without[x]
  OBVIOUS
<1>12. \A x \in rest : events[x] \in Nat
  BY <1>8
<1>13. without[d] = events[d] - 1
  BY <1>1
<1>. HIDE DEF rest
<1>14. Total(rest, events) = Total(rest, without)
  BY <1>4, <1>11, TotalSame
<1>15. Total(rest, events) \in Nat
  BY <1>4, <1>12, TotalNat
<1>16. /\ SumFunction(events) \in Nat \ {0}
       /\ SumFunction(without) = SumFunction(events) - 1
  BY <1>1, <1>6, <1>7, <1>9, <1>10, <1>13, <1>14, <1>15
<1>17. Ended(without) \subseteq Ended(events)
  <2>. SUFFICES ASSUME NEW x \in Durations, without[x] > 0
                PROVE  events[x] > 0
    BY DEF Ended
  <2>. QED
    BY <1>1
<1>18. Longest(without) <= Longest(events)
  BY <1>2, <1>17, LongestIs
<1>. QED
  BY <1>2, <1>16, <1>18

LEMMA LabelRanks ==
  /\ LabelRank("excellent") = 4 /\ LabelRank("good") = 3 /\ LabelRank("fair") = 2
  /\ LabelRank("poor") = 1 /\ LabelRank("bad") = 0
BY DEF LabelRank

LEMMA OutageRank ==
  ASSUME NEW count \in Nat, NEW longest \in Nat
  PROVE  /\ OutageLabel(count, longest) \in Label
         /\ LabelRank(OutageLabel(count, longest)) =
              IF count = 0 THEN 4
              ELSE IF count = 1 /\ longest < 60 THEN 3
              ELSE IF count <= 3 /\ longest < 300 THEN 2
              ELSE IF count <= 10 THEN 1 ELSE 0
<1>1. CASE count = 0
  <2>1. OutageLabel(count, longest) = "excellent"
    BY <1>1 DEF OutageLabel
  <2>. QED
    BY <1>1, <2>1, LabelRanks DEF Label
<1>2. CASE count = 1 /\ longest < 60
  <2>1. OutageLabel(count, longest) = "good"
    BY <1>2 DEF OutageLabel
  <2>. QED
    BY <1>2, <2>1, LabelRanks DEF Label
<1>3. CASE count # 0 /\ ~ (count = 1 /\ longest < 60) /\ count <= 3 /\ longest < 300
  <2>1. OutageLabel(count, longest) = "fair"
    BY <1>3 DEF OutageLabel
  <2>. QED
    BY <1>3, <2>1, LabelRanks DEF Label
<1>4. CASE count # 0 /\ ~ (count <= 3 /\ longest < 300) /\ count <= 10
  <2>0. ~ (count = 1 /\ longest < 60)
    BY <1>4
  <2>1. OutageLabel(count, longest) = "poor"
    BY <1>4, <2>0 DEF OutageLabel
  <2>. QED
    BY <1>4, <2>0, <2>1, LabelRanks DEF Label
<1>5. CASE count > 10
  <2>1. OutageLabel(count, longest) = "bad"
    BY <1>5 DEF OutageLabel
  <2>. QED
    BY <1>5, <2>1, LabelRanks DEF Label
<1>. QED
  BY <1>1, <1>2, <1>3, <1>4, <1>5

LEMMA OutageLabelFalls ==
  ASSUME NEW c \in Nat \ {0}, NEW l \in Nat, NEW m \in Nat, m <= l
  PROVE  LabelRank(OutageLabel(c, l)) <= LabelRank(OutageLabel(c - 1, m))
<1>1. c \in Nat /\ c - 1 \in Nat
  OBVIOUS
<1>. DEFINE r(n, k) == IF n = 0 THEN 4 ELSE IF n = 1 /\ k < 60 THEN 3
                       ELSE IF n <= 3 /\ k < 300 THEN 2 ELSE IF n <= 10 THEN 1 ELSE 0
<1>2. LabelRank(OutageLabel(c, l)) = r(c, l)
  BY <1>1, OutageRank
<1>3. LabelRank(OutageLabel(c - 1, m)) = r(c - 1, m)
  BY <1>1, OutageRank
<1>4. r(c, l) <= r(c - 1, m)
  OBVIOUS
<1>. QED
  BY <1>2, <1>3, <1>4

LEMMA LatencyLabels ==
  ASSUME NEW v, NEW b
  PROVE  Latency(v, b) \in Label /\ LossLabel(v, b) \in Label
<1>1. \A c : Latency(v, c) \in Label
  BY DEF Latency, Label
<1>. QED
  BY <1>1 DEF LossLabel, Label

LEMMA RankNat == \A l \in Label : LabelRank(l) \in Nat
BY LabelRanks DEF Label

\* The worst of some labels.
LEMMA WorstLabel ==
  ASSUME NEW labels \in SUBSET Label, labels # {}
  PROVE  LET worst == CHOOSE l \in labels : \A m \in labels : LabelRank(l) <= LabelRank(m)
         IN worst \in labels /\ \A m \in labels : LabelRank(worst) <= LabelRank(m)
<1>. DEFINE ranks == {LabelRank(l) : l \in labels}
<1>1. ranks \in SUBSET Nat /\ ranks # {}
  BY RankNat
<1>2. (\E r \in ranks : \A q \in ranks : r <= q)
        => \E l \in labels : \A m \in labels : LabelRank(l) <= LabelRank(m)
  OBVIOUS
<1>. HIDE DEF ranks
<1>3. \E r \in ranks : \A q \in ranks : r <= q
  BY <1>1, LeastNumber
<1>. QED
  BY <1>2, <1>3

LabelsOf(s, events) ==
  LET x == Summary(s, events)
  IN {LossLabel(x.loss, LossBands), Latency(x.p95, P95Bands),
      Latency(x.p99, P99Bands), OutageLabel(x.count, x.longest)}

LEMMA GradeIsWorst ==
  ASSUME NEW s, NEW events \in [Durations -> Nat], SumFunction(events) \in Nat
  PROVE  /\ Grade(s, events) \in LabelsOf(s, events) /\ LabelsOf(s, events) \subseteq Label
         /\ \A m \in LabelsOf(s, events) : LabelRank(Grade(s, events)) <= LabelRank(m)
<1>. DEFINE x == Summary(s, events)
            labels == LabelsOf(s, events)
<1>1. x.count = SumFunction(events) /\ x.longest = Longest(events)
  BY DEF Summary
<1>2. OutageLabel(x.count, x.longest) \in Label
  BY <1>1, LongestIs, OutageRank
<1>3. labels \in SUBSET Label /\ labels # {}
  BY <1>2, LatencyLabels DEF LabelsOf
<1>4. Grade(s, events)
        = CHOOSE l \in labels : \A m \in labels : LabelRank(l) <= LabelRank(m)
  BY DEF Grade, LabelsOf
<1>. HIDE DEF labels
<1>5. Grade(s, events) \in labels /\ \A m \in labels : LabelRank(Grade(s, events)) <= LabelRank(m)
  BY <1>3, <1>4, WorstLabel
<1>. QED
  BY <1>3, <1>5 DEF labels

LEMMA OutageDoesNotHelp ==
  ASSUME TablesOK, NEW s \in Source, NEW d \in Ended(outages[s])
  PROVE  LabelRank(Grade(s, outages[s]))
           <= LabelRank(Grade(s, [outages[s] EXCEPT ![d] = @ - 1]))
<1>. DEFINE events == outages[s]
            without == [events EXCEPT ![d] = @ - 1]
            own == {LossLabel(OrZero(Loss(s, Keys(s, Target))), LossBands),
                    Latency(OrZero(P95(s, Keys(s, Target))), P95Bands),
                    Latency(OrZero(P99(s, Keys(s, Target))), P99Bands)}
            before == OutageLabel(SumFunction(without), Longest(without))
            after == OutageLabel(SumFunction(events), Longest(events))
<1>1. events \in [Durations -> Nat]
  BY DEF TablesOK
<1>2. /\ without \in [Durations -> Nat]
      /\ SumFunction(events) \in Nat \ {0}
      /\ SumFunction(without) = SumFunction(events) - 1
      /\ Longest(without) <= Longest(events)
  <2>1. d \in Ended(events)
    OBVIOUS
  <2>. HIDE DEF events
  <2>2. PICK w : w = [events EXCEPT ![d] = @ - 1]
    OBVIOUS
  <2>3. /\ w \in [Durations -> Nat]
        /\ SumFunction(events) \in Nat \ {0}
        /\ SumFunction(w) = SumFunction(events) - 1
        /\ Longest(w) <= Longest(events)
    BY <1>1, <2>1, <2>2, OneOutageLess
  <2>. QED
    BY <2>2, <2>3
<1>3. LabelsOf(s, events) = own \cup {after} /\ LabelsOf(s, without) = own \cup {before}
  BY DEF LabelsOf, Summary
<1>. HIDE DEF events, without, own
<1>4. Longest(events) \in Nat /\ Longest(without) \in Nat
  BY <1>1, <1>2, LongestIs
<1>5. LabelRank(after) <= LabelRank(before)
  BY <1>2, <1>4, OutageLabelFalls
<1>. HIDE DEF before, after
<1>6. /\ Grade(s, events) \in own \cup {after} /\ own \cup {after} \subseteq Label
      /\ \A m \in own \cup {after} : LabelRank(Grade(s, events)) <= LabelRank(m)
  BY <1>1, <1>2, <1>3, GradeIsWorst
<1>7. Grade(s, without) \in own \cup {before} /\ own \cup {before} \subseteq Label
  <2>1. SumFunction(without) \in Nat
    BY <1>2
  <2>2. /\ Grade(s, without) \in LabelsOf(s, without)
        /\ LabelsOf(s, without) \subseteq Label
    BY <1>2, <2>1, GradeIsWorst
  <2>. QED
    BY <1>3, <2>2
<1>8. /\ LabelRank(Grade(s, events)) \in Nat /\ LabelRank(after) \in Nat
      /\ LabelRank(before) \in Nat
  BY <1>6, <1>7, RankNat
<1>9. LabelRank(Grade(s, events)) <= LabelRank(Grade(s, without))
  <2>1. CASE Grade(s, without) \in own
    BY <1>6, <2>1
  <2>2. CASE Grade(s, without) = before
    <3>1. LabelRank(Grade(s, events)) <= LabelRank(after)
      BY <1>6
    <3>2. LabelRank(Grade(s, events)) <= LabelRank(before)
      BY <1>5, <1>8, <3>1
    <3>. QED
      BY <2>2, <3>2
  <2>. QED
    BY <1>7, <2>1, <2>2
<1>. QED
  BY <1>9 DEF events, without

-----------------------------------------------------------------------------
(* The figure of a source lies between those of its targets.               *)

LEMMA Between ==
  ASSUME TablesOK, NEW s \in Source,
         NEW own, own = {t \in Target : Keys(s, {t}) # {}}, own # {}
  PROVE  LET all == P95(s, Keys(s, Target))
         IN /\ \E t \in own : ~ Less(all, TargetP95(s, t))
            /\ \E t \in own : ~ Less(TargetP95(s, t), all)
<1>. DEFINE g == SamplesOf(s)
            h == P95Of(s)
            D == Total(Keys(s, Target), g)
            N == Total(Keys(s, Target), h)
<1>1. \A k \in Keys(s, Target) : g[k] \in Nat /\ h[k] \in Nat
  BY ColumnsNat
<1>2. D \in Nat /\ N \in Nat /\ P95(s, Keys(s, Target)) = <<N, D>>
  BY TotalsOf
<1>3. ASSUME NEW t \in own
      PROVE  /\ TargetP95(s, t) = <<Total(Keys(s, {t}), h), Total(Keys(s, {t}), g)>>
             /\ Total(Keys(s, {t}), h) \in Nat /\ Total(Keys(s, {t}), g) \in Nat
  <2>1. {t} \in SUBSET Target
    OBVIOUS
  <2>. QED
    BY <2>1, TotalsOf DEF TargetP95
<1>. DEFINE S == Keys(s, Target)
            at == [k \in S |-> k[1]]
<1>4. \A t \in own : Fibre(S, at, {t}) = Keys(s, {t})
  <2>. SUFFICES ASSUME NEW t \in own PROVE Fibre(S, at, {t}) = Keys(s, {t})
    OBVIOUS
  <2>1. Keys(s, {t}) \subseteq Fibre(S, at, {t})
    BY DEF Keys, Fibre
  <2>2. Fibre(S, at, {t}) \subseteq Keys(s, {t})
    BY DEF Keys, Fibre
  <2>. QED
    BY <2>1, <2>2
<1>5. /\ IsFiniteSet(S) /\ IsFiniteSet(own)
      /\ \A k \in S : at[k] \in own
  <2>1. IsFiniteSet(S)
    BY KeysFinite
  <2>2. IsFiniteSet(own)
    BY GradeAssumption, FS_Subset
  <2>3. ASSUME NEW k \in S
        PROVE  k[1] \in own
    <3>1. k \in Target \X Bucket /\ table[s][k] # NoRow
      BY DEF Keys
    <3>2. k \in {k[1]} \X Bucket /\ k[1] \in Target
      BY <3>1
    <3>. QED
      BY <3>1, <3>2 DEF Keys
  <2>. QED
    BY <2>1, <2>2, <2>3
<1>6. \A m, n \in Nat : m * n = n * m /\ m * n \in Nat
  OBVIOUS
<1>. HIDE DEF g, h, at
<1>7. \E t \in own : ~ Less(<<N, D>>, TargetP95(s, t))
  <2>. SUFFICES ASSUME \A t \in own : Less(<<N, D>>, TargetP95(s, t))
                PROVE  FALSE
    OBVIOUS
  <2>1. ASSUME NEW t \in own
        PROVE  N * Total(Keys(s, {t}), g) < D * Total(Keys(s, {t}), h)
    <3>. DEFINE n == Total(Keys(s, {t}), h)
                e == Total(Keys(s, {t}), g)
    <3>1. Less(<<N, D>>, <<n, e>>) /\ n \in Nat /\ e \in Nat
      BY <1>3
    <3>. HIDE DEF N, D, n, e
    <3>2. N * e < n * D
      BY <3>1 DEF Less
    <3>3. n * D = D * n
      BY <1>2, <1>6, <3>1
    <3>. QED
      BY <3>2, <3>3 DEF n, e
  <2>2. \A t \in own : N * Total(Fibre(S, at, {t}), g) < D * Total(Fibre(S, at, {t}), h)
    BY <1>4, <2>1
  <2>3. N * D < D * N
    <3>1. N * Total(S, g) < D * Total(S, h)
      <4>. HIDE DEF N, D, S
      <4>. QED
        BY <1>1, <1>2, <1>5, <2>2, Mediant DEF S
    <3>. QED
      BY <3>1
  <2>. HIDE DEF N, D
  <2>. QED
    BY <1>2, <1>6, <2>3
<1>8. \E t \in own : ~ Less(TargetP95(s, t), <<N, D>>)
  <2>. SUFFICES ASSUME \A t \in own : Less(TargetP95(s, t), <<N, D>>)
                PROVE  FALSE
    OBVIOUS
  <2>1. ASSUME NEW t \in own
        PROVE  D * Total(Keys(s, {t}), h) < N * Total(Keys(s, {t}), g)
    <3>. DEFINE n == Total(Keys(s, {t}), h)
                e == Total(Keys(s, {t}), g)
    <3>1. Less(<<n, e>>, <<N, D>>) /\ n \in Nat /\ e \in Nat
      BY <1>3
    <3>. HIDE DEF N, D, n, e
    <3>2. n * D < N * e
      BY <3>1 DEF Less
    <3>3. n * D = D * n
      BY <1>2, <1>6, <3>1
    <3>. QED
      BY <3>2, <3>3 DEF n, e
  <2>2. \A t \in own : D * Total(Fibre(S, at, {t}), h) < N * Total(Fibre(S, at, {t}), g)
    BY <1>4, <2>1
  <2>3. D * N < N * D
    <3>1. D * Total(S, h) < N * Total(S, g)
      <4>. HIDE DEF N, D, S
      <4>. QED
        BY <1>1, <1>2, <1>5, <2>2, Mediant DEF S
    <3>. QED
      BY <3>1
  <2>. HIDE DEF N, D
  <2>. QED
    BY <1>2, <1>6, <2>3
<1>. QED
  BY <1>2, <1>7, <1>8

-----------------------------------------------------------------------------
(* All of this holds of any tables, so also of those that a page has read.    *)

LEMMA ReportSound ==
  ASSUME TablesOK
  PROVE  /\ WinnerSymmetric /\ BetterNeverLoses /\ ConfidenceEarned
         /\ OutagesNeverHelp /\ SourceBetweenTargets
<1>1. WinnerSymmetric
  BY Symmetric DEF WinnerSymmetric
<1>2. BetterNeverLoses
  BY BetterDoesNotLose DEF BetterNeverLoses
<1>3. ConfidenceEarned
  BY ConfidenceBounded DEF ConfidenceEarned
<1>4. OutagesNeverHelp
  BY OutageDoesNotHelp DEF OutagesNeverHelp
<1>5. SourceBetweenTargets
  <2>. SUFFICES ASSUME NEW s \in Source,
                       NEW own, own = {t \in Target : Keys(s, {t}) # {}}, own # {}
                PROVE  LET all == P95(s, Keys(s, Target))
                       IN /\ \E t \in own : ~ Less(all, TargetP95(s, t))
                          /\ \E t \in own : ~ Less(TargetP95(s, t), all)
    BY DEF SourceBetweenTargets
  <2>. QED
    BY Between
<1>. QED
  BY <1>1, <1>2, <1>3, <1>4, <1>5

\* The verdict on two sources, with its confidence, does not depend on which of them is
\* named first, for any rows and outages.
THEOREM WinnerStaysSymmetric == Spec => []WinnerSymmetric
BY ReportSound, TablesStayOK, PTL

\* A comparison is never more confident than the report on either source alone.
THEOREM ConfidenceStaysEarned == Spec => []ConfidenceEarned
BY ReportSound, TablesStayOK, PTL

\* A source that did at least as well in every row, with no more outages, does not lose.
THEOREM BetterStaysAhead == Spec => []BetterNeverLoses
BY ReportSound, TablesStayOK, PTL

\* Without any one of its outages the label of a source is the same or a better one.
THEOREM OutagesDoNotHelp == Spec => []OutagesNeverHelp
BY ReportSound, TablesStayOK, PTL

\* The p95 of a source lies between those of its best and its worst target.
THEOREM SourceStaysBetween == Spec => []SourceBetweenTargets
BY ReportSound, TablesStayOK, PTL

=============================================================================
