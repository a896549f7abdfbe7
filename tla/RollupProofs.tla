---------------------------- MODULE RollupProofs ----------------------------
(***************************************************************************)
(* What holds of the accumulator and of its table for every window, every    *)
(* set of latencies and every number of samples.                             *)
(***************************************************************************)
EXTENDS Rollup, Folding

Outcome == Latency \cup {Lost}

-----------------------------------------------------------------------------
(* Replies.                                                                *)

Piece(x) == IF x = Lost THEN <<>> ELSE <<x>>
Pieces(seq) == [i \in DOMAIN seq |-> Piece(seq[i])]

LEMMA RepliesPieces ==
  ASSUME NEW seq
  PROVE  Replies(seq) = FlattenSeq(Pieces(seq))
BY DEF Replies, Pieces, Piece

LEMMA PieceType ==
  ASSUME NEW x \in Outcome
  PROVE  Piece(x) \in Seq(Latency)
BY DEF Piece, Outcome

LEMMA PiecesType ==
  ASSUME NEW seq \in Seq(Outcome)
  PROVE  /\ Pieces(seq) \in Seq(Seq(Latency))
         /\ Len(Pieces(seq)) = Len(seq)
         /\ \A i \in 1 .. Len(seq) : Pieces(seq)[i] = Piece(seq[i])
<1>1. Len(seq) \in Nat /\ DOMAIN seq = 1 .. Len(seq) /\ \A i \in 1 .. Len(seq) : seq[i] \in Outcome
  BY LenProperties, ElementOfSeq
<1>2. \A i \in 1 .. Len(seq) : Piece(seq[i]) \in Seq(Latency)
  BY <1>1, PieceType
<1>. QED
  BY <1>1, <1>2 DEF Pieces

LEMMA RepliesType ==
  ASSUME NEW seq \in Seq(Outcome)
  PROVE  Replies(seq) \in Seq(Latency)
BY PiecesType, FlattenType, RepliesPieces

LEMMA RepliesEmpty == Replies(<<>>) = <<>>
<1>1. Pieces(<<>>) = <<>>
  BY DEF Pieces
<1>. QED
  BY <1>1, FlattenEmpty, RepliesPieces

\* The replies of two segments, one after the other.
LEMMA RepliesConcat ==
  ASSUME NEW a \in Seq(Outcome), NEW b \in Seq(Outcome)
  PROVE  Replies(a \o b) = Replies(a) \o Replies(b)
<1>1. /\ a \o b \in Seq(Outcome) /\ Len(a \o b) = Len(a) + Len(b)
      /\ \A i \in 1 .. Len(a) + Len(b) : (a \o b)[i] = IF i <= Len(a) THEN a[i] ELSE b[i - Len(a)]
  BY ConcatProperties
<1>. DEFINE p == Pieces(a)
            q == Pieces(b)
            r == Pieces(a \o b)
<1>2. /\ p \in Seq(Seq(Latency)) /\ Len(p) = Len(a)
      /\ q \in Seq(Seq(Latency)) /\ Len(q) = Len(b)
      /\ r \in Seq(Seq(Latency)) /\ Len(r) = Len(a) + Len(b)
  BY <1>1, PiecesType
<1>3. /\ p \o q \in Seq(Seq(Latency)) /\ Len(p \o q) = Len(p) + Len(q)
      /\ \A i \in 1 .. Len(p) + Len(q) : (p \o q)[i] = IF i <= Len(p) THEN p[i] ELSE q[i - Len(p)]
  <2>. HIDE DEF p, q, r
  <2>1. p \in Seq(Seq(Latency)) /\ q \in Seq(Seq(Latency))
    BY <1>2
  <2>. QED
    BY ONLY <2>1, ConcatProperties
<1>4. Len(a) \in Nat /\ Len(b) \in Nat
  BY LenProperties
<1>5. ASSUME NEW i \in 1 .. Len(r) PROVE r[i] = (p \o q)[i]
  <2>1. r[i] = Piece((a \o b)[i])
    BY <1>1, <1>2, PiecesType
  <2>2. CASE i <= Len(a)
    <3>1. p[i] = Piece(a[i])
      BY <1>4, <2>2, PiecesType
    <3>. QED
      BY <1>1, <1>2, <1>3, <2>1, <2>2, <3>1
  <2>3. CASE ~ (i <= Len(a))
    <3>1. i - Len(a) \in 1 .. Len(b)
      BY <1>2, <1>4, <2>3
    <3>2. q[i - Len(a)] = Piece(b[i - Len(a)])
      BY <3>1, PiecesType
    <3>. QED
      BY <1>1, <1>2, <1>3, <2>1, <2>3, <3>2
  <2>. QED
    BY <2>2, <2>3
<1>6. r = p \o q
  <2>. HIDE DEF p, q, r
  <2>. QED
    BY <1>2, <1>3, <1>5, SeqEqual
<1>7. FlattenSeq(p \o q) = FlattenSeq(p) \o FlattenSeq(q)
  <2>. HIDE DEF p, q
  <2>. QED
    BY <1>2, FlattenConcat
<1>. QED
  BY <1>6, <1>7, RepliesPieces

LEMMA RepliesOne ==
  ASSUME NEW x \in Outcome
  PROVE  Replies(<<x>>) = Piece(x)
<1>. DEFINE o == <<x>>
            q == Pieces(o)
<1>1. o \in Seq(Outcome) /\ Len(o) = 1 /\ o[1] = x
  OBVIOUS
<1>2. q \in Seq(Seq(Latency)) /\ Len(q) = 1 /\ q[1] = Piece(x)
  <2>. HIDE DEF o
  <2>1. 1 \in 1 .. Len(o)
    BY <1>1
  <2>. QED
    BY <1>1, <2>1, PiecesType
<1>. HIDE DEF q
<1>3. PICK f : Flattens(f, q, Len(q)) /\ FlattenSeq(q) = f[Len(q)]
  <2>1. Len(q) \in Nat \ {0}
    BY <1>2
  <2>. QED
    BY <2>1, FlattenLast
<1>4. f[1] = q[1]
  BY <1>2, <1>3 DEF Flattens
<1>. QED
  BY <1>2, <1>3, <1>4, RepliesPieces DEF q

LEMMA RepliesAppend ==
  ASSUME NEW seq \in Seq(Outcome), NEW x \in Outcome
  PROVE  Replies(Append(seq, x)) = IF x = Lost THEN Replies(seq) ELSE Append(Replies(seq), x)
<1>1. <<x>> \in Seq(Outcome) /\ Append(seq, x) = seq \o <<x>>
  BY AppendIsConcat
<1>2. Replies(Append(seq, x)) = Replies(seq) \o Piece(x)
  BY <1>1, RepliesConcat, RepliesOne
<1>3. Replies(seq) \in Seq(Latency)
  BY RepliesType
<1>4. CASE x = Lost
  BY <1>2, <1>3, <1>4, ConcatEmptySeq DEF Piece
<1>5. CASE x # Lost
  <2>1. x \in Latency
    BY <1>5 DEF Outcome
  <2>. QED
    BY <1>2, <1>3, <1>5, <2>1, AppendIsConcat DEF Piece
<1>. QED
  BY <1>4, <1>5

\* Where the replies of a bucket come from.
Kept(seq) == {i \in 1 .. Len(seq) : seq[i] # Lost}

Lists(e, seq) ==
  /\ e \in [1 .. Len(Replies(seq)) -> Kept(seq)]
  /\ \A i, j \in 1 .. Len(Replies(seq)) : e[i] = e[j] => i = j
  /\ \A k \in Kept(seq) : \E i \in 1 .. Len(Replies(seq)) : e[i] = k
  /\ \A i \in 1 .. Len(Replies(seq)) : Replies(seq)[i] = seq[e[i]]

LEMMA ListsOneMore ==
  ASSUME NEW seq \in Seq(Outcome), NEW x \in Outcome, NEW e, Lists(e, seq)
  PROVE  \E f : Lists(f, Append(seq, x))
<1>. DEFINE n == Len(seq)
            m == Len(Replies(seq))
            longer == Append(seq, x)
<1>1. /\ n \in Nat /\ longer \in Seq(Outcome) /\ Len(longer) = n + 1
      /\ longer[n + 1] = x /\ \A i \in 1 .. n : longer[i] = seq[i]
  BY LenProperties, AppendProperties
<1>2. m \in Nat
  BY RepliesType, LenProperties
<1>3. /\ e \in [1 .. m -> Kept(seq)]
      /\ \A i, j \in 1 .. m : e[i] = e[j] => i = j
      /\ \A k \in Kept(seq) : \E i \in 1 .. m : e[i] = k
      /\ \A i \in 1 .. m : Replies(seq)[i] = seq[e[i]]
  BY DEF Lists
<1>4. \A i \in 1 .. m : e[i] \in 1 .. n /\ e[i] \in Kept(seq)
  BY <1>3 DEF Kept
<1>5. CASE x = Lost
  <2>1. Replies(longer) = Replies(seq)
    BY <1>5, RepliesAppend
  <2>2. Kept(longer) = Kept(seq)
    <3>1. \A i : i \in Kept(longer) <=> i \in Kept(seq)
      <4>. HIDE DEF longer
      <4>. QED
        BY <1>1, <1>5 DEF Kept
    <3>. QED
      BY <3>1
  <2>3. \A i \in 1 .. m : longer[e[i]] = seq[e[i]]
    BY <1>1, <1>4
  <2>. HIDE DEF longer
  <2>4. Lists(e, longer)
    BY <1>3, <2>1, <2>2, <2>3 DEF Lists
  <2>. QED
    BY <2>4 DEF longer
<1>6. CASE x # Lost
  <2>1. Replies(longer) = Append(Replies(seq), x) /\ x \in Latency
    BY <1>6, RepliesAppend DEF Outcome
  <2>. DEFINE r == Replies(longer)
              f == [i \in 1 .. m + 1 |-> IF i = m + 1 THEN n + 1 ELSE e[i]]
  <2>2. /\ Len(r) = m + 1 /\ r[m + 1] = x /\ \A i \in 1 .. m : r[i] = Replies(seq)[i]
    BY <2>1, RepliesType, AppendProperties
  <2>3. \A i : i \in Kept(longer) <=> (i \in Kept(seq) \/ i = n + 1)
    <3>. HIDE DEF longer
    <3>. QED
      BY <1>1, <1>6 DEF Kept
  <2>. HIDE DEF longer, m, n, r
  <2>4. f \in [1 .. m + 1 -> Kept(longer)]
    <3>1. ASSUME NEW i \in 1 .. m + 1 PROVE f[i] \in Kept(longer)
      <4>1. i # m + 1 => i \in 1 .. m
        BY <1>2
      <4>. QED
        BY <1>4, <2>3, <4>1
    <3>. QED
      BY <3>1
  <2>5. ASSUME NEW i \in 1 .. m + 1, NEW j \in 1 .. m + 1, f[i] = f[j]
        PROVE  i = j
    <3>1. (i # m + 1 => i \in 1 .. m) /\ (j # m + 1 => j \in 1 .. m)
      BY <1>2
    <3>2. (i # m + 1 => f[i] = e[i] /\ e[i] # n + 1) /\ (i = m + 1 => f[i] = n + 1)
      BY <1>1, <1>4, <3>1
    <3>3. (j # m + 1 => f[j] = e[j] /\ e[j] # n + 1) /\ (j = m + 1 => f[j] = n + 1)
      BY <1>1, <1>4, <3>1
    <3>. HIDE DEF f
    <3>. QED
      BY <1>3, <2>5, <3>1, <3>2, <3>3
  <2>6. ASSUME NEW k \in Kept(longer)
        PROVE  \E i \in 1 .. m + 1 : f[i] = k
    <3>1. CASE k = n + 1
      <4>1. m + 1 \in 1 .. m + 1 /\ f[m + 1] = n + 1
        BY <1>2
      <4>. QED
        BY <3>1, <4>1
    <3>2. CASE k # n + 1
      <4>1. PICK i \in 1 .. m : e[i] = k
        BY <1>3, <2>3, <3>2
      <4>2. i \in 1 .. m + 1 /\ i # m + 1
        BY <1>2
      <4>. QED
        BY <4>1, <4>2
    <3>. QED
      BY <3>1, <3>2
  <2>7. ASSUME NEW i \in 1 .. m + 1
        PROVE  r[i] = longer[f[i]]
    <3>1. CASE i = m + 1
      <4>1. f[i] = n + 1
        BY <3>1
      <4>. QED
        BY <1>1, <2>2, <3>1, <4>1
    <3>2. CASE i # m + 1
      <4>1. i \in 1 .. m
        BY <1>2, <3>2
      <4>2. f[i] = e[i]
        BY <3>2
      <4>. QED
        BY <1>1, <1>3, <1>4, <2>2, <4>1, <4>2
    <3>. QED
      BY <3>1, <3>2
  <2>. HIDE DEF f
  <2>8. Lists(f, longer)
    BY <2>2, <2>4, <2>5, <2>6, <2>7 DEF Lists, r
  <2>. QED
    BY <2>8 DEF longer
<1>. QED
  BY <1>5, <1>6

\* The replies are the outcomes at those places, each of them once.
LEMMA RepliesListed ==
  ASSUME NEW seq \in Seq(Outcome)
  PROVE  \E e : Lists(e, seq)
<1>. DEFINE B(k) == SubSeq(seq, 1, k)
            Without == {k \in 0 .. Len(seq) : ~ \E e : Lists(e, B(k))}
<1>0. Len(seq) \in Nat /\ \A i \in 1 .. Len(seq) : seq[i] \in Outcome
  BY LenProperties, ElementOfSeq
<1>1. \A k \in 0 .. Len(seq) : B(k) \in Seq(Outcome)
  BY <1>0, SubSeqProperties
<1>2. ASSUME NEW k \in Without, \A j \in Without : k <= j
      PROVE  FALSE
  <2>1. CASE k = 0
    <3>1. B(k) = <<>>
      BY <2>1, SubSeqEmpty
    <3>. DEFINE e == [i \in 1 .. 0 |-> 0]
    <3>2. Lists(e, <<>>)
      BY RepliesEmpty DEF Lists, Kept
    <3>. QED
      BY <3>1, <3>2
  <2>2. CASE k # 0
    <3>1. k - 1 \in 0 .. Len(seq) /\ k \in 1 .. Len(seq) /\ 1 \in 1 .. Len(seq) /\ ~ (k <= k - 1)
      BY <1>0, <2>2
    <3>2. PICK e : Lists(e, B(k - 1))
      BY <1>2, <3>1
    <3>3. B(k) = Append(B(k - 1), seq[k])
      <4>1. B(k) = B(k - 1) \o <<seq[k]>>
        BY <3>1, SubSeqRecursiveSecond
      <4>2. B(k - 1) \in Seq(Outcome) /\ seq[k] \in Outcome
        <5>. HIDE DEF B
        <5>. QED
          BY <1>0, <1>1, <3>1
      <4>. HIDE DEF B
      <4>. QED
        BY <4>1, <4>2, AppendIsConcat
    <3>4. \E f : Lists(f, Append(B(k - 1), seq[k]))
      <4>1. B(k - 1) \in Seq(Outcome) /\ seq[k] \in Outcome
        <5>. HIDE DEF B
        <5>. QED
          BY <1>0, <1>1, <3>1
      <4>. HIDE DEF B
      <4>. QED
        BY <3>2, <4>1, ListsOneMore
    <3>. QED
      BY <3>3, <3>4
  <2>. QED
    BY <2>1, <2>2
<1>3. Without \in SUBSET Nat
  OBVIOUS
<1>4. Without = {}
  <2>. HIDE DEF Without
  <2>. QED
    BY <1>2, <1>3, LeastNumber
<1>5. Len(seq) \in 0 .. Len(seq) /\ B(Len(seq)) = seq
  BY <1>0, SubSeqFull
<1>6. \E e : Lists(e, B(Len(seq)))
  BY <1>4, <1>5
<1>. QED
  BY <1>5, <1>6

\* A lost ping is one that has no place among them.
LEMMA LossesCounted ==
  ASSUME NEW seq \in Seq(Outcome)
  PROVE  /\ Losses(seq) = Cardinality({i \in DOMAIN seq : seq[i] = Lost})
         /\ Losses(seq) \in 0 .. Len(seq)
         /\ IsFiniteSet(Kept(seq)) /\ Cardinality(Kept(seq)) = Len(Replies(seq))
<1>. DEFINE n == Len(seq)
            m == Len(Replies(seq))
            lost == {i \in DOMAIN seq : seq[i] = Lost}
<1>1. n \in Nat /\ DOMAIN seq = 1 .. n
  BY LenProperties
<1>2. m \in Nat
  BY RepliesType, LenProperties
<1>3. PICK e : Lists(e, seq)
  BY RepliesListed
<1>4. e \in Bijection(1 .. m, Kept(seq))
  BY <1>3, Fun_IsBij DEF Lists
<1>5. IsFiniteSet(1 .. m) /\ Cardinality(1 .. m) = m /\ IsFiniteSet(1 .. n) /\ Cardinality(1 .. n) = n
  <2>. HIDE DEF m, n
  <2>. QED
    BY <1>1, <1>2, FS_Interval
<1>6. ExistsBijection(1 .. m, Kept(seq))
  BY <1>4 DEF ExistsBijection
<1>7. IsFiniteSet(Kept(seq)) /\ Cardinality(Kept(seq)) = m
  BY <1>5, <1>6, FS_Bijection
<1>8. lost = (1 .. n) \ Kept(seq) /\ (1 .. n) \cap Kept(seq) = Kept(seq)
  <2>1. \A i : i \in lost <=> i \in (1 .. n) \ Kept(seq)
    BY <1>1 DEF Kept
  <2>2. \A i : i \in (1 .. n) \cap Kept(seq) <=> i \in Kept(seq)
    BY DEF Kept
  <2>. HIDE DEF lost
  <2>. QED
    BY <2>1, <2>2
<1>9. Cardinality(lost) = n - m
  <2>. HIDE DEF m, n, lost
  <2>1. Cardinality((1 .. n) \ Kept(seq)) = Cardinality(1 .. n) - Cardinality((1 .. n) \cap Kept(seq))
    BY <1>5, FS_Difference
  <2>. QED
    BY <1>5, <1>7, <1>8, <2>1
<1>10. m <= n
  <2>1. Kept(seq) \in SUBSET (1 .. n)
    BY DEF Kept
  <2>. QED
    BY <1>5, <1>7, <2>1, FS_Subset
<1>. QED
  BY <1>1, <1>2, <1>7, <1>9, <1>10 DEF Losses

\* What was replied is what was taken, but for the losses.
LEMMA RepliesSet ==
  ASSUME NEW seq \in Seq(Outcome)
  PROVE  \A x : x \in ToSet(Replies(seq)) <=> \E i \in 1 .. Len(Replies(seq)) : Replies(seq)[i] = x
<1>1. DOMAIN Replies(seq) = 1 .. Len(Replies(seq))
  BY RepliesType, LenProperties
<1>. QED
  BY <1>1 DEF ToSet

LEMMA RepliesNumbers ==
  ASSUME NEW seq \in Seq(Outcome)
  PROVE  /\ ToSet(Replies(seq)) \in SUBSET (Nat \ {0})
         /\ ToSet(Replies(seq)) \in SUBSET Latency
         /\ (ToSet(Replies(seq)) = {} <=> Len(Replies(seq)) = 0)
<1>1. Len(Replies(seq)) \in Nat /\ \A i \in 1 .. Len(Replies(seq)) : Replies(seq)[i] \in Latency
  BY RepliesType, LenProperties, ElementOfSeq
<1>2. Latency \subseteq Nat \ {0}
  BY RollupAssumption
<1>3. \A x \in ToSet(Replies(seq)) : x \in Latency /\ x \in Nat \ {0}
  BY <1>1, <1>2, RepliesSet
<1>4. CASE Len(Replies(seq)) = 0
  <2>1. ToSet(Replies(seq)) = {}
    BY <1>4, RepliesSet
  <2>. QED
    BY <1>3, <1>4, <2>1
<1>5. CASE Len(Replies(seq)) # 0
  <2>1. 1 \in 1 .. Len(Replies(seq))
    BY <1>1, <1>5
  <2>2. Replies(seq)[1] \in ToSet(Replies(seq))
    BY <2>1, RepliesSet
  <2>. QED
    BY <1>3, <1>5, <2>2
<1>. QED
  BY <1>4, <1>5

-----------------------------------------------------------------------------
(* Sorting.                                                                *)

Rising(s) == \A i, j \in 1 .. Len(s) : i < j => s[i] <= s[j]

LEMMA SortedRising ==
  ASSUME NEW seq
  PROVE  Sorted(seq) = CHOOSE s \in Arranged(Replies(seq)) : Rising(s)
BY DEF Sorted, IsSorted, Rising

\* p takes the places of the sorted replies to those where they arrived.
Orders(p, seq) ==
  /\ p \in Bijection(1 .. Len(Replies(seq)), 1 .. Len(Replies(seq)))
  /\ Sorted(seq) = [i \in 1 .. Len(Replies(seq)) |-> Replies(seq)[p[i]]]

LEMMA SortedOrders ==
  ASSUME NEW seq \in Seq(Outcome)
  PROVE  /\ \E p : Orders(p, seq)
         /\ Rising(Sorted(seq))
<1>. DEFINE r == Replies(seq)
            m == Len(r)
<1>1. m \in Nat /\ DOMAIN r = 1 .. m /\ \A i \in 1 .. m : r[i] \in Latency
  BY RepliesType, LenProperties, ElementOfSeq
<1>2. \A i \in 1 .. m : r[i] \in Nat
  BY <1>1, RollupAssumption
<1>. HIDE DEF r, m
<1>3. PICK q : Sorts(q, r, m)
  BY <1>1, <1>2, SortsExist
<1>4. /\ q \in [1 .. m -> 1 .. m]
      /\ \A v \in 1 .. m : \E i \in 1 .. m : q[i] = v
      /\ \A i, j \in 1 .. m : i < j => r[q[i]] <= r[q[j]]
  BY <1>3 DEF Sorts
<1>5. q \in Surjection(1 .. m, 1 .. m)
  BY <1>4, Fun_IsSurj
<1>6. q \in Bijection(1 .. m, 1 .. m)
  <2>1. IsFiniteSet(1 .. m)
    BY <1>1, FS_Interval
  <2>2. q \in Injection(1 .. m, 1 .. m)
    BY <1>5, <2>1, FS_Surjection
  <2>. QED
    BY <1>5, <2>2, Fun_IsBij
<1>. DEFINE t == [i \in 1 .. m |-> r[q[i]]]
<1>7. t \in Arranged(r)
  BY <1>1, <1>6 DEF Arranged
<1>8. Rising(t)
  <2>1. Len(t) = m
    BY <1>1
  <2>. QED
    BY <1>4, <2>1 DEF Rising
<1>. HIDE DEF t
<1>9. Sorted(seq) \in Arranged(r) /\ Rising(Sorted(seq))
  BY <1>7, <1>8, SortedRising DEF r
<1>10. PICK p \in Bijection(1 .. m, 1 .. m) : Sorted(seq) = [i \in 1 .. m |-> r[p[i]]]
  BY <1>1, <1>9 DEF Arranged
<1>11. Orders(p, seq)
  BY <1>10 DEF Orders, r, m
<1>. QED
  BY <1>9, <1>11

LEMMA SortedType ==
  ASSUME NEW seq \in Seq(Outcome)
  PROVE  /\ Sorted(seq) \in Seq(Latency)
         /\ Len(Sorted(seq)) = Len(Replies(seq))
         /\ DOMAIN Sorted(seq) = 1 .. Len(Replies(seq))
         /\ \A i \in 1 .. Len(Replies(seq)) : Sorted(seq)[i] \in Nat \ {0}
         /\ \A i, j \in 1 .. Len(Replies(seq)) : i <= j => Sorted(seq)[i] <= Sorted(seq)[j]
         /\ \A x : x \in ToSet(Replies(seq)) <=> \E i \in 1 .. Len(Replies(seq)) : Sorted(seq)[i] = x
<1>. DEFINE r == Replies(seq)
            m == Len(r)
            s == Sorted(seq)
<1>1. m \in Nat /\ \A i \in 1 .. m : r[i] \in Latency
  BY RepliesType, LenProperties, ElementOfSeq
<1>2. PICK p : Orders(p, seq)
  BY SortedOrders
<1>3. /\ s = [i \in 1 .. m |-> r[p[i]]]
      /\ p \in [1 .. m -> 1 .. m] /\ \A v \in 1 .. m : \E i \in 1 .. m : p[i] = v
  BY <1>2 DEF Orders, Bijection, Surjection, Injection
<1>. HIDE DEF r, m, s
<1>4. s \in Seq(Latency) /\ Len(s) = m /\ DOMAIN s = 1 .. m
  <2>1. s \in [1 .. m -> Latency]
    BY <1>1, <1>3
  <2>. QED
    BY <1>1, <2>1
<1>5. \A i \in 1 .. m : s[i] \in Nat \ {0}
  <2>1. Latency \subseteq Nat \ {0}
    BY RollupAssumption
  <2>2. \A i \in 1 .. m : s[i] \in Latency
    BY <1>1, <1>3
  <2>. QED
    BY <2>1, <2>2
<1>6. ASSUME NEW i \in 1 .. m, NEW j \in 1 .. m, i <= j PROVE s[i] <= s[j]
  <2>1. Rising(s)
    BY SortedOrders DEF s
  <2>2. i < j => s[i] <= s[j]
    BY <1>4, <2>1 DEF Rising
  <2>3. s[i] \in Nat /\ s[j] \in Nat
    BY <1>5
  <2>4. i = j \/ i < j
    BY <1>6
  <2>. QED
    BY <2>2, <2>3, <2>4
<1>7. ASSUME NEW x PROVE x \in ToSet(r) <=> \E i \in 1 .. m : s[i] = x
  <2>1. x \in ToSet(r) <=> \E i \in 1 .. m : r[i] = x
    BY RepliesSet DEF r, m
  <2>2. ASSUME NEW i \in 1 .. m, r[i] = x PROVE \E j \in 1 .. m : s[j] = x
    BY <1>3, <2>2
  <2>3. ASSUME NEW i \in 1 .. m, s[i] = x PROVE \E j \in 1 .. m : r[j] = x
    BY <1>3, <2>3
  <2>. QED
    BY <2>1, <2>2, <2>3
<1>. QED
  BY <1>4, <1>5, <1>6, <1>7 DEF r, m, s

\* Sorting changes neither what there is nor how much it is.
LEMMA SortedSum ==
  ASSUME NEW seq \in Seq(Outcome)
  PROVE  SumFunction(Sorted(seq)) = SumFunction(Replies(seq))
<1>. DEFINE r == Replies(seq)
            m == Len(r)
            s == Sorted(seq)
<1>1. m \in Nat /\ DOMAIN r = 1 .. m /\ \A i \in 1 .. m : r[i] \in Latency
  BY RepliesType, LenProperties, ElementOfSeq
<1>2. PICK p : Orders(p, seq)
  BY SortedOrders
<1>3. /\ s = [i \in 1 .. m |-> r[p[i]]]
      /\ p \in Bijection(1 .. m, 1 .. m)
  BY <1>2 DEF Orders
<1>4. DOMAIN s = 1 .. m
  BY SortedType
<1>. HIDE DEF r, m, s
<1>5. \A i \in 1 .. m : r[i] \in Nat
  BY <1>1, RollupAssumption
<1>6. \A i \in 1 .. m : s[i] = r[p[i]]
  BY <1>3
<1>7. IsFiniteSet(1 .. m)
  BY <1>1, FS_Interval
<1>8. Total(1 .. m, s) = Total(1 .. m, r)
  <2>1. p \in Bijection(1 .. m, 1 .. m)
    BY <1>3
  <2>2. \A S, T : \A f \in Bijection(S, T) :
          IsFiniteSet(S) /\ (\A x \in T : r[x] \in Nat) /\ (\A x \in S : s[x] = r[f[x]])
          => Total(S, s) = Total(T, r)
    BY TotalPermuted
  <2>. QED
    BY <1>5, <1>6, <1>7, <2>1, <2>2
<1>. QED
  BY <1>1, <1>4, <1>8, TotalFunction DEF r, s

-----------------------------------------------------------------------------
(* Percentiles.                                                            *)

Weight == Scale \div 100

LEMMA WeightType ==
  /\ Weight \in Nat
  /\ Scale = 100 * Weight
<1>1. Scale \in Nat
  BY RollupAssumption
<1>2. Scale % 100 = 0
  BY RollupAssumption
<1>. QED
  BY <1>1, <1>2 DEF Weight

LEMMA TimesMonotone ==
  ASSUME NEW a \in Nat, NEW b \in Nat, NEW c \in Nat, a <= b
  PROVE  /\ a * c \in Nat /\ b * c \in Nat /\ c * a \in Nat /\ c * b \in Nat
         /\ a * c <= b * c
         /\ c * a <= c * b
<1>1. a * c \in Nat /\ b * c \in Nat /\ c * a = a * c /\ c * b = b * c
  OBVIOUS
<1>2. PICK d \in Nat : b = a + d
  <2>1. b - a \in Nat /\ b = a + (b - a)
    OBVIOUS
  <2>. QED
    BY <2>1
<1>3. b * c = a * c + d * c /\ d * c \in Nat
  BY <1>2
<1>. QED
  BY <1>1, <1>3

\* A value between a and b, f hundredths of the way.
Blend(a, b, f) == 100 * a + f * (b - a)

LEMMA BlendBetween ==
  ASSUME NEW a \in Nat, NEW b \in Nat, a <= b, NEW f \in 0 .. 100
  PROVE  /\ Blend(a, b, f) \in Nat
         /\ 100 * a <= Blend(a, b, f)
         /\ Blend(a, b, f) <= 100 * b
         /\ Blend(a, b, 0) = 100 * a
<1>. DEFINE d == b - a
            x == f * d
<1>1. d \in Nat /\ b = a + d
  OBVIOUS
<1>. HIDE DEF d
<1>2. x \in Nat /\ x <= 100 * d /\ 0 * d = 0
  <2>1. f \in Nat /\ 100 \in Nat /\ f <= 100
    OBVIOUS
  <2>2. f * d \in Nat /\ f * d <= 100 * d
    BY <1>1, <2>1, TimesMonotone
  <2>. QED
    BY <1>1, <2>2
<1>3. Blend(a, b, f) = 100 * a + x /\ Blend(a, b, 0) = 100 * a + 0 * d
  BY DEF Blend, d
<1>. HIDE DEF x
<1>4. 100 * b = 100 * a + 100 * d
  BY <1>1
<1>. QED
  BY <1>1, <1>2, <1>3, <1>4

\* The two ranks on either side of the k-th hundredth of m values, and what is between.
Below(m, k) == (k * (m - 1)) \div 100
Part(m, k) == (k * (m - 1)) % 100
Above(m, k) == IF Part(m, k) = 0 THEN Below(m, k) ELSE Below(m, k) + 1

LEMMA RankParts ==
  ASSUME NEW m \in Nat \ {0}, NEW k \in 0 .. 100
  PROVE  /\ k * (m - 1) = 100 * Below(m, k) + Part(m, k)
         /\ k * (m - 1) \in Nat
         /\ Part(m, k) \in 0 .. 99
         /\ Below(m, k) \in 0 .. m - 1
         /\ Above(m, k) \in 0 .. m - 1
         /\ Below(m, k) <= Above(m, k)
<1>. DEFINE rank == k * (m - 1)
<1>1. rank \in Nat /\ rank <= 100 * (m - 1)
  <2>1. m - 1 \in Nat /\ k \in Nat /\ 100 \in Nat /\ k <= 100
    OBVIOUS
  <2>2. k * (m - 1) \in Nat /\ k * (m - 1) <= 100 * (m - 1)
    BY <2>1, TimesMonotone
  <2>. QED
    BY <2>2
<1>2. Below(m, k) = rank \div 100 /\ Part(m, k) = rank % 100
  BY DEF Below, Part
<1>. HIDE DEF rank
<1>3. /\ rank = 100 * (rank \div 100) + (rank % 100)
      /\ rank % 100 \in 0 .. 99
      /\ rank \div 100 \in Nat
  <2>1. rank \in Nat
    BY <1>1
  <2>. QED
    BY <2>1
<1>. DEFINE lo == Below(m, k)
            f == Part(m, k)
<1>4. lo \in Nat /\ f \in 0 .. 99 /\ rank = 100 * lo + f /\ 100 * lo + f <= 100 * (m - 1)
  BY <1>1, <1>2, <1>3
<1>. HIDE DEF lo, f
<1>5. lo <= m - 1 /\ (f # 0 => lo + 1 <= m - 1)
  BY <1>4
<1>6. Above(m, k) = IF f = 0 THEN lo ELSE lo + 1
  BY DEF Above, lo, f
<1>. QED
  BY <1>1, <1>4, <1>5, <1>6 DEF lo, f, rank

LEMMA RankRange ==
  ASSUME NEW m \in Nat \ {0}, NEW k \in 0 .. 100
  PROVE  /\ Below(m, k) \in Nat /\ Above(m, k) \in Nat
         /\ Below(m, k) + 1 \in 1 .. m
         /\ Above(m, k) + 1 \in 1 .. m
         /\ Below(m, k) + 1 <= Above(m, k) + 1
<1>. DEFINE l == Below(m, k)
            u == Above(m, k)
<1>1. l \in 0 .. m - 1 /\ u \in 0 .. m - 1 /\ l <= u
  BY RankParts
<1>. HIDE DEF l, u
<1>2. l \in Nat /\ u \in Nat /\ l + 1 \in 1 .. m /\ u + 1 \in 1 .. m /\ l + 1 <= u + 1
  BY <1>1
<1>. QED
  BY <1>2 DEF l, u

\* s is a list of numbers in ascending order.
Ordered(s, m) ==
  /\ Len(s) = m
  /\ \A i \in 1 .. m : s[i] \in Nat
  /\ \A i, j \in 1 .. m : i <= j => s[i] <= s[j]

Between(s, m, k) == Blend(s[Below(m, k) + 1], s[Above(m, k) + 1], Part(m, k))

LEMMA BetweenType ==
  ASSUME NEW s, NEW m \in Nat \ {0}, Ordered(s, m), NEW k \in 0 .. 100
  PROVE  /\ s[Below(m, k) + 1] \in Nat
         /\ s[Above(m, k) + 1] \in Nat
         /\ s[Below(m, k) + 1] <= s[Above(m, k) + 1]
         /\ Between(s, m, k) \in Nat
         /\ 100 * s[Below(m, k) + 1] <= Between(s, m, k)
         /\ Between(s, m, k) <= 100 * s[Above(m, k) + 1]
<1>. DEFINE a == s[Below(m, k) + 1]
            b == s[Above(m, k) + 1]
<1>1. Below(m, k) + 1 \in 1 .. m /\ Above(m, k) + 1 \in 1 .. m /\ Below(m, k) + 1 <= Above(m, k) + 1
  BY RankRange
<1>2. a \in Nat /\ b \in Nat /\ a <= b
  BY <1>1 DEF Ordered
<1>3. Part(m, k) \in 0 .. 100
  <2>1. Part(m, k) \in 0 .. 99
    BY RankParts
  <2>. QED
    BY <2>1
<1>. HIDE DEF a, b
<1>. QED
  BY <1>2, <1>3, BlendBetween DEF Between, a, b

LEMMA PercentileBetween ==
  ASSUME NEW s, NEW m \in Nat \ {0}, Ordered(s, m), NEW k \in 0 .. 100
  PROVE  Percentile(s, k) = Weight * Between(s, m, k)
<1>. DEFINE a == s[Below(m, k) + 1]
            b == s[Above(m, k) + 1]
            f == Part(m, k)
<1>1. a \in Nat /\ b \in Nat /\ a <= b
  BY BetweenType
<1>2. f \in 0 .. 99
  BY RankParts
<1>3. Percentile(s, k) = IF f = 0 THEN Scale * a ELSE Scale * a + Weight * f * (b - a)
  <2>1. Len(s) = m
    BY DEF Ordered
  <2>2. Percentile(s, k) = IF Part(m, k) = 0 THEN Scale * s[Below(m, k) + 1]
                           ELSE Scale * s[Below(m, k) + 1]
                                + Weight * Part(m, k) * (s[Below(m, k) + 2] - s[Below(m, k) + 1])
    BY <2>1 DEF Percentile, Part, Below, Weight
  <2>3. Below(m, k) \in Nat
    BY RankRange
  <2>4. Part(m, k) # 0 => Above(m, k) + 1 = Below(m, k) + 2
    BY <2>3 DEF Above
  <2>. QED
    BY <2>2, <2>4
<1>4. Between(s, m, k) = 100 * a + f * (b - a)
  BY DEF Between, Blend
<1>5. Weight \in Nat /\ Scale = 100 * Weight
  BY WeightType
<1>. HIDE DEF a, b, f
<1>6. CASE f = 0
  <2>1. Between(s, m, k) = 100 * a
    BY <1>1, <1>4, <1>6
  <2>. QED
    BY <1>1, <1>3, <1>5, <1>6, <2>1
<1>7. CASE f # 0
  <2>. DEFINE d == b - a
  <2>1. d \in Nat
    BY <1>1
  <2>. HIDE DEF d
  <2>2. Percentile(s, k) = (100 * Weight) * a + Weight * f * d /\ Between(s, m, k) = 100 * a + f * d
    BY <1>3, <1>4, <1>5, <1>7 DEF d
  <2>3. (100 * Weight) * a + Weight * f * d = Weight * (100 * a + f * d)
    BY <1>1, <1>2, <1>5, <2>1
  <2>. QED
    BY <2>2, <2>3
<1>. QED
  BY <1>6, <1>7

\* Of two percentiles, the greater one is not the lower.
LEMMA PercentileMonotone ==
  ASSUME NEW s, NEW m \in Nat \ {0}, Ordered(s, m),
         NEW j \in 0 .. 100, NEW k \in 0 .. 100, j <= k
  PROVE  /\ Percentile(s, j) \in Nat /\ Percentile(s, k) \in Nat
         /\ Percentile(s, j) <= Percentile(s, k)
<1>. DEFINE lj == Below(m, j)
            lk == Below(m, k)
            fj == Part(m, j)
            fk == Part(m, k)
<1>1. /\ lj \in 0 .. m - 1 /\ lk \in 0 .. m - 1 /\ fj \in 0 .. 99 /\ fk \in 0 .. 99
      /\ Above(m, j) \in 0 .. m - 1
      /\ j * (m - 1) = 100 * lj + fj /\ k * (m - 1) = 100 * lk + fk
  BY RankParts
<1>2. j * (m - 1) <= k * (m - 1)
  <2>1. j \in Nat /\ k \in Nat /\ m - 1 \in Nat
    OBVIOUS
  <2>. QED
    BY <2>1, TimesMonotone
<1>3. /\ s[lj + 1] \in Nat /\ s[Above(m, j) + 1] \in Nat /\ s[lj + 1] <= s[Above(m, j) + 1]
      /\ s[lk + 1] \in Nat /\ s[Above(m, k) + 1] \in Nat /\ s[lk + 1] <= s[Above(m, k) + 1]
      /\ Between(s, m, j) \in Nat /\ Between(s, m, k) \in Nat
      /\ Between(s, m, j) <= 100 * s[Above(m, j) + 1]
      /\ 100 * s[lk + 1] <= Between(s, m, k)
  <2>1. /\ s[lj + 1] \in Nat /\ s[Above(m, j) + 1] \in Nat
        /\ s[lj + 1] <= s[Above(m, j) + 1] /\ Between(s, m, j) \in Nat
        /\ Between(s, m, j) <= 100 * s[Above(m, j) + 1]
    BY BetweenType
  <2>2. /\ s[lk + 1] \in Nat /\ s[Above(m, k) + 1] \in Nat
        /\ s[lk + 1] <= s[Above(m, k) + 1] /\ Between(s, m, k) \in Nat
        /\ 100 * s[lk + 1] <= Between(s, m, k)
    BY BetweenType
  <2>. QED
    BY <2>1, <2>2
<1>4. Above(m, j) = (IF fj = 0 THEN lj ELSE lj + 1) /\ Above(m, k) = (IF fk = 0 THEN lk ELSE lk + 1)
  BY DEF Above
<1>5. /\ Between(s, m, j) = Blend(s[lj + 1], s[Above(m, j) + 1], fj)
      /\ Between(s, m, k) = Blend(s[lk + 1], s[Above(m, k) + 1], fk)
  BY DEF Between
<1>. HIDE DEF lj, lk, fj, fk
<1>6. lj < lk \/ (lj = lk /\ fj <= fk)
  BY <1>1, <1>2
<1>7. Between(s, m, j) <= Between(s, m, k)
  <2>1. CASE lj < lk
    <3>1. Above(m, j) + 1 \in 1 .. m /\ lk + 1 \in 1 .. m /\ Above(m, j) + 1 <= lk + 1
      BY <1>1, <1>4, <2>1
    <3>2. s[Above(m, j) + 1] <= s[lk + 1]
      BY <3>1 DEF Ordered
    <3>. QED
      BY <1>3, <3>2
  <2>2. CASE lj = lk /\ fj <= fk
    <3>1. CASE fj = 0
      <4>1. Between(s, m, j) = 100 * s[lj + 1]
        <5>. DEFINE a == s[lj + 1]
                    b == s[Above(m, j) + 1]
        <5>1. a \in Nat /\ b \in Nat /\ Between(s, m, j) = Blend(a, b, 0)
          BY <1>3, <1>5, <3>1
        <5>2. a <= b /\ 0 \in 0 .. 100
          BY <1>3
        <5>. HIDE DEF a, b
        <5>3. Blend(a, b, 0) = 100 * a
          BY <5>1, <5>2, BlendBetween
        <5>. QED
          BY <5>1, <5>3 DEF a
      <4>. QED
        BY <1>3, <2>2, <4>1
    <3>2. CASE fj # 0
      <4>1. fk # 0
        BY <1>1, <2>2, <3>2
      <4>2. Above(m, j) = Above(m, k)
        BY <1>4, <2>2, <3>2, <4>1
      <4>. DEFINE a == s[lj + 1]
                  b == s[Above(m, j) + 1]
                  d == b - a
      <4>3. a \in Nat /\ d \in Nat
        BY <1>3
      <4>4. Between(s, m, j) = 100 * a + fj * d /\ Between(s, m, k) = 100 * a + fk * d
        BY <1>5, <2>2, <4>2 DEF Blend
      <4>. HIDE DEF a, b, d
      <4>5. fj * d <= fk * d /\ fj * d \in Nat /\ fk * d \in Nat
        <5>1. fj \in Nat /\ fk \in Nat /\ fj <= fk
          BY <1>1, <2>2
        <5>. QED
          BY <4>3, <5>1, TimesMonotone
      <4>. QED
        BY <4>3, <4>4, <4>5
    <3>. QED
      BY <3>1, <3>2
  <2>. QED
    BY <1>6, <2>1, <2>2
<1>8. Percentile(s, j) = Weight * Between(s, m, j) /\ Percentile(s, k) = Weight * Between(s, m, k)
  BY PercentileBetween
<1>. QED
  BY <1>3, <1>7, <1>8, WeightType, TimesMonotone

\* How many replies took at most v, as the query counts them.
UpTo(seq, v) == Cardinality({i \in DOMAIN seq : seq[i] # Lost /\ seq[i] <= v})

LEMMA UpToSorted ==
  ASSUME NEW seq \in Seq(Outcome), NEW v
  PROVE  UpTo(seq, v) = Cardinality({i \in 1 .. Len(Replies(seq)) : Sorted(seq)[i] <= v})
<1>. DEFINE m == Len(Replies(seq))
            s == Sorted(seq)
            A == {i \in 1 .. m : s[i] <= v}
            B == {i \in DOMAIN seq : seq[i] # Lost /\ seq[i] <= v}
<1>1. PICK e : Lists(e, seq)
  BY RepliesListed
<1>2. PICK p : Orders(p, seq)
  BY SortedOrders
<1>3. /\ s = [i \in 1 .. m |-> Replies(seq)[p[i]]]
      /\ p \in [1 .. m -> 1 .. m]
      /\ \A i, j \in 1 .. m : p[i] = p[j] => i = j
      /\ \A w \in 1 .. m : \E i \in 1 .. m : p[i] = w
  <2>1. p \in Bijection(1 .. m, 1 .. m)
    BY <1>2 DEF Orders
  <2>2. /\ p \in [1 .. m -> 1 .. m]
        /\ \A i, j \in 1 .. m : p[i] = p[j] => i = j
        /\ \A w \in 1 .. m : \E i \in 1 .. m : p[i] = w
    <3>. HIDE DEF m
    <3>. QED
      BY <2>1 DEF Bijection, Injection, Surjection, IsInjective
  <2>. QED
    BY <1>2, <2>2 DEF Orders
<1>4. /\ e \in [1 .. m -> Kept(seq)]
      /\ \A i, j \in 1 .. m : e[i] = e[j] => i = j
      /\ \A w \in Kept(seq) : \E i \in 1 .. m : e[i] = w
      /\ \A i \in 1 .. m : Replies(seq)[i] = seq[e[i]]
  BY <1>1 DEF Lists
<1>5. DOMAIN seq = 1 .. Len(seq) /\ m \in Nat
  BY LenProperties, RepliesType
<1>6. \A i : i \in B <=> i \in Kept(seq) /\ seq[i] <= v
  BY <1>5 DEF Kept
<1>7. \A i \in A : i \in 1 .. m /\ s[i] <= v
  OBVIOUS
<1>8. \A i \in 1 .. m : s[i] <= v => i \in A
  OBVIOUS
<1>9. \A i \in 1 .. m : s[i] = seq[e[p[i]]] /\ e[p[i]] \in Kept(seq)
  BY <1>3, <1>4
<1>10. IsFiniteSet(A)
  <2>1. IsFiniteSet(1 .. m) /\ A \in SUBSET (1 .. m)
    BY <1>5, FS_Interval
  <2>. HIDE DEF A, m
  <2>. QED
    BY <2>1, FS_Subset
<1>. HIDE DEF A, B, m, s
<1>. DEFINE f == [i \in A |-> e[p[i]]]
<1>11. f \in [A -> B]
  BY <1>6, <1>7, <1>9
<1>12. \A i, j \in A : f[i] = f[j] => i = j
  BY <1>3, <1>4, <1>7
<1>13. ASSUME NEW w \in B PROVE \E i \in A : f[i] = w
  <2>1. w \in Kept(seq) /\ seq[w] <= v
    BY <1>6
  <2>2. PICK j \in 1 .. m : e[j] = w
    BY <1>4, <2>1
  <2>3. PICK i \in 1 .. m : p[i] = j
    BY <1>3, <2>2
  <2>4. s[i] = seq[w]
    BY <1>9, <2>2, <2>3
  <2>5. i \in A
    BY <1>8, <2>1, <2>4
  <2>. QED
    BY <2>2, <2>3, <2>5
<1>14. f \in Bijection(A, B)
  <2>. HIDE DEF f
  <2>. QED
    BY <1>11, <1>12, <1>13, Fun_IsBij
<1>15. ExistsBijection(A, B)
  BY <1>14 DEF ExistsBijection
<1>16. Cardinality(B) = Cardinality(A)
  BY <1>10, <1>15, FS_Bijection
<1>. QED
  BY <1>16 DEF UpTo, A, B, m, s

\* The latency of rank n, which the query finds by counting, is where sorting puts it.
LEMMA RankedSorted ==
  ASSUME NEW seq \in Seq(Outcome), NEW n \in 0 .. Len(Replies(seq)) - 1
  PROVE  Ranked(seq, n) = Sorted(seq)[n + 1]
<1>. DEFINE m == Len(Replies(seq))
            s == Sorted(seq)
            v == s[n + 1]
            A(x) == {i \in 1 .. m : s[i] <= x}
<1>1. m \in Nat
  BY RepliesType, LenProperties
<1>2. n \in Nat /\ n + 1 \in 1 .. m
  BY <1>1
<1>3. /\ \A i \in 1 .. m : s[i] \in Nat
      /\ \A i, j \in 1 .. m : i <= j => s[i] <= s[j]
      /\ \A x : x \in ToSet(Replies(seq)) <=> \E i \in 1 .. m : s[i] = x
  BY SortedType
<1>4. \A x : UpTo(seq, x) = Cardinality(A(x))
  BY UpToSorted
<1>5. \A x : IsFiniteSet(A(x)) /\ Cardinality(A(x)) \in Nat
  <2>. SUFFICES ASSUME NEW x PROVE IsFiniteSet(A(x)) /\ Cardinality(A(x)) \in Nat
    OBVIOUS
  <2>1. IsFiniteSet(1 .. m) /\ A(x) \in SUBSET (1 .. m)
    BY <1>1, FS_Interval
  <2>. HIDE DEF A, m
  <2>2. IsFiniteSet(A(x))
    BY <2>1, FS_Subset
  <2>. QED
    BY <2>2, FS_CardinalityType
<1>6. v \in Nat /\ v \in ToSet(Replies(seq))
  <2>. HIDE DEF m, s
  <2>. QED
    BY <1>2, <1>3
<1>. HIDE DEF m, s
<1>7. UpTo(seq, v) > n
  <2>1. (1 .. n + 1) \in SUBSET A(v)
    <3>1. \A i \in 1 .. n + 1 : i \in 1 .. m /\ i <= n + 1
      BY <1>1, <1>2
    <3>2. \A i \in 1 .. n + 1 : s[i] <= s[n + 1]
      BY <1>2, <1>3, <3>1
    <3>. QED
      BY <3>1, <3>2
  <2>2. Cardinality(1 .. n + 1) = n + 1
    BY <1>2, FS_Interval
  <2>3. Cardinality(1 .. n + 1) <= Cardinality(A(v))
    <3>. HIDE DEF A, v
    <3>. QED
      BY <1>5, <2>1, FS_Subset
  <2>4. Cardinality(A(v)) \in Nat /\ UpTo(seq, v) = Cardinality(A(v))
    <3>. HIDE DEF A, v
    <3>. QED
      BY <1>4, <1>5
  <2>. HIDE DEF A, v
  <2>. QED
    BY <1>2, <2>2, <2>3, <2>4
<1>8. ASSUME NEW w \in ToSet(Replies(seq)), w < v PROVE UpTo(seq, w) <= n
  <2>1. w \in Nat
    BY <1>3
  <2>2. A(w) \in SUBSET (1 .. n)
    <3>1. ASSUME NEW i \in A(w) PROVE i \in 1 .. n
      <4>1. i \in 1 .. m /\ s[i] <= w
        OBVIOUS
      <4>2. s[i] \in Nat /\ ~ (n + 1 <= i)
        <5>1. s[i] \in Nat
          BY <1>3, <4>1
        <5>2. n + 1 <= i => s[n + 1] <= s[i]
          BY <1>2, <1>3, <4>1
        <5>. QED
          BY <1>6, <1>8, <2>1, <4>1, <5>1, <5>2
      <4>. QED
        BY <1>1, <1>2, <4>1, <4>2
    <3>. QED
      BY <3>1
  <2>3. IsFiniteSet(1 .. n) /\ Cardinality(1 .. n) = n
    BY <1>2, FS_Interval
  <2>4. Cardinality(A(w)) <= n
    <3>. HIDE DEF A
    <3>. QED
      BY <2>2, <2>3, FS_Subset
  <2>. HIDE DEF A
  <2>. QED
    BY <1>4, <2>4
<1>. DEFINE Good(u) == UpTo(seq, u) > n /\ \A w \in ToSet(Replies(seq)) : w < u => UpTo(seq, w) <= n
<1>9. Ranked(seq, n) = CHOOSE u \in ToSet(Replies(seq)) : Good(u)
  BY DEF Ranked, UpTo
<1>10. Good(v)
  BY <1>7, <1>8
<1>11. ASSUME NEW u \in ToSet(Replies(seq)), Good(u) PROVE u = v
  <2>1. u \in Nat
    BY <1>3
  <2>. DEFINE x == UpTo(seq, u)
              y == UpTo(seq, v)
  <2>2. x \in Nat /\ y \in Nat
    <3>. HIDE DEF A
    <3>. QED
      BY <1>4, <1>5
  <2>3. x > n /\ y > n
    BY <1>7, <1>11
  <2>4. u < v => x <= n
    BY <1>8
  <2>5. v < u => y <= n
    BY <1>6, <1>11
  <2>. HIDE DEF x, y, v
  <2>. QED
    BY <1>2, <1>6, <2>1, <2>2, <2>3, <2>4, <2>5
<1>. HIDE DEF Good, v
<1>12. Ranked(seq, n) = v
  BY <1>6, <1>9, <1>10, <1>11
<1>. QED
  BY <1>12 DEF v, s

LEMMA SortedOrdered ==
  ASSUME NEW seq \in Seq(Outcome)
  PROVE  Ordered(Sorted(seq), Len(Replies(seq)))
BY SortedType DEF Ordered

\* The weights by which percentile_cont takes its two rows are those of the interpolation.
LEMMA PercentileContSame ==
  ASSUME NEW seq \in Seq(Outcome), Len(Replies(seq)) # 0, NEW k \in 0 .. 100
  PROVE  PercentileCont(seq, k) = Percentile(Sorted(seq), k)
<1>. DEFINE m == Len(Replies(seq))
            s == Sorted(seq)
            row == k * (m - 1)
            l == Below(m, k)
            f == Part(m, k)
            u == Above(m, k)
            a == s[l + 1]
            b == s[u + 1]
<1>0. m \in Nat \ {0}
  BY RepliesType, LenProperties
<1>1. Ordered(s, m)
  BY SortedOrdered
<1>2. /\ row = 100 * l + f /\ f \in 0 .. 99
      /\ l \in 0 .. m - 1 /\ u \in 0 .. m - 1
  BY <1>0, RankParts
<1>3. a \in Nat /\ b \in Nat /\ a <= b
  <2>. HIDE DEF m, s
  <2>. QED
    BY <1>0, <1>1, BetweenType
<1>4. Percentile(s, k) = Weight * Blend(a, b, f)
  <2>. HIDE DEF m, s
  <2>. QED
    BY <1>0, <1>1, PercentileBetween DEF Between
<1>5. l = row \div 100 /\ u = IF f = 0 THEN l ELSE l + 1
  BY DEF Below, Above
<1>6. Ranked(seq, l) = a /\ Ranked(seq, u) = b
  <2>. HIDE DEF l, u
  <2>. QED
    BY <1>2, RankedSorted
<1>7. PercentileCont(seq, k) =
        IF row \div 100 = (row + 99) \div 100 THEN Scale * Ranked(seq, row \div 100)
        ELSE Weight * ((100 * ((row + 99) \div 100) - row) * Ranked(seq, row \div 100)
                       + (row - 100 * (row \div 100)) * Ranked(seq, (row + 99) \div 100))
  BY DEF PercentileCont, Weight
<1>. HIDE DEF l, f, u, row, a, b, m, s
<1>8. (row + 99) \div 100 = u
  <2>1. l \in Nat /\ f \in 0 .. 99 /\ row = 100 * l + f
    BY <1>2
  <2>2. (100 * l + f + 99) \div 100 = IF f = 0 THEN l ELSE l + 1
    BY <2>1
  <2>. QED
    BY <1>5, <2>1, <2>2
<1>9. PercentileCont(seq, k) = IF l = u THEN Scale * a
                               ELSE Weight * ((100 * u - row) * a + (row - 100 * l) * b)
  BY <1>5, <1>6, <1>7, <1>8
<1>10. Weight \in Nat /\ Scale = 100 * Weight
  BY WeightType
<1>11. CASE f = 0
  <2>1. Blend(a, b, f) = 100 * a
    BY <1>3, <1>11, BlendBetween
  <2>2. PercentileCont(seq, k) = Scale * a
    BY <1>5, <1>9, <1>11
  <2>3. (100 * Weight) * a = Weight * (100 * a)
    BY <1>3, <1>10
  <2>. QED
    BY <1>4, <1>10, <2>1, <2>2, <2>3 DEF s
<1>12. CASE f # 0
  <2>1. l \in Nat /\ u = l + 1 /\ l # u /\ f \in Nat
    BY <1>2, <1>5, <1>12
  <2>2. 100 * u - row = 100 - f /\ row - 100 * l = f
    BY <1>2, <2>1
  <2>3. PercentileCont(seq, k) = Weight * ((100 - f) * a + f * b)
    BY <1>9, <2>1, <2>2
  <2>4. (100 - f) * a + f * b = 100 * a + f * (b - a)
    BY <1>3, <2>1
  <2>. QED
    BY <1>4, <2>3, <2>4 DEF Blend, s
<1>. QED
  BY <1>11, <1>12

\* The first of the sorted replies is the least, the last one the largest.
LEMMA SortedEnds ==
  ASSUME NEW seq \in Seq(Outcome), Len(Replies(seq)) # 0
  PROVE  /\ Sorted(seq)[1] = Min(ToSet(Replies(seq)))
         /\ Sorted(seq)[Len(Sorted(seq))] = Max(ToSet(Replies(seq)))
<1>. DEFINE m == Len(Replies(seq))
            s == Sorted(seq)
            R == ToSet(Replies(seq))
<1>1. m \in Nat \ {0}
  BY RepliesType, LenProperties
<1>2. /\ Len(s) = m
      /\ \A i \in 1 .. m : s[i] \in Nat \ {0}
      /\ \A i, j \in 1 .. m : i <= j => s[i] <= s[j]
      /\ \A x : x \in R <=> \E i \in 1 .. m : s[i] = x
  BY SortedType
<1>. HIDE DEF m, s, R
<1>3. 1 \in 1 .. m /\ m \in 1 .. m /\ \A i \in 1 .. m : 1 <= i /\ i <= m
  BY <1>1
<1>4. s[1] \in R /\ s[m] \in R
  BY <1>2, <1>3
<1>5. \A x \in R : x \in Nat /\ s[1] <= x /\ x <= s[m]
  BY <1>2, <1>3
<1>6. Min(R) = CHOOSE x \in R : \A y \in R : x <= y
  BY DEF Min
<1>7. Max(R) = CHOOSE x \in R : \A y \in R : x >= y
  BY DEF Max
<1>8. \A x \in R : (\A y \in R : x <= y) => x = s[1]
  BY <1>4, <1>5
<1>9. \A x \in R : (\A y \in R : x >= y) => x = s[m]
  BY <1>4, <1>5
<1>10. \A y \in R : s[1] <= y /\ s[m] >= y
  BY <1>4, <1>5
<1>11. Min(R) = s[1]
  BY <1>4, <1>6, <1>8, <1>10
<1>12. Max(R) = s[m]
  BY <1>4, <1>7, <1>9, <1>10
<1>. QED
  BY <1>2, <1>11, <1>12 DEF s, R

LEMMA NoReplies ==
  ASSUME NEW seq \in Seq(Outcome)
  PROVE  /\ Len(Sorted(seq)) = Len(Replies(seq))
         /\ Sorted(seq) = <<>> <=> Len(Replies(seq)) = 0
         /\ ToSet(Replies(seq)) = {} <=> Len(Replies(seq)) = 0
BY SortedType, RepliesNumbers, EmptySeq

\* A row made of a bucket has in every column kept what the query finds for its samples.
THEOREM FinalizeIsQuery ==
  ASSUME NEW seq \in Seq(Outcome)
  PROVE  Finalize(seq) = Query(seq)
<1>. DEFINE m == Len(Replies(seq))
            s == Sorted(seq)
            n == Len(seq)
            fails == Cardinality({i \in DOMAIN seq : seq[i] = Lost})
<1>1. /\ Len(s) = m /\ (s = <<>> <=> m = 0) /\ (ToSet(Replies(seq)) = {} <=> m = 0)
  BY NoReplies
<1>2. CASE m = 0
  BY <1>1, <1>2 DEF Finalize, Query
<1>3. CASE m # 0
  <2>1. Losses(seq) = fails
    BY LossesCounted
  <2>2. s[1] = Min(ToSet(Replies(seq))) /\ s[Len(s)] = Max(ToSet(Replies(seq)))
    BY <1>3, SortedEnds
  <2>3. SumFunction(s) = SumFunction(Replies(seq))
    BY SortedSum
  <2>4. \A k \in Quantile : Percentile(s, k) = PercentileCont(seq, k)
    <3>1. \A k \in Quantile : k \in 0 .. 100
      BY DEF Quantile
    <3>. QED
      BY <1>3, <3>1, PercentileContSame
  <2>5. Finalize(seq) = [samples |-> n, fails |-> Losses(seq), min |-> s[1], max |-> s[Len(s)],
                         avg |-> n * ((Scale * SumFunction(s)) \div Len(s)),
                         q |-> [k \in Quantile |-> n * Percentile(s, k)]]
    BY <1>1, <1>3 DEF Finalize
  <2>6. Query(seq) = [samples |-> n, fails |-> fails, min |-> Min(ToSet(Replies(seq))),
                      max |-> Max(ToSet(Replies(seq))),
                      avg |-> n * ((Scale * SumFunction(Replies(seq))) \div m),
                      q |-> [k \in Quantile |-> n * PercentileCont(seq, k)]]
    BY <1>1, <1>3 DEF Query
  <2>7. [k \in Quantile |-> n * Percentile(s, k)] = [k \in Quantile |-> n * PercentileCont(seq, k)]
    BY <2>4
  <2>. HIDE DEF fails, m, s, n
  <2>. QED
    BY <1>1, <2>1, <2>2, <2>3, <2>5, <2>6, <2>7
<1>. QED
  BY <1>2, <1>3

-----------------------------------------------------------------------------
(* Rows.                                                                   *)

Least(seq) == IF Len(Replies(seq)) = 0 THEN 0 ELSE Min(ToSet(Replies(seq)))
Largest(seq) == IF Len(Replies(seq)) = 0 THEN 0 ELSE Max(ToSet(Replies(seq)))

LEMMA LeastAndLargest ==
  ASSUME NEW seq \in Seq(Outcome)
  PROVE  /\ Len(Replies(seq)) = 0 => Least(seq) = 0 /\ Largest(seq) = 0
         /\ Len(Replies(seq)) # 0 =>
              /\ Least(seq) \in ToSet(Replies(seq)) /\ Largest(seq) \in ToSet(Replies(seq))
              /\ \A y \in ToSet(Replies(seq)) : Least(seq) <= y /\ y <= Largest(seq)
         /\ Least(seq) \in Nat /\ Largest(seq) \in Nat
<1>. DEFINE m == Len(Replies(seq))
            s == Sorted(seq)
            R == ToSet(Replies(seq))
<1>1. CASE m = 0
  BY <1>1 DEF Least, Largest
<1>2. CASE m # 0
  <2>1. m \in Nat \ {0}
    BY <1>2, RepliesType, LenProperties
  <2>2. /\ Len(s) = m
        /\ \A i \in 1 .. m : s[i] \in Nat \ {0}
        /\ \A i, j \in 1 .. m : i <= j => s[i] <= s[j]
        /\ \A x : x \in R <=> \E i \in 1 .. m : s[i] = x
    BY SortedType
  <2>3. Least(seq) = s[1] /\ Largest(seq) = s[m]
    BY <1>2, <2>2, SortedEnds DEF Least, Largest
  <2>. HIDE DEF m, s, R
  <2>4. 1 \in 1 .. m /\ m \in 1 .. m /\ \A i \in 1 .. m : 1 <= i /\ i <= m
    BY <2>1
  <2>5. s[1] \in R /\ s[m] \in R /\ s[1] \in Nat /\ s[m] \in Nat
    BY <2>2, <2>4
  <2>6. \A y \in R : s[1] <= y /\ y <= s[m]
    BY <2>2, <2>4
  <2>. QED
    BY <1>2, <2>3, <2>5, <2>6 DEF m, R
<1>. QED
  BY <1>1, <1>2

\* Percentiles that are numbers and do not cross.
Uncrossed(row) ==
  /\ \A k \in Quantile : row.q[k] \in Nat
  /\ \A j, k \in Quantile : j < k => row.q[j] <= row.q[k]

\* The columns that are exact.
AddsUp(row, seq) ==
  /\ row.samples = Len(seq)
  /\ row.fails = Losses(seq)
  /\ row.min = Least(seq)
  /\ row.max = Largest(seq)

LEMMA FinalizeRow ==
  ASSUME NEW seq \in Seq(Outcome)
  PROVE  AddsUp(Finalize(seq), seq) /\ Uncrossed(Finalize(seq))
<1>. DEFINE m == Len(Replies(seq))
            s == Sorted(seq)
            n == Len(seq)
<1>0. n \in Nat /\ m \in Nat
  BY RepliesType, LenProperties
<1>1. Len(s) = m /\ (s = <<>> <=> m = 0)
  BY NoReplies
<1>2. CASE m = 0
  <2>1. Finalize(seq) = [NoRow EXCEPT !.samples = n, !.fails = n]
    BY <1>1, <1>2 DEF Finalize
  <2>2. Losses(seq) = n
    BY <1>0, <1>2 DEF Losses
  <2>3. AddsUp(Finalize(seq), seq)
    BY <1>2, <2>1, <2>2 DEF AddsUp, Least, Largest, NoRow
  <2>4. \A k \in Quantile : Finalize(seq).q[k] = 0
    BY <2>1 DEF NoRow
  <2>. QED
    BY <2>3, <2>4 DEF Uncrossed
<1>3. CASE m # 0
  <2>1. Finalize(seq) = [samples |-> n, fails |-> Losses(seq), min |-> s[1], max |-> s[Len(s)],
                         avg |-> n * ((Scale * SumFunction(s)) \div Len(s)),
                         q |-> [k \in Quantile |-> n * Percentile(s, k)]]
    BY <1>1, <1>3 DEF Finalize
  <2>2. s[1] = Least(seq) /\ s[Len(s)] = Largest(seq)
    BY <1>3, SortedEnds DEF Least, Largest
  <2>3. AddsUp(Finalize(seq), seq)
    BY <2>1, <2>2 DEF AddsUp
  <2>4. \A k \in Quantile : k \in 0 .. 100
    BY DEF Quantile
  <2>5. ASSUME NEW j \in Quantile, NEW k \in Quantile, j <= k
        PROVE  /\ n * Percentile(s, j) \in Nat
               /\ n * Percentile(s, j) <= n * Percentile(s, k)
    <3>1. Ordered(s, m) /\ m \in Nat \ {0}
      BY <1>0, <1>3, SortedOrdered
    <3>2. j \in 0 .. 100 /\ k \in 0 .. 100
      BY <2>4
    <3>. HIDE DEF m, s, n
    <3>3. /\ Percentile(s, j) \in Nat /\ Percentile(s, k) \in Nat
          /\ Percentile(s, j) <= Percentile(s, k)
      BY <2>5, <3>1, <3>2, PercentileMonotone
    <3>. QED
      BY <1>0, <3>3, TimesMonotone
  <2>6. \A k \in Quantile : Finalize(seq).q[k] = n * Percentile(s, k)
    BY <2>1
  <2>7. \A j, k \in Quantile : j <= j /\ (j < k => j <= k)
    BY DEF Quantile
  <2>. HIDE DEF n, s
  <2>. QED
    BY <2>3, <2>5, <2>6, <2>7 DEF Uncrossed
<1>. QED
  BY <1>2, <1>3

\* Two segments of a bucket together.
LEMMA Together ==
  ASSUME NEW a \in Seq(Outcome), NEW b \in Seq(Outcome)
  PROVE  /\ a \o b \in Seq(Outcome)
         /\ Len(a \o b) = Len(a) + Len(b)
         /\ Losses(a \o b) = Losses(a) + Losses(b)
         /\ Least(a \o b) = LeastSet(Least(a), Least(b))
         /\ Largest(a \o b) = IF Largest(a) >= Largest(b) THEN Largest(a) ELSE Largest(b)
<1>. DEFINE c == a \o b
            A == ToSet(Replies(a))
            B == ToSet(Replies(b))
            C == ToSet(Replies(c))
            k == Len(Replies(a))
            l == Len(Replies(b))
            m == Len(Replies(c))
<1>1. c \in Seq(Outcome) /\ Len(c) = Len(a) + Len(b)
  BY ConcatProperties
<1>2. Replies(c) = Replies(a) \o Replies(b)
  BY RepliesConcat
<1>3. Replies(a) \in Seq(Latency) /\ Replies(b) \in Seq(Latency)
  BY RepliesType
<1>4. /\ m = k + l
      /\ \A i \in 1 .. k + l : Replies(c)[i] = IF i <= k THEN Replies(a)[i] ELSE Replies(b)[i - k]
  BY <1>2, <1>3, ConcatProperties
<1>5. k \in Nat /\ l \in Nat /\ Len(a) \in Nat /\ Len(b) \in Nat
  BY <1>3, LenProperties
<1>6. Losses(c) = Losses(a) + Losses(b)
  BY <1>1, <1>4, <1>5 DEF Losses
<1>7. /\ \A x : x \in A <=> \E i \in 1 .. k : Replies(a)[i] = x
      /\ \A x : x \in B <=> \E i \in 1 .. l : Replies(b)[i] = x
      /\ \A x : x \in C <=> \E i \in 1 .. m : Replies(c)[i] = x
  <2>. HIDE DEF c
  <2>. QED
    BY <1>1, RepliesSet
<1>8. ASSUME NEW x PROVE x \in C <=> (x \in A \/ x \in B)
  <2>1. ASSUME NEW i \in 1 .. m, Replies(c)[i] = x PROVE x \in A \/ x \in B
    <3>1. CASE i <= k
      <4>1. i \in 1 .. k /\ i \in 1 .. k + l
        BY <1>4, <1>5, <3>1
      <4>. QED
        BY <1>4, <1>7, <2>1, <3>1, <4>1
    <3>2. CASE ~ (i <= k)
      <4>1. i - k \in 1 .. l /\ i \in 1 .. k + l
        BY <1>4, <1>5, <3>2
      <4>. QED
        BY <1>4, <1>7, <2>1, <3>2, <4>1
    <3>. QED
      BY <3>1, <3>2
  <2>2. ASSUME NEW i \in 1 .. k, Replies(a)[i] = x PROVE x \in C
    <3>1. i \in 1 .. k + l /\ i <= k /\ i \in 1 .. m
      BY <1>4, <1>5
    <3>. QED
      BY <1>4, <1>7, <2>2, <3>1
  <2>3. ASSUME NEW i \in 1 .. l, Replies(b)[i] = x PROVE x \in C
    <3>1. k + i \in 1 .. k + l /\ ~ (k + i <= k) /\ k + i \in 1 .. m /\ (k + i) - k = i
      BY <1>4, <1>5
    <3>2. Replies(c)[k + i] = Replies(b)[i]
      BY <1>4, <3>1
    <3>. QED
      BY <1>7, <2>3, <3>1, <3>2
  <2>. QED
    BY <1>7, <2>1, <2>2, <2>3
<1>9. /\ k = 0 => Least(a) = 0 /\ Largest(a) = 0
      /\ k # 0 => /\ Least(a) \in A /\ Largest(a) \in A
                  /\ \A y \in A : Least(a) <= y /\ y <= Largest(a)
      /\ l = 0 => Least(b) = 0 /\ Largest(b) = 0
      /\ l # 0 => /\ Least(b) \in B /\ Largest(b) \in B
                  /\ \A y \in B : Least(b) <= y /\ y <= Largest(b)
  BY LeastAndLargest
<1>10. /\ m = 0 => Least(c) = 0 /\ Largest(c) = 0
       /\ m # 0 => /\ Least(c) \in C /\ Largest(c) \in C
                   /\ \A y \in C : Least(c) <= y /\ y <= Largest(c)
  <2>. HIDE DEF c
  <2>. QED
    BY <1>1, LeastAndLargest
<1>11. /\ \A x \in A \cup B : x \in Nat \ {0}
       /\ k = 0 <=> A = {}
       /\ l = 0 <=> B = {}
  BY RepliesNumbers
<1>. HIDE DEF c, A, B, C, k, l, m
<1>12. CASE k = 0
  <2>0. m = l
    BY <1>4, <1>5, <1>12
  <2>1. m = l /\ \A x : x \in C <=> x \in B
    BY <1>8, <1>11, <1>12, <2>0
  <2>2. Least(a) = 0 /\ Largest(a) = 0
    BY <1>9, <1>12
  <2>3. CASE l = 0
    BY <1>1, <1>6, <1>9, <1>10, <2>1, <2>2, <2>3 DEF LeastSet, c
  <2>4. CASE l # 0
    <3>1. /\ Least(c) \in B /\ Largest(c) \in B /\ Least(b) \in B /\ Largest(b) \in B
          /\ Least(c) <= Least(b) /\ Least(b) <= Least(c)
          /\ Largest(c) <= Largest(b) /\ Largest(b) <= Largest(c)
      BY <1>9, <1>10, <2>1, <2>4
    <3>2. Least(c) = Least(b) /\ Largest(c) = Largest(b) /\ Largest(b) \in Nat \ {0}
      BY <1>11, <3>1
    <3>. QED
      BY <1>1, <1>6, <2>2, <3>2 DEF LeastSet, c
  <2>. QED
    BY <2>3, <2>4
<1>13. CASE k # 0 /\ l = 0
  <2>0. m = k
    BY <1>4, <1>5, <1>13
  <2>1. m = k /\ \A x : x \in C <=> x \in A
    BY <1>8, <1>11, <1>13, <2>0
  <2>2. Least(b) = 0 /\ Largest(b) = 0
    BY <1>9, <1>13
  <2>3. /\ Least(c) \in A /\ Largest(c) \in A /\ Least(a) \in A /\ Largest(a) \in A
        /\ Least(c) <= Least(a) /\ Least(a) <= Least(c)
        /\ Largest(c) <= Largest(a) /\ Largest(a) <= Largest(c)
    BY <1>9, <1>10, <1>13, <2>1
  <2>4. Least(c) = Least(a) /\ Largest(c) = Largest(a) /\ Largest(a) \in Nat \ {0} /\ Least(a) \in Nat \ {0}
    BY <1>11, <2>3
  <2>. QED
    BY <1>1, <1>6, <2>2, <2>4 DEF LeastSet, c
<1>14. CASE k # 0 /\ l # 0
  <2>1. m # 0
    BY <1>4, <1>5, <1>14
  <2>2. /\ Least(a) \in Nat \ {0} /\ Least(b) \in Nat \ {0}
        /\ Largest(a) \in Nat \ {0} /\ Largest(b) \in Nat \ {0}
        /\ Least(a) \in C /\ Least(b) \in C /\ Largest(a) \in C /\ Largest(b) \in C
    BY <1>8, <1>9, <1>11, <1>14
  <2>3. /\ Least(c) \in A \/ Least(c) \in B
        /\ Largest(c) \in A \/ Largest(c) \in B
        /\ Least(c) <= Least(a) /\ Least(c) <= Least(b)
        /\ Largest(a) <= Largest(c) /\ Largest(b) <= Largest(c)
    BY <1>8, <1>10, <2>1, <2>2
  <2>4. Least(a) <= Least(c) \/ Least(b) <= Least(c)
    BY <1>9, <1>14, <2>3
  <2>5. Largest(c) <= Largest(a) \/ Largest(c) <= Largest(b)
    BY <1>9, <1>14, <2>3
  <2>6. Least(c) \in Nat /\ Largest(c) \in Nat
    BY <1>11, <2>3
  <2>7. Least(c) = LeastSet(Least(a), Least(b))
    BY <2>2, <2>3, <2>4, <2>6 DEF LeastSet
  <2>8. Largest(c) = IF Largest(a) >= Largest(b) THEN Largest(a) ELSE Largest(b)
    BY <2>2, <2>3, <2>5, <2>6
  <2>. QED
    BY <1>1, <1>6, <2>7, <2>8 DEF c
<1>. QED
  BY <1>12, <1>13, <1>14

\* What ON CONFLICT makes of two rows.
LEMMA CombineRow ==
  ASSUME NEW a \in Seq(Outcome), NEW b \in Seq(Outcome),
         NEW old, AddsUp(old, a), Uncrossed(old)
  PROVE  /\ AddsUp(Combine(old, Finalize(b)), a \o b)
         /\ Uncrossed(Combine(old, Finalize(b)))
<1>. DEFINE row == Finalize(b)
            new == Combine(old, row)
<1>1. AddsUp(row, b) /\ Uncrossed(row)
  BY FinalizeRow
<1>. HIDE DEF row
<1>2. /\ new.samples = old.samples + row.samples
      /\ new.fails = old.fails + row.fails
      /\ new.min = LeastSet(old.min, row.min)
      /\ new.max = IF old.max >= row.max THEN old.max ELSE row.max
      /\ \A k \in Quantile : new.q[k] = old.q[k] + row.q[k]
  BY DEF Combine
<1>. HIDE DEF new
<1>3. AddsUp(new, a \o b)
  BY <1>1, <1>2, Together DEF AddsUp
<1>4. Uncrossed(new)
  <2>1. /\ \A k \in Quantile : old.q[k] \in Nat /\ row.q[k] \in Nat
        /\ \A j, k \in Quantile : j < k => old.q[j] <= old.q[k] /\ row.q[j] <= row.q[k]
    BY <1>1 DEF Uncrossed
  <2>2. \A k \in Quantile : new.q[k] \in Nat
    BY <1>2, <2>1
  <2>3. ASSUME NEW j \in Quantile, NEW k \in Quantile, j < k
        PROVE  new.q[j] <= new.q[k]
    <3>1. old.q[j] + row.q[j] <= old.q[k] + row.q[k]
      BY <2>1, <2>3
    <3>. QED
      BY <1>2, <3>1
  <2>. QED
    BY <2>2, <2>3 DEF Uncrossed
<1>. QED
  BY <1>3, <1>4 DEF new, row

-----------------------------------------------------------------------------
(* How many samples there are.                                             *)

Count(bs, fl) == [b \in Bucket |-> Len(bs[b]) + Len(fl[b])]

LEMMA BucketsFinite == IsFiniteSet(Bucket)
<1>1. MaxTime \div Window \in Int
  BY RollupAssumption
<1>. QED
  BY <1>1, FS_Interval DEF Bucket

LEMMA CountTotal ==
  ASSUME NEW bs \in [Bucket -> Seq(Outcome)], NEW fl \in [Bucket -> Seq(Outcome)]
  PROVE  /\ SumFunction(Count(bs, fl)) = Total(Bucket, Count(bs, fl))
         /\ Total(Bucket, Count(bs, fl)) \in Nat
         /\ \A b \in Bucket : /\ Count(bs, fl)[b] \in Nat
                              /\ Count(bs, fl)[b] = Len(bs[b]) + Len(fl[b])
                              /\ Count(bs, fl)[b] <= Total(Bucket, Count(bs, fl))
<1>. DEFINE g == Count(bs, fl)
<1>1. DOMAIN g = Bucket /\ \A b \in Bucket : g[b] = Len(bs[b]) + Len(fl[b])
  BY DEF Count
<1>2. ASSUME NEW b \in Bucket PROVE g[b] \in Nat
  <2>1. bs[b] \in Seq(Outcome) /\ fl[b] \in Seq(Outcome)
    OBVIOUS
  <2>2. Len(bs[b]) \in Nat /\ Len(fl[b]) \in Nat
    BY <2>1, LenProperties
  <2>. QED
    BY <1>1, <2>2
<1>. HIDE DEF g
<1>3. SumFunction(g) = Total(Bucket, g)
  BY <1>1, TotalFunction
<1>4. Total(Bucket, g) \in Nat
  BY <1>2, BucketsFinite, TotalNat
<1>5. ASSUME NEW b \in Bucket PROVE g[b] <= Total(Bucket, g)
  <2>1. Total(Bucket, g) = g[b] + Total(Bucket \ {b}, g)
    BY <1>2, BucketsFinite, TotalRemove
  <2>2. IsFiniteSet(Bucket \ {b})
    BY BucketsFinite, FS_Difference
  <2>3. Total(Bucket \ {b}, g) \in Nat
    BY <1>2, <2>2, TotalNat
  <2>. QED
    BY <1>2, <2>1, <2>3
<1>. QED
  BY <1>1, <1>2, <1>3, <1>4, <1>5 DEF g

LEMMA TakenCount ==
  /\ Taken = SumFunction(Count(buckets, flushed))
  /\ Taken' = SumFunction(Count(buckets', flushed'))
BY DEF Taken, Count

LEMMA CountLess ==
  ASSUME NEW bs \in [Bucket -> Seq(Outcome)], NEW fl \in [Bucket -> Seq(Outcome)],
         NEW cs \in [Bucket -> Seq(Outcome)], NEW gl \in [Bucket -> Seq(Outcome)],
         \A b \in Bucket : Len(cs[b]) + Len(gl[b]) <= Len(bs[b]) + Len(fl[b])
  PROVE  SumFunction(Count(cs, gl)) <= SumFunction(Count(bs, fl))
<1>. DEFINE g == Count(bs, fl)
            h == Count(cs, gl)
<1>1. \A b \in Bucket : h[b] \in Nat /\ g[b] \in Nat /\ h[b] <= g[b]
  BY CountTotal
<1>2. SumFunction(g) = Total(Bucket, g) /\ SumFunction(h) = Total(Bucket, h)
  BY CountTotal
<1>. HIDE DEF g, h
<1>3. Total(Bucket, h) <= Total(Bucket, g)
  BY <1>1, BucketsFinite, TotalMonotone
<1>. QED
  BY <1>2, <1>3 DEF g, h

LEMMA CountOneMore ==
  ASSUME NEW bs \in [Bucket -> Seq(Outcome)], NEW fl \in [Bucket -> Seq(Outcome)],
         NEW c \in Bucket, NEW x \in Outcome
  PROVE  SumFunction(Count([bs EXCEPT ![c] = Append(@, x)], fl)) = SumFunction(Count(bs, fl)) + 1
<1>. DEFINE cs == [bs EXCEPT ![c] = Append(@, x)]
            g == Count(bs, fl)
            h == Count(cs, fl)
            R == Bucket \ {c}
<1>1. bs[c] \in Seq(Outcome) /\ Append(bs[c], x) \in Seq(Outcome) /\ Len(Append(bs[c], x)) = Len(bs[c]) + 1
  BY AppendProperties
<1>2. cs \in [Bucket -> Seq(Outcome)] /\ cs[c] = Append(bs[c], x) /\ \A b \in R : cs[b] = bs[b]
  BY <1>1
<1>. HIDE DEF cs
<1>3. /\ \A b \in Bucket : g[b] \in Nat /\ g[b] = Len(bs[b]) + Len(fl[b])
      /\ \A b \in Bucket : h[b] \in Nat /\ h[b] = Len(cs[b]) + Len(fl[b])
      /\ SumFunction(g) = Total(Bucket, g)
      /\ SumFunction(h) = Total(Bucket, h)
  BY <1>2, CountTotal
<1>4. h[c] = g[c] + 1
  <2>1. Len(bs[c]) \in Nat /\ Len(fl[c]) \in Nat
    <3>1. fl[c] \in Seq(Outcome)
      OBVIOUS
    <3>. QED
      BY <1>1, <3>1, LenProperties
  <2>2. g[c] = Len(bs[c]) + Len(fl[c]) /\ h[c] = Len(bs[c]) + 1 + Len(fl[c])
    BY <1>1, <1>2, <1>3
  <2>. QED
    BY <2>1, <2>2
<1>. HIDE DEF g, h
<1>5. IsFiniteSet(R)
  BY BucketsFinite, FS_Difference
<1>6. Total(Bucket, g) = g[c] + Total(R, g) /\ Total(Bucket, h) = h[c] + Total(R, h)
  <2>1. (\A b \in Bucket : g[b] \in Nat) /\ (\A b \in Bucket : h[b] \in Nat)
    BY <1>3
  <2>2. Total(Bucket, g) = g[c] + Total(R, g)
    BY <2>1, BucketsFinite, TotalRemove
  <2>3. Total(Bucket, h) = h[c] + Total(R, h)
    BY <2>1, BucketsFinite, TotalRemove
  <2>. QED
    BY <2>2, <2>3
<1>7. Total(R, h) = Total(R, g)
  <2>1. \A b \in R : h[b] = g[b]
    BY <1>2, <1>3
  <2>. HIDE DEF R
  <2>. QED
    BY <1>5, <2>1, TotalSame
<1>8. Total(R, g) \in Nat
  BY <1>3, <1>5, TotalNat
<1>. HIDE DEF R
<1>9. g[c] \in Nat
  BY <1>3
<1>. QED
  BY <1>3, <1>4, <1>6, <1>7, <1>8, <1>9 DEF g, h, cs

-----------------------------------------------------------------------------
(* The invariant.                                                          *)

\* Every sample that was taken is in one place, and a row is made of those that were
\* flushed to it.
Stored ==
  /\ now \in 0 .. MaxTime
  /\ buckets \in [Bucket -> Seq(Outcome)]
  /\ flushed \in [Bucket -> Seq(Outcome)]
  /\ Taken <= MaxSample
  /\ \A b \in Bucket : AddsUp(table[b], flushed[b]) /\ Uncrossed(table[b])

LEMMA EmptyRow ==
  /\ <<>> \in Seq(Outcome)
  /\ AddsUp(NoRow, <<>>)
  /\ Uncrossed(NoRow)
<1>1. <<>> \in Seq(Outcome) /\ Len(<<>>) = 0
  BY EmptySeq
<1>2. AddsUp(NoRow, <<>>)
  BY <1>1, RepliesEmpty DEF AddsUp, NoRow, Losses, Least, Largest
<1>3. Uncrossed(NoRow)
  BY DEF Uncrossed, NoRow
<1>. QED
  BY <1>1, <1>2, <1>3

LEMMA StoredInit == Init => Stored
<1>. SUFFICES ASSUME Init PROVE Stored
  OBVIOUS
<1>1. /\ now = 0
      /\ \A b \in Bucket : buckets[b] = <<>> /\ flushed[b] = <<>> /\ table[b] = NoRow
      /\ buckets \in [Bucket -> Seq(Outcome)] /\ flushed \in [Bucket -> Seq(Outcome)]
  BY EmptyRow DEF Init
<1>2. now \in 0 .. MaxTime /\ MaxSample \in Nat
  BY <1>1, RollupAssumption
<1>3. Taken = 0
  <2>. DEFINE g == Count(buckets, flushed)
              z == [b \in Bucket |-> 0]
  <2>1. \A b \in Bucket : g[b] \in Nat /\ g[b] = 0
    <3>1. Len(<<>>) = 0
      BY EmptySeq
    <3>2. \A b \in Bucket : g[b] \in Nat /\ g[b] = Len(buckets[b]) + Len(flushed[b])
      BY <1>1, CountTotal
    <3>3. \A b \in Bucket : Len(buckets[b]) = 0 /\ Len(flushed[b]) = 0
      BY <1>1, <3>1
    <3>. HIDE DEF g
    <3>. SUFFICES ASSUME NEW b \in Bucket PROVE g[b] \in Nat /\ g[b] = 0
      OBVIOUS
    <3>4. g[b] = Len(buckets[b]) + Len(flushed[b]) /\ g[b] \in Nat
      BY <3>2
    <3>5. Len(buckets[b]) = 0 /\ Len(flushed[b]) = 0
      BY <3>3
    <3>6. g[b] = 0 + 0
      BY <3>4, <3>5, Zenon
    <3>7. 0 + 0 = 0 /\ 0 \in Nat
      OBVIOUS
    <3>. QED
      BY <3>6, <3>7, Zenon
  <2>2. Taken = Total(Bucket, g)
    BY <1>1, CountTotal, TakenCount
  <2>. HIDE DEF g
  <2>. DEFINE Fine(T) == Total(T, g) = 0
              Bad == {T \in SUBSET Bucket : ~ Fine(T)}
  <2>3. ASSUME NEW T \in Bad, \A x \in T : T \ {x} \notin Bad
        PROVE  FALSE
    <3>0. T \in SUBSET Bucket /\ Total(T, g) # 0
      OBVIOUS
    <3>1. T # {}
      BY <3>0, TotalEmpty
    <3>2. PICK x \in T : TRUE
      BY <3>1
    <3>3. Total(T \ {x}, g) = 0
      BY <2>3
    <3>. HIDE DEF Bad
    <3>4. IsFiniteSet(T)
      BY <3>0, BucketsFinite, FS_Subset
    <3>5. \A y \in T : g[y] \in Nat
      BY <2>1, <3>0
    <3>6. Total(T, g) = g[x] + Total(T \ {x}, g)
      BY <3>4, <3>5, TotalRemove
    <3>. QED
      BY <2>1, <3>0, <3>3, <3>6
  <2>4. Bad \in SUBSET (SUBSET Bucket)
    OBVIOUS
  <2>5. Bad = {}
    <3>. HIDE DEF Bad
    <3>. QED
      BY <2>3, <2>4, BucketsFinite, SmallestSet
  <2>6. Bucket \in SUBSET Bucket /\ Bucket \notin Bad
    BY <2>5
  <2>. QED
    BY <2>2, <2>6
<1>. QED
  BY <1>1, <1>2, <1>3, EmptyRow DEF Stored

\* The row of a bucket that is flushed, and of one that is not.
LEMMA UpsertRows ==
  ASSUME Stored, NEW B \in SUBSET Bucket, Upsert(B)
  PROVE  /\ buckets' \in [Bucket -> Seq(Outcome)]
         /\ flushed' \in [Bucket -> Seq(Outcome)]
         /\ Taken' <= MaxSample
         /\ \A b \in Bucket : AddsUp(table'[b], flushed'[b]) /\ Uncrossed(table'[b])
<1>1. \A b \in Bucket : buckets[b] \in Seq(Outcome) /\ flushed[b] \in Seq(Outcome)
  BY DEF Stored
<1>2. ASSUME NEW b \in Bucket
      PROVE  /\ flushed[b] \o buckets[b] \in Seq(Outcome)
             /\ Len(flushed[b] \o buckets[b]) = Len(flushed[b]) + Len(buckets[b])
             /\ Len(flushed[b]) \in Nat /\ Len(buckets[b]) \in Nat
  <2>1. buckets[b] \in Seq(Outcome) /\ flushed[b] \in Seq(Outcome)
    BY <1>1
  <2>. QED
    BY <2>1, ConcatProperties, LenProperties
<1>3. /\ \A b \in Bucket : buckets'[b] = IF b \in B THEN <<>> ELSE buckets[b]
      /\ \A b \in Bucket : flushed'[b] = IF b \in B THEN flushed[b] \o buckets[b] ELSE flushed[b]
      /\ \A b \in Bucket : table'[b] = IF b \in B
                                       THEN IF table[b].samples = 0 THEN Finalize(buckets[b])
                                            ELSE Combine(table[b], Finalize(buckets[b]))
                                       ELSE table[b]
  BY DEF Upsert
<1>4. buckets' \in [Bucket -> Seq(Outcome)] /\ flushed' \in [Bucket -> Seq(Outcome)]
  <2>1. \A b \in Bucket : (IF b \in B THEN <<>> ELSE buckets[b]) \in Seq(Outcome)
    BY <1>1, EmptyRow
  <2>2. \A b \in Bucket : (IF b \in B THEN flushed[b] \o buckets[b] ELSE flushed[b]) \in Seq(Outcome)
    BY <1>1, <1>2
  <2>3. /\ buckets' = [b \in Bucket |-> IF b \in B THEN <<>> ELSE buckets[b]]
        /\ flushed' = [b \in Bucket |-> IF b \in B THEN flushed[b] \o buckets[b] ELSE flushed[b]]
    BY DEF Upsert
  <2>. QED
    BY <2>1, <2>2, <2>3
<1>5. \A b \in Bucket : Len(buckets'[b]) + Len(flushed'[b]) <= Len(buckets[b]) + Len(flushed[b])
  <2>. SUFFICES ASSUME NEW b \in Bucket
                PROVE  Len(buckets'[b]) + Len(flushed'[b]) <= Len(buckets[b]) + Len(flushed[b])
    OBVIOUS
  <2>0. Len(flushed[b]) \in Nat /\ Len(buckets[b]) \in Nat
    BY <1>2
  <2>1. CASE b \in B
    <3>1. buckets'[b] = <<>> /\ flushed'[b] = flushed[b] \o buckets[b]
      BY <1>3, <2>1
    <3>2. Len(buckets'[b]) = 0 /\ Len(flushed'[b]) = Len(flushed[b]) + Len(buckets[b])
      BY <1>2, <3>1, EmptySeq
    <3>. QED
      BY <2>0, <3>2
  <2>2. CASE b \notin B
    <3>1. buckets'[b] = buckets[b] /\ flushed'[b] = flushed[b]
      BY <1>3, <2>2
    <3>. QED
      BY <2>0, <3>1
  <2>. QED
    BY <2>1, <2>2
<1>6. Taken' <= Taken
  <2>1. buckets \in [Bucket -> Seq(Outcome)] /\ flushed \in [Bucket -> Seq(Outcome)]
    BY DEF Stored
  <2>2. SumFunction(Count(buckets', flushed')) <= SumFunction(Count(buckets, flushed))
    BY <1>4, <1>5, <2>1, CountLess
  <2>. QED
    BY <2>2, TakenCount
<1>7. Taken' <= MaxSample
  <2>1. Taken \in Nat /\ Taken' \in Nat
    BY <1>4, CountTotal, TakenCount DEF Stored
  <2>. QED
    BY <1>6, <2>1, RollupAssumption DEF Stored
<1>8. ASSUME NEW b \in Bucket
      PROVE  AddsUp(table'[b], flushed'[b]) /\ Uncrossed(table'[b])
  <2>1. AddsUp(table[b], flushed[b]) /\ Uncrossed(table[b])
    BY DEF Stored
  <2>2. CASE b \notin B
    BY <1>3, <2>1, <2>2
  <2>3. CASE b \in B /\ table[b].samples = 0
    <3>1. Len(flushed[b]) = 0
      BY <2>1, <2>3 DEF AddsUp
    <3>2. flushed[b] = <<>>
      BY <1>1, <3>1, EmptySeq
    <3>3. flushed'[b] = buckets[b]
      BY <1>1, <1>3, <2>3, <3>2, ConcatEmptySeq
    <3>. QED
      BY <1>1, <1>3, <2>3, <3>3, FinalizeRow
  <2>4. CASE b \in B /\ table[b].samples # 0
    <3>1. flushed[b] \in Seq(Outcome) /\ buckets[b] \in Seq(Outcome)
      BY <1>1
    <3>2. /\ AddsUp(Combine(table[b], Finalize(buckets[b])), flushed[b] \o buckets[b])
          /\ Uncrossed(Combine(table[b], Finalize(buckets[b])))
      BY <2>1, <3>1, CombineRow
    <3>. QED
      BY <1>3, <2>4, <3>2
  <2>. QED
    BY <2>2, <2>3, <2>4
<1>. QED
  BY <1>4, <1>7, <1>8

LEMMA StoredNext == Stored /\ [Next]_vars => Stored'
<1>. SUFFICES ASSUME Stored, [Next]_vars PROVE Stored'
  OBVIOUS
<1>0. /\ now \in 0 .. MaxTime /\ MaxTime \in Nat /\ MaxSample \in Nat
      /\ buckets \in [Bucket -> Seq(Outcome)] /\ flushed \in [Bucket -> Seq(Outcome)]
      /\ Taken \in Nat /\ Taken <= MaxSample
      /\ \A b \in Bucket : AddsUp(table[b], flushed[b]) /\ Uncrossed(table[b])
  BY CountTotal, TakenCount, RollupAssumption DEF Stored
<1>1. CASE Consume
  <2>1. PICK ts \in 0 .. now, x \in Latency \cup {Lost} :
          buckets' = [buckets EXCEPT ![ts \div Window] = Append(@, x)]
    BY <1>1 DEF Consume
  <2>2. x \in Outcome /\ Taken < MaxSample /\ UNCHANGED <<now, table, flushed>>
    BY <1>1 DEF Consume, Outcome
  <2>. DEFINE c == ts \div Window
  <2>. HIDE DEF c
  <2>3. buckets' = [buckets EXCEPT ![c] = Append(@, x)]
    BY <2>1 DEF c
  <2>4. CASE c \in Bucket
    <3>1. Append(buckets[c], x) \in Seq(Outcome)
      <4>1. buckets[c] \in Seq(Outcome)
        BY <1>0, <2>4
      <4>. QED
        BY <2>2, <4>1, AppendProperties
    <3>2. buckets' \in [Bucket -> Seq(Outcome)]
      BY <1>0, <2>3, <2>4, <3>1
    <3>3. SumFunction(Count([buckets EXCEPT ![c] = Append(@, x)], flushed)) = Taken + 1
      BY <1>0, <2>2, <2>4, CountOneMore, TakenCount
    <3>4. Taken' = Taken + 1
      BY <2>2, <2>3, <3>3, TakenCount
    <3>5. Taken' <= MaxSample
      BY <1>0, <2>2, <3>4
    <3>. QED
      BY <1>0, <2>2, <3>2, <3>5 DEF Stored
  <2>5. CASE c \notin Bucket
    <3>1. buckets' = buckets
      BY <1>0, <2>3, <2>5
    <3>2. Taken' = Taken
      BY <2>2, <3>1, TakenCount
    <3>. QED
      BY <1>0, <2>2, <3>1, <3>2 DEF Stored
  <2>. QED
    BY <2>4, <2>5
<1>2. CASE Flush
  <2>. DEFINE B == {b \in Entries : (b + 1) * Window <= now}
  <2>1. B \in SUBSET Bucket /\ Upsert(B) /\ now' = now
    BY <1>2 DEF Flush, Entries
  <2>. HIDE DEF B
  <2>. QED
    BY <1>0, <2>1, UpsertRows DEF Stored
<1>3. CASE FlushAll
  <2>1. Entries \in SUBSET Bucket /\ Upsert(Entries) /\ now' = now
    BY <1>3 DEF FlushAll, Entries
  <2>. QED
    BY <1>0, <2>1, UpsertRows DEF Stored
<1>4. CASE Crash
  <2>1. buckets' = [b \in Bucket |-> <<>>] /\ UNCHANGED <<now, table, flushed>>
    BY <1>4 DEF Crash
  <2>2. buckets' \in [Bucket -> Seq(Outcome)]
    BY <2>1, EmptyRow
  <2>3. \A b \in Bucket : Len(buckets'[b]) + Len(flushed[b]) <= Len(buckets[b]) + Len(flushed[b])
    <3>1. SUFFICES ASSUME NEW b \in Bucket
                   PROVE  Len(buckets'[b]) + Len(flushed[b]) <= Len(buckets[b]) + Len(flushed[b])
      OBVIOUS
    <3>2. buckets[b] \in Seq(Outcome) /\ flushed[b] \in Seq(Outcome)
      BY <1>0
    <3>3. Len(buckets[b]) \in Nat /\ Len(flushed[b]) \in Nat /\ Len(<<>>) = 0
      BY <3>2, LenProperties, EmptySeq
    <3>. QED
      BY <2>1, <3>3
  <2>4. SumFunction(Count(buckets', flushed)) <= SumFunction(Count(buckets, flushed))
    BY <1>0, <2>2, <2>3, CountLess
  <2>5. Taken' <= Taken /\ Taken' \in Nat
    BY <1>0, <2>1, <2>2, <2>4, CountTotal, TakenCount
  <2>6. Taken' <= MaxSample
    BY <1>0, <2>5
  <2>. QED
    BY <1>0, <2>1, <2>2, <2>6 DEF Stored
<1>5. CASE Tick
  <2>1. now' = now + 1 /\ now < MaxTime /\ UNCHANGED <<buckets, table, flushed>>
    BY <1>5 DEF Tick
  <2>2. now' \in 0 .. MaxTime
    BY <1>0, <2>1
  <2>3. Taken' = Taken
    BY <2>1, TakenCount
  <2>. QED
    BY <1>0, <2>1, <2>2, <2>3 DEF Stored
<1>6. CASE UNCHANGED vars
  <2>1. UNCHANGED <<now, buckets, table, flushed>>
    BY <1>6 DEF vars
  <2>2. Taken' = Taken
    BY <2>1, TakenCount
  <2>. QED
    BY <1>0, <2>1, <2>2 DEF Stored
<1>. QED
  BY <1>1, <1>2, <1>3, <1>4, <1>5, <1>6 DEF Next

THEOREM StoredAlways == Spec => []Stored
BY StoredInit, StoredNext, PTL DEF Spec

\* In every reachable state there are only samples that were taken, and no more failures
\* in a row than samples.
THEOREM TypeCorrect == Spec => []TypeOK
<1>1. Stored => TypeOK
  <2>. SUFFICES ASSUME Stored PROVE TypeOK
    OBVIOUS
  <2>1. ASSUME NEW b \in Bucket
        PROVE  /\ ToSet(buckets[b] \o flushed[b]) \subseteq Latency \cup {Lost}
               /\ table[b].samples \in 0 .. MaxSample
               /\ table[b].fails \in 0 .. table[b].samples
    <3>1. /\ buckets[b] \in Seq(Outcome) /\ flushed[b] \in Seq(Outcome)
          /\ buckets \in [Bucket -> Seq(Outcome)] /\ flushed \in [Bucket -> Seq(Outcome)]
          /\ AddsUp(table[b], flushed[b])
      BY DEF Stored
    <3>2. ToSet(buckets[b] \o flushed[b]) \subseteq Outcome
      <4>. DEFINE s == buckets[b] \o flushed[b]
      <4>1. s \in Seq(Outcome)
        BY <3>1, ConcatProperties
      <4>. HIDE DEF s
      <4>2. DOMAIN s = 1 .. Len(s) /\ \A i \in 1 .. Len(s) : s[i] \in Outcome
        BY <4>1, LenProperties, ElementOfSeq
      <4>3. ToSet(s) \subseteq Outcome
        BY <4>2 DEF ToSet
      <4>. QED
        BY <4>3 DEF s
    <3>3. /\ Len(buckets[b]) + Len(flushed[b]) <= Taken
          /\ Taken \in Nat /\ Taken <= MaxSample /\ MaxSample \in Nat
      <4>1. /\ Count(buckets, flushed)[b] = Len(buckets[b]) + Len(flushed[b])
            /\ Count(buckets, flushed)[b] <= Total(Bucket, Count(buckets, flushed))
            /\ Taken = Total(Bucket, Count(buckets, flushed)) /\ Taken \in Nat
        BY <3>1, CountTotal, TakenCount
      <4>. QED
        BY <4>1, RollupAssumption DEF Stored
    <3>4. Len(buckets[b]) \in Nat /\ Len(flushed[b]) \in Nat
      BY <3>1, LenProperties
    <3>5. Losses(flushed[b]) \in 0 .. Len(flushed[b])
      BY <3>1, LossesCounted
    <3>6. table[b].samples = Len(flushed[b]) /\ table[b].fails = Losses(flushed[b])
      BY <3>1 DEF AddsUp
    <3>7. Len(flushed[b]) \in 0 .. MaxSample
      <4>. DEFINE m == Len(buckets[b])
                  n == Len(flushed[b])
      <4>1. m \in Nat /\ n \in Nat /\ m + n <= Taken
        BY <3>3, <3>4
      <4>. HIDE DEF m, n
      <4>2. n \in 0 .. MaxSample
        BY <3>3, <4>1
      <4>. QED
        BY <4>2 DEF n
    <3>. QED
      BY <3>2, <3>5, <3>6, <3>7 DEF Outcome
  <2>. QED
    BY <2>1 DEF TypeOK, Stored
<1>. QED
  BY <1>1, StoredAlways, PTL

\* However a bucket came to the table, in one segment or many, with late samples,
\* restarts and crashes between them, the counts and the extremes of its row are those of
\* all samples that were flushed, taken together.
THEOREM RowsAddUp == Spec => []SegmentsAddUp
<1>1. Stored => SegmentsAddUp
  <2>. SUFFICES ASSUME Stored, NEW b \in Bucket
                PROVE  LET whole == Finalize(flushed[b])
                       IN /\ table[b].samples = whole.samples
                          /\ table[b].fails = whole.fails
                          /\ table[b].min = whole.min
                          /\ table[b].max = whole.max
    BY DEF SegmentsAddUp
  <2>1. flushed[b] \in Seq(Outcome) /\ AddsUp(table[b], flushed[b])
    BY DEF Stored
  <2>2. AddsUp(Finalize(flushed[b]), flushed[b])
    BY <2>1, FinalizeRow
  <2>. QED
    BY <2>1, <2>2 DEF AddsUp
<1>. QED
  BY <1>1, StoredAlways, PTL

\* The percentile columns of a row never cross, however many rows were blended in it.
THEOREM PercentilesOrdered == Spec => []QuantilesOrdered
<1>1. Stored => QuantilesOrdered
  BY DEF Stored, Uncrossed, QuantilesOrdered
<1>. QED
  BY <1>1, StoredAlways, PTL

\* Whatever is flushed, the row that is written of a bucket is, in every column kept, what the
\* chart query computes from the same raw samples.
THEOREM ChartsMatch == Spec => []RowsMatchQuery
<1>1. Stored => RowsMatchQuery
  <2>. SUFFICES ASSUME Stored, NEW b \in Entries PROVE Finalize(buckets[b]) = Query(buckets[b])
    BY DEF RowsMatchQuery
  <2>1. buckets[b] \in Seq(Outcome)
    BY DEF Stored, Entries
  <2>. QED
    BY <2>1, FinalizeIsQuery
<1>. QED
  BY <1>1, StoredAlways, PTL

=============================================================================
