------------------------------ MODULE Folding ------------------------------
(***************************************************************************)
(* Lemmas about the operators that the models share: concatenations of      *)
(* batches (FlattenSeq), sums over finite sets, lists in ascending order     *)
(* with the permutations of a sequence, and weighted means.  Concatenations  *)
(* and sums are recursive functions; what those do is shown by looking at    *)
(* the first position, or a smallest set, where they would not.             *)
(***************************************************************************)
EXTENDS Integers, Sequences, SequencesExt, SequenceTheorems, FiniteSetTheorems,
        FunctionTheorems, WellFoundedInduction, TLAPS

\* A set of numbers that is not empty has a least element.
LEMMA LeastNumber ==
  ASSUME NEW S \in SUBSET Nat, S # {}
  PROVE  \E x \in S : \A y \in S : x <= y
<1>1. PICK x \in S : \A y \in S : ~ (<<y, x>> \in OpToRel(<, Nat))
  BY NatLessThanWellFounded, WFMin, Zenon
<1>2. ASSUME NEW y \in S PROVE x <= y
  <2>1. x \in Nat /\ y \in Nat
    OBVIOUS
  <2>2. ~ (y < x)
    BY <1>1, <2>1 DEF OpToRel
  <2>. QED
    BY <2>1, <2>2
<1>. QED
  BY <1>2

\* f flattens the first n elements of q, and of each shorter beginning.
Flattens(f, q, n) ==
  f = [i \in 1 .. n |-> IF i = 1 THEN q[i] ELSE f[i - 1] \o q[i]]

LEMMA FlattensAt ==
  ASSUME NEW f, NEW q, NEW n \in Nat, Flattens(f, q, n), NEW i \in 1 .. n
  PROVE  f[i] = IF i = 1 THEN q[i] ELSE f[i - 1] \o q[i]
BY DEF Flattens

LEMMA FlattensExists ==
  ASSUME NEW q, NEW n \in Nat
  PROVE  \E f : Flattens(f, q, n)
<1>. DEFINE Without == {m \in Nat : ~ \E f : Flattens(f, q, m)}
<1>1. SUFFICES Without = {}
  OBVIOUS
<1>2. SUFFICES ASSUME NEW m \in Without, \A k \in Without : m <= k
               PROVE  FALSE
  BY LeastNumber
<1>3. m # 0
  <2>1. Flattens([i \in 1 .. 0 |-> q], q, 0)
    BY DEF Flattens
  <2>. QED
    BY <2>1
<1>4. m - 1 \in Nat /\ m - 1 \notin Without
  BY <1>2, <1>3
<1>5. PICK f : Flattens(f, q, m - 1)
  BY <1>4
<1>. DEFINE g == [i \in 1 .. m |-> IF i = m THEN IF m = 1 THEN q[m] ELSE f[m - 1] \o q[m]
                                   ELSE f[i]]
<1>6. ASSUME NEW i \in 1 .. m
      PROVE  g[i] = IF i = 1 THEN q[i] ELSE g[i - 1] \o q[i]
  <2>1. CASE i = m
    BY <1>2, <2>1
  <2>2. CASE i # m
    <3>1. i \in 1 .. m - 1
      BY <1>2, <2>2
    <3>2. f[i] = IF i = 1 THEN q[i] ELSE f[i - 1] \o q[i]
      BY <1>5, <3>1, FlattensAt
    <3>3. i # 1 => i - 1 \in 1 .. m /\ i - 1 # m
      BY <1>2
    <3>. QED
      BY <2>2, <3>2, <3>3
  <2>. QED
    BY <2>1, <2>2
<1>7. Flattens(g, q, m)
  BY <1>6 DEF Flattens
<1>. QED
  BY <1>7

\* Two of them agree as far as what they flatten does.
LEMMA FlattensAgree ==
  ASSUME NEW q, NEW r, NEW m \in Nat, NEW n \in Nat, m <= n,
         \A i \in 1 .. m : q[i] = r[i],
         NEW f, Flattens(f, q, m), NEW g, Flattens(g, r, n)
  PROVE  \A i \in 1 .. m : f[i] = g[i]
<1>. DEFINE Apart == {i \in 1 .. m : f[i] # g[i]}
<1>1. ASSUME NEW i \in Apart, \A k \in Apart : i <= k
      PROVE  FALSE
  <2>1. f[i] = IF i = 1 THEN q[i] ELSE f[i - 1] \o q[i]
    BY FlattensAt
  <2>2. i \in 1 .. n /\ q[i] = r[i]
    OBVIOUS
  <2>3. g[i] = IF i = 1 THEN r[i] ELSE g[i - 1] \o r[i]
    BY <2>2, FlattensAt
  <2>4. i # 1 => i - 1 \in 1 .. m /\ ~ (i <= i - 1)
    OBVIOUS
  <2>5. i # 1 => f[i - 1] = g[i - 1]
    BY <1>1, <2>4
  <2>6. f[i] # g[i]
    OBVIOUS
  <2>. QED
    BY <2>1, <2>2, <2>3, <2>5, <2>6
<1>2. Apart \in SUBSET Nat
  OBVIOUS
<1>. HIDE DEF Apart
<1>3. Apart = {}
  BY <1>1, <1>2, LeastNumber
<1>. QED
  BY <1>3 DEF Apart

LEMMA FlattenLast ==
  ASSUME NEW q, Len(q) \in Nat \ {0}
  PROVE  \E f : Flattens(f, q, Len(q)) /\ FlattenSeq(q) = f[Len(q)]
<1>. DEFINE g == CHOOSE f : Flattens(f, q, Len(q))
<1>1. Flattens(g, q, Len(q))
  BY FlattensExists
<1>2. FlattenSeq(q) = g[Len(q)]
  BY DEF FlattenSeq, Flattens
<1>. QED
  BY <1>1, <1>2

LEMMA FlattenEmpty == FlattenSeq(<<>>) = <<>>
BY DEF FlattenSeq

\* One more element, after the others.
LEMMA FlattenLonger ==
  ASSUME NEW q, NEW r, NEW n \in Nat, n # 0, NEW m \in Nat, m = n + 1,
         Len(q) = n, Len(r) = m, \A i \in 1 .. n : q[i] = r[i]
  PROVE  FlattenSeq(r) = FlattenSeq(q) \o r[m]
<1>1. PICK f : Flattens(f, q, n) /\ FlattenSeq(q) = f[n]
  BY FlattenLast
<1>2. PICK g : Flattens(g, r, m) /\ FlattenSeq(r) = g[m]
  BY FlattenLast
<1>3. Flattens(f, q, n) /\ Flattens(g, r, m)
  BY <1>1, <1>2
<1>4. f[n] = g[n]
  BY <1>3, FlattensAgree
<1>5. g[m] = IF m = 1 THEN r[m] ELSE g[m - 1] \o r[m]
  BY <1>3, FlattensAt
<1>6. m - 1 = n /\ m # 1
  OBVIOUS
<1>. QED
  BY <1>1, <1>2, <1>4, <1>5, <1>6

\* A sequence of sequences grows by one, and the flat one by its elements.
LEMMA FlattenAppend ==
  ASSUME NEW S, NEW q \in Seq(Seq(S)), NEW x \in Seq(S)
  PROVE  FlattenSeq(Append(q, x)) = FlattenSeq(q) \o x
<1>1. /\ Len(q) \in Nat /\ Len(Append(q, x)) = Len(q) + 1
      /\ \A i \in 1 .. Len(q) : q[i] = Append(q, x)[i]
      /\ Append(q, x)[Len(q) + 1] = x
  BY AppendProperties, LenProperties
<1>2. CASE Len(q) = 0
  <2>1. q = <<>>
    BY <1>2, EmptySeq
  <2>2. PICK f : /\ Flattens(f, Append(q, x), Len(Append(q, x)))
                 /\ FlattenSeq(Append(q, x)) = f[Len(Append(q, x))]
    <3>1. Len(Append(q, x)) \in Nat \ {0}
      BY <1>1, <1>2
    <3>. QED
      BY <3>1, FlattenLast
  <2>3. f[1] = Append(q, x)[1]
    BY <2>2 DEF Flattens
  <2>. QED
    BY <1>1, <1>2, <2>1, <2>2, <2>3, FlattenEmpty, ConcatEmptySeq
<1>3. CASE Len(q) # 0
  <2>. DEFINE m == Len(q) + 1
              r == Append(q, x)
  <2>1. m \in Nat /\ Len(r) = m /\ r[m] = x /\ \A i \in 1 .. Len(q) : q[i] = r[i]
    BY <1>1
  <2>. HIDE DEF r
  <2>2. FlattenSeq(r) = FlattenSeq(q) \o r[m]
    <3>. DEFINE n == Len(q)
    <3>1. /\ n \in Nat /\ n # 0 /\ m \in Nat /\ m = n + 1
          /\ Len(q) = n /\ Len(r) = m /\ \A i \in 1 .. n : q[i] = r[i]
      BY <1>1, <1>3, <2>1
    <3>. HIDE DEF n, m
    <3>. QED
      BY ONLY <3>1, FlattenLonger
  <2>. QED
    BY <2>1, <2>2 DEF r
<1>. QED
  BY <1>2, <1>3

LEMMA FlattenType ==
  ASSUME NEW S, NEW q \in Seq(Seq(S))
  PROVE  FlattenSeq(q) \in Seq(S)
<1>1. CASE Len(q) = 0
  BY <1>1, EmptySeq, FlattenEmpty
<1>2. CASE Len(q) # 0
  <2>1. Len(q) \in Nat \ {0} /\ \A i \in 1 .. Len(q) : q[i] \in Seq(S)
    BY <1>2, LenProperties, ElementOfSeq
  <2>2. PICK f : Flattens(f, q, Len(q)) /\ FlattenSeq(q) = f[Len(q)]
    BY <2>1, FlattenLast
  <2>. DEFINE Other == {i \in 1 .. Len(q) : f[i] \notin Seq(S)}
  <2>3. ASSUME NEW i \in Other, \A k \in Other : i <= k
        PROVE  FALSE
    <3>1. f[i] = IF i = 1 THEN q[i] ELSE f[i - 1] \o q[i]
      BY <2>2 DEF Flattens
    <3>2. i # 1 => f[i - 1] \in Seq(S)
      BY <2>3
    <3>3. f[i] \notin Seq(S) /\ q[i] \in Seq(S)
      BY <2>1
    <3>4. CASE i = 1
      BY <3>1, <3>3, <3>4
    <3>5. CASE i # 1
      <4>1. f[i - 1] \in Seq(S) /\ f[i] = f[i - 1] \o q[i]
        BY <3>1, <3>2, <3>5
      <4>2. f[i - 1] \o q[i] \in Seq(S)
        BY ONLY <3>3, <4>1, ConcatProperties
      <4>. QED
        BY <3>3, <4>1, <4>2
    <3>. QED
      BY <3>4, <3>5
  <2>4. Other = {}
    <3>1. Other \in SUBSET Nat
      OBVIOUS
    <3>. HIDE DEF Other
    <3>. QED
      BY <2>3, <3>1, LeastNumber
  <2>. QED
    BY <2>1, <2>2, <2>4
<1>. QED
  BY <1>1, <1>2

Joins(S) == \A a, b, c \in Seq(S) : (a \o b) \o c = a \o (b \o c)

LEMMA ConcatThree == ASSUME NEW S PROVE Joins(S)
<1>. SUFFICES ASSUME NEW a \in Seq(S), NEW b \in Seq(S), NEW c \in Seq(S)
              PROVE  (a \o b) \o c = a \o (b \o c)
  BY DEF Joins
<1>. DEFINE l == (a \o b) \o c
            r == a \o (b \o c)
<1>1. Len(a) \in Nat /\ Len(b) \in Nat /\ Len(c) \in Nat
  BY LenProperties
<1>2. /\ a \o b \in Seq(S) /\ Len(a \o b) = Len(a) + Len(b)
      /\ b \o c \in Seq(S) /\ Len(b \o c) = Len(b) + Len(c)
  <2>1. a \o b \in Seq(S) /\ Len(a \o b) = Len(a) + Len(b)
    BY ConcatProperties
  <2>2. b \o c \in Seq(S) /\ Len(b \o c) = Len(b) + Len(c)
    BY ConcatProperties
  <2>. QED
    BY <2>1, <2>2
<1>3. /\ l \in Seq(S) /\ Len(l) = Len(a) + Len(b) + Len(c)
      /\ r \in Seq(S) /\ Len(r) = Len(a) + Len(b) + Len(c)
  <2>. DEFINE d == a \o b
              e == b \o c
  <2>. HIDE DEF d, e
  <2>1. d \in Seq(S) /\ e \in Seq(S)
    BY <1>2 DEF d, e
  <2>2. /\ d \o c \in Seq(S) /\ Len(d \o c) = Len(d) + Len(c)
        /\ a \o e \in Seq(S) /\ Len(a \o e) = Len(a) + Len(e)
    BY <2>1, ConcatProperties
  <2>. QED
    BY <1>1, <1>2, <2>2 DEF d, e
<1>4. ASSUME NEW i \in 1 .. Len(l) PROVE l[i] = r[i]
  <2>1. l[i] = IF i <= Len(a \o b) THEN (a \o b)[i] ELSE c[i - Len(a \o b)]
    BY <1>1, <1>2, <1>3, ConcatProperties
  <2>2. r[i] = IF i <= Len(a) THEN a[i] ELSE (b \o c)[i - Len(a)]
    BY <1>1, <1>2, <1>3, ConcatProperties
  <2>. QED
    BY <1>1, <1>2, <1>3, <2>1, <2>2, ConcatProperties
<1>. HIDE DEF l, r
<1>5. l = r
  BY <1>3, <1>4, SeqEqual
<1>. QED
  BY <1>5 DEF l, r

Appends(S) == \A q, b \in Seq(S) : \A x \in S : q \o Append(b, x) = Append(q \o b, x)

LEMMA ConcatAppend == ASSUME NEW S PROVE Appends(S)
<1>. SUFFICES ASSUME NEW q \in Seq(S), NEW b \in Seq(S), NEW x \in S
              PROVE  q \o Append(b, x) = Append(q \o b, x)
  BY DEF Appends
<1>1. <<x>> \in Seq(S) /\ q \o b \in Seq(S)
  BY ConcatProperties
<1>2. (q \o b) \o <<x>> = q \o (b \o <<x>>)
  <2>1. Joins(S)
    BY ConcatThree
  <2>. QED
    BY <1>1, <2>1 DEF Joins
<1>. QED
  BY <1>1, <1>2, AppendIsConcat

\* A sequence is flattened piece by piece.
LEMMA FlattenConcat ==
  ASSUME NEW S, NEW q \in Seq(Seq(S)), NEW r \in Seq(Seq(S))
  PROVE  FlattenSeq(q \o r) = FlattenSeq(q) \o FlattenSeq(r)
<1>. DEFINE B(k) == SubSeq(r, 1, k)
            Other == {k \in 0 .. Len(r) :
                        FlattenSeq(q \o B(k)) # FlattenSeq(q) \o FlattenSeq(B(k))}
<1>1. /\ Len(r) \in Nat
      /\ \A i \in 1 .. Len(r) : r[i] \in Seq(S)
  BY LenProperties, ElementOfSeq
<1>2. \A k \in 0 .. Len(r) : B(k) \in Seq(Seq(S))
  BY <1>1, SubSeqProperties
<1>3. ASSUME NEW k \in Other, \A j \in Other : k <= j
      PROVE  FALSE
  <2>1. CASE k = 0
    <3>1. B(k) = <<>>
      BY <2>1, SubSeqEmpty
    <3>2. FlattenSeq(q) \in Seq(S)
      BY FlattenType
    <3>. QED
      BY <3>1, <3>2, FlattenEmpty, ConcatEmptySeq
  <2>2. CASE k # 0
    <3>1. k \in 1 .. Len(r) /\ k - 1 \in 0 .. Len(r) /\ ~ (k <= k - 1)
      BY <1>1, <2>2
    <3>2. FlattenSeq(q \o B(k - 1)) = FlattenSeq(q) \o FlattenSeq(B(k - 1))
      BY <1>3, <3>1
    <3>3. B(k - 1) \in Seq(Seq(S)) /\ r[k] \in Seq(S)
      <4>. HIDE DEF B
      <4>. QED
        BY <1>1, <1>2, <3>1
    <3>. DEFINE b == B(k - 1)
                x == r[k]
    <3>4. B(k) = Append(b, x)
      <4>1. 1 \in 1 .. Len(r) /\ k \in 1 .. Len(r)
        BY <1>1, <3>1
      <4>2. B(k) = B(k - 1) \o <<r[k]>>
        BY <4>1, SubSeqRecursiveSecond
      <4>. QED
        BY <3>3, <4>2, AppendIsConcat
    <3>. HIDE DEF b, x
    <3>5. q \o Append(b, x) = Append(q \o b, x) /\ q \o b \in Seq(Seq(S))
      <4>1. b \in Seq(Seq(S)) /\ x \in Seq(S)
        BY <3>3 DEF b, x
      <4>. QED
        <5>1. q \o Append(b, x) = Append(q \o b, x)
          <6>1. Appends(Seq(S))
            BY ConcatAppend
          <6>. QED
            BY ONLY <4>1, <6>1, q \in Seq(Seq(S)) DEF Appends
        <5>2. q \o b \in Seq(Seq(S))
          BY ONLY <4>1, q \in Seq(Seq(S)), ConcatProperties
        <5>. QED
          BY <5>1, <5>2
    <3>6. /\ FlattenSeq(q \o Append(b, x)) = FlattenSeq(q \o b) \o x
          /\ FlattenSeq(Append(b, x)) = FlattenSeq(b) \o x
      BY <3>3, <3>5, FlattenAppend DEF b, x
    <3>7. FlattenSeq(q) \in Seq(S) /\ FlattenSeq(b) \in Seq(S) /\ x \in Seq(S)
      <4>1. b \in Seq(Seq(S)) /\ x \in Seq(S)
        BY <3>3 DEF b, x
      <4>. QED
        BY <4>1, FlattenType
    <3>8. (FlattenSeq(q) \o FlattenSeq(b)) \o x = FlattenSeq(q) \o (FlattenSeq(b) \o x)
      <4>. DEFINE u == FlattenSeq(q)
                  v == FlattenSeq(b)
      <4>1. u \in Seq(S) /\ v \in Seq(S) /\ x \in Seq(S)
        BY <3>7
      <4>. HIDE DEF u, v
      <4>2. (u \o v) \o x = u \o (v \o x)
        <5>1. Joins(S)
          BY ConcatThree
        <5>. QED
          BY ONLY <4>1, <5>1 DEF Joins
      <4>. QED
        BY <4>2 DEF u, v
    <3>9. FlattenSeq(q \o B(k)) = FlattenSeq(q) \o FlattenSeq(B(k))
      BY <3>2, <3>4, <3>6, <3>8 DEF b
    <3>. QED
      BY <3>9
  <2>. QED
    BY <2>1, <2>2
<1>4. Other = {}
  <2>1. Other \in SUBSET Nat
    OBVIOUS
  <2>. HIDE DEF Other
  <2>2. Other # {} => \E k \in Other : \A j \in Other : k <= j
    <3>. HIDE DEF Other
    <3>. QED
      BY <2>1, LeastNumber
  <2>. HIDE DEF Other
  <2>. QED
    BY <1>3, <2>2
<1>5. B(Len(r)) = r
  BY SubSeqFull
<1>6. Len(r) \in 0 .. Len(r)
  BY <1>1
<1>7. FlattenSeq(q \o B(Len(r))) = FlattenSeq(q) \o FlattenSeq(B(Len(r)))
  BY <1>4, <1>6
<1>. QED
  BY <1>5, <1>7

\* Pieces of at most one element make at most as many elements as there are pieces.
LEMMA FlattenShort ==
  ASSUME NEW S, NEW q \in Seq(Seq(S)), \A i \in 1 .. Len(q) : Len(q[i]) <= 1
  PROVE  Len(FlattenSeq(q)) <= Len(q)
<1>1. CASE Len(q) = 0
  BY <1>1, EmptySeq, FlattenEmpty
<1>2. CASE Len(q) # 0
  <2>1. Len(q) \in Nat \ {0} /\ \A i \in 1 .. Len(q) : q[i] \in Seq(S)
    BY <1>2, LenProperties, ElementOfSeq
  <2>2. PICK f : Flattens(f, q, Len(q)) /\ FlattenSeq(q) = f[Len(q)]
    BY <2>1, FlattenLast
  <2>. DEFINE Other == {i \in 1 .. Len(q) : ~ (f[i] \in Seq(S) /\ Len(f[i]) <= i)}
  <2>3. ASSUME NEW i \in Other, \A k \in Other : i <= k
        PROVE  FALSE
    <3>1. f[i] = IF i = 1 THEN q[i] ELSE f[i - 1] \o q[i]
      BY <2>2 DEF Flattens
    <3>2. i # 1 => f[i - 1] \in Seq(S) /\ Len(f[i - 1]) <= i - 1
      BY <2>3
    <3>3. q[i] \in Seq(S) /\ Len(q[i]) <= 1 /\ Len(q[i]) \in Nat /\ i \in Nat
      BY <2>1
    <3>4. CASE i = 1
      BY <3>1, <3>3, <3>4
    <3>5. CASE i # 1
      <4>1. f[i - 1] \o q[i] \in Seq(S) /\ Len(f[i - 1] \o q[i]) = Len(f[i - 1]) + Len(q[i])
        BY <3>2, <3>3, <3>5, ConcatProperties
      <4>2. Len(f[i - 1]) \in Nat
        BY <3>2, <3>5, LenProperties
      <4>. DEFINE m == Len(f[i - 1])
                  k == Len(q[i])
      <4>3. m + k <= i
        <5>1. m \in Nat /\ k \in Nat /\ i \in Nat /\ m <= i - 1 /\ k <= 1
          BY <3>2, <3>3, <3>5, <4>2
        <5>. HIDE DEF m, k
        <5>. QED
          BY <5>1
      <4>4. f[i] = f[i - 1] \o q[i]
        BY <3>1, <3>5
      <4>5. f[i] \in Seq(S) /\ Len(f[i]) <= i
        BY <4>1, <4>3, <4>4
      <4>. QED
        BY <4>5
    <3>. QED
      BY <3>4, <3>5
  <2>4. Other = {}
    <3>1. Other \in SUBSET Nat
      OBVIOUS
    <3>. HIDE DEF Other
    <3>. QED
      BY <2>3, <3>1, LeastNumber
  <2>5. Len(q) \in 1 .. Len(q)
    BY <2>1
  <2>6. Len(f[Len(q)]) <= Len(q)
    BY <2>4, <2>5
  <2>. QED
    BY <2>2, <2>6
<1>. QED
  BY <1>1, <1>2

\* A set of numbers that is not empty and bounded has a largest element.
LEMMA LargestNumber ==
  ASSUME NEW n \in Nat, NEW S \in SUBSET (0 .. n), S # {}
  PROVE  \E x \in S : \A y \in S : x >= y
<1>. DEFINE D == {n - x : x \in S}
<1>1. D \in SUBSET Nat /\ D # {}
  <2>1. \A y \in S : y \in 0 .. n /\ n - y \in Nat
    OBVIOUS
  <2>2. \E y : y \in S
    OBVIOUS
  <2>. QED
    BY <2>1, <2>2
<1>2. \A y \in S : n - y \in D
  OBVIOUS
<1>3. \A d \in D : \E x \in S : d = n - x
  OBVIOUS
<1>. HIDE DEF D
<1>4. PICK d \in D : \A e \in D : d <= e
  BY <1>1, LeastNumber
<1>5. PICK x \in S : d = n - x
  BY <1>3
<1>6. ASSUME NEW y \in S PROVE x >= y
  <2>1. n - x <= n - y
    BY <1>2, <1>4, <1>5
  <2>. QED
    BY <2>1
<1>. QED
  BY <1>6

-----------------------------------------------------------------------------
(* Sums.                                                                   *)

\* Some set of a collection of finite sets has no smaller one, by one element, in it.
LEMMA SmallestSet ==
  ASSUME NEW S, IsFiniteSet(S), NEW Bad \in SUBSET (SUBSET S), Bad # {}
  PROVE  \E T \in Bad : \A x \in T : T \ {x} \notin Bad
<1>. DEFINE Sizes == {Cardinality(T) : T \in Bad}
<1>1. \A T \in Bad : IsFiniteSet(T) /\ Cardinality(T) \in Nat /\ Cardinality(T) \in Sizes
  <2>. SUFFICES ASSUME NEW T \in Bad
                PROVE  IsFiniteSet(T) /\ Cardinality(T) \in Nat /\ Cardinality(T) \in Sizes
    OBVIOUS
  <2>1. T \in SUBSET S
    OBVIOUS
  <2>2. IsFiniteSet(T)
    BY <2>1, FS_Subset
  <2>. QED
    BY <2>2, FS_CardinalityType
<1>2. Sizes \in SUBSET Nat /\ Sizes # {}
  BY <1>1
<1>3. \A n \in Sizes : \E T \in Bad : Cardinality(T) = n
  OBVIOUS
<1>. HIDE DEF Sizes
<1>4. PICK n \in Sizes : \A m \in Sizes : n <= m
  BY <1>2, LeastNumber
<1>5. PICK T \in Bad : Cardinality(T) = n
  BY <1>3
<1>6. ASSUME NEW x \in T, T \ {x} \in Bad
      PROVE  FALSE
  <2>1. Cardinality(T \ {x}) = n - 1
    BY <1>1, <1>5, FS_RemoveElement
  <2>2. n <= n - 1
    BY <1>1, <1>4, <1>6, <2>1
  <2>. QED
    BY <1>1, <1>5, <2>2
<1>. QED
  BY <1>6

Chosen(T) == CHOOSE x \in T : TRUE

\* f sums up g over the subsets of S, taking away what is chosen.
Sums(f, S, g) ==
  f = [T \in SUBSET S |-> IF T = {} THEN 0 ELSE g[Chosen(T)] + f[T \ {Chosen(T)}]]

LEMMA SumsAt ==
  ASSUME NEW S, NEW g, NEW f, Sums(f, S, g)
  PROVE  \A T \in SUBSET S :
           f[T] = IF T = {} THEN 0 ELSE g[Chosen(T)] + f[T \ {Chosen(T)}]
BY DEF Sums

LEMMA ChosenIn ==
  ASSUME NEW T, T # {}
  PROVE  Chosen(T) \in T
BY DEF Chosen

\* The same over the subsets of at most n elements.
Small(S, n) == {T \in SUBSET S : Cardinality(T) <= n}
SumsTo(f, S, g, n) ==
  f = [T \in Small(S, n) |-> IF T = {} THEN 0 ELSE g[Chosen(T)] + f[T \ {Chosen(T)}]]

LEMMA SumsToAt ==
  ASSUME NEW S, NEW g, NEW n, NEW f, SumsTo(f, S, g, n), NEW T \in Small(S, n)
  PROVE  f[T] = IF T = {} THEN 0 ELSE g[Chosen(T)] + f[T \ {Chosen(T)}]
BY DEF SumsTo

LEMMA SumsExist ==
  ASSUME NEW S, IsFiniteSet(S), NEW g
  PROVE  \E f : Sums(f, S, g)
<1>. DEFINE Without == {n \in Nat : ~ \E f : SumsTo(f, S, g, n)}
<1>0. \A T \in SUBSET S : IsFiniteSet(T) /\ Cardinality(T) \in Nat
  <2>. SUFFICES ASSUME NEW T \in SUBSET S PROVE IsFiniteSet(T) /\ Cardinality(T) \in Nat
    OBVIOUS
  <2>1. IsFiniteSet(T)
    BY FS_Subset
  <2>. QED
    BY <2>1, FS_CardinalityType
<1>1. ASSUME NEW n \in Without, \A k \in Without : n <= k
      PROVE  FALSE
  <2>1. n # 0
    <3>. DEFINE z == [T \in Small(S, 0) |-> 0]
    <3>1. ASSUME NEW T \in Small(S, 0) PROVE T = {}
      <4>1. T \in SUBSET S /\ Cardinality(T) <= 0
        BY DEF Small
      <4>2. Cardinality(T) = 0
        BY <1>0, <4>1
      <4>. QED
        BY <1>0, <4>1, <4>2, FS_EmptySet
    <3>2. SumsTo(z, S, g, 0)
      BY <3>1 DEF SumsTo
    <3>. QED
      BY <3>2
  <2>2. n - 1 \in Nat /\ n - 1 \notin Without
    BY <1>1, <2>1
  <2>3. PICK f : SumsTo(f, S, g, n - 1)
    BY <2>2
  <2>. DEFINE h == [T \in Small(S, n) |->
                      IF T = {} THEN 0 ELSE g[Chosen(T)] + f[T \ {Chosen(T)}]]
  <2>4. ASSUME NEW T \in Small(S, n), T # {}
        PROVE  T \ {Chosen(T)} \in Small(S, n - 1) /\ T \ {Chosen(T)} \in Small(S, n)
    <3>1. T \in SUBSET S /\ Cardinality(T) <= n
      BY DEF Small
    <3>2. Cardinality(T \ {Chosen(T)}) = Cardinality(T) - 1
      BY <1>0, <2>4, <3>1, ChosenIn, FS_RemoveElement
    <3>3. Cardinality(T) - 1 <= n - 1 /\ Cardinality(T) - 1 <= n
      BY <1>0, <3>1
    <3>. QED
      BY <3>1, <3>2, <3>3 DEF Small
  <2>5. ASSUME NEW T \in Small(S, n - 1), T \in Small(S, n)
        PROVE  f[T] = h[T]
    <3>1. f[T] = IF T = {} THEN 0 ELSE g[Chosen(T)] + f[T \ {Chosen(T)}]
      BY <2>2, <2>3, SumsToAt
    <3>. QED
      BY <2>5, <3>1
  <2>6. h = [T \in Small(S, n) |-> IF T = {} THEN 0 ELSE g[Chosen(T)] + h[T \ {Chosen(T)}]]
    <3>1. ASSUME NEW T \in Small(S, n), T # {}
          PROVE  f[T \ {Chosen(T)}] = h[T \ {Chosen(T)}]
      BY <2>4, <2>5, <3>1
    <3>. QED
      BY <3>1
  <2>7. SumsTo(h, S, g, n)
    <3>. HIDE DEF h
    <3>. QED
      BY <2>6 DEF SumsTo
  <2>. QED
    BY <2>7
<1>2. Without \in SUBSET Nat
  OBVIOUS
<1>3. Without = {}
  <2>. HIDE DEF Without
  <2>. QED
    BY <1>1, <1>2, LeastNumber
<1>4. Cardinality(S) \in Nat
  BY FS_CardinalityType
<1>5. PICK f : SumsTo(f, S, g, Cardinality(S))
  BY <1>3, <1>4
<1>6. Small(S, Cardinality(S)) = SUBSET S
  <2>. SUFFICES ASSUME NEW T \in SUBSET S PROVE Cardinality(T) <= Cardinality(S)
    BY DEF Small
  <2>. QED
    BY FS_Subset
<1>. QED
  BY <1>5, <1>6 DEF SumsTo, Sums

LEMMA SumsNat ==
  ASSUME NEW S, IsFiniteSet(S), NEW g, \A x \in S : g[x] \in Nat,
         NEW f, Sums(f, S, g)
  PROVE  \A T \in SUBSET S : f[T] \in Nat
<1>0. \A U \in SUBSET S : f[U] = IF U = {} THEN 0 ELSE g[Chosen(U)] + f[U \ {Chosen(U)}]
  BY DEF Sums
<1>. DEFINE Bad == {T \in SUBSET S : f[T] \notin Nat}
<1>1. ASSUME NEW T \in Bad, \A x \in T : T \ {x} \notin Bad
      PROVE  FALSE
  <2>1. f[T] = IF T = {} THEN 0 ELSE g[Chosen(T)] + f[T \ {Chosen(T)}]
    BY <1>0
  <2>2. T # {} => Chosen(T) \in S /\ f[T \ {Chosen(T)}] \in Nat
    BY <1>1, ChosenIn
  <2>. QED
    BY <2>1, <2>2
<1>2. Bad \in SUBSET (SUBSET S)
  OBVIOUS
<1>3. Bad = {}
  <2>. HIDE DEF Bad
  <2>. QED
    BY <1>1, <1>2, SmallestSet
<1>. QED
  BY <1>3

\* The sum over a set does not depend on the order in which it is taken apart.
LEMMA SumsRemove ==
  ASSUME NEW S, IsFiniteSet(S), NEW g, \A x \in S : g[x] \in Nat,
         NEW f, Sums(f, S, g)
  PROVE  \A T \in SUBSET S : \A x \in T : f[T] = g[x] + f[T \ {x}]
<1>0. \A U \in SUBSET S : f[U] = IF U = {} THEN 0 ELSE g[Chosen(U)] + f[U \ {Chosen(U)}]
  BY DEF Sums
<1>. DEFINE Fine(T) == \A x \in T : f[T] = g[x] + f[T \ {x}]
            Bad == {T \in SUBSET S : ~ Fine(T)}
<1>1. ASSUME NEW T \in Bad, \A x \in T : T \ {x} \notin Bad
      PROVE  FALSE
  <2>1. T # {}
    OBVIOUS
  <2>. DEFINE c == Chosen(T)
  <2>2. c \in T /\ c \in S
    BY <2>1, ChosenIn
  <2>3. f[T] = g[c] + f[T \ {c}]
    <3>1. T \in SUBSET S
      OBVIOUS
    <3>. HIDE DEF Bad
    <3>2. f[T] = IF T = {} THEN 0 ELSE g[Chosen(T)] + f[T \ {Chosen(T)}]
      BY <1>0, <3>1
    <3>. QED
      BY <2>1, <3>2
  <2>. HIDE DEF c
  <2>4. ASSUME NEW x \in T, x # c
        PROVE  f[T] = g[x] + f[T \ {x}]
    <3>1. Fine(T \ {x}) /\ Fine(T \ {c})
      <4>1. T \ {x} \notin Bad /\ T \ {c} \notin Bad
        BY <1>1, <2>2
      <4>2. T \ {x} \in SUBSET S /\ T \ {c} \in SUBSET S
        OBVIOUS
      <4>. HIDE DEF Fine
      <4>. QED
        BY <4>1, <4>2
    <3>2. f[T \ {x}] = g[c] + f[(T \ {x}) \ {c}]
      BY <2>2, <2>4, <3>1
    <3>3. f[T \ {c}] = g[x] + f[(T \ {c}) \ {x}]
      BY <2>4, <3>1
    <3>4. (T \ {x}) \ {c} = (T \ {c}) \ {x}
      OBVIOUS
    <3>5. f[(T \ {c}) \ {x}] \in Nat
      BY SumsNat
    <3>6. g[x] \in Nat /\ g[c] \in Nat
      BY <2>2
    <3>. DEFINE rest == f[(T \ {c}) \ {x}]
    <3>7. f[T] = g[c] + (g[x] + rest) /\ f[T \ {x}] = g[c] + rest
      BY <2>3, <3>2, <3>3, <3>4
    <3>8. g[c] + (g[x] + rest) = g[x] + (g[c] + rest)
      <4>. HIDE DEF rest
      <4>1. rest \in Nat
        BY <3>5 DEF rest
      <4>. QED
        BY <3>6, <4>1
    <3>. QED
      BY <3>7, <3>8
  <2>. QED
    BY <2>3, <2>4
<1>2. Bad \in SUBSET (SUBSET S)
  OBVIOUS
<1>3. Bad = {}
  <2>. HIDE DEF Bad
  <2>. QED
    BY <1>1, <1>2, SmallestSet
<1>. QED
  BY <1>3

\* The sum over a set depends on what is summed up there only.
LEMMA SumsAgree ==
  ASSUME NEW S, NEW T, T \subseteq S, IsFiniteSet(T), NEW g, NEW k,
         NEW f, Sums(f, S, g), NEW h, Sums(h, T, k)
  PROVE  (\A x \in T : g[x] = k[x]) => f[T] = h[T]
<1>. SUFFICES ASSUME \A x \in T : g[x] = k[x]
              PROVE  \A U \in SUBSET T : f[U] = h[U]
  OBVIOUS
<1>0. \A U \in SUBSET S : f[U] = IF U = {} THEN 0 ELSE g[Chosen(U)] + f[U \ {Chosen(U)}]
  BY DEF Sums
<1>00. \A U \in SUBSET T : h[U] = IF U = {} THEN 0 ELSE k[Chosen(U)] + h[U \ {Chosen(U)}]
  BY DEF Sums
<1>. DEFINE Bad == {U \in SUBSET T : f[U] # h[U]}
<1>1. ASSUME NEW U \in Bad, \A x \in U : U \ {x} \notin Bad
      PROVE  FALSE
  <2>1. U \in SUBSET S /\ U \in SUBSET T
    OBVIOUS
  <2>2. U # {} => Chosen(U) \in U /\ f[U \ {Chosen(U)}] = h[U \ {Chosen(U)}]
    BY <1>1, ChosenIn
  <2>3. f[U] # h[U]
    OBVIOUS
  <2>. HIDE DEF Bad
  <2>4. f[U] = IF U = {} THEN 0 ELSE g[Chosen(U)] + f[U \ {Chosen(U)}]
    BY <1>0, <2>1
  <2>5. h[U] = IF U = {} THEN 0 ELSE k[Chosen(U)] + h[U \ {Chosen(U)}]
    BY <1>00, <2>1
  <2>. QED
    BY <2>1, <2>2, <2>3, <2>4, <2>5
<1>2. Bad \in SUBSET (SUBSET T)
  OBVIOUS
<1>3. Bad = {}
  <2>. HIDE DEF Bad
  <2>. QED
    BY <1>1, <1>2, SmallestSet
<1>. QED
  BY <1>3

\* The sum of g over S: what FiniteSetsExt and Functions compute.
Total(S, g) == (CHOOSE f : Sums(f, S, g))[S]

LEMMA TotalSums ==
  ASSUME NEW S, IsFiniteSet(S), NEW g
  PROVE  \E f : Sums(f, S, g) /\ Total(S, g) = f[S]
<1>. DEFINE h == CHOOSE f : Sums(f, S, g)
<1>1. Sums(h, S, g)
  BY SumsExist
<1>. QED
  BY <1>1 DEF Total

LEMMA TotalUnique ==
  ASSUME NEW S, IsFiniteSet(S), NEW g, NEW k, \A x \in S : g[x] = k[x],
         NEW h, Sums(h, S, k)
  PROVE  h[S] = Total(S, g)
<1>1. PICK f : Sums(f, S, g) /\ Total(S, g) = f[S]
  BY TotalSums
<1>2. f[S] = h[S]
  BY <1>1, SumsAgree
<1>. QED
  BY <1>1, <1>2

LEMMA TotalFunction ==
  ASSUME NEW g
  PROVE  SumFunction(g) = Total(DOMAIN g, g)
BY DEF SumFunction, SumFunctionOnSet, FoldFunctionOnSet, MapThenFoldSet, Total, Sums, Chosen

LEMMA TotalEmpty ==
  ASSUME NEW g
  PROVE  Total({}, g) = 0
<1>1. PICK f : Sums(f, {}, g) /\ Total({}, g) = f[{}]
  BY TotalSums, FS_EmptySet
<1>2. f[{}] = 0
  BY <1>1, SumsAt
<1>. QED
  BY <1>1, <1>2

LEMMA TotalNat ==
  ASSUME NEW S, IsFiniteSet(S), NEW g, \A x \in S : g[x] \in Nat
  PROVE  Total(S, g) \in Nat
<1>1. PICK f : Sums(f, S, g) /\ Total(S, g) = f[S]
  BY TotalSums
<1>2. f[S] \in Nat
  BY <1>1, SumsNat
<1>. QED
  BY <1>1, <1>2

LEMMA TotalSame ==
  ASSUME NEW S, IsFiniteSet(S), NEW g, NEW k, \A x \in S : g[x] = k[x]
  PROVE  Total(S, g) = Total(S, k)
<1>1. PICK h : Sums(h, S, k) /\ Total(S, k) = h[S]
  BY TotalSums
<1>. QED
  BY <1>1, TotalUnique

LEMMA TotalRemove ==
  ASSUME NEW S, IsFiniteSet(S), NEW g, \A y \in S : g[y] \in Nat, NEW x \in S
  PROVE  Total(S, g) = g[x] + Total(S \ {x}, g)
<1>. DEFINE R == S \ {x}
<1>0. R \in SUBSET S /\ IsFiniteSet(R)
  BY FS_Subset
<1>1. PICK f : Sums(f, S, g) /\ Total(S, g) = f[S]
  BY TotalSums
<1>2. PICK h : Sums(h, R, g) /\ Total(R, g) = h[R]
  BY <1>0, TotalSums
<1>3. f[S] = g[x] + f[R]
  BY <1>1, SumsRemove
<1>. HIDE DEF R
<1>4. f[R] = h[R]
  BY <1>0, <1>1, <1>2, SumsAgree
<1>. QED
  BY <1>1, <1>2, <1>3, <1>4 DEF R

LEMMA TotalMonotone ==
  ASSUME NEW S, IsFiniteSet(S), NEW g, NEW k,
         \A x \in S : g[x] \in Nat /\ k[x] \in Nat /\ g[x] <= k[x]
  PROVE  Total(S, g) <= Total(S, k)
<1>. DEFINE Bad == {T \in SUBSET S : ~ (Total(T, g) <= Total(T, k))}
<1>1. ASSUME NEW T \in Bad, \A x \in T : T \ {x} \notin Bad
      PROVE  FALSE
  <2>0. T \in SUBSET S /\ ~ (Total(T, g) <= Total(T, k)) /\ IsFiniteSet(T)
    BY FS_Subset
  <2>1. T # {}
    BY <2>0, TotalEmpty
  <2>2. PICK x \in T : TRUE
    BY <2>1
  <2>. DEFINE R == T \ {x}
  <2>3. Total(R, g) <= Total(R, k)
    BY <1>1
  <2>. HIDE DEF Bad
  <2>4. R \in SUBSET S /\ IsFiniteSet(R)
    BY <2>0, FS_Subset
  <2>5. Total(T, g) = g[x] + Total(R, g)
    BY <2>0, TotalRemove
  <2>6. Total(T, k) = k[x] + Total(R, k)
    BY <2>0, TotalRemove
  <2>. HIDE DEF R
  <2>7. Total(R, g) \in Nat
    BY <2>4, TotalNat
  <2>8. Total(R, k) \in Nat
    BY <2>4, TotalNat
  <2>9. g[x] \in Nat /\ k[x] \in Nat /\ g[x] <= k[x]
    BY <2>0
  <2>. QED
    BY <2>0, <2>3, <2>5, <2>6, <2>7, <2>8, <2>9
<1>2. Bad \in SUBSET (SUBSET S)
  OBVIOUS
<1>3. Bad = {}
  <2>. HIDE DEF Bad
  <2>. QED
    BY <1>1, <1>2, SmallestSet
<1>. QED
  BY <1>3

\* The sum over two sets that have nothing in common.
LEMMA TotalUnion ==
  ASSUME NEW A, IsFiniteSet(A), NEW B, IsFiniteSet(B), A \cap B = {},
         NEW g, \A x \in A \cup B : g[x] \in Nat
  PROVE  Total(A \cup B, g) = Total(A, g) + Total(B, g)
<1>. DEFINE Bad == {T \in SUBSET A : Total(T \cup B, g) # Total(T, g) + Total(B, g)}
<1>0. Total(B, g) \in Nat
  BY TotalNat
<1>1. ASSUME NEW T \in Bad, \A x \in T : T \ {x} \notin Bad
      PROVE  FALSE
  <2>0. T \in SUBSET A /\ Total(T \cup B, g) # Total(T, g) + Total(B, g) /\ IsFiniteSet(T)
    BY FS_Subset
  <2>1. CASE T = {}
    <3>1. T \cup B = B /\ Total(T, g) = 0
      BY <2>1, TotalEmpty
    <3>. QED
      BY <1>0, <2>0, <3>1
  <2>2. CASE T # {}
    <3>1. PICK x \in T : TRUE
      BY <2>2
    <3>. DEFINE R == T \ {x}
                U == T \cup B
    <3>2. Total(R \cup B, g) = Total(R, g) + Total(B, g)
      BY <1>1
    <3>. HIDE DEF Bad
    <3>3. U \ {x} = R \cup B /\ x \in U
      BY <2>0
    <3>4. IsFiniteSet(U)
      BY <2>0, FS_Union
    <3>5. R \in SUBSET A /\ IsFiniteSet(R)
      BY <2>0, FS_Subset
    <3>6. \A y \in U : g[y] \in Nat
      BY <2>0
    <3>7. \A y \in R : g[y] \in Nat
      BY <2>0
    <3>8. Total(T, g) = g[x] + Total(R, g)
      BY <2>0, TotalRemove
    <3>. HIDE DEF U, R
    <3>9. Total(U, g) = g[x] + Total(U \ {x}, g)
      BY <3>3, <3>4, <3>6, TotalRemove
    <3>10. Total(R, g) \in Nat
      BY <3>5, <3>7, TotalNat
    <3>11. g[x] \in Nat
      BY <2>0
    <3>. QED
      BY <1>0, <2>0, <3>2, <3>3, <3>8, <3>9, <3>10, <3>11 DEF U
  <2>. QED
    BY <2>1, <2>2
<1>2. Bad \in SUBSET (SUBSET A)
  OBVIOUS
<1>3. Bad = {}
  <2>. HIDE DEF Bad
  <2>. QED
    BY <1>1, <1>2, SmallestSet
<1>4. A \in SUBSET A
  OBVIOUS
<1>. QED
  BY <1>3, <1>4

\* A finite set of numbers that is not empty has a largest element.
LEMMA LargestOfFinite ==
  ASSUME NEW S \in SUBSET Nat, IsFiniteSet(S), S # {}
  PROVE  \E x \in S : \A y \in S : x >= y
<1>. DEFINE Fine(T) == \E x \in T : \A y \in T : x >= y
            Bad == {T \in SUBSET S : T # {} /\ ~ Fine(T)}
<1>1. ASSUME NEW T \in Bad, \A x \in T : T \ {x} \notin Bad
      PROVE  FALSE
  <2>0. T \in SUBSET Nat /\ T # {} /\ ~ Fine(T)
    OBVIOUS
  <2>1. PICK x \in T : TRUE
    BY <2>0
  <2>2. T \ {x} = {} \/ Fine(T \ {x})
    BY <1>1
  <2>3. CASE T \ {x} = {}
    <3>1. \A y \in T : x >= y
      BY <2>0, <2>3
    <3>. QED
      BY <2>0, <3>1
  <2>4. CASE Fine(T \ {x})
    <3>1. PICK m \in T \ {x} : \A y \in T \ {x} : m >= y
      BY <2>4
    <3>2. CASE m >= x
      <4>1. \A y \in T : m >= y
        BY <3>1, <3>2
      <4>. QED
        BY <2>0, <4>1
    <3>3. CASE ~ (m >= x)
      <4>1. \A y \in T : x >= y
        BY <2>0, <3>1, <3>3
      <4>. QED
        BY <2>0, <4>1
    <3>. QED
      BY <3>2, <3>3
  <2>. QED
    BY <2>2, <2>3, <2>4
<1>2. Bad \in SUBSET (SUBSET S)
  OBVIOUS
<1>3. Bad = {}
  <2>. HIDE DEF Bad
  <2>. QED
    BY <1>1, <1>2, SmallestSet
<1>4. S \in SUBSET S /\ S \notin Bad
  BY <1>3
<1>. QED
  BY <1>4

-----------------------------------------------------------------------------
(* Order.                                                                  *)

Ascends(q) == \A i, j \in 1 .. Len(q) : i < j => q[i] < q[j]

\* A finite set of numbers can be listed in ascending order.
LEMMA AscendingExists ==
  ASSUME NEW S \in SUBSET Nat, IsFiniteSet(S)
  PROVE  \E q \in [1 .. Cardinality(S) -> S] : Ascends(q)
<1>. DEFINE Fine(T) == \E q \in [1 .. Cardinality(T) -> T] : Ascends(q)
            Bad == {T \in SUBSET S : ~ Fine(T)}
<1>1. ASSUME NEW T \in Bad, \A x \in T : T \ {x} \notin Bad
      PROVE  FALSE
  <2>0. T \in SUBSET S /\ T \in SUBSET Nat /\ ~ Fine(T) /\ IsFiniteSet(T)
    BY FS_Subset
  <2>1. CASE T = {}
    <3>1. Cardinality(T) = 0
      BY <2>1, FS_EmptySet
    <3>. DEFINE e == [i \in 1 .. Cardinality(T) |-> 0]
    <3>2. e \in [1 .. Cardinality(T) -> T] /\ Ascends(e)
      BY <3>1 DEF Ascends
    <3>. QED
      BY <2>0, <3>2
  <2>2. CASE T # {}
    <3>1. PICK m \in T : \A y \in T : m >= y
      BY <2>0, <2>2, LargestOfFinite
    <3>. DEFINE R == T \ {m}
                n == Cardinality(R)
    <3>2. Fine(R)
      BY <1>1, <2>0
    <3>3. n \in Nat /\ Cardinality(T) = n + 1
      <4>1. Cardinality(R) = Cardinality(T) - 1 /\ Cardinality(R) \in Nat /\ Cardinality(T) \in Nat
        BY <2>0, FS_RemoveElement, FS_CardinalityType
      <4>. QED
        BY <4>1
    <3>4. \A y \in R : y \in Nat /\ y < m
      BY <2>0, <3>1
    <3>5. PICK q \in [1 .. n -> R] : Ascends(q)
      BY <3>2
    <3>. HIDE DEF n
    <3>. DEFINE h == [i \in 1 .. n + 1 |-> IF i = n + 1 THEN m ELSE q[i]]
    <3>6. h \in [1 .. n + 1 -> T]
      BY <3>3
    <3>7. Len(h) = n + 1 /\ Len(q) = n
      BY <3>3, <3>6
    <3>8. ASSUME NEW i \in 1 .. n + 1, NEW j \in 1 .. n + 1, i < j
          PROVE  h[i] < h[j]
      <4>1. i \in 1 .. n /\ q[i] \in R
        BY <3>3, <3>8
      <4>2. CASE j = n + 1
        <5>1. q[i] < m
          BY <3>4, <4>1
        <5>2. h[i] = q[i] /\ h[j] = m
          BY <3>3, <4>1, <4>2
        <5>. QED
          BY <5>1, <5>2
      <4>3. CASE j # n + 1
        <5>1. j \in 1 .. n
          BY <3>3, <4>3
        <5>2. q[i] < q[j]
          BY <3>5, <3>7, <3>8, <4>1, <5>1 DEF Ascends
        <5>. QED
          BY <3>3, <4>1, <5>1, <5>2
      <4>. QED
        BY <4>2, <4>3
    <3>9. Ascends(h)
      <4>. HIDE DEF h
      <4>. QED
        BY <3>7, <3>8 DEF Ascends
    <3>. HIDE DEF h
    <3>. QED
      BY <2>0, <3>3, <3>6, <3>9
  <2>. QED
    BY <2>1, <2>2
<1>2. Bad \in SUBSET (SUBSET S)
  OBVIOUS
<1>3. Bad = {}
  <2>. HIDE DEF Bad
  <2>. QED
    BY <1>1, <1>2, SmallestSet
<1>4. S \in SUBSET S /\ S \notin Bad
  BY <1>3
<1>. QED
  BY <1>4

\* Such a list has every element of the set.
LEMMA AscendingCovers ==
  ASSUME NEW S \in SUBSET Nat, IsFiniteSet(S),
         NEW q \in [1 .. Cardinality(S) -> S], Ascends(q)
  PROVE  /\ ToSet(q) = S
         /\ Len(q) = Cardinality(S)
<1>. DEFINE n == Cardinality(S)
<1>1. n \in Nat
  BY FS_CardinalityType
<1>2. IsFiniteSet(1 .. n) /\ Cardinality(1 .. n) = n
  BY <1>1, FS_Interval
<1>3. Len(q) = n
  BY <1>1
<1>4. ASSUME NEW i \in 1 .. n, NEW j \in 1 .. n, q[i] = q[j]
      PROVE  i = j
  <2>1. q[i] \in Nat /\ q[j] \in Nat
    OBVIOUS
  <2>2. i < j => q[i] < q[j]
    BY <1>3 DEF Ascends
  <2>3. j < i => q[j] < q[i]
    BY <1>3 DEF Ascends
  <2>. QED
    BY <1>1, <1>4, <2>1, <2>2, <2>3
<1>5. q \in Injection(1 .. n, S)
  BY <1>4, Fun_IsInj
<1>6. q \in Surjection(1 .. n, S)
  BY <1>2, <1>5, FS_Injection
<1>7. \A y \in S : \E i \in 1 .. n : q[i] = y
  BY <1>6 DEF Surjection
<1>. QED
  BY <1>3, <1>7 DEF ToSet

\* p lists the first k positions of s in the order of what is there.
Sorts(p, s, k) ==
  /\ p \in [1 .. k -> 1 .. k]
  /\ \A v \in 1 .. k : \E i \in 1 .. k : p[i] = v
  /\ \A i, j \in 1 .. k : i < j => s[p[i]] <= s[p[j]]

\* One more position is put before the first one that holds more.
LEMMA SortsOneMore ==
  ASSUME NEW s, NEW k \in Nat, \A i \in 1 .. k + 1 : s[i] \in Nat,
         NEW p, Sorts(p, s, k)
  PROVE  \E q : Sorts(q, s, k + 1)
<1>0. /\ p \in [1 .. k -> 1 .. k]
      /\ \A i \in 1 .. k : p[i] \in 1 .. k
  BY DEF Sorts
<1>00. \A i, j \in 1 .. k : i < j => s[p[i]] <= s[p[j]]
  BY DEF Sorts
<1>. DEFINE More == {i \in 1 .. k + 1 : i = k + 1 \/ s[p[i]] > s[k + 1]}
<1>1. More \in SUBSET Nat /\ k + 1 \in More
  OBVIOUS
<1>2. PICK c \in More : \A i \in More : c <= i
  <2>. HIDE DEF More
  <2>. QED
    BY <1>1, LeastNumber
<1>3. c \in 1 .. k + 1 /\ (c = k + 1 \/ s[p[c]] > s[k + 1])
  OBVIOUS
<1>4. ASSUME NEW i \in 1 .. k, i < c PROVE s[p[i]] <= s[k + 1]
  <2>1. i \notin More
    BY <1>2, <1>3, <1>4
  <2>2. i # k + 1
    OBVIOUS
  <2>3. p[i] \in 1 .. k
    BY <1>0
  <2>. QED
    BY <2>1, <2>2, <2>3
<1>. HIDE DEF More
<1>5. ASSUME NEW i \in 1 .. k, c <= i PROVE s[k + 1] <= s[p[i]]
  <2>1. p[i] \in 1 .. k /\ p[c] \in 1 .. k /\ c # k + 1
    BY <1>0, <1>3, <1>5
  <2>2. s[p[i]] \in Nat /\ s[p[c]] \in Nat /\ s[k + 1] \in Nat
    BY <2>1
  <2>3. s[p[c]] > s[k + 1]
    BY <1>3, <2>1
  <2>4. c = i \/ s[p[c]] <= s[p[i]]
    BY <1>00, <1>3, <1>5, <2>1
  <2>. QED
    BY <2>2, <2>3, <2>4
<1>. DEFINE q == [i \in 1 .. k + 1 |-> IF i < c THEN p[i] ELSE IF i = c THEN k + 1 ELSE p[i - 1]]
<1>6. ASSUME NEW i \in 1 .. k + 1
      PROVE  /\ i < c => i \in 1 .. k /\ p[i] \in 1 .. k
             /\ i > c => i - 1 \in 1 .. k /\ p[i - 1] \in 1 .. k /\ c <= i - 1
  BY <1>0, <1>3
<1>7. q \in [1 .. k + 1 -> 1 .. k + 1]
  <2>1. \A i \in 1 .. k + 1 : q[i] \in 1 .. k + 1
    BY <1>3, <1>6
  <2>. QED
    BY <2>1
<1>8. ASSUME NEW v \in 1 .. k + 1
      PROVE  \E i \in 1 .. k + 1 : q[i] = v
  <2>1. CASE v = k + 1
    BY <1>3, <2>1
  <2>2. CASE v # k + 1
    <3>1. PICK i \in 1 .. k : p[i] = v
      BY <2>2 DEF Sorts
    <3>2. CASE i < c
      BY <3>1, <3>2
    <3>3. CASE ~ (i < c)
      <4>1. i + 1 \in 1 .. k + 1 /\ ~ (i + 1 < c) /\ i + 1 # c /\ (i + 1) - 1 = i
        BY <1>3, <3>3
      <4>2. q[i + 1] = p[i]
        BY <4>1
      <4>. QED
        BY <3>1, <4>1, <4>2
    <3>. QED
      BY <3>2, <3>3
  <2>. QED
    BY <2>1, <2>2
<1>9. ASSUME NEW i \in 1 .. k + 1, NEW j \in 1 .. k + 1, i < j
      PROVE  s[q[i]] <= s[q[j]]
  <2>1. CASE i < c /\ j < c
    BY <1>00, <1>6, <1>9, <2>1
  <2>2. CASE i < c /\ j = c
    BY <1>4, <1>6, <2>2
  <2>3. CASE i < c /\ j > c
    <3>1. i \in 1 .. k /\ j - 1 \in 1 .. k /\ i < j - 1
      BY <1>3, <1>6, <2>3
    <3>2. s[p[i]] <= s[p[j - 1]]
      BY <1>00, <3>1
    <3>3. q[i] = p[i] /\ q[j] = p[j - 1]
      BY <1>3, <2>3
    <3>. QED
      BY <3>2, <3>3
  <2>4. CASE i = c /\ j > c
    <3>1. q[i] = k + 1 /\ q[j] = p[j - 1]
      BY <1>3, <2>4
    <3>. QED
      BY <1>5, <1>6, <2>4, <3>1
  <2>5. CASE i > c /\ j > c
    <3>1. i - 1 \in 1 .. k /\ j - 1 \in 1 .. k /\ i - 1 < j - 1
      BY <1>3, <1>6, <1>9, <2>5
    <3>2. s[p[i - 1]] <= s[p[j - 1]]
      BY <1>00, <3>1
    <3>3. q[i] = p[i - 1] /\ q[j] = p[j - 1]
      BY <1>3, <2>5
    <3>. QED
      BY <3>2, <3>3
  <2>. QED
    BY <1>3, <1>9, <2>1, <2>2, <2>3, <2>4, <2>5
<1>. HIDE DEF q
<1>10. Sorts(q, s, k + 1)
  BY <1>7, <1>8, <1>9 DEF Sorts
<1>. QED
  BY <1>10

\* A sequence of numbers can be sorted.
LEMMA SortsExist ==
  ASSUME NEW s, NEW n \in Nat, \A i \in 1 .. n : s[i] \in Nat
  PROVE  \E p : Sorts(p, s, n)
<1>. DEFINE Without == {k \in 0 .. n : ~ \E p : Sorts(p, s, k)}
<1>1. ASSUME NEW k \in Without, \A j \in Without : k <= j
      PROVE  FALSE
  <2>1. CASE k = 0
    <3>. DEFINE e == [i \in 1 .. 0 |-> 0]
    <3>1. Sorts(e, s, 0)
      BY DEF Sorts
    <3>. QED
      BY <2>1, <3>1
  <2>2. CASE k # 0
    <3>1. k - 1 \in 0 .. n /\ k - 1 \in Nat /\ ~ (k <= k - 1) /\ (k - 1) + 1 = k
      BY <2>2
    <3>2. PICK p : Sorts(p, s, k - 1)
      BY <1>1, <3>1
    <3>3. \A i \in 1 .. k : s[i] \in Nat
      OBVIOUS
    <3>4. \E q : Sorts(q, s, (k - 1) + 1)
      <4>. HIDE DEF Without
      <4>. QED
        BY <3>1, <3>2, <3>3, SortsOneMore
    <3>. QED
      BY <3>1, <3>4
  <2>. QED
    BY <2>1, <2>2
<1>2. Without \in SUBSET Nat
  OBVIOUS
<1>3. Without = {}
  <2>. HIDE DEF Without
  <2>. QED
    BY <1>1, <1>2, LeastNumber
<1>. QED
  BY <1>3

\* The sum over a set is the sum over the places its elements come from.
LEMMA TotalPermuted ==
  ASSUME NEW S, IsFiniteSet(S), NEW T, NEW p \in Bijection(S, T),
         NEW g, \A x \in T : g[x] \in Nat, NEW h, \A x \in S : h[x] = g[p[x]]
  PROVE  Total(S, h) = Total(T, g)
<1>0. p \in [S -> T] /\ p \in Surjection(S, T)
  BY Fun_BijectionProperties
<1>00. \A x, y \in S : p[x] = p[y] => x = y
  BY Fun_BijectionProperties
<1>000. \A y \in T : \E x \in S : p[x] = y
  BY <1>0 DEF Surjection
<1>1. IsFiniteSet(T)
  BY <1>0, FS_Surjection
<1>. DEFINE Image(U) == {p[x] : x \in U}
            Bad == {U \in SUBSET S : Total(U, h) # Total(Image(U), g)}
<1>2. ASSUME NEW U \in Bad, \A x \in U : U \ {x} \notin Bad
      PROVE  FALSE
  <2>0. U \in SUBSET S /\ Total(U, h) # Total(Image(U), g)
    OBVIOUS
  <2>1. IsFiniteSet(U)
    BY <2>0, FS_Subset
  <2>2. CASE U = {}
    <3>1. Image(U) = {}
      BY <2>2
    <3>. QED
      BY <2>0, <2>2, <3>1, TotalEmpty
  <2>3. CASE U # {}
    <3>1. PICK x \in U : TRUE
      BY <2>3
    <3>2. Total(U \ {x}, h) = Total(Image(U \ {x}), g)
      BY <1>2
    <3>. HIDE DEF Bad
    <3>3. Image(U) \in SUBSET T /\ p[x] \in Image(U)
      BY <1>0, <2>0
    <3>4. Image(U \ {x}) = Image(U) \ {p[x]}
      <4>1. ASSUME NEW z PROVE z \in Image(U \ {x}) => z \in Image(U) \ {p[x]}
        BY <1>00, <2>0
      <4>2. ASSUME NEW z PROVE z \in Image(U) \ {p[x]} => z \in Image(U \ {x})
        OBVIOUS
      <4>. HIDE DEF Image
      <4>. QED
        BY <4>1, <4>2
    <3>. HIDE DEF Image
    <3>5. IsFiniteSet(Image(U))
      BY <1>1, <3>3, FS_Subset
    <3>6. \A y \in Image(U) : g[y] \in Nat
      BY <3>3
    <3>7. Total(Image(U), g) = g[p[x]] + Total(Image(U) \ {p[x]}, g)
      BY <3>3, <3>5, <3>6, TotalRemove
    <3>8. \A y \in U : h[y] \in Nat
      BY <1>0, <2>0
    <3>9. Total(U, h) = h[x] + Total(U \ {x}, h)
      BY <2>1, <3>8, TotalRemove
    <3>10. h[x] = g[p[x]]
      BY <2>0
    <3>. QED
      BY <2>0, <3>2, <3>4, <3>7, <3>9, <3>10
  <2>. QED
    BY <2>2, <2>3
<1>3. Bad \in SUBSET (SUBSET S)
  OBVIOUS
<1>4. Bad = {}
  <2>. HIDE DEF Bad
  <2>. QED
    BY <1>2, <1>3, SmallestSet
<1>5. S \in SUBSET S
  OBVIOUS
<1>6. Total(S, h) = Total(Image(S), g)
  <2>1. S \notin Bad
    BY <1>4
  <2>. QED
    BY <1>5, <2>1
<1>7. Image(S) = T
  <2>1. ASSUME NEW z \in Image(S) PROVE z \in T
    BY <1>0
  <2>2. ASSUME NEW z \in T PROVE z \in Image(S)
    BY <1>000
  <2>. HIDE DEF Image
  <2>. QED
    BY <2>1, <2>2
<1>. HIDE DEF Bad, Image
<1>. QED
  BY <1>6, <1>7

-----------------------------------------------------------------------------
(* Means.                                                                  *)

LEMMA Distributes ==
  ASSUME NEW c \in Nat, NEW m \in Nat, NEW n \in Nat
  PROVE  c * (m + n) = c * m + c * n /\ c * m \in Nat /\ c * n \in Nat
OBVIOUS

\* The part of S that at puts into T.
Fibre(S, at, T) == {k \in S : at[k] \in T}

LEMMA FibreTotals ==
  ASSUME NEW S, IsFiniteSet(S), NEW at, NEW T, NEW t \in T,
         NEW g, \A k \in S : g[k] \in Nat
  PROVE  /\ Total(Fibre(S, at, T), g)
              = Total(Fibre(S, at, {t}), g) + Total(Fibre(S, at, T \ {t}), g)
         /\ Total(Fibre(S, at, {t}), g) \in Nat /\ Total(Fibre(S, at, T \ {t}), g) \in Nat
<1>. DEFINE A == Fibre(S, at, {t})
            B == Fibre(S, at, T \ {t})
<1>1. Fibre(S, at, T) = A \cup B /\ A \cap B = {}
  BY DEF Fibre
<1>2. A \in SUBSET S /\ B \in SUBSET S
  BY DEF Fibre
<1>3. IsFiniteSet(A) /\ IsFiniteSet(B)
  BY <1>2, FS_Subset
<1>4. \A k \in A \cup B : g[k] \in Nat
  BY <1>2
<1>. HIDE DEF A, B
<1>5. Total(A \cup B, g) = Total(A, g) + Total(B, g)
  BY <1>1, <1>3, <1>4, TotalUnion
<1>6. Total(A, g) \in Nat /\ Total(B, g) \in Nat
  BY <1>3, <1>4, TotalNat
<1>. QED
  BY <1>1, <1>5, <1>6 DEF A, B

\* An inequality that holds for the totals of each part holds for those of the whole.
LEMMA Mediant ==
  ASSUME NEW S, IsFiniteSet(S), NEW at, NEW own, IsFiniteSet(own), own # {},
         \A k \in S : at[k] \in own,
         NEW g, \A k \in S : g[k] \in Nat,
         NEW h, \A k \in S : h[k] \in Nat,
         NEW c \in Nat, NEW d \in Nat,
         \A t \in own : c * Total(Fibre(S, at, {t}), g) < d * Total(Fibre(S, at, {t}), h)
  PROVE  c * Total(S, g) < d * Total(S, h)
<1>. DEFINE G(T) == Total(Fibre(S, at, T), g)
            H(T) == Total(Fibre(S, at, T), h)
            Bad == {T \in SUBSET own : T # {} /\ ~ (c * G(T) < d * H(T))}
<1>1. ASSUME NEW T \in Bad, \A t \in T : T \ {t} \notin Bad
      PROVE  FALSE
  <2>1. T \in SUBSET own /\ T # {} /\ ~ (c * G(T) < d * H(T))
    OBVIOUS
  <2>2. PICK t \in T : TRUE
    BY <2>1
  <2>. DEFINE R == T \ {t}
  <2>3. R = {} \/ c * G(R) < d * H(R)
    BY <1>1
  <2>. HIDE DEF Bad
  <2>4. G(T) = G({t}) + G(R) /\ G({t}) \in Nat /\ G(R) \in Nat
    <3>1. t \in T /\ \A k \in S : g[k] \in Nat
      OBVIOUS
    <3>2. /\ Total(Fibre(S, at, T), g)
                = Total(Fibre(S, at, {t}), g) + Total(Fibre(S, at, T \ {t}), g)
          /\ Total(Fibre(S, at, {t}), g) \in Nat /\ Total(Fibre(S, at, T \ {t}), g) \in Nat
      <4>. HIDE DEF G, H, R
      <4>. QED
        BY <3>1, FibreTotals
    <3>. QED
      BY <3>2
  <2>5. H(T) = H({t}) + H(R) /\ H({t}) \in Nat /\ H(R) \in Nat
    <3>1. t \in T /\ \A k \in S : h[k] \in Nat
      OBVIOUS
    <3>2. /\ Total(Fibre(S, at, T), h)
                = Total(Fibre(S, at, {t}), h) + Total(Fibre(S, at, T \ {t}), h)
          /\ Total(Fibre(S, at, {t}), h) \in Nat /\ Total(Fibre(S, at, T \ {t}), h) \in Nat
      <4>. HIDE DEF G, H, R
      <4>. QED
        BY <3>1, FibreTotals
    <3>. QED
      BY <3>2
  <2>6. c * G({t}) < d * H({t})
    BY <2>1
  <2>7. R = {} => G(R) = 0 /\ H(R) = 0
    <3>1. R = {} => Fibre(S, at, R) = {}
      BY DEF Fibre
    <3>. QED
      BY <3>1, TotalEmpty
  <2>. HIDE DEF G, H, R
  <2>8. c * G(T) = c * G({t}) + c * G(R) /\ c * G({t}) \in Nat /\ c * G(R) \in Nat
    BY <2>4, Distributes
  <2>9. d * H(T) = d * H({t}) + d * H(R) /\ d * H({t}) \in Nat /\ d * H(R) \in Nat
    BY <2>5, Distributes
  <2>10. c * G(R) <= d * H(R)
    <3>1. CASE R = {}
      <4>1. c * G(R) = 0 /\ d * H(R) = 0
        BY <2>7, <3>1
      <4>. QED
        BY <4>1
    <3>2. CASE c * G(R) < d * H(R)
      BY <2>8, <2>9, <3>2
    <3>. QED
      BY <2>3, <3>1, <3>2
  <2>. QED
    BY <2>1, <2>6, <2>8, <2>9, <2>10
<1>2. Bad \in SUBSET (SUBSET own)
  OBVIOUS
<1>3. Bad = {}
  <2>. HIDE DEF Bad
  <2>. QED
    BY <1>1, <1>2, SmallestSet
<1>4. own \in SUBSET own /\ own \notin Bad
  BY <1>3
<1>5. Fibre(S, at, own) = S
  BY DEF Fibre
<1>. QED
  BY <1>4, <1>5

=============================================================================
