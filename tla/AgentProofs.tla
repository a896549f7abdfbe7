---------------------------- MODULE AgentProofs ----------------------------
(***************************************************************************)
(* Proofs about the stream of samples (Ticks) and its composition with the  *)
(* outage tracker (Agent).                                                 *)
(***************************************************************************)
EXTENDS Agent, Folding

-----------------------------------------------------------------------------
(* Types of the stream.                                                    *)

\* What the probes can make: only a hostname's lookup fails.
Proper == {s \in Sample : s.result \in {"dns", "cut"} => s.target \in Host}

Tick == [at : 0 .. MaxTime, samples : Seq(Proper)]

StreamOK ==
  /\ time \in 0 .. MaxTime /\ start \in 0 .. Interval - 1
  /\ fired \in BOOLEAN /\ stop \in BOOLEAN /\ running \in BOOLEAN
  /\ todo \subseteq Target
  /\ probes \in [Target -> SUBSET (0 .. MaxTime)]
  /\ \A t \in Target : \A x, y \in probes[t] : x = y
  /\ \A t \in todo : probes[t] = {}
  /\ chan \in Seq(Proper) /\ Len(chan) <= Capacity
  /\ batch \in Seq(Proper) /\ taken \in Seq(Proper)
  /\ observed \in Seq(Tick)
  /\ current = Unset <=> batch = <<>>
  /\ current # Unset => current \in 0 .. MaxTime \div Interval

\* A quotient lies between 0 and any bound of its dividend's.
LEMMA QuotientBounds ==
  ASSUME NEW d \in Nat, d # 0, NEW x \in Nat, NEW y \in Nat, x <= y
  PROVE  /\ x \div d \in Nat
         /\ x \div d <= y \div d
         /\ x \div d <= x
<1>. DEFINE a == x \div d
            b == y \div d
            r == x % d
            s == y % d
<1>1. /\ a \in Int /\ b \in Int /\ r \in 0 .. d - 1 /\ s \in 0 .. d - 1
      /\ x = d * a + r /\ y = d * b + s
  OBVIOUS
<1>. HIDE DEF a, b, r, s
<1>2. a >= 0
  <2>. SUFFICES ASSUME a <= -1 PROVE FALSE
    BY <1>1
  <2>1. d * a <= d * (-1)
    BY <1>1
  <2>. QED
    BY <1>1, <2>1
<1>3. a <= b
  <2>. SUFFICES ASSUME b + 1 <= a PROVE FALSE
    BY <1>1
  <2>1. d * (b + 1) <= d * a
    BY <1>1
  <2>2. d * (b + 1) = d * b + d
    BY <1>1
  <2>. QED
    BY <1>1, <2>1, <2>2
<1>4. a <= x
  <2>1. 1 * a <= d * a
    BY <1>1, <1>2
  <2>. QED
    BY <1>1, <2>1
<1>. QED
  BY <1>1, <1>2, <1>3, <1>4 DEF a, b

LEMMA BucketBounds ==
  ASSUME NEW x \in 0 .. MaxTime
  PROVE  /\ x \div Interval \in 0 .. MaxTime \div Interval
         /\ MaxTime \div Interval \in 0 .. MaxTime
<1>1. /\ Interval \in Nat /\ Interval # 0 /\ MaxTime \in Nat
      /\ x \in Nat /\ x <= MaxTime
  BY TicksAssumption
<1>2. /\ x \div Interval \in Nat
      /\ x \div Interval <= MaxTime \div Interval
  BY <1>1, QuotientBounds
<1>3. /\ MaxTime \div Interval \in Nat
      /\ MaxTime \div Interval <= MaxTime
  BY <1>1, QuotientBounds
<1>. QED
  BY <1>1, <1>2, <1>3

LEMMA CollateFacts ==
  ASSUME NEW s, Collate(s)
  PROVE  \/ /\ current # Unset /\ Bucket(s) > current
            /\ observed' = Append(observed, [at |-> current, samples |-> batch])
            /\ batch' = <<s>> /\ current' = Bucket(s)
         \/ /\ ~ (current # Unset /\ Bucket(s) > current)
            /\ batch' = Append(batch, s) /\ observed' = observed
            /\ current' = IF current = Unset THEN Bucket(s) ELSE current
BY Zenon DEF Collate

LEMMA StreamInit == Init => StreamOK
<1>. SUFFICES ASSUME Init PROVE StreamOK
  OBVIOUS
<1>1. /\ time \in 0 .. MaxTime /\ start \in 0 .. Interval - 1
      /\ probes \in [Target -> SUBSET (0 .. MaxTime)]
  BY TicksAssumption DEF Init
<1>2. /\ <<>> \in Seq(Proper) /\ <<>> \in Seq(Tick) /\ Len(<<>>) = 0 /\ 0 <= Capacity
  BY TicksAssumption
<1>. QED
  BY <1>1, <1>2 DEF Init, StreamOK

\* What a probe makes is a proper sample.
LEMMA ProbeMakesProper ==
  ASSUME StreamOK, NEW t \in Target, NEW ts \in probes[t], NEW r \in Outcomes(t)
  PROVE  [target |-> t, ts |-> ts, result |-> r] \in Proper
<1>1. ts \in 0 .. MaxTime
  BY DEF StreamOK
<1>2. /\ r \in {"ok", "ping", "dns", "cut"}
      /\ r \in {"dns", "cut"} => t \in Host
  BY TicksAssumption DEF Outcomes
<1>. QED
  BY <1>1, <1>2 DEF Proper, Sample

\* The window of a sample, and the collator's after it has taken the sample.
LEMMA WindowTypes ==
  ASSUME StreamOK, NEW s \in Proper
  PROVE  /\ Bucket(s) \in 0 .. MaxTime \div Interval
         /\ Bucket(s) # Unset
         /\ 0 .. MaxTime \div Interval \subseteq 0 .. MaxTime
         /\ MaxTime \div Interval \in Nat
         /\ current # Unset => current \in 0 .. MaxTime
<1>1. s.ts \in 0 .. MaxTime /\ MaxTime \in Nat /\ Unset \notin Nat
  BY TicksAssumption DEF Proper, Sample
<1>2. /\ s.ts \div Interval \in 0 .. MaxTime \div Interval
      /\ MaxTime \div Interval \in 0 .. MaxTime
  BY <1>1, BucketBounds
<1>. QED
  BY <1>1, <1>2 DEF Bucket, StreamOK

LEMMA CollateType ==
  ASSUME StreamOK, NEW s \in Proper, Collate(s)
  PROVE  /\ batch' \in Seq(Proper) /\ batch' # <<>>
         /\ observed' \in Seq(Tick)
         /\ current' # Unset /\ current' \in 0 .. MaxTime \div Interval
<1>1. CASE /\ current # Unset /\ Bucket(s) > current
           /\ observed' = Append(observed, [at |-> current, samples |-> batch])
           /\ batch' = <<s>> /\ current' = Bucket(s)
  <2>1. [at |-> current, samples |-> batch] \in Tick
    BY <1>1, WindowTypes DEF StreamOK, Tick
  <2>. QED
    BY <1>1, <2>1, WindowTypes DEF StreamOK
<1>2. CASE /\ batch' = Append(batch, s) /\ observed' = observed
           /\ current' = IF current = Unset THEN Bucket(s) ELSE current
  BY <1>2, WindowTypes DEF StreamOK
<1>. QED
  BY <1>1, <1>2, CollateFacts

LEMMA StreamStep ==
  ASSUME StreamOK, [Next]_vars
  PROVE  StreamOK'
<1>. USE DEF StreamOK, prober, collator
<1>1. CASE Pass
  BY <1>1, TicksAssumption DEF Pass
<1>2. CASE BeginTick
  BY <1>2 DEF BeginTick, Resting
<1>3. ASSUME NEW t \in Target, StartProbe(t)
      PROVE  StreamOK'
  BY <1>3 DEF StartProbe
<1>4. ASSUME NEW t \in Target, NEW ts \in probes[t], EmitSample(t, ts)
      PROVE  StreamOK'
  <2>1. PICK r \in Outcomes(t) : chan' = Append(chan, [target |-> t, ts |-> ts, result |-> r])
    BY <1>4 DEF EmitSample
  <2>2. [target |-> t, ts |-> ts, result |-> r] \in Proper
    BY ProbeMakesProper
  <2>3. chan' \in Seq(Proper) /\ Len(chan') <= Capacity
    BY <1>4, <2>1, <2>2, TicksAssumption DEF EmitSample
  <2>4. probes' = [probes EXCEPT ![t] = @ \ {ts}]
    BY <1>4 DEF EmitSample
  <2>. QED
    BY <1>4, <2>3, <2>4 DEF EmitSample
<1>5. ASSUME NEW t \in Target, NEW ts \in probes[t], DropSample(t, ts)
      PROVE  StreamOK'
  BY <1>5 DEF DropSample
<1>6. CASE Take
  <2>1. Head(chan) \in Proper /\ Collate(Head(chan))
    BY <1>6 DEF Take
  <2>2. chan' \in Seq(Proper) /\ Len(chan') <= Capacity /\ taken' \in Seq(Proper)
    BY <1>6, <2>1, TicksAssumption DEF Take
  <2>3. /\ batch' \in Seq(Proper) /\ batch' # <<>> /\ observed' \in Seq(Tick)
        /\ current' # Unset /\ current' \in 0 .. MaxTime \div Interval
    BY <2>1, CollateType
  <2>. QED
    BY <1>6, <2>2, <2>3 DEF Take
<1>7. CASE Stop
  BY <1>7 DEF Stop
<1>8. CASE Leave
  BY <1>8 DEF Leave
<1>9. CASE UNCHANGED vars
  BY <1>9 DEF vars
<1>. QED
  BY <1>1, <1>2, <1>3, <1>4, <1>5, <1>6, <1>7, <1>8, <1>9 DEF Next

LEMMA StreamTypes == Spec => []StreamOK
<1>. QED
  BY StreamInit, StreamStep, PTL DEF Spec

\* The types of the stream hold in every state of every run: windows, batches and running
\* probes are what the collator and the tracker take them for.
THEOREM TypesCorrect == Spec => []TypeOK
<1>1. StreamOK => TypeOK
  <2>. SUFFICES ASSUME StreamOK PROVE TypeOK
    OBVIOUS
  <2>1. /\ chan \in Seq(Sample) /\ batch \in Seq(Sample) /\ taken \in Seq(Sample)
    BY DEF StreamOK, Proper
  <2>2. chan \o batch \o taken \in Seq(Sample)
    BY <2>1
  <2>3. ToSet(chan \o batch \o taken) \subseteq Sample
    BY <2>2, ElementOfSeq DEF ToSet
  <2>4. current # Unset => current \in 0 .. MaxTime
    <3>1. MaxTime \in Nat /\ 0 \in 0 .. MaxTime
      BY TicksAssumption
    <3>2. MaxTime \div Interval \in 0 .. MaxTime
      BY <3>1, BucketBounds
    <3>. QED
      BY <3>1, <3>2 DEF StreamOK
  <2>. QED
    BY <2>3, <2>4 DEF StreamOK, TypeOK
<1>. QED
  BY <1>1, StreamTypes, PTL

-----------------------------------------------------------------------------
(* The order of the ticks.                                                 *)

\* Before the first sample nothing has been observed.
OrderInv ==
  /\ TicksInOrder
  /\ current = Unset => observed = <<>>

LEMMA OrderInit == Init => OrderInv
BY DEF Init, OrderInv, TicksInOrder

LEMMA OrderStep ==
  ASSUME StreamOK, OrderInv, [Next]_vars
  PROVE  OrderInv'
<1>1. CASE Take
  <2>. DEFINE s == Head(chan)
  <2>1. s \in Proper /\ Collate(s)
    BY <1>1 DEF Take, StreamOK
  <2>2. /\ Bucket(s) \in Nat /\ Bucket(s) # Unset
        /\ current # Unset => current \in Nat
    BY <2>1, WindowTypes
  <2>3. CASE /\ current # Unset /\ Bucket(s) > current
             /\ observed' = Append(observed, [at |-> current, samples |-> batch])
             /\ batch' = <<s>> /\ current' = Bucket(s)
    <3>. DEFINE tick == [at |-> current, samples |-> batch]
                n == Len(observed)
    <3>1. /\ n \in Nat /\ Len(observed') = n + 1
          /\ \A k \in 1 .. n : observed'[k] = observed[k] /\ observed[k].at \in Nat
          /\ observed'[n + 1] = tick
      <4>1. tick \in Tick
        BY <2>3, WindowTypes, <2>1 DEF StreamOK, Tick
      <4>2. observed \in Seq(Tick) /\ MaxTime \in Nat
        BY TicksAssumption DEF StreamOK
      <4>3. \A k \in 1 .. n : observed[k] \in Tick
        BY <4>2
      <4>. QED
        BY <2>3, <4>1, <4>2, <4>3, AppendProperties DEF Tick
    <3>2. tick.samples # <<>> /\ tick.at < current'
      BY <2>2, <2>3 DEF StreamOK
    <3>3. \A k \in 1 .. Len(observed') :
            observed'[k].samples # <<>> /\ observed'[k].at < current'
      <4>. SUFFICES ASSUME NEW k \in 1 .. n + 1
                    PROVE  observed'[k].samples # <<>> /\ observed'[k].at < current'
        BY <3>1
      <4>1. CASE k = n + 1
        BY <3>1, <3>2, <4>1
      <4>2. CASE k \in 1 .. n
        <5>1. observed[k].samples # <<>> /\ observed[k].at < current
          BY <4>2 DEF OrderInv, TicksInOrder
        <5>. QED
          BY <2>2, <2>3, <3>1, <4>2, <5>1
      <4>. QED
        BY <3>1, <4>1, <4>2
    <3>4. \A k \in 2 .. Len(observed') : observed'[k - 1].at < observed'[k].at
      <4>. SUFFICES ASSUME NEW k \in 2 .. n + 1
                    PROVE  observed'[k - 1].at < observed'[k].at
        BY <3>1
      <4>1. CASE k = n + 1
        <5>1. n \in 1 .. n
          BY <3>1, <4>1
        <5>2. observed[n].at < current
          BY <5>1 DEF OrderInv, TicksInOrder
        <5>. QED
          BY <3>1, <4>1, <5>1, <5>2
      <4>2. CASE k \in 2 .. n
        <5>1. observed[k - 1].at < observed[k].at
          BY <4>2 DEF OrderInv, TicksInOrder
        <5>. QED
          BY <3>1, <4>2, <5>1
      <4>. QED
        BY <3>1, <4>1, <4>2
    <3>. QED
      BY <2>2, <2>3, <3>3, <3>4 DEF OrderInv, TicksInOrder
  <2>4. CASE /\ ~ (current # Unset /\ Bucket(s) > current)
             /\ batch' = Append(batch, s) /\ observed' = observed
             /\ current' = IF current = Unset THEN Bucket(s) ELSE current
    BY <2>2, <2>4 DEF OrderInv, TicksInOrder
  <2>. QED
    BY <2>1, <2>3, <2>4, CollateFacts
<1>2. CASE ~ Take
  <2>1. UNCHANGED <<current, observed>>
    BY <1>2 DEF Next, vars, collator, Pass, BeginTick, StartProbe, EmitSample, DropSample,
         Stop, Leave
  <2>. QED
    BY <2>1 DEF OrderInv, TicksInOrder
<1>. QED
  BY <1>1, <1>2

\* Observe is called with strictly increasing windows and batches that are not empty, what
\* the tracker needs of its caller, however late a sample's timestamp puts it.
THEOREM TicksStayInOrder == Spec => []TicksInOrder
<1>1. OrderInv => TicksInOrder
  BY DEF OrderInv
<1>. QED
  BY <1>1, OrderInit, OrderStep, StreamTypes, PTL DEF Spec

-----------------------------------------------------------------------------
(* Every sample once.                                                      *)

\* The batches of a sequence of ticks.
Parts(q) == [k \in 1 .. Len(q) |-> q[k].samples]

LEMMA PartsType ==
  ASSUME NEW q \in Seq(Tick)
  PROVE  Parts(q) \in Seq(Seq(Proper))
<1>1. Len(q) \in Nat /\ \A k \in 1 .. Len(q) : q[k].samples \in Seq(Proper)
  <2>1. Len(q) \in Nat /\ \A k \in 1 .. Len(q) : q[k] \in Tick
    BY LenProperties, ElementOfSeq
  <2>. QED
    BY <2>1 DEF Tick
<1>2. Parts(q) \in [1 .. Len(q) -> Seq(Proper)]
  BY <1>1 DEF Parts
<1>. HIDE DEF Parts
<1>. QED
  BY <1>1, <1>2, SeqDef

LEMMA PartsAppend ==
  ASSUME NEW q \in Seq(Tick), NEW x \in Tick
  PROVE  /\ Parts(q) \in Seq(Seq(Proper))
         /\ Parts(Append(q, x)) = Append(Parts(q), x.samples)
<1>1. /\ Len(q) \in Nat /\ Len(Append(q, x)) = Len(q) + 1
      /\ \A k \in 1 .. Len(q) : q[k] = Append(q, x)[k] /\ q[k] \in Tick
      /\ Append(q, x)[Len(q) + 1] = x
  BY AppendProperties, LenProperties, ElementOfSeq
<1>2. Parts(q) \in Seq(Seq(Proper)) /\ x.samples \in Seq(Proper)
  BY PartsType DEF Tick
<1>3. /\ Len(Parts(q)) = Len(q)
      /\ Append(Parts(q), x.samples) =
           [k \in 1 .. Len(q) + 1 |-> IF k = Len(q) + 1 THEN x.samples ELSE Parts(q)[k]]
  BY <1>1, <1>2 DEF Parts
<1>4. ASSUME NEW k \in 1 .. Len(q) + 1
      PROVE  Append(q, x)[k].samples
               = IF k = Len(q) + 1 THEN x.samples ELSE Parts(q)[k]
  BY <1>1 DEF Parts
<1>5. Parts(Append(q, x)) = [k \in 1 .. Len(q) + 1 |-> Append(q, x)[k].samples]
  BY <1>1 DEF Parts
<1>6. Parts(Append(q, x)) =
        [k \in 1 .. Len(q) + 1 |-> IF k = Len(q) + 1 THEN x.samples ELSE Parts(q)[k]]
  BY <1>4, <1>5
<1>. QED
  BY <1>2, <1>3, <1>6

LEMMA SkipInit == Init => NothingSkipped
<1>. SUFFICES ASSUME Init PROVE NothingSkipped
  OBVIOUS
<1>1. [k \in 1 .. Len(observed) |-> observed[k].samples] = <<>>
  BY DEF Init
<1>. QED
  BY <1>1, FlattenEmpty DEF Init, NothingSkipped, Collected

LEMMA SkipStep ==
  ASSUME StreamOK, NothingSkipped, [Next]_vars
  PROVE  NothingSkipped'
<1>1. CASE Take
  <2>. DEFINE s == Head(chan)
  <2>1. s \in Proper /\ Collate(s) /\ taken' = Append(taken, s)
    BY <1>1 DEF Take, StreamOK
  <2>2. /\ Collected = FlattenSeq(Parts(observed)) /\ Collected' = FlattenSeq(Parts(observed'))
    BY DEF Collected, Parts
  <2>3. Collected \in Seq(Proper) /\ batch \in Seq(Proper) /\ taken = Collected \o batch
    <3>1. Parts(observed) \in Seq(Seq(Proper))
      BY PartsType DEF StreamOK
    <3>. QED
      BY <2>2, <3>1, FlattenType DEF StreamOK, NothingSkipped
  <2>4. CASE /\ current # Unset /\ Bucket(s) > current
             /\ observed' = Append(observed, [at |-> current, samples |-> batch])
             /\ batch' = <<s>> /\ current' = Bucket(s)
    <3>. DEFINE tick == [at |-> current, samples |-> batch]
    <3>1. tick \in Tick /\ observed \in Seq(Tick)
      BY <2>1, <2>4, WindowTypes DEF StreamOK, Tick
    <3>2. Collected' = Collected \o batch
      BY <2>2, <2>3, <2>4, <3>1, PartsAppend, FlattenAppend
    <3>. QED
      BY <2>1, <2>3, <2>4, <3>2 DEF NothingSkipped
  <2>5. CASE /\ batch' = Append(batch, s) /\ observed' = observed
    <3>1. Collected' = Collected
      BY <2>2, <2>5
    <3>2. Collected \o Append(batch, s) = Append(Collected \o batch, s)
      BY <2>1, <2>3
    <3>. QED
      BY <2>1, <2>3, <2>5, <3>1, <3>2 DEF NothingSkipped
  <2>. QED
    BY <2>1, <2>4, <2>5, CollateFacts
<1>2. CASE ~ Take
  <2>1. UNCHANGED <<observed, batch, taken>>
    BY <1>2 DEF Next, vars, collator, Pass, BeginTick, StartProbe, EmitSample, DropSample,
         Stop, Leave
  <2>. QED
    BY <2>1 DEF NothingSkipped, Collected
<1>. QED
  BY <1>1, <1>2

\* The tracker is given every sample that was taken, once and in the order of the stream;
\* what it has not been given is the batch the collator still holds.
THEOREM NothingIsSkipped == Spec => []NothingSkipped
<1>. QED
  BY SkipInit, SkipStep, StreamTypes, PTL DEF Spec

-----------------------------------------------------------------------------
(* The samples of one target.                                              *)

Pieces(q, t) == [i \in 1 .. Len(q) |-> IF q[i].target = t THEN <<q[i]>> ELSE <<>>]

LEMMA PiecesFacts ==
  ASSUME NEW q \in Seq(Proper), NEW t
  PROVE  /\ Pieces(q, t) \in Seq(Seq(Proper))
         /\ Len(Pieces(q, t)) = Len(q) /\ Len(q) \in Nat
         /\ OfTarget(q, t) = FlattenSeq(Pieces(q, t))
         /\ OfTarget(q, t) \in Seq(Proper)
<1>1. Len(q) \in Nat /\ \A k \in 1 .. Len(q) : q[k] \in Proper
  BY LenProperties, ElementOfSeq
<1>2. Pieces(q, t) \in [1 .. Len(q) -> Seq(Proper)]
  BY <1>1 DEF Pieces
<1>3. OfTarget(q, t) = FlattenSeq(Pieces(q, t))
  BY DEF OfTarget, Pieces
<1>. HIDE DEF Pieces
<1>4. Pieces(q, t) \in Seq(Seq(Proper)) /\ Len(Pieces(q, t)) = Len(q)
  BY <1>1, <1>2, SeqDef
<1>. QED
  BY <1>1, <1>3, <1>4, FlattenType

\* Taking the samples of a target goes piece by piece too.
LEMMA OwnConcat ==
  ASSUME NEW q \in Seq(Proper), NEW r \in Seq(Proper), NEW t
  PROVE  OfTarget(q \o r, t) = OfTarget(q, t) \o OfTarget(r, t)
<1>. DEFINE a == Pieces(q, t)
            b == Pieces(r, t)
            c == Pieces(q \o r, t)
<1>1. /\ q \o r \in Seq(Proper) /\ Len(q \o r) = Len(q) + Len(r)
      /\ \A i \in 1 .. Len(q) + Len(r) :
           (q \o r)[i] = IF i <= Len(q) THEN q[i] ELSE r[i - Len(q)]
  BY ConcatProperties
<1>2. /\ a \in Seq(Seq(Proper)) /\ Len(a) = Len(q) /\ Len(q) \in Nat
      /\ b \in Seq(Seq(Proper)) /\ Len(b) = Len(r) /\ Len(r) \in Nat
      /\ c \in Seq(Seq(Proper)) /\ Len(c) = Len(q \o r)
  <2>. HIDE DEF Pieces
  <2>. QED
    BY <1>1, PiecesFacts
<1>3. /\ \A i \in 1 .. Len(q) : a[i] = IF q[i].target = t THEN <<q[i]>> ELSE <<>>
      /\ \A i \in 1 .. Len(r) : b[i] = IF r[i].target = t THEN <<r[i]>> ELSE <<>>
      /\ \A i \in 1 .. Len(q \o r) :
           c[i] = IF (q \o r)[i].target = t THEN <<(q \o r)[i]>> ELSE <<>>
  BY DEF Pieces
<1>4. /\ OfTarget(q \o r, t) = FlattenSeq(c)
      /\ OfTarget(q, t) = FlattenSeq(a)
      /\ OfTarget(r, t) = FlattenSeq(b)
  BY DEF OfTarget, Pieces
<1>. HIDE DEF a, b, c
<1>5. /\ a \o b \in Seq(Seq(Proper)) /\ Len(a \o b) = Len(q) + Len(r)
      /\ \A i \in 1 .. Len(q) + Len(r) :
           (a \o b)[i] = IF i <= Len(q) THEN a[i] ELSE b[i - Len(q)]
  <2>1. /\ a \o b \in Seq(Seq(Proper)) /\ Len(a \o b) = Len(a) + Len(b)
        /\ \A i \in 1 .. Len(a) + Len(b) :
             (a \o b)[i] = IF i <= Len(a) THEN a[i] ELSE b[i - Len(a)]
    <3>1. a \in Seq(Seq(Proper)) /\ b \in Seq(Seq(Proper))
      BY <1>2
    <3>. QED
      BY <3>1, ConcatProperties
  <2>. QED
    BY <1>2, <2>1
<1>6. ASSUME NEW i \in 1 .. Len(q) + Len(r)
      PROVE  c[i] = (a \o b)[i]
  <2>1. CASE i <= Len(q)
    <3>1. i \in 1 .. Len(q) /\ i \in 1 .. Len(q \o r)
      BY <1>1, <1>2, <2>1
    <3>. QED
      BY <1>1, <1>3, <1>5, <2>1, <3>1
  <2>2. CASE ~ (i <= Len(q))
    <3>1. i - Len(q) \in 1 .. Len(r)
      BY <1>2, <2>2
    <3>2. (a \o b)[i] = b[i - Len(q)] /\ (q \o r)[i] = r[i - Len(q)]
      BY <1>1, <1>5, <2>2
    <3>3. c[i] = IF (q \o r)[i].target = t THEN <<(q \o r)[i]>> ELSE <<>>
      BY <1>1, <1>3
    <3>4. b[i - Len(q)] = IF r[i - Len(q)].target = t THEN <<r[i - Len(q)]>> ELSE <<>>
      BY <1>3, <3>1
    <3>. QED
      BY <3>2, <3>3, <3>4
  <2>. QED
    BY <2>1, <2>2
<1>7. c = a \o b
  BY <1>1, <1>2, <1>5, <1>6, SeqEqual
<1>8. FlattenSeq(a \o b) = FlattenSeq(a) \o FlattenSeq(b)
  BY <1>2, FlattenConcat
<1>. QED
  BY <1>4, <1>7, <1>8

LEMMA OwnSingle ==
  ASSUME NEW s \in Proper, NEW t
  PROVE  OfTarget(<<s>>, t) = IF s.target = t THEN <<s>> ELSE <<>>
<1>. DEFINE x == IF s.target = t THEN <<s>> ELSE <<>>
            one == <<x>>
<1>1. x \in Seq(Proper)
  OBVIOUS
<1>2. OfTarget(<<s>>, t) = FlattenSeq(one)
  <2>1. [i \in 1 .. Len(<<s>>) |-> IF <<s>>[i].target = t THEN <<(<<s>>[i])>> ELSE <<>>] = one
    OBVIOUS
  <2>. QED
    BY <2>1 DEF OfTarget
<1>. HIDE DEF x
<1>3. FlattenSeq(one) = x
  <2>1. Len(one) = 1 /\ one[1] = x
    OBVIOUS
  <2>2. PICK f : Flattens(f, one, Len(one)) /\ FlattenSeq(one) = f[Len(one)]
    <3>1. Len(one) \in Nat \ {0}
      BY <2>1
    <3>. QED
      BY <3>1, FlattenLast
  <2>3. f[1] = one[1]
    BY <2>1, <2>2 DEF Flattens
  <2>. QED
    BY <2>1, <2>2, <2>3
<1>. QED
  BY <1>2, <1>3 DEF x

\* One more sample.
LEMMA OwnAppend ==
  ASSUME NEW q \in Seq(Proper), NEW s \in Proper, NEW t
  PROVE  OfTarget(Append(q, s), t) =
           IF s.target = t THEN Append(OfTarget(q, t), s) ELSE OfTarget(q, t)
<1>. DEFINE r == <<s>>
<1>1. r \in Seq(Proper)
  OBVIOUS
<1>2. Append(q, s) = q \o r
  BY AppendIsConcat
<1>3. OfTarget(r, t) = IF s.target = t THEN r ELSE <<>>
  BY OwnSingle
<1>4. OfTarget(q, t) \in Seq(Proper)
  BY PiecesFacts
<1>5. /\ Append(OfTarget(q, t), s) = OfTarget(q, t) \o r
      /\ OfTarget(q, t) = OfTarget(q, t) \o <<>>
  BY <1>4, AppendIsConcat, ConcatEmptySeq
<1>. HIDE DEF r
<1>6. OfTarget(q \o r, t) = OfTarget(q, t) \o OfTarget(r, t)
  BY <1>1, OwnConcat
<1>. QED
  BY <1>2, <1>3, <1>5, <1>6

LEMMA OwnEmpty == \A t : OfTarget(<<>>, t) = <<>>
<1>1. \A t : Pieces(<<>>, t) = <<>>
  BY DEF Pieces
<1>2. <<>> \in Seq(Proper)
  OBVIOUS
<1>. QED
  BY <1>1, <1>2, PiecesFacts, FlattenEmpty

-----------------------------------------------------------------------------
(* The samples of one target come in order.                                *)

\* What was taken of target t is in order, before what of it is in the channel, which is
\* in order too, before the one probe that may be running; and none of it is ahead of time.
InLine(t) ==
  LET own == OfTarget(taken, t)
  IN /\ \A i, j \in 1 .. Len(own) : i <= j => own[i].ts <= own[j].ts
     /\ \A i \in 1 .. Len(own), j \in 1 .. Len(chan) :
          chan[j].target = t => own[i].ts <= chan[j].ts
     /\ \A i \in 1 .. Len(own) :
          own[i].ts <= time /\ \A p \in probes[t] : own[i].ts <= p
     /\ \A i, j \in 1 .. Len(chan) :
          i <= j /\ chan[i].target = t /\ chan[j].target = t => chan[i].ts <= chan[j].ts
     /\ \A j \in 1 .. Len(chan) :
          chan[j].target = t => chan[j].ts <= time /\ \A p \in probes[t] : chan[j].ts <= p
     /\ \A p \in probes[t] : p <= time

LineInv == \A t \in Target : InLine(t)

LEMMA LineInit == Init => LineInv
<1>. SUFFICES ASSUME Init, NEW t \in Target PROVE InLine(t)
  BY DEF LineInv
<1>1. OfTarget(taken, t) = <<>> /\ chan = <<>> /\ probes[t] = {}
  BY OwnEmpty DEF Init
<1>. QED
  BY <1>1 DEF InLine

\* The numbers in it.
LEMMA LineTypes ==
  ASSUME StreamOK, NEW t \in Target
  PROVE  /\ OfTarget(taken, t) \in Seq(Proper)
         /\ Len(OfTarget(taken, t)) \in Nat
         /\ \A i \in 1 .. Len(OfTarget(taken, t)) : OfTarget(taken, t)[i].ts \in Nat
         /\ Len(chan) \in Nat /\ \A j \in 1 .. Len(chan) : chan[j] \in Proper /\ chan[j].ts \in Nat
         /\ \A p \in probes[t] : p \in Nat
         /\ time \in Nat
<1>1. OfTarget(taken, t) \in Seq(Proper) /\ chan \in Seq(Proper)
  BY PiecesFacts DEF StreamOK
<1>2. \A s \in Proper : s.ts \in Nat
  BY TicksAssumption DEF Proper, Sample
<1>3. /\ Len(OfTarget(taken, t)) \in Nat /\ Len(chan) \in Nat
      /\ \A i \in 1 .. Len(OfTarget(taken, t)) : OfTarget(taken, t)[i] \in Proper
      /\ \A j \in 1 .. Len(chan) : chan[j] \in Proper
  BY <1>1, LenProperties, ElementOfSeq
<1>. QED
  BY <1>1, <1>2, <1>3, TicksAssumption DEF StreamOK

LEMMA LineTake ==
  ASSUME StreamOK, NEW t \in Target, InLine(t), Take
  PROVE  InLine(t)'
<1>. DEFINE own == OfTarget(taken, t)
            s == Head(chan)
            n == Len(own)
<1>1. /\ s \in Proper /\ s = chan[1] /\ Len(chan) \in Nat \ {0}
      /\ Len(chan') = Len(chan) - 1
      /\ \A j \in 1 .. Len(chan') : chan'[j] = chan[j + 1] /\ j + 1 \in 1 .. Len(chan)
  BY HeadTailProperties DEF Take, StreamOK
<1>2. /\ taken' = Append(taken, s) /\ UNCHANGED <<time, probes>>
  BY DEF Take, prober
<1>3. own' = IF s.target = t THEN Append(own, s) ELSE own
  <2>1. taken \in Seq(Proper)
    BY DEF StreamOK
  <2>2. OfTarget(Append(taken, s), t) = IF s.target = t THEN Append(own, s) ELSE own
    <3>1. s \in Proper
      BY <1>1
    <3>. HIDE DEF s
    <3>. QED
      BY ONLY <2>1, <3>1, OwnAppend
  <2>3. own' = OfTarget(Append(taken, s), t)
    BY <1>2
  <2>. QED
    BY <2>2, <2>3
<1>4. /\ n \in Nat /\ own \in Seq(Proper)
      /\ \A i \in 1 .. n : own[i].ts \in Nat
      /\ s.ts \in Nat
  BY <1>1, LineTypes
<1>5. CASE s.target = t
  <2>1. /\ Len(own') = n + 1 /\ own'[n + 1] = s
        /\ \A i \in 1 .. n : own'[i] = own[i]
    BY <1>1, <1>3, <1>4, <1>5, AppendProperties
  <2>2. \A i \in 1 .. n : own[i].ts <= s.ts
    BY <1>1, <1>5 DEF InLine
  <2>. HIDE DEF own, s, n
  <2>3. \A i, j \in 1 .. Len(own') : i <= j => own'[i].ts <= own'[j].ts
    <3>1. \A i, j \in 1 .. n : i <= j => own[i].ts <= own[j].ts
      BY DEF InLine, own, n
    <3>. SUFFICES ASSUME NEW i \in 1 .. n + 1, NEW j \in 1 .. n + 1, i <= j
                  PROVE  own'[i].ts <= own'[j].ts
      BY <2>1
    <3>2. CASE j = n + 1
      BY <1>4, <2>1, <2>2, <3>2
    <3>3. CASE j \in 1 .. n
      <4>1. i \in 1 .. n
        BY <1>4, <3>3
      <4>. QED
        BY <2>1, <3>1, <3>3, <4>1
    <3>. QED
      BY <1>4, <3>2, <3>3
  <2>4. \A i \in 1 .. n + 1, j \in 1 .. Len(chan') :
          chan'[j].target = t => own'[i].ts <= chan'[j].ts
    <3>. SUFFICES ASSUME NEW i \in 1 .. n + 1, NEW j \in 1 .. Len(chan'), chan'[j].target = t
                  PROVE  own'[i].ts <= chan'[j].ts
      OBVIOUS
    <3>1. 1 \in 1 .. Len(chan) /\ j + 1 \in 1 .. Len(chan) /\ 1 <= j + 1 /\ chan'[j] = chan[j + 1]
      BY <1>1
    <3>2. CASE i = n + 1
      <4>1. chan[1].target = t /\ chan[j + 1].target = t
        BY <1>1, <1>5, <3>1
      <4>2. chan[1].ts <= chan[j + 1].ts
        BY <3>1, <4>1 DEF InLine
      <4>. QED
        BY <1>1, <2>1, <3>1, <3>2, <4>2
    <3>3. CASE i \in 1 .. n
      <4>1. own[i].ts <= chan[j + 1].ts
        BY <3>1, <3>3 DEF InLine, own, n
      <4>. QED
        BY <2>1, <3>1, <3>3, <4>1
    <3>. QED
      BY <1>4, <3>2, <3>3
  <2>5. \A i \in 1 .. n + 1 : own'[i].ts <= time' /\ \A p \in probes'[t] : own'[i].ts <= p
    <3>1. s.ts <= time /\ \A p \in probes[t] : s.ts <= p
      BY <1>1, <1>5 DEF InLine
    <3>2. \A i \in 1 .. n : own[i].ts <= time /\ \A p \in probes[t] : own[i].ts <= p
      BY DEF InLine, own, n
    <3>. QED
      BY <1>2, <1>4, <2>1, <3>1, <3>2
  <2>6. \A i, j \in 1 .. Len(chan') :
          i <= j /\ chan'[i].target = t /\ chan'[j].target = t => chan'[i].ts <= chan'[j].ts
    BY <1>1 DEF InLine
  <2>7. \A j \in 1 .. Len(chan') :
          chan'[j].target = t => chan'[j].ts <= time' /\ \A p \in probes'[t] : chan'[j].ts <= p
    BY <1>1, <1>2 DEF InLine
  <2>8. \A p \in probes'[t] : p <= time'
    BY <1>2 DEF InLine
  <2>. QED
    BY <2>1, <2>3, <2>4, <2>5, <2>6, <2>7, <2>8 DEF InLine, own
<1>6. CASE s.target # t
  <2>1. own' = own
    BY <1>3, <1>6
  <2>2. \A i, j \in 1 .. n : i <= j => own[i].ts <= own[j].ts
    BY DEF InLine
  <2>3. \A i \in 1 .. n, j \in 1 .. Len(chan') :
          chan'[j].target = t => own[i].ts <= chan'[j].ts
    BY <1>1 DEF InLine
  <2>4. \A i \in 1 .. n : own[i].ts <= time' /\ \A p \in probes'[t] : own[i].ts <= p
    BY <1>2 DEF InLine
  <2>5. \A i, j \in 1 .. Len(chan') :
          i <= j /\ chan'[i].target = t /\ chan'[j].target = t => chan'[i].ts <= chan'[j].ts
    BY <1>1 DEF InLine
  <2>6. \A j \in 1 .. Len(chan') :
          chan'[j].target = t => chan'[j].ts <= time' /\ \A p \in probes'[t] : chan'[j].ts <= p
    BY <1>1, <1>2 DEF InLine
  <2>7. \A p \in probes'[t] : p <= time'
    BY <1>2 DEF InLine
  <2>. HIDE DEF own
  <2>. QED
    BY <2>1, <2>2, <2>3, <2>4, <2>5, <2>6, <2>7 DEF InLine, own
<1>. QED
  BY <1>5, <1>6

LEMMA LineEmit ==
  ASSUME StreamOK, NEW t \in Target, InLine(t),
         NEW u \in Target, NEW ts \in probes[u], EmitSample(u, ts)
  PROVE  InLine(t)'
<1>. DEFINE own == OfTarget(taken, t)
            n == Len(own)
            m == Len(chan)
<1>1. PICK r \in Outcomes(u) : chan' = Append(chan, [target |-> u, ts |-> ts, result |-> r])
  BY DEF EmitSample
<1>. DEFINE s == [target |-> u, ts |-> ts, result |-> r]
<1>2. /\ s \in Proper /\ s.target = u /\ s.ts = ts
      /\ m \in Nat /\ Len(chan') = m + 1 /\ chan'[m + 1] = s
      /\ \A j \in 1 .. m : chan'[j] = chan[j]
  <2>1. s \in Proper
    BY ProbeMakesProper
  <2>2. chan \in Seq(Proper) /\ m \in Nat
    BY LineTypes DEF StreamOK
  <2>3. s.target = u /\ s.ts = ts /\ chan' = Append(chan, s)
    BY <1>1
  <2>. HIDE DEF s
  <2>. QED
    BY <2>1, <2>2, <2>3, AppendProperties
<1>3. /\ UNCHANGED <<time, taken>> /\ own' = own
      /\ probes' = [probes EXCEPT ![u] = @ \ {ts}]
  BY DEF EmitSample
<1>4. /\ probes'[t] \subseteq probes[t]
      /\ u = t => probes'[t] = {}
  BY <1>3 DEF StreamOK
<1>5. /\ n \in Nat /\ \A i \in 1 .. n : own[i].ts \in Nat
      /\ \A j \in 1 .. m : chan[j].ts \in Nat
      /\ time \in Nat /\ ts \in Nat
  BY LineTypes DEF StreamOK
<1>6. u = t => /\ ts \in probes[t] /\ ts <= time
               /\ \A i \in 1 .. n : own[i].ts <= ts
               /\ \A j \in 1 .. m : chan[j].target = t => chan[j].ts <= ts
  BY DEF InLine
<1>7. /\ \A i, j \in 1 .. n : i <= j => own[i].ts <= own[j].ts
      /\ \A i \in 1 .. n, j \in 1 .. m : chan[j].target = t => own[i].ts <= chan[j].ts
      /\ \A i \in 1 .. n : own[i].ts <= time /\ \A p \in probes[t] : own[i].ts <= p
      /\ \A i, j \in 1 .. m :
           i <= j /\ chan[i].target = t /\ chan[j].target = t => chan[i].ts <= chan[j].ts
      /\ \A j \in 1 .. m :
           chan[j].target = t => chan[j].ts <= time /\ \A p \in probes[t] : chan[j].ts <= p
      /\ \A p \in probes[t] : p <= time
  BY DEF InLine
<1>. HIDE DEF own, n, m, s
<1>8. \A i \in 1 .. n, j \in 1 .. m + 1 : chan'[j].target = t => own[i].ts <= chan'[j].ts
  BY <1>2, <1>5, <1>6, <1>7
<1>9. \A i, j \in 1 .. m + 1 :
        i <= j /\ chan'[i].target = t /\ chan'[j].target = t => chan'[i].ts <= chan'[j].ts
  BY <1>2, <1>5, <1>6, <1>7
<1>10. \A j \in 1 .. m + 1 :
         chan'[j].target = t => chan'[j].ts <= time' /\ \A p \in probes'[t] : chan'[j].ts <= p
  BY <1>2, <1>3, <1>4, <1>5, <1>6, <1>7
<1>11. /\ \A i \in 1 .. n : own[i].ts <= time' /\ \A p \in probes'[t] : own[i].ts <= p
       /\ \A p \in probes'[t] : p <= time'
  BY <1>3, <1>4, <1>7
<1>. QED
  BY <1>2, <1>3, <1>7, <1>8, <1>9, <1>10, <1>11 DEF InLine, own, n

LEMMA LineStep ==
  ASSUME StreamOK, LineInv, [Next]_vars
  PROVE  LineInv'
<1>. SUFFICES ASSUME NEW t \in Target PROVE InLine(t)'
  BY DEF LineInv
<1>0. InLine(t)
  BY DEF LineInv
<1>1. CASE Take
  BY <1>0, <1>1, LineTake
<1>2. ASSUME NEW u \in Target, NEW ts \in probes[u], EmitSample(u, ts)
      PROVE  InLine(t)'
  BY <1>0, <1>2, LineEmit
<1>3. CASE Pass
  <2>1. time' = time + 1 /\ UNCHANGED <<taken, chan, probes>>
    BY <1>3 DEF Pass, prober
  <2>. QED
    BY <1>0, <2>1, LineTypes DEF InLine
<1>4. ASSUME NEW u \in Target, StartProbe(u)
      PROVE  InLine(t)'
  <2>1. /\ UNCHANGED <<time, taken, chan>>
        /\ probes'[t] \subseteq probes[t] \cup {time}
    BY <1>4 DEF StartProbe, StreamOK
  <2>. QED
    BY <1>0, <2>1, LineTypes DEF InLine
<1>5. ASSUME NEW u \in Target, NEW ts \in probes[u], DropSample(u, ts)
      PROVE  InLine(t)'
  <2>1. /\ UNCHANGED <<time, taken, chan>>
        /\ probes'[t] \subseteq probes[t]
    BY <1>5 DEF DropSample, StreamOK
  <2>. QED
    BY <1>0, <2>1 DEF InLine
<1>6. CASE BeginTick \/ Stop \/ Leave \/ UNCHANGED vars
  <2>1. UNCHANGED <<time, taken, chan, probes>>
    BY <1>6 DEF BeginTick, Stop, Leave, vars, prober
  <2>. QED
    BY <1>0, <2>1 DEF InLine
<1>. QED
  BY <1>1, <1>2, <1>3, <1>4, <1>5, <1>6 DEF Next

LEMMA LineHolds == Spec => []LineInv
<1>. QED
  BY LineInit, LineStep, StreamTypes, PTL DEF Spec

\* The tracker sees the samples of each target in the order they were taken, however the
\* probes of a tick race for the channel, because no tick begins before the last one's
\* probes are over.
THEOREM TargetsStayInOrder == Spec => []TargetsInOrder
<1>1. StreamOK /\ LineInv /\ NothingSkipped => TargetsInOrder
  <2>. SUFFICES ASSUME StreamOK, LineInv, NothingSkipped, NEW t \in Target,
                       NEW i \in 2 .. Len(OfTarget(taken, t))
                PROVE  OfTarget(taken, t)[i - 1].ts <= OfTarget(taken, t)[i].ts
    BY DEF TargetsInOrder, NothingSkipped
  <2>1. Len(OfTarget(taken, t)) \in Nat /\ InLine(t)
    BY LineTypes DEF LineInv
  <2>2. i - 1 \in 1 .. Len(OfTarget(taken, t)) /\ i \in 1 .. Len(OfTarget(taken, t))
        /\ i - 1 <= i
    BY <2>1
  <2>. QED
    BY <2>1, <2>2 DEF InLine
<1>. QED
  BY <1>1, LineHolds, NothingIsSkipped, StreamTypes, PTL

-----------------------------------------------------------------------------
(* A batch, target by target.                                              *)

\* The samples of a target are samples of the sequence, and its own.
LEMMA OwnMembers ==
  ASSUME NEW q \in Seq(Proper), NEW t
  PROVE  /\ OfTarget(q, t) \in Seq(Proper)
         /\ Len(OfTarget(q, t)) \in Nat /\ Len(OfTarget(q, t)) <= Len(q)
         /\ \A i \in 1 .. Len(OfTarget(q, t)) :
              /\ OfTarget(q, t)[i] \in Proper /\ OfTarget(q, t)[i].target = t
              /\ \E k \in 1 .. Len(q) : q[k] = OfTarget(q, t)[i]
<1>. DEFINE S == {s \in Proper : s.target = t /\ \E k \in 1 .. Len(q) : q[k] = s}
            own == OfTarget(q, t)
            pieces == Pieces(q, t)
<1>1. /\ own = FlattenSeq(pieces) /\ own \in Seq(Proper)
      /\ Len(pieces) = Len(q) /\ Len(q) \in Nat
  BY PiecesFacts
<1>2. \A k \in 1 .. Len(q) : pieces[k] \in Seq(S) /\ Len(pieces[k]) <= 1
  <2>. SUFFICES ASSUME NEW k \in 1 .. Len(q)
                PROVE  pieces[k] \in Seq(S) /\ Len(pieces[k]) <= 1
    OBVIOUS
  <2>1. q[k] \in Proper
    BY ElementOfSeq
  <2>2. pieces[k] = IF q[k].target = t THEN <<q[k]>> ELSE <<>>
    BY DEF Pieces
  <2>3. q[k].target = t => q[k] \in S
    BY <2>1
  <2>. HIDE DEF S, pieces
  <2>. QED
    BY <2>2, <2>3
<1>3. pieces \in Seq(Seq(S))
  <2>1. pieces = [k \in 1 .. Len(q) |-> pieces[k]]
    BY DEF Pieces
  <2>. HIDE DEF S, pieces
  <2>2. pieces \in [1 .. Len(q) -> Seq(S)]
    BY <1>2, <2>1
  <2>. QED
    BY <1>1, <2>2, SeqDef
<1>. HIDE DEF S, own, pieces
<1>4. own \in Seq(S) /\ Len(own) <= Len(q)
  BY <1>1, <1>2, <1>3, FlattenType, FlattenShort
<1>5. Len(own) \in Nat /\ \A i \in 1 .. Len(own) : own[i] \in S
  BY <1>4, LenProperties, ElementOfSeq
<1>. QED
  BY <1>1, <1>4, <1>5 DEF S, own

LEMMA ByTargetFacts ==
  ASSUME NEW q \in Seq(Proper), NEW t \in Target
  PROVE  /\ Len(ByTarget(q)[t]) = Len(OfTarget(q, t))
         /\ DOMAIN ByTarget(q)[t] = 1 .. Len(OfTarget(q, t))
         /\ Len(OfTarget(q, t)) \in 0 .. Len(q)
         /\ \A i \in 1 .. Len(OfTarget(q, t)) :
              /\ ByTarget(q)[t][i] = Told(OfTarget(q, t)[i])
              /\ ByTarget(q)[t][i] \in Tr!Outcome(t)
<1>. DEFINE own == OfTarget(q, t)
<1>1. /\ Len(own) \in Nat /\ Len(own) <= Len(q) /\ Len(q) \in Nat
      /\ \A i \in 1 .. Len(own) : own[i] \in Proper /\ own[i].target = t
  BY OwnMembers, LenProperties
<1>2. ByTarget(q)[t] = [i \in 1 .. Len(own) |-> Told(own[i])]
  BY DEF ByTarget
<1>. HIDE DEF own
<1>3. \A s \in Proper : s.target = t => Told(s) \in Tr!Outcome(t)
  BY DEF Told, Proper, Sample, Tr!Outcome
<1>. QED
  BY <1>1, <1>2, <1>3 DEF own

\* Every batch is one that Observe may be given.
LEMMA BatchFits ==
  ASSUME NEW q \in Seq(Proper), q # <<>>
  PROVE  ByTarget(q) \in Tr!Batches
<1>. DEFINE b == ByTarget(q)
            Values == UNION {[1 .. n -> {"ok", "ping", "dns"}] :
                               n \in UNION {[u \in Target |-> Nat][t] : t \in Target}}
<1>1. ASSUME NEW t \in Target
      PROVE  /\ b[t] \in Values /\ Len(b[t]) \in Nat
             /\ \A i \in DOMAIN b[t] : b[t][i] \in Tr!Outcome(t)
  <2>1. /\ Len(b[t]) \in Nat /\ DOMAIN b[t] = 1 .. Len(b[t])
        /\ \A i \in 1 .. Len(b[t]) : b[t][i] \in Tr!Outcome(t)
    BY ByTargetFacts
  <2>2. b[t] = [i \in 1 .. Len(b[t]) |-> b[t][i]]
    <3>1. b[t] = [i \in 1 .. Len(OfTarget(q, t)) |-> Told(OfTarget(q, t)[i])]
      BY DEF ByTarget
    <3>2. Len(b[t]) = Len(OfTarget(q, t))
      BY ByTargetFacts
    <3>. QED
      BY <3>1, <3>2
  <2>3. Tr!Outcome(t) \subseteq {"ok", "ping", "dns"}
    BY DEF Tr!Outcome
  <2>. HIDE DEF b
  <2>4. b[t] \in [1 .. Len(b[t]) -> {"ok", "ping", "dns"}]
    BY <2>1, <2>2, <2>3
  <2>. QED
    BY <2>1, <2>4
<1>2. b \in [Target -> Values]
  <2>1. b = [t \in Target |-> b[t]]
    BY DEF ByTarget
  <2>. HIDE DEF b, Values
  <2>. QED
    BY <1>1, <2>1
<1>3. \E t \in Target : b[t] # <<>>
  <2>1. PICK r \in Seq(Proper), s \in Proper : q = Append(r, s)
    BY SequenceEmptyOrAppend
  <2>2. s.target \in Target
    BY DEF Proper, Sample
  <2>3. OfTarget(q, s.target) = Append(OfTarget(r, s.target), s)
    BY <2>1, OwnAppend
  <2>4. Len(OfTarget(q, s.target)) # 0
    <3>1. OfTarget(r, s.target) \in Seq(Proper)
      BY PiecesFacts
    <3>. QED
      BY <2>3, <3>1
  <2>5. Len(b[s.target]) # 0
    BY <2>2, <2>4, ByTargetFacts
  <2>6. b[s.target] # <<>>
    BY <2>5
  <2>. QED
    BY <2>2, <2>6
<1>. QED
  BY <1>1, <1>2, <1>3 DEF Tr!Batches

-----------------------------------------------------------------------------
(* The agent's steps, as steps of the stream and of the tracker.           *)

LEMMA StreamPart == NextAgent => [Next]_vars
BY DEF NextAgent, TakeSample, CloseAll, Elsewhere, Next

\* What the composition leaves of the stream is the stream: all that holds of Ticks holds
\* of the agent.
THEOREM AgentStreams == SpecAgent => Spec
<1>1. InitAgent => Init
  BY DEF InitAgent
<1>2. [NextAgent]_agent => [Next]_vars
  BY StreamPart DEF agent, vars
<1>. QED
  BY <1>1, <1>2, PTL DEF SpecAgent, Spec

\* The tracker's clock is the window observed last.
Fed == now = IF observed = <<>> THEN 0 ELSE observed[Len(observed)].at + 1

LEMMA LastTickFacts ==
  /\ MaxTime \div Interval \in Nat
  /\ LastTick = MaxTime \div Interval + 1 /\ LastTick \in Nat
<1>1. MaxTime \in Nat /\ 0 \in 0 .. MaxTime
  BY TicksAssumption
<1>. QED
  BY <1>1, BucketBounds DEF LastTick

\* A tick that is observed: the collator's window and batch, which the tracker may be given.
LEMMA ObservedTick ==
  ASSUME StreamOK, OrderInv, Fed, TakeSample, observed' # observed
  PROVE  /\ current \in 0 .. MaxTime \div Interval
         /\ batch \in Seq(Proper) /\ batch # <<>>
         /\ [at |-> current, samples |-> batch] \in Tick /\ observed \in Seq(Tick)
         /\ observed' = Append(observed, [at |-> current, samples |-> batch])
         /\ Len(observed) \in Nat /\ Len(observed') = Len(observed) + 1
         /\ observed'[Len(observed')] = [at |-> current, samples |-> batch]
         /\ Tr!ObserveTick(current + 1, ByTarget(batch))
         /\ current + 1 \in 1 .. LastTick /\ now \in Nat /\ now < current + 1
<1>. DEFINE s == Head(chan)
            tick == [at |-> current, samples |-> batch]
<1>1. s \in Proper /\ Collate(s)
  BY DEF TakeSample, Take, StreamOK
<1>2. /\ current # Unset /\ observed' = Append(observed, tick)
      /\ Tr!ObserveTick(observed'[Len(observed')].at + 1,
                        ByTarget(observed'[Len(observed')].samples))
  BY <1>1, CollateFacts DEF TakeSample
<1>3. /\ tick \in Tick /\ observed \in Seq(Tick)
      /\ current \in 0 .. MaxTime \div Interval
      /\ batch \in Seq(Proper) /\ batch # <<>>
  BY <1>1, <1>2, WindowTypes DEF StreamOK, Tick
<1>4. /\ Len(observed) \in Nat /\ Len(observed') = Len(observed) + 1
      /\ observed'[Len(observed')] = tick
  BY <1>2, <1>3, AppendProperties
<1>5. Tr!ObserveTick(current + 1, ByTarget(batch))
  BY <1>2, <1>4
<1>6. now \in Nat /\ now < current + 1
  <2>1. CASE observed = <<>>
    BY <1>3, <2>1, LastTickFacts DEF Fed
  <2>2. CASE observed # <<>>
    <3>1. Len(observed) \in 1 .. Len(observed)
      BY <1>3, <1>4, <2>2
    <3>2. observed[Len(observed)] \in Tick
      BY <1>3, <3>1, ElementOfSeq
    <3>3. observed[Len(observed)].at < current
      BY <3>1 DEF OrderInv, TicksInOrder
    <3>4. observed[Len(observed)].at \in Nat
      BY <3>2, TicksAssumption DEF Tick
    <3>5. now = observed[Len(observed)].at + 1
      BY <2>2 DEF Fed
    <3>. QED
      BY <1>3, <3>3, <3>4, <3>5, LastTickFacts
  <2>. QED
    BY <2>1, <2>2
<1>. QED
  BY <1>2, <1>3, <1>4, <1>5, <1>6, LastTickFacts

LEMMA FeedStep ==
  ASSUME StreamOK, OrderInv, Fed, NextAgent
  PROVE  [Tr!Next]_(Tr!vars) /\ Fed'
<1>1. CASE TakeSample
  <2>1. CASE observed' = observed
    <3>1. UNCHANGED tracker
      BY <1>1, <2>1 DEF TakeSample
    <3>. QED
      BY <2>1, <3>1 DEF Fed, tracker, Tr!vars
  <2>2. CASE observed' # observed
    <3>1. /\ batch \in Seq(Proper) /\ batch # <<>>
          /\ observed' # <<>> /\ observed'[Len(observed')].at = current
          /\ Tr!ObserveTick(current + 1, ByTarget(batch))
          /\ current + 1 \in now + 1 .. LastTick
      BY <1>1, <2>2, ObservedTick
    <3>2. ByTarget(batch) \in Tr!Batches
      BY <3>1, BatchFits
    <3>3. now' = current + 1
      BY <3>1 DEF Tr!ObserveTick
    <3>. QED
      BY <3>1, <3>2, <3>3 DEF Fed, Tr!Next, Tr!Observe
  <2>. QED
    BY <2>1, <2>2
<1>2. CASE CloseAll
  <2>1. UNCHANGED <<observed, now>>
    BY <1>2 DEF CloseAll, Tr!CloseAll, tracker, vars
  <2>2. Tr!CloseAll \/ UNCHANGED Tr!vars
    BY <1>2 DEF CloseAll, tracker, Tr!vars
  <2>. QED
    BY <2>1, <2>2 DEF Fed, Tr!Next
<1>3. CASE Elsewhere
  <2>1. UNCHANGED <<observed, tracker>>
    BY <1>3 DEF Elsewhere, Pass, BeginTick, Stop, Leave, StartProbe, EmitSample, DropSample,
         collator
  <2>. QED
    BY <2>1 DEF Fed, tracker, Tr!vars
<1>. QED
  BY <1>1, <1>2, <1>3 DEF NextAgent

\* The agent's stream feeds the tracker as the tracker expects it: every step of the agent
\* is one call of Observe, with a later tick and a batch of real outcomes that is not empty,
\* or one of CloseAll, or none of the tracker's business.
THEOREM AgentFeedsTracker == SpecAgent => Tr!Spec
<1>1. InitAgent => Tr!Init /\ Fed
  BY DEF InitAgent, Init, Tr!Init, Fed
<1>2. StreamOK /\ OrderInv /\ Fed /\ [NextAgent]_agent
        => [Tr!Next]_(Tr!vars) /\ Fed'
  <2>1. ASSUME Fed, UNCHANGED agent
        PROVE  [Tr!Next]_(Tr!vars) /\ Fed'
    BY <2>1 DEF agent, vars, tracker, Tr!vars, Fed
  <2>. QED
    BY <2>1, FeedStep
<1>3. Spec => [](StreamOK /\ OrderInv)
  BY OrderInit, OrderStep, StreamTypes, PTL DEF Spec
<1>. QED
  BY <1>1, <1>2, <1>3, AgentStreams, PTL DEF SpecAgent, Tr!Spec

-----------------------------------------------------------------------------
(* What is proved of the tracker, here.                                    *)

TrP == INSTANCE OutageProofs WITH MaxTick <- LastTick, Lengths <- [t \in Target |-> Nat]

LEMMA TrackerAssumption == TrP!OutageAssumption
<1>1. TrP!IsFiniteSet(Target)
  BY AgentAssumption DEF TrP!IsFiniteSet, IsFiniteSet
<1>2. [t \in Target |-> Nat] \in [Target -> SUBSET Nat]
  OBVIOUS
<1>. QED
  BY <1>1, <1>2, AgentAssumption, TicksAssumption, LastTickFacts
     DEF TrP!OutageAssumption, Tr!OpenEvent, Tr!Type, TrP!Type

\* The two instances are of one tracker.
LEMMA SameObserve ==
  \A at, b : Tr!ObserveTick(at, b) <=> TrP!ObserveTick(at, b)
<1>1. \A b : Tr!Failing(b) = TrP!Failing(b)
  BY DEF Tr!Failing, TrP!Failing, Tr!Obs, TrP!Obs, Tr!Max, TrP!Max, Tr!Streak, TrP!Streak,
     Tr!Ok, TrP!Ok
<1>2. \A b, f : Tr!Classify(b, f) = TrP!Classify(b, f)
  BY DEF Tr!Classify, TrP!Classify, Tr!GatewayDown, TrP!GatewayDown, Tr!DNSDown, TrP!DNSDown,
     Tr!AllDown, TrP!AllDown, Tr!HostObs, TrP!HostObs, Tr!Obs, TrP!Obs, Tr!Max, TrP!Max,
     Tr!Cardinality, TrP!Cardinality, Tr!Affected, TrP!Affected, Tr!NoType, TrP!NoType
<1>3. \A x : Tr!Recover(x) <=> TrP!Recover(x)
  BY DEF Tr!Recover, TrP!Recover, Tr!CloseOpen, TrP!CloseOpen, Tr!NoType, TrP!NoType
<1>4. \A x, f, at : Tr!Begin(x, f, at) <=> TrP!Begin(x, f, at)
  BY DEF Tr!Begin, TrP!Begin, Tr!Affected, TrP!Affected, Tr!NoType, TrP!NoType
<1>5. \A x, f, at : Tr!Extend(x, f, at) <=> TrP!Extend(x, f, at)
  BY DEF Tr!Extend, TrP!Extend, Tr!Affected, TrP!Affected, Tr!MergeType, TrP!MergeType,
     Tr!Rank, TrP!Rank, Tr!NoType, TrP!NoType
<1>6. \A b, t, i : Tr!Streak(b, t, i) = TrP!Streak(b, t, i)
  BY DEF Tr!Max, TrP!Max, Tr!Streak, TrP!Streak, Tr!Ok, TrP!Ok
<1>. QED
  BY <1>1, <1>2, <1>3, <1>4, <1>5, <1>6 DEF Tr!ObserveTick, TrP!ObserveTick

LEMMA SameTracker == Tr!Spec <=> TrP!Spec
<1>1. Tr!Batches = TrP!Batches
  BY DEF Tr!Batches, TrP!Batches, Tr!Outcome, TrP!Outcome
<1>2. Tr!CloseAll <=> TrP!CloseAll
  BY DEF Tr!CloseAll, TrP!CloseAll, Tr!CloseOpen, TrP!CloseOpen
<1>3. Tr!Next <=> TrP!Next
  BY <1>1, <1>2, SameObserve DEF Tr!Next, TrP!Next, Tr!Observe, TrP!Observe
<1>4. (Tr!Init <=> TrP!Init) /\ (Tr!vars = TrP!vars)
  BY DEF Tr!Init, TrP!Init, Tr!vars, TrP!vars
<1>5. [Tr!Next]_(Tr!vars) <=> [TrP!Next]_(TrP!vars)
  BY <1>3 DEF Tr!vars, TrP!vars
<1>. QED
  BY <1>4, <1>5, PTL DEF Tr!Spec, TrP!Spec

\* The tracker's types hold in the agent.
LEMMA AgentTypes == SpecAgent => []Tr!TypeOK
<1>1. TrP!Spec => []TrP!TypeOK
  BY TrackerAssumption, TrP!TypeCorrect
<1>2. TrP!TypeOK <=> Tr!TypeOK
  BY DEF Tr!TypeOK, TrP!TypeOK, Tr!OpenEvent, TrP!OpenEvent, Tr!Event, TrP!Event,
     Tr!Type, TrP!Type
<1>. QED
  BY <1>1, <1>2, AgentFeedsTracker, SameTracker, PTL

\* The events of a running agent never overlap and are recorded in the order they happened,
\* whatever the stream is.
THEOREM AgentEventsDisjoint == SpecAgent => []Tr!EventsDisjoint
<1>1. TrP!Spec => []TrP!EventsDisjoint
  BY TrackerAssumption, TrP!EventsStayDisjoint
<1>2. TrP!EventsDisjoint <=> Tr!EventsDisjoint
  BY DEF Tr!EventsDisjoint, TrP!EventsDisjoint
<1>. QED
  BY <1>1, <1>2, AgentFeedsTracker, SameTracker, PTL

LEMMA SameVerdicts ==
  /\ Tr!Failures = TrP!Failures
  /\ \A b : Tr!Obs(b) = TrP!Obs(b)
  /\ \A f : Tr!Affected(f) = TrP!Affected(f)
  /\ \A F, r : Tr!Summary(F, r) = TrP!Summary(F, r)
  /\ \A F : Tr!Runs(F) = TrP!Runs(F)
  /\ Tr!Ongoing = TrP!Ongoing
  /\ \A q : Tr!ToSet(q) = TrP!ToSet(q)
  /\ \A F, e : Tr!Span(F, e) = TrP!Span(F, e)
  /\ \A k : (Tr!NoLookup(k) <=> TrP!NoLookup(k)) /\ Tr!Sampled(k) = TrP!Sampled(k)
  /\ \A S : Tr!Cardinality(S) = TrP!Cardinality(S)
<1>1. \A b : Tr!Obs(b) = TrP!Obs(b)
  BY DEF Tr!Obs, TrP!Obs, Tr!Max, TrP!Max
<1>2. \A f : Tr!Affected(f) = TrP!Affected(f)
  BY DEF Tr!Affected, TrP!Affected
<1>3. \A t, n : Tr!Past(t, n) = TrP!Past(t, n)
  BY DEF Tr!Past, TrP!Past, Tr!FlattenSeq, TrP!FlattenSeq
<1>4. ASSUME NEW n, NEW t, NEW i
      PROVE  Tr!DownAt(n, t, i) <=> TrP!DownAt(n, t, i)
  <2>1. Tr!Past(t, n - 1) = TrP!Past(t, n - 1)
    BY <1>3
  <2>. QED
    BY <2>1 DEF Tr!DownAt, TrP!DownAt
<1>5. \A n : Tr!Fails(n) = TrP!Fails(n)
  BY <1>1, <1>4 DEF Tr!Fails, TrP!Fails
<1>6. Tr!Failures = TrP!Failures
  BY <1>5 DEF Tr!Failures, TrP!Failures
<1>7. \A b, f : Tr!Classify(b, f) = TrP!Classify(b, f)
  BY DEF Tr!Classify, TrP!Classify, Tr!GatewayDown, TrP!GatewayDown, Tr!DNSDown, TrP!DNSDown,
     Tr!AllDown, TrP!AllDown, Tr!HostObs, TrP!HostObs, Tr!Obs, TrP!Obs, Tr!Max, TrP!Max,
     Tr!Cardinality, TrP!Cardinality, Tr!Affected, TrP!Affected, Tr!NoType, TrP!NoType
<1>8. \A x : Tr!Rank(x) = TrP!Rank(x)
  BY DEF Tr!Rank, TrP!Rank
<1>9. ASSUME NEW F, NEW r
      PROVE  Tr!Summary(F, r) = TrP!Summary(F, r)
  <2>. DEFINE types == {TrP!Classify(hist[k].batch, F[k]) : k \in r[1] .. r[2]}
              all == UNION {TrP!Affected(F[k]) : k \in r[1] .. r[2]}
  <2>1. {Tr!Classify(hist[k].batch, F[k]) : k \in r[1] .. r[2]} = types
    BY <1>7
  <2>2. UNION {Tr!Affected(F[k]) : k \in r[1] .. r[2]} = all
    BY <1>2
  <2>3. (CHOOSE w \in types : \A v \in types : Tr!Rank(v) <= Tr!Rank(w))
          = CHOOSE w \in types : \A v \in types : TrP!Rank(v) <= TrP!Rank(w)
    <3>. HIDE DEF types
    <3>. QED
      BY <1>8
  <2>4. Tr!Summary(F, r)
          = [start |-> hist[r[1]].at, end |-> hist[r[2]].at,
             type |-> CHOOSE w \in types : \A v \in types : Tr!Rank(v) <= Tr!Rank(w),
             affected |-> all]
    BY <2>1, <2>2 DEF Tr!Summary
  <2>5. TrP!Summary(F, r)
          = [start |-> hist[r[1]].at, end |-> hist[r[2]].at,
             type |-> CHOOSE w \in types : \A v \in types : TrP!Rank(v) <= TrP!Rank(w),
             affected |-> all]
    BY DEF TrP!Summary
  <2>. QED
    BY <2>3, <2>4, <2>5
<1>10. (\A F : Tr!Runs(F) = TrP!Runs(F)) /\ Tr!Ongoing = TrP!Ongoing
  BY DEF Tr!Runs, TrP!Runs, Tr!Ongoing, TrP!Ongoing
<1>11. \A q : Tr!ToSet(q) = TrP!ToSet(q)
  BY DEF Tr!ToSet, TrP!ToSet
<1>12. \A F, e : Tr!Span(F, e) = TrP!Span(F, e)
  BY DEF Tr!Span, TrP!Span
<1>13. \A k : (Tr!NoLookup(k) <=> TrP!NoLookup(k)) /\ Tr!Sampled(k) = TrP!Sampled(k)
  BY <1>11 DEF Tr!NoLookup, TrP!NoLookup, Tr!Sampled, TrP!Sampled
<1>14. \A S : Tr!Cardinality(S) = TrP!Cardinality(S)
  BY DEF Tr!Cardinality, TrP!Cardinality
<1>. QED
  BY <1>1, <1>2, <1>6, <1>9, <1>10, <1>11, <1>12, <1>13, <1>14

\* And they are exactly the maximal runs of failing ticks of that stream.
THEOREM AgentEventsAreRuns == SpecAgent => []Tr!EventsAreRuns
<1>1. TrP!Spec => []TrP!EventsAreRuns
  BY TrackerAssumption, TrP!EventsStayRuns
<1>2. TrP!EventsAreRuns <=> Tr!EventsAreRuns
  BY SameVerdicts DEF Tr!EventsAreRuns, TrP!EventsAreRuns
<1>. QED
  BY <1>1, <1>2, AgentFeedsTracker, SameTracker, PTL

\* What the type of each says is true of its ticks: no more than that several samples
\* failed at once for a multi_target_issue, and for a full_isp_outage that all that was
\* sampled in some tick was down.
THEOREM AgentVerdictsSound == SpecAgent => []Tr!VerdictsSound
<1>1. TrP!Spec => []TrP!VerdictsSound
  BY TrackerAssumption, TrP!VerdictsStaySound
<1>2. ASSUME NEW F, NEW e
      PROVE  Tr!TypeTrue(F, e.type, Tr!Span(F, e)) <=> TrP!TypeTrue(F, e.type, TrP!Span(F, e))
  BY SameVerdicts DEF Tr!TypeTrue, TrP!TypeTrue
<1>3. ASSUME NEW F, NEW k
      PROVE  Tr!Blackout(F, k) <=> TrP!Blackout(F, k)
  BY SameVerdicts DEF Tr!Blackout, TrP!Blackout
<1>4. TrP!VerdictsSound <=> Tr!VerdictsSound
  BY SameVerdicts, <1>2, <1>3 DEF Tr!VerdictsSound, TrP!VerdictsSound
<1>. QED
  BY <1>1, <1>4, AgentFeedsTracker, SameTracker, PTL

-----------------------------------------------------------------------------
(* Runs of failures.                                                       *)

\* The n-th sample of seq is the last of exactly k failures in a row.
RunIs(seq, n, k) ==
  /\ k \in 0 .. n
  /\ \A j \in n - k + 1 .. n : Failed(seq[j])
  /\ k < n => ~ Failed(seq[n - k])

LEMMA RunInARow ==
  ASSUME NEW seq, NEW n \in Nat, NEW k \in Nat, RunIs(seq, n, k)
  PROVE  InARow(seq, n) <=> k >= MinStreak
<1>. MinStreak \in Nat \ {0} /\ k \in 0 .. n
  BY AgentAssumption DEF RunIs
<1>1. ASSUME k >= MinStreak PROVE InARow(seq, n)
  <2>1. \A j \in n - MinStreak + 1 .. n : j \in n - k + 1 .. n
    BY <1>1
  <2>. QED
    BY <1>1, <2>1 DEF InARow, RunIs
<1>2. ASSUME InARow(seq, n), k < MinStreak PROVE FALSE
  <2>1. n >= MinStreak
    BY <1>2 DEF InARow
  <2>2. n - k \in n - MinStreak + 1 .. n /\ k < n
    BY <1>2, <2>1
  <2>3. Failed(seq[n - k])
    BY <1>2, <2>2 DEF InARow
  <2>. QED
    BY <2>2, <2>3 DEF RunIs
<1>. QED
  BY <1>1, <1>2

\* The streak the tracker keeps for a target is the run of failures at the end of what it
\* has seen of the target.
StreakInv ==
  \A t \in Target :
    RunIs(OfTarget(Collected, t), Len(OfTarget(Collected, t)), streaks[t])

\* What the tracker is about to see of a target comes after what it has seen.
LEMMA SeenAndNext ==
  ASSUME StreamOK, NothingSkipped, NEW t \in Target
  PROVE  LET c == OfTarget(Collected, t)
             own == OfTarget(batch, t)
             all == OfTarget(taken, t)
         IN /\ Collected \in Seq(Proper)
            /\ Len(c) \in Nat /\ Len(own) \in Nat /\ Len(all) = Len(c) + Len(own)
            /\ \A i \in 1 .. Len(c) : all[i] = c[i]
            /\ \A i \in 1 .. Len(own) : all[Len(c) + i] = own[i]
<1>. DEFINE c == OfTarget(Collected, t)
            own == OfTarget(batch, t)
            all == OfTarget(taken, t)
<1>1. Collected \in Seq(Proper)
  <2>1. Parts(observed) \in Seq(Seq(Proper)) /\ Collected = FlattenSeq(Parts(observed))
    BY PartsType DEF StreamOK, Collected, Parts
  <2>. QED
    BY <2>1, FlattenType
<1>2. all = c \o own
  <2>1. batch \in Seq(Proper) /\ taken = Collected \o batch
    BY DEF NothingSkipped, StreamOK
  <2>2. OfTarget(Collected \o batch, t) = OfTarget(Collected, t) \o OfTarget(batch, t)
    BY <1>1, <2>1, OwnConcat
  <2>. QED
    BY <2>1, <2>2
<1>3. c \in Seq(Proper) /\ own \in Seq(Proper)
  BY <1>1, PiecesFacts DEF StreamOK
<1>. HIDE DEF c, own, all
<1>4. /\ Len(c) \in Nat /\ Len(own) \in Nat /\ Len(all) = Len(c) + Len(own)
      /\ \A i \in 1 .. Len(c) + Len(own) :
           all[i] = IF i <= Len(c) THEN c[i] ELSE own[i - Len(c)]
  BY <1>2, <1>3, ConcatProperties, LenProperties
<1>5. \A i \in 1 .. Len(own) : all[Len(c) + i] = own[i]
  <2>. SUFFICES ASSUME NEW i \in 1 .. Len(own) PROVE all[Len(c) + i] = own[i]
    OBVIOUS
  <2>1. /\ Len(c) + i \in 1 .. Len(c) + Len(own) /\ ~ (Len(c) + i <= Len(c))
        /\ (Len(c) + i) - Len(c) = i
    BY <1>4
  <2>. QED
    BY <1>4, <2>1
<1>. QED
  BY <1>1, <1>4, <1>5 DEF c, own, all

\* Observe counts the run after each sample of the batch.
LEMMA StreakRuns ==
  ASSUME StreamOK, NothingSkipped, StreakInv, NEW t \in Target,
         NEW i \in 0 .. Len(OfTarget(batch, t))
  PROVE  RunIs(OfTarget(taken, t), Len(OfTarget(Collected, t)) + i,
               Tr!Streak(ByTarget(batch), t, i))
<1>. DEFINE c == OfTarget(Collected, t)
            own == OfTarget(batch, t)
            all == OfTarget(taken, t)
            b == ByTarget(batch)
            oks == Tr!Ok(b, t, i)
            m == Len(c)
<1>1. /\ m \in Nat /\ Len(own) \in Nat /\ i \in Nat
      /\ \A j \in 1 .. m : all[j] = c[j]
      /\ \A j \in 1 .. Len(own) : all[m + j] = own[j]
  BY SeenAndNext
<1>2. RunIs(c, m, streaks[t])
  BY DEF StreakInv
<1>3. oks = {j \in 1 .. i : ~ Failed(all[m + j])}
  <2>1. \A j \in 1 .. i : j \in 1 .. Len(own) /\ b[t][j] = Told(own[j])
    BY <1>1, ByTargetFacts DEF StreamOK
  <2>2. \A j \in 1 .. i : b[t][j] = "ok" <=> ~ Failed(all[m + j])
    BY <1>1, <2>1 DEF Told, Failed
  <2>. QED
    BY <2>2 DEF Tr!Ok
<1>4. Tr!Streak(b, t, i) = IF oks = {} THEN streaks[t] + i ELSE i - Tr!Max(oks)
  BY DEF Tr!Streak
<1>. HIDE DEF c, own, all, b, oks, m
<1>5. CASE oks = {}
  <2>. DEFINE k == streaks[t]
  <2>1. k \in 0 .. m /\ \A j \in m - k + 1 .. m : Failed(c[j])
    BY <1>2 DEF RunIs
  <2>2. k < m => ~ Failed(c[m - k])
    BY <1>2 DEF RunIs
  <2>. HIDE DEF k
  <2>3. k + i \in 0 .. m + i /\ (m + i) - (k + i) = m - k
    BY <1>1, <2>1
  <2>4. \A j \in (m + i) - (k + i) + 1 .. m + i : Failed(all[j])
    <3>. SUFFICES ASSUME NEW j \in m - k + 1 .. m + i PROVE Failed(all[j])
      BY <2>3
    <3>1. CASE j <= m
      <4>1. j \in 1 .. m /\ j \in m - k + 1 .. m
        BY <1>1, <2>1, <3>1
      <4>. QED
        BY <1>1, <2>1, <4>1
    <3>2. CASE ~ (j <= m)
      <4>1. j - m \in 1 .. i /\ m + (j - m) = j
        BY <1>1, <2>1, <3>2
      <4>. QED
        BY <1>3, <1>5, <4>1
    <3>. QED
      BY <3>1, <3>2
  <2>5. k + i < m + i => ~ Failed(all[(m + i) - (k + i)])
    <3>. SUFFICES ASSUME k < m PROVE ~ Failed(all[m - k])
      BY <1>1, <2>1, <2>3
    <3>1. m - k \in 1 .. m
      BY <1>1, <2>1
    <3>. QED
      BY <1>1, <2>2, <3>1
  <2>6. Tr!Streak(b, t, i) = k + i
    BY <1>4, <1>5 DEF k
  <2>. QED
    BY <2>3, <2>4, <2>5, <2>6 DEF RunIs, all, b, m, c
<1>6. CASE oks # {}
  <2>1. \A j \in oks : j \in 0 .. i
    BY <1>3
  <2>2. \E x \in oks : \A y \in oks : x >= y
    <3>1. oks \in SUBSET (0 .. i)
      BY <2>1
    <3>. QED
      BY <1>1, <1>6, <3>1, LargestNumber
  <2>. DEFINE x == Tr!Max(oks)
  <2>3. x \in oks /\ \A y \in oks : x >= y
    BY <2>2 DEF Tr!Max
  <2>. HIDE DEF x
  <2>4. x \in 1 .. i /\ ~ Failed(all[m + x])
    BY <1>3, <2>3
  <2>5. i - x \in 0 .. m + i /\ (m + i) - (i - x) = m + x
    BY <1>1, <2>4
  <2>6. \A j \in (m + i) - (i - x) + 1 .. m + i : Failed(all[j])
    <3>. SUFFICES ASSUME NEW j \in m + x + 1 .. m + i PROVE Failed(all[j])
      BY <2>5
    <3>1. j - m \in 1 .. i /\ m + (j - m) = j /\ ~ (x >= j - m)
      BY <1>1, <2>4
    <3>2. j - m \notin oks
      BY <2>3, <3>1
    <3>. QED
      BY <1>3, <3>1, <3>2
  <2>7. Tr!Streak(b, t, i) = i - x
    BY <1>4, <1>6 DEF x
  <2>. QED
    BY <2>4, <2>5, <2>6, <2>7 DEF RunIs, all, b, m, c
<1>. QED
  BY <1>5, <1>6

-----------------------------------------------------------------------------
(* What a call of the tracker does to its events.                          *)

\* The open event as it would be reported, and those reported.
LEMMA EventsAre ==
  ASSUME Tr!TypeOK
  PROVE  /\ open = NoEvent => Events = ToSet(closed)
         /\ open # NoEvent =>
              /\ open \in Tr!OpenEvent
              /\ Events = ToSet(closed) \cup
                   {[start |-> open.start, end |-> openLast, type |-> open.type,
                     affected |-> open.affected]}
         /\ \A e \in Events : /\ e.start \in Nat /\ e.end \in Nat
                             /\ e.affected \subseteq Target /\ e.type \in Tr!Type
         /\ openLast \in Nat /\ openLast <= now /\ now \in Nat
<1>1. closed \in Seq(Tr!Event) /\ openLast \in Nat /\ now \in Nat /\ openLast <= now
  BY LastTickFacts DEF Tr!TypeOK
<1>2. \A e \in ToSet(closed) : e \in Tr!Event
  BY <1>1, ElementOfSeq, LenProperties DEF ToSet
<1>3. open # NoEvent => open \in Tr!OpenEvent
  BY DEF Tr!TypeOK
<1>4. \A e \in Tr!Event : /\ e.start \in Nat /\ e.end \in Nat
                         /\ e.affected \subseteq Target /\ e.type \in Tr!Type
  BY LastTickFacts DEF Tr!Event
<1>5. \A e \in Tr!OpenEvent :
         e.start \in Nat /\ e.affected \subseteq Target /\ e.type \in Tr!Type
  BY LastTickFacts DEF Tr!OpenEvent
<1>6. \A e \in Tr!Ongoing :
         /\ e.start \in Nat /\ e.end \in Nat
         /\ e.affected \subseteq Target /\ e.type \in Tr!Type
  BY <1>1, <1>3, <1>5 DEF Tr!Ongoing
<1>. QED
  BY <1>1, <1>2, <1>3, <1>4, <1>6 DEF Events, Tr!Ongoing

\* An event that is closed keeps its start, its targets and its type, and ends no earlier.
LEMMA CloseEvents ==
  ASSUME Tr!TypeOK, Tr!CloseOpen
  PROVE  /\ \A f \in Events' : \E e \in Events :
              /\ f.start = e.start /\ f.affected = e.affected /\ f.type = e.type
              /\ f.end >= e.end
         /\ \A e \in Events : \E f \in Events' :
              f.affected = e.affected /\ f.end >= e.end
<1>1. CASE open = NoEvent
  <2>1. closed' = closed /\ open' = NoEvent
    BY <1>1 DEF Tr!CloseOpen
  <2>2. Events' = Events
    BY <1>1, <2>1 DEF Events, Tr!Ongoing
  <2>. QED
    BY <2>2, EventsAre
<1>2. CASE open # NoEvent
  <2>. DEFINE e == [start |-> open.start, end |-> openLast, type |-> open.type,
                    affected |-> open.affected]
              f == [start |-> open.start,
                    end |-> IF openLast < open.start THEN open.start ELSE openLast,
                    type |-> open.type, affected |-> open.affected]
  <2>1. closed' = Append(closed, f) /\ open' = NoEvent
    BY <1>2 DEF Tr!CloseOpen
  <2>2. Events = ToSet(closed) \cup {e}
    BY <1>2 DEF Events, Tr!Ongoing
  <2>3. closed \in Seq(Tr!Event) /\ Len(closed) \in Nat
    BY DEF Tr!TypeOK
  <2>4. Events' = ToSet(closed) \cup {f}
    <3>1. /\ Len(closed') = Len(closed) + 1 /\ DOMAIN closed' = 1 .. Len(closed) + 1
          /\ DOMAIN closed = 1 .. Len(closed)
          /\ \A k \in 1 .. Len(closed) : closed'[k] = closed[k]
          /\ closed'[Len(closed) + 1] = f
      <4>. HIDE DEF f
      <4>. QED
        BY <2>1, <2>3
    <3>. HIDE DEF f
    <3>2. ToSet(closed') = ToSet(closed) \cup {f}
      BY <2>3, <3>1 DEF ToSet
    <3>. QED
      BY <2>1, <3>2 DEF Events, Tr!Ongoing
  <2>5. f.start = e.start /\ f.affected = e.affected /\ f.type = e.type /\ f.end >= e.end
    <3>1. open.start \in Nat /\ openLast \in Nat
      BY <1>2, EventsAre, LastTickFacts DEF Tr!OpenEvent
    <3>. QED
      BY <3>1
  <2>. HIDE DEF e, f
  <2>6. \A x \in Events : x.end >= x.end
    BY EventsAre
  <2>. QED
    BY <2>2, <2>4, <2>5, <2>6
<1>. QED
  BY <1>1, <1>2

LEMMA AffectedTargets ==
  ASSUME NEW b
  PROVE  Tr!Affected(Tr!Failing(b)) \subseteq Target
<1>1. \A o \in Tr!Obs(b) : o[1] \in Target
  BY DEF Tr!Obs
<1>. QED
  BY <1>1 DEF Tr!Affected, Tr!Failing

\* A verdict has a name, and is none only if nothing is failing.
LEMMA ClassifyNames ==
  ASSUME NEW b, NEW fail
  PROVE  /\ Tr!Classify(b, fail) \in
              {"single_target_issue", "multi_target_issue", "full_isp_outage",
               "dns_issue", "local_gateway_issue", "none"}
         /\ fail # {} => Tr!Classify(b, fail) # Tr!NoType
         /\ Tr!Classify(b, fail) = "full_isp_outage" =>
              fail # {} /\ Tr!AllDown(b, fail) /\ ~ Tr!DNSDown(b, fail)
<1>1. CASE fail = {}
  BY <1>1 DEF Tr!Classify, Tr!NoType
<1>2. CASE fail # {} /\ Tr!GatewayDown(b, fail)
  BY <1>2 DEF Tr!Classify, Tr!NoType
<1>3. CASE fail # {} /\ ~ Tr!GatewayDown(b, fail) /\ Tr!DNSDown(b, fail)
  BY <1>3 DEF Tr!Classify, Tr!NoType
<1>4. CASE /\ fail # {} /\ ~ Tr!GatewayDown(b, fail) /\ ~ Tr!DNSDown(b, fail)
           /\ Tr!AllDown(b, fail)
  BY <1>4 DEF Tr!Classify, Tr!NoType
<1>5. CASE /\ fail # {} /\ ~ Tr!GatewayDown(b, fail) /\ ~ Tr!DNSDown(b, fail)
           /\ ~ Tr!AllDown(b, fail)
  BY <1>5 DEF Tr!Classify, Tr!NoType
<1>. QED
  BY <1>1, <1>2, <1>3, <1>4, <1>5

\* After a tick an event is one there was before, or it is open and made of this tick's
\* verdict and of the event that was open, if there was one.
LEMMA TickEvents ==
  ASSUME Tr!TypeOK, NEW at \in 1 .. LastTick, now < at, NEW b, Tr!ObserveTick(at, b)
  PROVE  LET fail == Tr!Failing(b)
             type == Tr!Classify(b, fail)
         IN /\ \A f \in Events' :
                 \/ \E e \in Events :
                      /\ f.start = e.start /\ f.affected = e.affected /\ f.type = e.type
                      /\ f.end >= e.end
                 \/ /\ f.end = at /\ f.start <= at
                    /\ \A t \in f.affected :
                         \/ t \in Tr!Affected(fail)
                         \/ \E e \in Events : t \in e.affected /\ e.end <= at
                    /\ \/ f.type = type
                       \/ \E e \in Events :
                            f.start = e.start /\ e.type = f.type /\ e.end <= at
            /\ \A e \in Events : \E f \in Events' :
                 e.affected \subseteq f.affected /\ f.end >= e.end
            /\ type # Tr!NoType =>
                 \E f \in Events' : Tr!Affected(fail) \subseteq f.affected /\ f.end = at
<1>. DEFINE fail == Tr!Failing(b)
            type == Tr!Classify(b, fail)
            hit == Tr!Affected(fail)
<1>1. Tr!Recover(type) \/ Tr!Begin(type, fail, at) \/ Tr!Extend(type, fail, at)
  BY DEF Tr!ObserveTick
<1>2. /\ \A e \in Events : e.end \in Nat
      /\ openLast \in Nat /\ openLast <= now /\ now \in Nat
  BY EventsAre
<1>3. CASE Tr!Recover(type)
  <2>1. Tr!CloseOpen /\ type = Tr!NoType
    BY <1>3 DEF Tr!Recover
  <2>. HIDE DEF fail, type
  <2>2. /\ \A f \in Events' : \E e \in Events :
             /\ f.start = e.start /\ f.affected = e.affected /\ f.type = e.type
             /\ f.end >= e.end
        /\ \A e \in Events : \E f \in Events' :
             f.affected = e.affected /\ f.end >= e.end
    BY <2>1, CloseEvents
  <2>. QED
    BY <2>1, <2>2 DEF fail, type
<1>4. hit \subseteq Target /\ (type # Tr!NoType => type \in Tr!Type)
  BY AffectedTargets, ClassifyNames DEF Tr!NoType, Tr!Type
<1>5. CASE Tr!Begin(type, fail, at)
  <2>. DEFINE f == [start |-> at, end |-> at, type |-> type, affected |-> hit]
  <2>1. /\ open = NoEvent /\ UNCHANGED closed /\ openLast' = at
        /\ open' = [start |-> at, type |-> type, affected |-> hit]
    BY <1>5 DEF Tr!Begin
  <2>2. Events = ToSet(closed)
    BY <2>1, EventsAre
  <2>3. open' # NoEvent
    <3>1. type \in Tr!Type /\ hit \in SUBSET Target
      BY <1>4, <1>5 DEF Tr!Begin
    <3>. HIDE DEF hit, type
    <3>2. open' \in Tr!OpenEvent
      BY <2>1, <3>1 DEF Tr!OpenEvent
    <3>. QED
      BY <3>2, AgentAssumption
  <2>4. Events' = Events \cup {f}
    BY <2>1, <2>2, <2>3 DEF Events, Tr!Ongoing
  <2>5. f.end = at /\ f.start <= at /\ f.affected = hit /\ f.type = type
    BY LastTickFacts
  <2>. HIDE DEF f, hit, fail, type
  <2>6. \A e \in Events : e.end >= e.end
    BY <1>2
  <2>. QED
    BY <2>4, <2>5, <2>6 DEF hit, fail, type
<1>6. CASE Tr!Extend(type, fail, at)
  <2>. DEFINE e == [start |-> open.start, end |-> openLast, type |-> open.type,
                    affected |-> open.affected]
              f == [start |-> open.start, end |-> at, type |-> Tr!MergeType(open.type, type),
                    affected |-> open.affected \cup hit]
  <2>1. /\ open # NoEvent /\ UNCHANGED closed /\ openLast' = at
        /\ open' = [start |-> open.start, type |-> Tr!MergeType(open.type, type),
                    affected |-> open.affected \cup hit]
    BY <1>6 DEF Tr!Extend
  <2>2. /\ Events = ToSet(closed) \cup {e} /\ open \in Tr!OpenEvent
    <3>1. open # NoEvent
      BY <2>1
    <3>. QED
      BY <3>1, EventsAre
  <2>3. Tr!MergeType(open.type, type) \in {open.type, type}
    BY DEF Tr!MergeType
  <2>4. open' # NoEvent
    <3>1. type \in Tr!Type /\ hit \in SUBSET Target
      BY <1>4, <1>6 DEF Tr!Extend
    <3>. HIDE DEF hit, type
    <3>2. open' \in Tr!OpenEvent
      BY <2>1, <2>2, <2>3, <3>1 DEF Tr!OpenEvent
    <3>. QED
      BY <3>2, AgentAssumption
  <2>5. Events' = ToSet(closed) \cup {f}
    BY <2>1, <2>4 DEF Events, Tr!Ongoing
  <2>6. /\ f.end = at /\ f.affected = e.affected \cup hit /\ f.type \in {e.type, type}
        /\ e.end <= at /\ e.end = openLast /\ f.start = e.start /\ f.start <= at
    <3>1. open.start \in Nat /\ open.start <= openLast
      BY <2>1, <2>2, LastTickFacts DEF Tr!OpenEvent, Tr!TypeOK
    <3>. QED
      BY <1>2, <2>3, <3>1
  <2>. HIDE DEF e, f, hit, fail, type
  <2>7. \A x \in Events : x.end >= x.end
    BY <1>2
  <2>8. at \in Nat /\ f.end >= e.end
    BY <1>2, <2>6
  <2>. QED
    BY <2>2, <2>5, <2>6, <2>7, <2>8 DEF hit, fail, type
<1>. QED
  BY <1>1, <1>3, <1>5, <1>6

-----------------------------------------------------------------------------
(* What the tracker finds failing.                                         *)

\* A target is affected by a tick if one of its samples in the batch ends a long enough run
\* of failures.
LEMMA AffectedAre ==
  ASSUME StreamOK, NothingSkipped, StreakInv, NEW t \in Target
  PROVE  t \in Tr!Affected(Tr!Failing(ByTarget(batch))) <=>
           \E i \in 1 .. Len(OfTarget(batch, t)) :
              InARow(OfTarget(taken, t), Len(OfTarget(Collected, t)) + i)
<1>. DEFINE own == OfTarget(batch, t)
            all == OfTarget(taken, t)
            b == ByTarget(batch)
            m == Len(OfTarget(Collected, t))
<1>1. /\ batch \in Seq(Proper) /\ m \in Nat /\ Len(own) \in Nat
      /\ \A i \in 1 .. Len(own) : all[m + i] = own[i]
      /\ DOMAIN b[t] = 1 .. Len(own)
      /\ \A i \in 1 .. Len(own) : b[t][i] = Told(own[i])
  BY SeenAndNext, ByTargetFacts DEF StreamOK
<1>2. ASSUME NEW i \in 1 .. Len(own)
      PROVE  InARow(all, m + i) <=> b[t][i] # "ok" /\ Tr!Streak(b, t, i) >= MinStreak
  <2>. DEFINE k == Tr!Streak(b, t, i)
  <2>1. RunIs(all, m + i, k)
    <3>1. i \in 0 .. Len(OfTarget(batch, t))
      BY <1>1
    <3>. QED
      BY <3>1, StreakRuns
  <2>2. m + i \in Nat /\ k \in Nat
    <3>1. m + i \in Nat
      BY <1>1
    <3>. HIDE DEF m, k
    <3>. QED
      BY <2>1, <3>1 DEF RunIs
  <2>3. InARow(all, m + i) <=> k >= MinStreak
    <3>. HIDE DEF m, k, all
    <3>. QED
      BY <2>1, <2>2, RunInARow
  <2>4. InARow(all, m + i) => b[t][i] # "ok"
    <3>1. ASSUME InARow(all, m + i) PROVE Failed(all[m + i])
      <4>1. m + i \in (m + i) - MinStreak + 1 .. m + i
        BY <1>1, AgentAssumption
      <4>. HIDE DEF all, m
      <4>. QED
        BY <3>1, <4>1 DEF InARow
    <3>. QED
      BY <1>1, <3>1 DEF Failed, Told
  <2>. QED
    BY <2>3, <2>4
<1>3. \A i \in 1 .. Len(own) : <<t, i>> \in Tr!Obs(b)
  <2>. DEFINE Lens == {Len(b[u]) : u \in Target}
  <2>1. Lens \in SUBSET (0 .. Len(batch)) /\ Len(batch) \in Nat
    <3>1. \A u \in Target : Len(b[u]) \in 0 .. Len(batch)
      BY <1>1, ByTargetFacts
    <3>2. Len(batch) \in Nat
      BY <1>1, LenProperties
    <3>. HIDE DEF b
    <3>. QED
      BY <3>1, <3>2
  <2>2. Len(own) \in Lens
    BY <1>1, ByTargetFacts
  <2>3. \E x \in Lens : \A y \in Lens : x >= y
    <3>. HIDE DEF Lens
    <3>. QED
      BY <2>1, <2>2, LargestNumber
  <2>4. Tr!Max(Lens) \in Lens /\ Tr!Max(Lens) >= Len(own)
    <3>. HIDE DEF Lens
    <3>. QED
      BY <2>2, <2>3 DEF Tr!Max
  <2>5. Tr!Max(Lens) \in Int
    <3>1. \A x \in 0 .. Len(batch) : x \in Int
      BY <2>1
    <3>. HIDE DEF Lens
    <3>. QED
      BY <2>1, <2>4, <3>1
  <2>6. \A i \in 1 .. Len(own) : i \in 1 .. Tr!Max(Lens)
    <3>. HIDE DEF Lens, own
    <3>. QED
      BY <1>1, <2>4, <2>5
  <2>. QED
    BY <1>1, <2>6 DEF Tr!Obs
<1>4. \A o \in Tr!Obs(b) : o[1] = t => o = <<t, o[2]>> /\ o[2] \in 1 .. Len(own)
  BY <1>1 DEF Tr!Obs
<1>. HIDE DEF own, all, b, m
<1>5. ASSUME t \in Tr!Affected(Tr!Failing(b))
      PROVE  \E i \in 1 .. Len(own) : InARow(all, m + i)
  <2>1. PICK o \in Tr!Failing(b) : o[1] = t
    BY <1>5 DEF Tr!Affected
  <2>2. o \in Tr!Obs(b) /\ b[o[1]][o[2]] # "ok" /\ Tr!Streak(b, o[1], o[2]) >= MinStreak
    BY DEF Tr!Failing
  <2>. QED
    BY <1>2, <1>4, <2>1, <2>2
<1>6. ASSUME NEW i \in 1 .. Len(own), InARow(all, m + i)
      PROVE  t \in Tr!Affected(Tr!Failing(b))
  <2>1. <<t, i>> \in Tr!Failing(b)
    BY <1>2, <1>3, <1>6 DEF Tr!Failing
  <2>. QED
    BY <2>1 DEF Tr!Affected
<1>7. t \in Tr!Affected(Tr!Failing(b)) <=> \E i \in 1 .. Len(own) : InARow(all, m + i)
  BY <1>5, <1>6
<1>. QED
  BY <1>7 DEF own, all, b, m

\* A full outage was seen in a batch with a sample that really had no reply: the rule for
\* the resolver takes what lookups alone can make.
LEMMA FullMeansNoReply ==
  ASSUME NEW q \in Seq(Proper), Tr!Classify(ByTarget(q), Tr!Failing(ByTarget(q))) = "full_isp_outage"
  PROVE  \E k \in 1 .. Len(q) : q[k].result = "ping"
<1>. DEFINE b == ByTarget(q)
            fail == Tr!Failing(b)
<1>1. fail # {} /\ Tr!AllDown(b, fail) /\ ~ Tr!DNSDown(b, fail)
  BY ClassifyNames
<1>2. fail = Tr!Obs(b)
  BY <1>1 DEF Tr!AllDown
<1>3. \A o \in fail : /\ o[1] \in Target /\ o[2] \in DOMAIN b[o[1]]
                      /\ b[o[1]][o[2]] # "ok"
  BY DEF Tr!Failing, Tr!Obs
<1>4. PICK o \in fail : b[o[1]][o[2]] = "ping"
  <2>1. \A o \in fail : b[o[1]][o[2]] \in Tr!Outcome(o[1])
    BY <1>3, ByTargetFacts
  <2>. HIDE DEF b, fail
  <2>2. ASSUME NEW o \in fail, o[1] \notin Host
        PROVE  b[o[1]][o[2]] = "ping"
    BY <1>3, <2>1, <2>2 DEF Tr!Outcome
  <2>3. CASE Tr!HostObs(b) = {}
    <3>1. PICK o \in fail : TRUE
      BY <1>1
    <3>2. o[1] \notin Host
      BY <1>2, <2>3 DEF Tr!HostObs
    <3>. QED
      BY <2>2, <3>2
  <2>4. CASE \E o \in Tr!HostObs(b) : b[o[1]][o[2]] # "dns"
    <3>1. PICK o \in Tr!HostObs(b) : b[o[1]][o[2]] # "dns"
      BY <2>4
    <3>2. o \in fail
      BY <1>2 DEF Tr!HostObs
    <3>3. b[o[1]][o[2]] \in Tr!Outcome(o[1]) /\ b[o[1]][o[2]] # "ok"
      BY <1>3, <2>1, <3>2
    <3>4. b[o[1]][o[2]] = "ping"
      BY <3>1, <3>3 DEF Tr!Outcome
    <3>. QED
      BY <3>2, <3>4
  <2>5. CASE ~ Tr!Affected(fail) \subseteq Host
    <3>1. PICK o \in fail : o[1] \notin Host
      BY <2>5 DEF Tr!Affected
    <3>. QED
      BY <2>2, <3>1
  <2>. QED
    BY <1>1, <2>3, <2>4, <2>5 DEF Tr!DNSDown
<1>5. PICK i \in 1 .. Len(OfTarget(q, o[1])) : b[o[1]][i] = "ping"
  BY <1>3, <1>4, ByTargetFacts
<1>6. OfTarget(q, o[1])[i].result = "ping"
  <2>1. Told(OfTarget(q, o[1])[i]) = "ping"
    BY <1>3, <1>5, ByTargetFacts
  <2>. QED
    BY <2>1 DEF Told
<1>. QED
  BY <1>5, <1>6, OwnMembers

-----------------------------------------------------------------------------
(* The events and the samples.                                             *)

\* The collator holds no sample of a later window.
BatchInv == \A i \in 1 .. Len(batch) : Bucket(batch[i]) <= current

LEMMA BatchInit == Init => BatchInv
BY DEF Init, BatchInv

LEMMA BatchStep ==
  ASSUME StreamOK, BatchInv, [Next]_vars
  PROVE  BatchInv'
<1>1. CASE Take
  <2>. DEFINE s == Head(chan)
  <2>1. s \in Proper /\ Collate(s)
    BY <1>1 DEF Take, StreamOK
  <2>2. /\ Bucket(s) \in Nat /\ Bucket(s) # Unset
        /\ current # Unset => current \in Nat
    BY <2>1, WindowTypes
  <2>3. batch \in Seq(Proper) /\ (current = Unset <=> batch = <<>>)
    BY DEF StreamOK
  <2>. HIDE DEF s
  <2>4. CASE batch' = <<s>> /\ current' = Bucket(s)
    BY <2>2, <2>4 DEF BatchInv, Bucket
  <2>5. CASE /\ ~ (current # Unset /\ Bucket(s) > current)
             /\ batch' = Append(batch, s)
             /\ current' = IF current = Unset THEN Bucket(s) ELSE current
    <3>1. /\ Len(batch) \in Nat /\ Len(batch') = Len(batch) + 1
          /\ batch'[Len(batch) + 1] = s
          /\ \A i \in 1 .. Len(batch) : batch'[i] = batch[i]
      BY <2>1, <2>3, <2>5, AppendProperties
    <3>2. Bucket(s) <= current'
      BY <2>2, <2>5
    <3>3. CASE current = Unset
      BY <2>3, <3>1, <3>2, <3>3 DEF BatchInv, Bucket
    <3>4. CASE current # Unset
      BY <2>5, <3>1, <3>2, <3>4 DEF BatchInv, Bucket
    <3>. QED
      BY <3>3, <3>4
  <2>. QED
    BY <2>1, <2>4, <2>5, CollateFacts
<1>2. CASE ~ Take
  <2>1. UNCHANGED <<current, batch>>
    BY <1>2 DEF Next, vars, collator, Pass, BeginTick, StartProbe, EmitSample, DropSample,
         Stop, Leave
  <2>. QED
    BY <2>1 DEF BatchInv, Bucket
<1>. QED
  BY <1>1, <1>2

\* When a tick is observed, the tracker has seen all that was taken before.
LEMMA AllCollected ==
  ASSUME StreamOK, OrderInv, Fed, NothingSkipped, TakeSample, observed' # observed
  PROVE  Collected' = taken
<1>. DEFINE tick == [at |-> current, samples |-> batch]
<1>1. observed' = Append(observed, tick) /\ tick \in Tick /\ observed \in Seq(Tick)
  BY ObservedTick
<1>2. Collected = FlattenSeq(Parts(observed)) /\ Collected' = FlattenSeq(Parts(observed'))
  BY DEF Collected, Parts
<1>3. tick.samples = batch /\ batch \in Seq(Proper)
  BY DEF StreamOK
<1>. HIDE DEF tick
<1>4. /\ Parts(observed) \in Seq(Seq(Proper))
      /\ Parts(observed') = Append(Parts(observed), batch)
  BY <1>1, <1>3, PartsAppend
<1>. QED
  BY <1>2, <1>3, <1>4, FlattenAppend DEF NothingSkipped

LEMMA StreakStep ==
  ASSUME StreamOK, OrderInv, Fed, NothingSkipped, StreakInv, [NextAgent]_agent
  PROVE  StreakInv'
<1>1. CASE TakeSample /\ observed' # observed
  <2>. SUFFICES ASSUME NEW t \in Target
                PROVE  RunIs(OfTarget(Collected', t), Len(OfTarget(Collected', t)), streaks'[t])
    BY DEF StreakInv, RunIs, Failed
  <2>. DEFINE own == OfTarget(batch, t)
  <2>1. Collected' = taken
    BY <1>1, AllCollected
  <2>2. /\ Len(own) \in Nat
        /\ Len(OfTarget(taken, t)) = Len(OfTarget(Collected, t)) + Len(own)
    BY SeenAndNext
  <2>3. streaks'[t] = Tr!Streak(ByTarget(batch), t, Len(own))
    <3>1. Tr!ObserveTick(current + 1, ByTarget(batch)) /\ batch \in Seq(Proper)
      BY <1>1, ObservedTick
    <3>2. Len(ByTarget(batch)[t]) = Len(own)
      BY <3>1, ByTargetFacts
    <3>. HIDE DEF own
    <3>. QED
      BY <3>1, <3>2 DEF Tr!ObserveTick
  <2>4. Len(own) \in 0 .. Len(own)
    BY <2>2
  <2>5. RunIs(OfTarget(taken, t), Len(OfTarget(Collected, t)) + Len(own),
              Tr!Streak(ByTarget(batch), t, Len(own)))
    BY <2>4, StreakRuns
  <2>. QED
    BY <2>1, <2>2, <2>3, <2>5
<1>2. CASE ~ (TakeSample /\ observed' # observed)
  <2>1. UNCHANGED <<streaks, observed>>
    BY <1>2 DEF NextAgent, TakeSample, CloseAll, Elsewhere, Tr!CloseAll, tracker, agent, vars,
         collator, Pass, BeginTick, StartProbe, EmitSample, DropSample, Stop, Leave
  <2>2. Collected' = Collected
    BY <2>1 DEF Collected
  <2>. QED
    BY <2>1, <2>2 DEF StreakInv, RunIs, Failed
<1>. QED
  BY <1>1, <1>2

\* All other steps leave the events as they are, or close the open one.
LEMMA QuietStep ==
  ASSUME Tr!TypeOK, [NextAgent]_agent, ~ (TakeSample /\ observed' # observed)
  PROVE  /\ \A f \in Events' : \E e \in Events :
              /\ f.start = e.start /\ f.affected = e.affected /\ f.type = e.type
              /\ f.end >= e.end
         /\ \A e \in Events : \E f \in Events' :
              e.affected \subseteq f.affected /\ f.end >= e.end
<1>1. CASE UNCHANGED tracker
  <2>1. Events' = Events
    BY <1>1 DEF tracker, Events, Tr!Ongoing
  <2>. QED
    BY <2>1, EventsAre
<1>2. CASE Tr!CloseAll
  <2>1. Tr!CloseOpen
    BY <1>2 DEF Tr!CloseAll
  <2>. QED
    BY <2>1, CloseEvents
<1>. QED
  BY <1>1, <1>2 DEF NextAgent, TakeSample, CloseAll, Elsewhere, agent

\* What has been taken stays, target by target.
LEMMA TakenStays ==
  ASSUME StreamOK, [Next]_vars
  PROVE  \A t \in Target :
           /\ Len(OfTarget(taken, t)) \in Nat /\ Len(OfTarget(taken', t)) \in Nat
           /\ Len(OfTarget(taken, t)) <= Len(OfTarget(taken', t))
           /\ \A i \in 1 .. Len(OfTarget(taken, t)) :
                OfTarget(taken', t)[i] = OfTarget(taken, t)[i]
<1>0. taken \in Seq(Proper)
  BY DEF StreamOK
<1>1. CASE Take
  <2>. DEFINE s == Head(chan)
  <2>1. s \in Proper /\ taken' = Append(taken, s)
    BY <1>1 DEF Take, StreamOK
  <2>. HIDE DEF s
  <2>2. \A t \in Target :
          /\ OfTarget(taken, t) \in Seq(Proper)
          /\ OfTarget(taken', t) =
               IF s.target = t THEN Append(OfTarget(taken, t), s) ELSE OfTarget(taken, t)
    BY <1>0, <2>1, OwnAppend, PiecesFacts
  <2>3. ASSUME NEW t \in Target
        PROVE  /\ Len(OfTarget(taken, t)) \in Nat /\ Len(OfTarget(taken', t)) \in Nat
               /\ Len(OfTarget(taken, t)) <= Len(OfTarget(taken', t))
               /\ \A i \in 1 .. Len(OfTarget(taken, t)) :
                    OfTarget(taken', t)[i] = OfTarget(taken, t)[i]
    <3>. DEFINE q == OfTarget(taken, t)
                r == OfTarget(taken', t)
    <3>1. q \in Seq(Proper) /\ r = IF s.target = t THEN Append(q, s) ELSE q
      BY <2>2
    <3>. HIDE DEF q, r
    <3>2. /\ Len(q) \in Nat /\ Len(r) \in Nat /\ Len(q) <= Len(r)
          /\ \A i \in 1 .. Len(q) : r[i] = q[i]
      BY <2>1, <3>1, AppendProperties, LenProperties
    <3>. QED
      BY <3>2 DEF q, r
  <2>. QED
    BY <2>3
<1>2. CASE ~ Take
  <2>1. taken' = taken
    BY <1>2 DEF Next, vars, Pass, BeginTick, StartProbe, EmitSample, DropSample, Stop, Leave
  <2>2. \A t : Len(OfTarget(taken, t)) \in Nat
    BY <1>0, OwnMembers
  <2>. QED
    BY <2>1, <2>2
<1>. QED
  BY <1>1, <1>2

EventTypes ==
  \A e \in Events : e.start \in Nat /\ e.end \in Nat /\ e.affected \subseteq Target

\* What the properties of the agent's events rest on.
AgentInv ==
  /\ StreamOK /\ OrderInv /\ NothingSkipped /\ BatchInv   \* of the stream
  /\ Tr!TypeOK /\ EventTypes                              \* of the tracker
  /\ Fed /\ StreakInv                                     \* of the two

LEMMA AgentInvHolds == SpecAgent => []AgentInv
<1>1. InitAgent => Fed /\ StreakInv
  <2>. SUFFICES ASSUME InitAgent PROVE Fed /\ StreakInv
    OBVIOUS
  <2>1. observed = <<>> /\ now = 0 /\ \A t \in Target : streaks[t] = 0
    BY DEF InitAgent, Init, Tr!Init
  <2>2. Collected = <<>>
    <3>1. [k \in 1 .. Len(observed) |-> observed[k].samples] = <<>>
      BY <2>1
    <3>. QED
      BY <3>1, FlattenEmpty DEF Collected
  <2>3. \A t \in Target : OfTarget(Collected, t) = <<>>
    BY <2>2, OwnEmpty
  <2>. QED
    BY <2>1, <2>3 DEF Fed, StreakInv, RunIs
<1>2. Spec => [](StreamOK /\ OrderInv /\ NothingSkipped /\ BatchInv)
  BY OrderInit, OrderStep, SkipInit, SkipStep, BatchInit, BatchStep, StreamTypes, PTL DEF Spec
<1>3. StreamOK /\ OrderInv /\ NothingSkipped /\ Fed /\ StreakInv /\ [NextAgent]_agent
        => Fed' /\ StreakInv'
  <2>1. Fed /\ UNCHANGED agent => Fed'
    BY DEF agent, vars, tracker, Fed
  <2>. QED
    BY <2>1, FeedStep, StreakStep
<1>4. Tr!TypeOK => EventTypes
  BY EventsAre DEF EventTypes
<1>. QED
  BY <1>1, <1>2, <1>3, <1>4, AgentStreams, AgentTypes, PTL DEF SpecAgent, AgentInv

\* The window of a sample that is observed is no later than the tick.
LEMMA TickOfBatch ==
  ASSUME AgentInv, TakeSample, observed' # observed, NEW t \in Target,
         NEW i \in 1 .. Len(OfTarget(batch, t))
  PROVE  TickOf(OfTarget(batch, t)[i]) <= current + 1
<1>1. PICK k \in 1 .. Len(batch) : batch[k] = OfTarget(batch, t)[i]
  BY OwnMembers DEF AgentInv, StreamOK
<1>2. Bucket(batch[k]) <= current /\ batch[k] \in Proper /\ current \in Nat
  BY ObservedTick, LastTickFacts, ElementOfSeq DEF AgentInv, BatchInv
<1>3. Bucket(batch[k]) \in Nat
  BY <1>2, WindowTypes DEF AgentInv
<1>4. TickOf(batch[k]) <= current + 1
  BY <1>2, <1>3 DEF TickOf
<1>. QED
  BY <1>1, <1>4

\* The tick of a sample of a target is a number.
LEMMA TickNumber ==
  ASSUME StreamOK, NEW q \in Seq(Proper), NEW t, NEW n \in 1 .. Len(OfTarget(q, t))
  PROVE  TickOf(OfTarget(q, t)[n]) \in Nat
<1>1. OfTarget(q, t)[n] \in Proper
  BY OwnMembers
<1>2. Bucket(OfTarget(q, t)[n]) \in Nat
  BY <1>1, WindowTypes
<1>. QED
  BY <1>2 DEF TickOf

\* Target t failed MinStreak times in a row, the last time by the tick end.
Borne(t, end) ==
  \E n \in 1 .. Len(OfTarget(taken, t)) :
     InARow(OfTarget(taken, t), n) /\ TickOf(OfTarget(taken, t)[n]) <= end

LEMMA BorneStays ==
  ASSUME StreamOK, [Next]_vars, NEW t \in Target, NEW x \in Nat, NEW y \in Nat, x <= y,
         Borne(t, x)
  PROVE  Borne(t, y)'
<1>. DEFINE q == OfTarget(taken, t)
            r == OfTarget(taken', t)
<1>1. /\ Len(q) \in Nat /\ Len(r) \in Nat /\ Len(q) <= Len(r)
      /\ \A i \in 1 .. Len(q) : r[i] = q[i]
  BY TakenStays
<1>2. PICK n \in 1 .. Len(q) : InARow(q, n) /\ TickOf(q[n]) <= x
  BY DEF Borne
<1>3. TickOf(q[n]) \in Nat
  <2>1. q[n] \in Proper
    BY OwnMembers DEF StreamOK
  <2>2. Bucket(q[n]) \in Nat
    BY <2>1, WindowTypes
  <2>. HIDE DEF q
  <2>. QED
    BY <2>2 DEF TickOf
<1>. HIDE DEF q, r
<1>4. InARow(r, n)
  <2>1. n >= MinStreak /\ MinStreak \in Nat \ {0}
    BY <1>2, AgentAssumption DEF InARow
  <2>2. \A j \in n - MinStreak + 1 .. n : j \in 1 .. Len(q) /\ Failed(q[j])
    BY <1>1, <1>2, <2>1 DEF InARow
  <2>. QED
    BY <1>1, <2>1, <2>2 DEF InARow
<1>5. n \in 1 .. Len(r) /\ r[n] = q[n] /\ TickOf(r[n]) <= y
  BY <1>1, <1>2, <1>3
<1>6. \E k \in 1 .. Len(r) : InARow(r, k) /\ TickOf(r[k]) <= y
  BY <1>4, <1>5
<1>. QED
  BY <1>6 DEF Borne, r, InARow, Failed, TickOf, Bucket

LEMMA BackedStep ==
  ASSUME AgentInv, AgentInv', EventsBacked, [NextAgent]_agent
  PROVE  EventsBacked'
<1>. USE DEF AgentInv
<1>0. [Next]_vars
  BY StreamPart DEF agent, vars
<1>1. /\ \A e \in Events : e.end \in Nat /\ e.affected \subseteq Target
      /\ \A f \in Events' : f.end \in Nat /\ f.affected \subseteq Target
  BY DEF EventTypes
<1>2. \A e \in Events : \A t \in e.affected : Borne(t, e.end)
  BY DEF EventsBacked, Borne
<1>3. SUFFICES ASSUME NEW f \in Events', NEW t \in f.affected
               PROVE  Borne(t, f.end)'
  BY DEF EventsBacked, Borne, InARow, Failed, TickOf, Bucket
<1>4. t \in Target /\ f.end \in Nat
  BY <1>1
<1>5. ASSUME NEW e \in Events, t \in e.affected, e.end <= f.end
      PROVE  Borne(t, f.end)'
  BY <1>0, <1>1, <1>2, <1>4, <1>5, BorneStays
<1>6. CASE ~ (TakeSample /\ observed' # observed)
  <2>1. PICK e \in Events : f.affected = e.affected /\ f.end >= e.end
    BY <1>6, QuietStep
  <2>. QED
    BY <1>1, <1>5, <2>1
<1>7. CASE TakeSample /\ observed' # observed
  <2>. DEFINE b == ByTarget(batch)
              fail == Tr!Failing(b)
  <2>1. /\ Tr!ObserveTick(current + 1, b) /\ current + 1 \in 1 .. LastTick /\ now < current + 1
    BY <1>7, ObservedTick
  <2>2. \/ \E e \in Events : f.affected = e.affected /\ f.end >= e.end
        \/ /\ f.end = current + 1
           /\ \/ t \in Tr!Affected(fail)
              \/ \E e \in Events : t \in e.affected /\ e.end <= current + 1
    <3>. HIDE DEF b
    <3>. QED
      BY <2>1, TickEvents
  <2>3. CASE f.end = current + 1 /\ t \in Tr!Affected(fail)
    <3>. DEFINE own == OfTarget(batch, t)
                all == OfTarget(taken, t)
                m == Len(OfTarget(Collected, t))
    <3>1. PICK i \in 1 .. Len(own) : InARow(all, m + i)
      BY <1>4, <2>3, AffectedAre
    <3>2. /\ m \in Nat /\ Len(own) \in Nat /\ Len(all) = m + Len(own)
          /\ all[m + i] = own[i]
      BY <1>4, SeenAndNext
    <3>3. TickOf(own[i]) <= f.end
      BY <1>4, <1>7, <2>3, TickOfBatch
    <3>4. m + i \in 1 .. Len(all)
      BY <3>2
    <3>5. Borne(t, f.end)
      BY <3>1, <3>2, <3>3, <3>4 DEF Borne
    <3>. QED
      BY <1>0, <1>4, <3>5, BorneStays
  <2>. QED
    BY <1>1, <1>5, <2>2, <2>3
<1>. QED
  BY <1>6, <1>7

\* Each target an event names failed MinStreak times in a row in the stream, by the end of
\* the event, whatever the collator merged, dropped into a later tick or had to close early.
THEOREM EventsStayBacked == SpecAgent => []EventsBacked
<1>1. InitAgent => EventsBacked
  BY DEF InitAgent, Tr!Init, EventsBacked, Events, Tr!Ongoing, ToSet
<1>2. AgentInv /\ AgentInv' /\ EventsBacked /\ [NextAgent]_agent => EventsBacked'
  BY BackedStep
<1>. QED
  BY <1>1, <1>2, AgentInvHolds, PTL DEF SpecAgent

-----------------------------------------------------------------------------

LEMMA ReportedStep ==
  ASSUME AgentInv, AgentInv', FailuresReported, [NextAgent]_agent
  PROVE  FailuresReported'
<1>. USE DEF AgentInv
<1>1. /\ \A e \in Events : e.end \in Nat
      /\ \A f \in Events' : f.end \in Nat
  BY DEF EventTypes
<1>2. CASE ~ (TakeSample /\ observed' # observed)
  <2>1. Collected' = Collected
    <3>1. observed' = observed
      BY <1>2 DEF NextAgent, TakeSample, CloseAll, Elsewhere, agent, vars,
           collator, Pass, BeginTick, StartProbe, EmitSample, DropSample, Stop, Leave
    <3>. QED
      BY <3>1 DEF Collected
  <2>. SUFFICES ASSUME NEW t \in Target, NEW n \in 1 .. Len(OfTarget(Collected, t)),
                       InARow(OfTarget(Collected, t), n)
                PROVE  \E f \in Events' :
                          t \in f.affected /\ f.end >= TickOf(OfTarget(Collected, t)[n])
    BY <2>1 DEF FailuresReported, InARow, Failed, TickOf, Bucket
  <2>2. PICK e \in Events : t \in e.affected /\ e.end >= TickOf(OfTarget(Collected, t)[n])
    BY DEF FailuresReported
  <2>3. PICK f \in Events' : e.affected \subseteq f.affected /\ f.end >= e.end
    BY <1>2, QuietStep
  <2>4. TickOf(OfTarget(Collected, t)[n]) \in Nat
    BY TickNumber, SeenAndNext
  <2>. QED
    BY <1>1, <2>2, <2>3, <2>4
<1>3. CASE TakeSample /\ observed' # observed
  <2>. DEFINE b == ByTarget(batch)
              fail == Tr!Failing(b)
              type == Tr!Classify(b, fail)
  <2>1. /\ Tr!ObserveTick(current + 1, b) /\ current + 1 \in 1 .. LastTick /\ now < current + 1
        /\ current \in Nat
    BY <1>3, ObservedTick, LastTickFacts
  <2>2. /\ \A e \in Events : \E f \in Events' :
             e.affected \subseteq f.affected /\ f.end >= e.end
        /\ type # Tr!NoType =>
             \E f \in Events' : Tr!Affected(fail) \subseteq f.affected /\ f.end = current + 1
    <3>. HIDE DEF b
    <3>. QED
      BY <2>1, TickEvents
  <2>3. Collected' = taken
    BY <1>3, AllCollected
  <2>. SUFFICES ASSUME NEW t \in Target, NEW n \in 1 .. Len(OfTarget(taken, t)),
                       InARow(OfTarget(taken, t), n)
                PROVE  \E f \in Events' :
                          t \in f.affected /\ f.end >= TickOf(OfTarget(taken, t)[n])
    BY <2>3 DEF FailuresReported, InARow, Failed, TickOf, Bucket
  <2>. DEFINE c == OfTarget(Collected, t)
              own == OfTarget(batch, t)
              all == OfTarget(taken, t)
              m == Len(c)
  <2>4. /\ m \in Nat /\ Len(own) \in Nat /\ Len(all) = m + Len(own)
        /\ \A i \in 1 .. m : all[i] = c[i]
        /\ \A i \in 1 .. Len(own) : all[m + i] = own[i]
        /\ Collected \in Seq(Proper)
    BY SeenAndNext
  <2>5. CASE n <= m
    <3>1. n \in 1 .. m /\ all[n] = c[n]
      BY <2>4, <2>5
    <3>2. InARow(c, n)
      <4>1. MinStreak \in Nat \ {0} /\ n >= MinStreak
        BY AgentAssumption DEF InARow
      <4>2. \A j \in n - MinStreak + 1 .. n : j \in 1 .. m /\ Failed(all[j])
        BY <3>1, <4>1 DEF InARow
      <4>. HIDE DEF c, all, m
      <4>. QED
        BY <2>4, <4>1, <4>2 DEF InARow
    <3>3. PICK e \in Events : t \in e.affected /\ e.end >= TickOf(c[n])
      BY <3>1, <3>2 DEF FailuresReported
    <3>4. PICK f \in Events' : e.affected \subseteq f.affected /\ f.end >= e.end
      BY <2>2
    <3>5. TickOf(c[n]) \in Nat
      BY <2>4, <3>1, TickNumber
    <3>. QED
      BY <1>1, <3>1, <3>3, <3>4, <3>5
  <2>6. CASE ~ (n <= m)
    <3>. DEFINE i == n - m
    <3>1. i \in 1 .. Len(own) /\ m + i = n /\ all[n] = own[i]
      BY <2>4, <2>6
    <3>2. InARow(all, m + i)
      BY <3>1
    <3>3. t \in Tr!Affected(fail)
      <4>. HIDE DEF i
      <4>. QED
        BY <3>1, <3>2, AffectedAre
    <3>4. type # Tr!NoType
      <4>1. fail # {}
        BY <3>3 DEF Tr!Affected
      <4>. HIDE DEF fail, b
      <4>. QED
        BY <4>1, ClassifyNames
    <3>5. PICK f \in Events' : t \in f.affected /\ f.end = current + 1
      BY <2>2, <3>3, <3>4
    <3>6. TickOf(own[i]) <= current + 1
      <4>. HIDE DEF i
      <4>. QED
        BY <1>3, <3>1, TickOfBatch
    <3>7. f.end >= TickOf(all[n])
      <4>1. TickOf(all[n]) \in Nat
        BY <2>4, TickNumber DEF StreamOK
      <4>. HIDE DEF all, own, i
      <4>. QED
        BY <1>1, <2>1, <3>1, <3>5, <3>6, <4>1
    <3>. QED
      BY <3>5, <3>7
  <2>. QED
    BY <2>5, <2>6
<1>. QED
  BY <1>2, <1>3

\* No run of MinStreak failures that was observed goes unreported, however its samples were
\* spread over batches, and the event that names the target was not over before.
THEOREM FailuresAreReported == SpecAgent => []FailuresReported
<1>1. InitAgent => FailuresReported
  <2>. SUFFICES ASSUME InitAgent PROVE FailuresReported
    OBVIOUS
  <2>1. [k \in 1 .. Len(observed) |-> observed[k].samples] = <<>>
    BY DEF InitAgent, Init
  <2>2. Collected = <<>>
    BY <2>1, FlattenEmpty DEF Collected
  <2>. QED
    BY <2>2, OwnEmpty DEF FailuresReported
<1>2. AgentInv /\ AgentInv' /\ FailuresReported /\ [NextAgent]_agent => FailuresReported'
  BY ReportedStep
<1>. QED
  BY <1>1, <1>2, AgentInvHolds, PTL DEF SpecAgent

-----------------------------------------------------------------------------

\* Ticks that were observed stay observed.
LEMMA NoReplyStays ==
  ASSUME AgentInv, [NextAgent]_agent, NEW x \in Nat, NEW y \in Nat, NEW z \in Nat, y <= z,
         NoReplyIn(x, y)
  PROVE  NoReplyIn(x, z)'
<1>. USE DEF AgentInv
<1>1. PICK k \in 1 .. Len(observed) :
        /\ observed[k].at + 1 \in x .. y
        /\ \E s \in ToSet(observed[k].samples) : s.result = "ping"
  BY DEF NoReplyIn
<1>2. k \in 1 .. Len(observed') /\ observed'[k] = observed[k]
  <2>1. CASE TakeSample /\ observed' # observed
    <3>1. /\ observed \in Seq(Tick) /\ [at |-> current, samples |-> batch] \in Tick
          /\ observed' = Append(observed, [at |-> current, samples |-> batch])
      BY <2>1, ObservedTick
    <3>. QED
      BY <1>1, <3>1, AppendProperties, LenProperties
  <2>2. CASE ~ (TakeSample /\ observed' # observed)
    <3>1. observed' = observed
      BY <2>2 DEF NextAgent, TakeSample, CloseAll, Elsewhere, agent, vars,
         collator, Pass, BeginTick, StartProbe, EmitSample, DropSample, Stop, Leave
    <3>. QED
      BY <1>1, <3>1
  <2>. QED
    BY <2>1, <2>2
<1>3. observed'[k].at + 1 \in x .. z
  BY <1>1, <1>2
<1>. QED
  BY <1>1, <1>2, <1>3 DEF NoReplyIn, ToSet

LEMMA MildStep ==
  ASSUME AgentInv, AgentInv', ShutdownIsMild, [NextAgent]_agent
  PROVE  ShutdownIsMild'
<1>. USE DEF AgentInv
<1>1. /\ \A e \in Events : e.start \in Nat /\ e.end \in Nat
      /\ \A f \in Events' : f.start \in Nat /\ f.end \in Nat
  BY DEF EventTypes
<1>2. \A e \in Events : e.type = "full_isp_outage" => NoReplyIn(e.start, e.end)
  BY DEF ShutdownIsMild
<1>3. SUFFICES ASSUME NEW f \in Events', f.type = "full_isp_outage"
               PROVE  NoReplyIn(f.start, f.end)'
  BY DEF ShutdownIsMild, NoReplyIn, ToSet
<1>4. ASSUME NEW e \in Events, e.type = "full_isp_outage", f.start = e.start, e.end <= f.end
      PROVE  NoReplyIn(f.start, f.end)'
  BY <1>1, <1>2, <1>4, NoReplyStays
<1>5. CASE ~ (TakeSample /\ observed' # observed)
  <2>1. PICK e \in Events : f.start = e.start /\ f.type = e.type /\ f.end >= e.end
    BY <1>5, QuietStep
  <2>. QED
    BY <1>1, <1>3, <1>4, <2>1
<1>6. CASE TakeSample /\ observed' # observed
  <2>. DEFINE b == ByTarget(batch)
              fail == Tr!Failing(b)
              tick == [at |-> current, samples |-> batch]
  <2>1. /\ Tr!ObserveTick(current + 1, b) /\ current + 1 \in 1 .. LastTick /\ now < current + 1
        /\ batch \in Seq(Proper) /\ current \in Nat
        /\ Len(observed') \in 1 .. Len(observed') /\ observed'[Len(observed')] = tick
    BY <1>6, ObservedTick, LastTickFacts
  <2>2. \/ \E e \in Events : f.start = e.start /\ f.type = e.type /\ f.end >= e.end
        \/ /\ f.end = current + 1 /\ f.start <= current + 1
           /\ \/ f.type = Tr!Classify(b, fail)
              \/ \E e \in Events : f.start = e.start /\ e.type = f.type /\ e.end <= current + 1
    <3>. HIDE DEF b
    <3>. QED
      BY <2>1, TickEvents
  <2>3. CASE f.end = current + 1 /\ f.start <= current + 1 /\ f.type = Tr!Classify(b, fail)
    <3>1. PICK k \in 1 .. Len(batch) : batch[k].result = "ping"
      BY <1>3, <2>1, <2>3, FullMeansNoReply
    <3>2. batch[k] \in ToSet(batch)
      BY <2>1, LenProperties DEF ToSet
    <3>3. tick.at + 1 \in f.start .. f.end /\ tick.samples = batch
      BY <1>1, <2>1, <2>3
    <3>. HIDE DEF tick
    <3>4. /\ observed'[Len(observed')].at + 1 \in f.start .. f.end
          /\ \E s \in ToSet(observed'[Len(observed')].samples) : s.result = "ping"
      BY <2>1, <3>1, <3>2, <3>3
    <3>. QED
      BY <2>1, <3>4 DEF NoReplyIn, ToSet
  <2>. QED
    BY <1>1, <1>3, <1>4, <2>2, <2>3
<1>. QED
  BY <1>5, <1>6

\* A full_isp_outage is never made of cancelled lookups alone: in one of its own batches a
\* sample really had no reply.
THEOREM ShutdownStaysMild == SpecAgent => []ShutdownIsMild
<1>1. InitAgent => ShutdownIsMild
  BY DEF InitAgent, Tr!Init, ShutdownIsMild, Events, Tr!Ongoing, ToSet
<1>2. AgentInv /\ AgentInv' /\ ShutdownIsMild /\ [NextAgent]_agent => ShutdownIsMild'
  BY MildStep
<1>. QED
  BY <1>1, <1>2, AgentInvHolds, PTL DEF SpecAgent

=============================================================================
