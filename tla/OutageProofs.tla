---------------------------- MODULE OutageProofs ----------------------------
(***************************************************************************)
(* Proofs about Outage: its types, that events are disjoint and in order,  *)
(* that an open event only grows, that the events are exactly the runs of  *)
(* failing calls the history shows, and that their types are true of them. *)
(* The batches, MinStreak and the gaps between ticks are arbitrary.        *)
(***************************************************************************)
EXTENDS Outage, Folding

(* A set of numbers up to i that is not empty has a largest element.       *)
LEMMA MaxOfInterval ==
  ASSUME NEW i \in Nat, NEW S \in SUBSET (1 .. i), S # {}
  PROVE  Max(S) \in S /\ i - Max(S) \in Nat
<1>1. \A m \in S : i - m \in Nat
  OBVIOUS
<1>. DEFINE D == {i - x : x \in S}
<1>2. D \subseteq Nat /\ D # {}
  OBVIOUS
<1>3. PICK d \in D : \A e \in D : ~ (<<e, d>> \in OpToRel(<, Nat))
  BY <1>2, NatLessThanWellFounded, WFMin, Zenon
<1>4. \A e \in D : e \in Nat /\ d \in Nat /\ ~ (e < d)
  BY <1>2, <1>3 DEF OpToRel
<1>5. PICK x \in S : d = i - x
  OBVIOUS
<1>6. \A y \in S : x >= y
  <2>. SUFFICES ASSUME NEW y \in S PROVE x >= y
    OBVIOUS
  <2>1. i - y \in D /\ ~ (i - y < d)
    BY <1>4
  <2>. QED
    BY <1>5, <2>1
<1>7. Max(S) \in S
  BY <1>6 DEF Max
<1>. QED
  BY <1>7, <1>1

(* A batch gives every target a sequence.                                  *)
LEMMA BatchFacts ==
  ASSUME NEW b \in Batches, NEW t \in Target
  PROVE  Len(b[t]) \in Nat
<1>. DEFINE Ns == UNION {Lengths[u] : u \in Target}
<1>1. PICK n \in Ns : b[t] \in [1 .. n -> {"ok", "ping", "dns"}]
  <2>. DEFINE Values == UNION {[1 .. n -> {"ok", "ping", "dns"}] : n \in Ns}
  <2>1. b \in [Target -> Values]
    BY DEF Batches
  <2>2. b[t] \in Values
    BY <2>1
  <2>. QED
    BY <2>2
<1>2. n \in Nat
  BY OutageAssumption
<1>. QED
  BY <1>1, <1>2

LEMMA StreakType ==
  ASSUME streaks \in [Target -> Nat], NEW b, NEW t \in Target, NEW i \in Nat
  PROVE  Streak(b, t, i) \in Nat
<1>1. CASE Ok(b, t, i) = {}
  BY <1>1 DEF Streak
<1>2. CASE Ok(b, t, i) # {}
  <2>1. Ok(b, t, i) \in SUBSET (1 .. i)
    BY DEF Ok
  <2>2. i - Max(Ok(b, t, i)) \in Nat
    BY <1>2, <2>1, MaxOfInterval
  <2>. QED
    BY <1>2, <2>2 DEF Streak
<1>. QED
  BY <1>1, <1>2

(* The failing samples are samples of targets.                             *)
LEMMA AffectedType ==
  ASSUME NEW b
  PROVE  Affected(Failing(b)) \subseteq Target
BY DEF Affected, Failing, Obs

LEMMA ClassifyType ==
  ASSUME NEW b, NEW fail
  PROVE  Classify(b, fail) \in Type \cup {NoType}
<1>1. CASE fail = {}
  BY <1>1 DEF Classify
<1>2. CASE fail # {} /\ GatewayDown(b, fail)
  BY <1>2 DEF Classify, Type
<1>3. CASE fail # {} /\ ~ GatewayDown(b, fail) /\ DNSDown(b, fail)
  BY <1>3 DEF Classify, Type
<1>4. CASE /\ fail # {} /\ ~ GatewayDown(b, fail) /\ ~ DNSDown(b, fail)
           /\ AllDown(b, fail)
  BY <1>4 DEF Classify, Type
<1>5. CASE /\ fail # {} /\ ~ GatewayDown(b, fail) /\ ~ DNSDown(b, fail)
           /\ ~ AllDown(b, fail)
  BY <1>5 DEF Classify, Type
<1>. QED
  BY <1>1, <1>2, <1>3, <1>4, <1>5

LEMMA MergeFacts ==
  ASSUME NEW a \in Type, NEW c \in Type
  PROVE  /\ MergeType(a, c) \in Type
         /\ Rank(MergeType(a, c)) >= Rank(a)
<1>1. \A x \in Type : Rank(x) \in Nat
  BY DEF Type, Rank
<1>. QED
  BY <1>1 DEF MergeType

-----------------------------------------------------------------------------
(* CloseOpen appends the open event to the closed ones.                    *)
LEMMA CloseType ==
  ASSUME TypeOK, CloseOpen
  PROVE  closed' \in Seq(Event) /\ open' = NoEvent /\ openLast' = 0
<1>1. CASE open = NoEvent
  BY <1>1 DEF CloseOpen, TypeOK
<1>2. CASE open # NoEvent
  <2>1. /\ open \in OpenEvent /\ openLast \in 0 .. MaxTick
        /\ open.start <= openLast /\ closed \in Seq(Event)
    BY <1>2 DEF TypeOK
  <2>2. /\ open.start \in 1 .. MaxTick /\ open.type \in Type
        /\ open.affected \in SUBSET Target
    BY <2>1 DEF OpenEvent
  <2>3. (IF openLast < open.start THEN open.start ELSE openLast) \in 1 .. MaxTick
    BY <2>1, <2>2, OutageAssumption
  <2>4. [start |-> open.start,
         end |-> IF openLast < open.start THEN open.start ELSE openLast,
         type |-> open.type, affected |-> open.affected] \in Event
    BY <2>2, <2>3 DEF Event
  <2>. QED
    BY <1>2, <2>1, <2>4 DEF CloseOpen
<1>. QED
  BY <1>1, <1>2

LEMMA TypeStep ==
  ASSUME TypeOK, [Next]_vars
  PROVE  TypeOK'
<1>1. CASE Observe
  <2>1. PICK at \in now + 1 .. MaxTick, b \in Batches :
          /\ streaks' = [t \in Target |-> Streak(b, t, Len(b[t]))]
          /\ now' = at
          /\ \/ Recover(Classify(b, Failing(b)))
             \/ Begin(Classify(b, Failing(b)), Failing(b), at)
             \/ Extend(Classify(b, Failing(b)), Failing(b), at)
    BY <1>1 DEF Observe, ObserveTick
  <2>. DEFINE fail == Failing(b)
              type == Classify(b, fail)
  <2>2. streaks' \in [Target -> Nat]
    <3>1. \A t \in Target : Streak(b, t, Len(b[t])) \in Nat
      BY StreakType, BatchFacts DEF TypeOK
    <3>. QED
      BY <2>1, <3>1
  <2>3. now' = at /\ at \in 1 .. MaxTick /\ now \in 0 .. MaxTick /\ now < at
    BY <2>1, OutageAssumption DEF TypeOK
  <2>4. Affected(fail) \subseteq Target /\ type \in Type \cup {NoType}
    BY AffectedType, ClassifyType
  <2>. HIDE DEF fail, type
  <2>5. CASE Recover(type)
    BY <2>2, <2>3, <2>5, CloseType, OutageAssumption DEF Recover, TypeOK
  <2>6. CASE Begin(type, fail, at)
    <3>1. open' = [start |-> at, type |-> type, affected |-> Affected(fail)]
          /\ openLast' = at /\ UNCHANGED closed /\ type \in Type
      BY <2>4, <2>6 DEF Begin
    <3>2. open' \in OpenEvent /\ open'.start = at
      BY <2>3, <2>4, <3>1 DEF OpenEvent
    <3>. QED
      BY <2>2, <2>3, <3>1, <3>2, OutageAssumption DEF TypeOK
  <2>7. CASE Extend(type, fail, at)
    <3>1. /\ open \in OpenEvent /\ type \in Type
          /\ open' = [start |-> open.start, type |-> MergeType(open.type, type),
                      affected |-> open.affected \cup Affected(fail)]
          /\ openLast' = at /\ UNCHANGED closed
      BY <2>4, <2>7 DEF Extend, TypeOK
    <3>2. /\ open.start \in 1 .. MaxTick /\ open.type \in Type
          /\ open.affected \in SUBSET Target
      BY <3>1 DEF OpenEvent
    <3>3. MergeType(open.type, type) \in Type
      BY <3>1, <3>2, MergeFacts
    <3>4. open' \in OpenEvent /\ open'.start = open.start
      BY <2>4, <3>1, <3>2, <3>3 DEF OpenEvent
    <3>5. open.start <= openLast /\ openLast <= now /\ openLast \in 0 .. MaxTick
      BY <2>7 DEF Extend, TypeOK
    <3>6. open.start <= at
      BY <2>3, <3>2, <3>5
    <3>. QED
      BY <2>2, <2>3, <3>1, <3>4, <3>6, OutageAssumption DEF TypeOK
  <2>. QED
    BY <2>1, <2>5, <2>6, <2>7 DEF fail, type
<1>2. CASE CloseAll
  BY <1>2, CloseType, OutageAssumption DEF CloseAll, TypeOK
<1>3. CASE UNCHANGED vars
  BY <1>3 DEF vars, TypeOK
<1>. QED
  BY <1>1, <1>2, <1>3 DEF Next

LEMMA TypeInit == Init => TypeOK
BY OutageAssumption DEF Init, TypeOK

(* The tracker's state is always well formed: streaks never go negative and an *)
(* open event never ends before it starts.                                    *)
THEOREM TypeCorrect == Spec => []TypeOK
<1>1. TypeOK /\ [Next]_vars => TypeOK'
  BY TypeStep
<1>. QED
  BY TypeInit, <1>1, PTL DEF Spec

-----------------------------------------------------------------------------
(* Events in order.                                                        *)

(* What CloseOpen appends: nothing, or an event that started after all others *)
(* and ended by now.                                                          *)
LEMMA CloseAppends ==
  ASSUME TypeOK, CloseOpen
  PROVE  \/ closed' = closed
         \/ \E e \in Event : /\ open # NoEvent
                             /\ closed' = Append(closed, e)
                             /\ e.start = open.start
                             /\ e.start <= e.end
                             /\ e.end <= now
<1>1. CASE open = NoEvent
  BY <1>1 DEF CloseOpen
<1>2. CASE open # NoEvent
  <2>1. /\ open \in OpenEvent /\ openLast \in 0 .. MaxTick
        /\ open.start <= openLast /\ openLast <= now
    BY <1>2 DEF TypeOK
  <2>2. /\ open.start \in 1 .. MaxTick /\ open.type \in Type
        /\ open.affected \in SUBSET Target
    BY <2>1 DEF OpenEvent
  <2>3. ~ (openLast < open.start) /\ openLast \in 1 .. MaxTick
    BY <2>1, <2>2, OutageAssumption
  <2>. DEFINE e == [start |-> open.start, end |-> openLast,
                    type |-> open.type, affected |-> open.affected]
  <2>4. closed' = Append(closed, e)
    BY <1>2, <2>3 DEF CloseOpen
  <2>5. e \in Event
    BY <2>2, <2>3 DEF Event
  <2>. QED
    BY <1>2, <2>1, <2>4, <2>5
<1>. QED
  BY <1>1, <1>2

(* Every step appends at most one event, which started when the open one did. *)
LEMMA ClosedGrows ==
  ASSUME TypeOK, [Next]_vars
  PROVE  \/ closed' = closed
         \/ \E e \in Event : /\ open # NoEvent
                             /\ open' = NoEvent
                             /\ closed' = Append(closed, e)
                             /\ e.start = open.start
                             /\ e.start <= e.end
                             /\ e.end <= now
<1>1. CASE CloseOpen
  BY <1>1, CloseAppends, CloseType
<1>2. CASE UNCHANGED closed
  BY <1>2
<1>. QED
  BY <1>1, <1>2 DEF Next, Observe, ObserveTick, CloseAll, Recover, Begin, Extend, vars

(* An open event is new, starting after everything before it, or goes on.     *)
LEMMA OpenGrows ==
  ASSUME TypeOK, TypeOK', [Next]_vars, open' # NoEvent
  PROVE  /\ closed' = closed
         /\ now <= now'
         /\ \/ open = NoEvent /\ now < open'.start
            \/ /\ open # NoEvent
               /\ open'.start = open.start
               /\ Rank(open'.type) >= Rank(open.type)
               /\ open.affected \subseteq open'.affected
<1>1. CASE Observe
  <2>1. PICK at \in now + 1 .. MaxTick, b \in Batches :
          /\ now' = at
          /\ \/ Recover(Classify(b, Failing(b)))
             \/ Begin(Classify(b, Failing(b)), Failing(b), at)
             \/ Extend(Classify(b, Failing(b)), Failing(b), at)
    BY <1>1 DEF Observe, ObserveTick
  <2>. DEFINE fail == Failing(b)
              type == Classify(b, fail)
  <2>2. type \in Type \cup {NoType}
    BY ClassifyType
  <2>3. now < at /\ now <= now'
    BY <2>1, OutageAssumption DEF TypeOK
  <2>. HIDE DEF fail, type
  <2>4. CASE Recover(type)
    BY <2>4, CloseType DEF Recover
  <2>5. CASE Begin(type, fail, at)
    BY <2>3, <2>5 DEF Begin
  <2>6. CASE Extend(type, fail, at)
    <3>1. /\ open \in OpenEvent /\ type \in Type /\ open # NoEvent
          /\ open' = [start |-> open.start, type |-> MergeType(open.type, type),
                      affected |-> open.affected \cup Affected(fail)]
          /\ closed' = closed
      BY <2>2, <2>6 DEF Extend, TypeOK
    <3>2. Rank(MergeType(open.type, type)) >= Rank(open.type)
      BY <3>1, MergeFacts DEF OpenEvent
    <3>. QED
      BY <2>3, <3>1, <3>2
  <2>. QED
    BY <2>1, <2>4, <2>5, <2>6 DEF fail, type
<1>2. CASE CloseAll
  BY <1>2, CloseType DEF CloseAll
<1>3. CASE UNCHANGED vars
  <2>1. \A x \in Type : Rank(x) \in Nat
    BY DEF Type, Rank
  <2>2. open \in OpenEvent /\ now \in 0 .. MaxTick
    BY <1>3 DEF vars, TypeOK
  <2>3. Rank(open.type) >= Rank(open.type)
    BY <2>1, <2>2 DEF OpenEvent
  <2>. QED
    BY <1>3, <2>2, <2>3 DEF vars
<1>. QED
  BY <1>1, <1>2, <1>3 DEF Next

(* Time does not go back.                                                     *)
LEMMA NowGrows ==
  ASSUME TypeOK, [Next]_vars
  PROVE  now <= now'
<1>1. now \in 0 .. MaxTick
  BY DEF TypeOK
<1>2. CASE Observe
  <2>1. PICK at \in now + 1 .. MaxTick : now' = at
    BY <1>2 DEF Observe, ObserveTick
  <2>. QED
    BY <1>1, <2>1
<1>3. CASE UNCHANGED now
  BY <1>1, <1>3
<1>. QED
  BY <1>2, <1>3 DEF Next, CloseAll, vars

LEMMA DisjointStep ==
  ASSUME TypeOK, TypeOK', EventsDisjoint, [Next]_vars
  PROVE  EventsDisjoint'
<1>. /\ closed \in Seq(Event) /\ closed' \in Seq(Event)
     /\ now \in Nat /\ now' \in Nat /\ now <= now'
  BY NowGrows DEF TypeOK
<1>0. \A i \in 1 .. Len(closed) : closed[i] \in Event
  OBVIOUS
<1>. \A e \in Event : e.start \in Nat /\ e.end \in Nat
  BY DEF Event
<1>1. CASE closed' = closed
  <2>1. \A i \in 1 .. Len(closed') : closed'[i].end <= now'
    BY <1>0, <1>1 DEF EventsDisjoint
  <2>2. ASSUME open' # NoEvent, NEW i \in 1 .. Len(closed')
        PROVE  closed'[i].end < open'.start
    <3>1. closed[i].end <= now /\ closed[i] \in Event
      BY <1>0, <1>1 DEF EventsDisjoint
    <3>2. open' \in OpenEvent /\ open'.start \in Nat
      BY <2>2 DEF TypeOK, OpenEvent
    <3>3. CASE open = NoEvent /\ now < open'.start
      BY <1>1, <3>1, <3>2, <3>3
    <3>4. CASE open # NoEvent /\ open'.start = open.start
      BY <1>1, <3>4 DEF EventsDisjoint
    <3>. QED
      BY <2>2, <3>3, <3>4, OpenGrows
  <2>. QED
    BY <1>1, <2>1, <2>2 DEF EventsDisjoint
<1>2. CASE \E e \in Event : /\ open # NoEvent
                            /\ open' = NoEvent
                            /\ closed' = Append(closed, e)
                            /\ e.start = open.start
                            /\ e.start <= e.end
                            /\ e.end <= now
  <2>1. PICK e \in Event : /\ open # NoEvent
                           /\ open' = NoEvent
                           /\ closed' = Append(closed, e)
                           /\ e.start = open.start
                           /\ e.start <= e.end
                           /\ e.end <= now
    BY <1>2
  <2>2. /\ Len(closed') = Len(closed) + 1
        /\ closed'[Len(closed) + 1] = e
        /\ \A i \in 1 .. Len(closed) : closed'[i] = closed[i]
    BY <2>1
  <2>3. \A i \in 1 .. Len(closed') : closed'[i].start <= closed'[i].end
                                       /\ closed'[i].end <= now'
    BY <1>0, <2>1, <2>2 DEF EventsDisjoint
  <2>4. \A i \in 1 .. Len(closed) : closed[i].end < e.start
    BY <2>1 DEF EventsDisjoint
  <2>5. \A i \in 1 .. Len(closed') : \A j \in i + 1 .. Len(closed') :
          closed'[i].end < closed'[j].start
    <3>. SUFFICES ASSUME NEW i \in 1 .. Len(closed'), NEW j \in i + 1 .. Len(closed')
                  PROVE  closed'[i].end < closed'[j].start
      OBVIOUS
    <3>1. i \in 1 .. Len(closed)
      BY <2>2
    <3>2. CASE j \in 1 .. Len(closed)
      <4>1. j \in i + 1 .. Len(closed)
        BY <3>1, <3>2
      <4>2. closed[i].end < closed[j].start
        BY <3>1, <4>1 DEF EventsDisjoint
      <4>. QED
        BY <2>2, <3>1, <3>2, <4>2
    <3>3. CASE j = Len(closed) + 1
      BY <2>2, <2>4, <3>1, <3>3
    <3>4. j \in 1 .. Len(closed) \/ j = Len(closed) + 1
      <4>1. Len(closed) \in Nat
        BY DEF TypeOK
      <4>. QED
        BY <2>2, <3>1, <4>1
    <3>. QED
      BY <3>2, <3>3, <3>4
  <2>. QED
    BY <2>1, <2>3, <2>5 DEF EventsDisjoint
<1>. QED
  BY <1>1, <1>2, ClosedGrows

(* Outage events never overlap: each ends before the next one starts, and the  *)
(* one that is open started after all that were reported.                     *)
THEOREM EventsStayDisjoint == Spec => []EventsDisjoint
<1>1. Init => EventsDisjoint
  BY DEF Init, EventsDisjoint
<1>2. TypeOK /\ TypeOK' /\ EventsDisjoint /\ [Next]_vars => EventsDisjoint'
  BY DisjointStep
<1>. QED
  BY <1>1, <1>2, TypeCorrect, PTL DEF Spec

(* An open event only gets worse and wider, and a reported one is never        *)
(* changed or withdrawn.                                                       *)
THEOREM EventsOnlyGrow == Spec => EventsGrow
<1>. DEFINE Grows ==
       /\ \A i \in 1 .. Len(closed) : i \in DOMAIN closed' /\ closed'[i] = closed[i]
       /\ open # NoEvent /\ open' # NoEvent =>
            /\ Rank(open'.type) >= Rank(open.type)
            /\ open.affected \subseteq open'.affected
            /\ open'.start = open.start
<1>1. ASSUME TypeOK, TypeOK', [Next]_vars
      PROVE  Grows
  <2>1. closed \in Seq(Event) /\ closed' \in Seq(Event)
    BY <1>1 DEF TypeOK
  <2>2. \A i \in 1 .. Len(closed) : i \in DOMAIN closed' /\ closed'[i] = closed[i]
    BY <1>1, <2>1, ClosedGrows
  <2>3. ASSUME open # NoEvent, open' # NoEvent
        PROVE  /\ Rank(open'.type) >= Rank(open.type)
               /\ open.affected \subseteq open'.affected
               /\ open'.start = open.start
    BY <1>1, <2>3, OpenGrows
  <2>. QED
    BY <2>2, <2>3
<1>2. TypeOK /\ TypeOK' /\ [Next]_vars => [Grows]_vars
  BY <1>1
<1>. QED
  BY <1>2, TypeCorrect, PTL DEF Spec, EventsGrow

-----------------------------------------------------------------------------
(* The streaks and the history.                                            *)

\* What a target may be given in a call, and a call as the history keeps it.
Results == {"ok", "ping", "dns"}

Batch == [Target -> Seq(Results)]

Call == [at : 0 .. MaxTick, batch : Batch]

\* The n-th element of seq is the last of exactly k failures in a row.
RunIs(seq, n, k) ==
  /\ k \in 0 .. n
  /\ \A j \in n - k + 1 .. n : seq[j] # "ok"
  /\ k < n => seq[n - k] = "ok"

\* A run of k failures is long enough if and only if the last MinStreak elements failed.
LEMMA LongRun ==
  ASSUME NEW seq, NEW n \in Nat, NEW k \in Nat, RunIs(seq, n, k)
  PROVE  k >= MinStreak
           <=> n >= MinStreak /\ \A j \in 0 .. MinStreak - 1 : seq[n - j] # "ok"
<1>0. MinStreak \in Nat \ {0} /\ k \in 0 .. n
  BY OutageAssumption DEF RunIs
<1>1. ASSUME k >= MinStreak
      PROVE  n >= MinStreak /\ \A j \in 0 .. MinStreak - 1 : seq[n - j] # "ok"
  <2>1. \A j \in 0 .. MinStreak - 1 : n - j \in n - k + 1 .. n
    BY <1>0, <1>1
  <2>. QED
    BY <1>0, <1>1, <2>1 DEF RunIs
<1>2. ASSUME k < MinStreak, n >= MinStreak
      PROVE  \E j \in 0 .. MinStreak - 1 : seq[n - j] = "ok"
  <2>1. k \in 0 .. MinStreak - 1 /\ k < n
    BY <1>0, <1>2
  <2>. QED
    BY <2>1 DEF RunIs
<1>. QED
  BY <1>0, <1>1, <1>2

\* How a run goes on over the first i elements of q.
Goes(q, i, k) ==
  LET oks == {j \in 1 .. i : q[j] = "ok"}
  IN IF oks = {} THEN k + i ELSE i - Max(oks)

LEMMA RunGoesOn ==
  ASSUME NEW p \in Seq(Results), NEW q \in Seq(Results), NEW i \in 0 .. Len(q),
         NEW k, RunIs(p, Len(p), k)
  PROVE  /\ p \o SubSeq(q, 1, i) \in Seq(Results)
         /\ Len(p \o SubSeq(q, 1, i)) = Len(p) + i
         /\ Goes(q, i, k) \in Nat
         /\ RunIs(p \o SubSeq(q, 1, i), Len(p) + i, Goes(q, i, k))
<1>. DEFINE m == Len(p)
            all == p \o SubSeq(q, 1, i)
            oks == {j \in 1 .. i : q[j] = "ok"}
<1>1. /\ m \in Nat /\ i \in Nat /\ all \in Seq(Results) /\ Len(all) = m + i
      /\ \A j \in 1 .. m : all[j] = p[j]
      /\ \A j \in 1 .. i : all[m + j] = q[j]
  OBVIOUS
<1>2. k \in 0 .. m /\ (k < m => p[m - k] = "ok")
  BY DEF RunIs
<1>3. \A j \in m - k + 1 .. m : p[j] # "ok"
  BY DEF RunIs
<1>4. \A j \in 1 .. i : j \in oks <=> all[m + j] = "ok"
  BY <1>1
<1>5. Goes(q, i, k) = IF oks = {} THEN k + i ELSE i - Max(oks)
  BY DEF Goes
<1>6. oks \in SUBSET (1 .. i)
  OBVIOUS
<1>. HIDE DEF m, all, oks
<1>7. CASE oks = {}
  <2>1. k + i \in 0 .. m + i /\ (m + i) - (k + i) = m - k /\ k + i \in Nat
    BY <1>1, <1>2
  <2>2. \A j \in m - k + 1 .. m + i : all[j] # "ok"
    <3>. SUFFICES ASSUME NEW j \in m - k + 1 .. m + i PROVE all[j] # "ok"
      OBVIOUS
    <3>1. CASE j <= m
      <4>1. j \in 1 .. m /\ j \in m - k + 1 .. m
        BY <1>1, <1>2, <3>1
      <4>. QED
        BY <1>1, <1>3, <4>1
    <3>2. CASE ~ (j <= m)
      <4>1. j - m \in 1 .. i /\ m + (j - m) = j
        BY <1>1, <1>2, <3>2
      <4>. QED
        BY <1>4, <1>7, <4>1
    <3>. QED
      BY <3>1, <3>2
  <2>3. k < m => all[m - k] = "ok"
    <3>. SUFFICES ASSUME k < m PROVE all[m - k] = "ok"
      OBVIOUS
    <3>1. m - k \in 1 .. m
      BY <1>1, <1>2
    <3>. QED
      BY <1>1, <1>2, <3>1
  <2>4. k + i < m + i => k < m
    BY <1>1, <1>2
  <2>5. RunIs(all, m + i, k + i)
    BY <2>1, <2>2, <2>3, <2>4 DEF RunIs
  <2>. QED
    BY <1>1, <1>5, <1>7, <2>1, <2>5 DEF all, m
<1>8. CASE oks # {}
  <2>1. Max(oks) \in oks /\ \A y \in oks : Max(oks) >= y
    <3>1. oks \in SUBSET (0 .. i)
      BY <1>1, <1>6
    <3>2. \E x \in oks : \A y \in oks : x >= y
      BY <1>1, <1>8, <3>1, LargestNumber
    <3>. QED
      BY <3>2 DEF Max
  <2>. DEFINE x == Max(oks)
  <2>2. x \in oks /\ \A y \in oks : x >= y
    BY <2>1
  <2>3. Goes(q, i, k) = i - x
    BY <1>5, <1>8
  <2>. HIDE DEF x
  <2>4. x \in 1 .. i /\ all[m + x] = "ok"
    BY <1>4, <1>6, <2>2
  <2>5. i - x \in 0 .. m + i /\ (m + i) - (i - x) = m + x /\ i - x \in Nat
    BY <1>1, <2>4
  <2>6. \A j \in m + x + 1 .. m + i : all[j] # "ok"
    <3>. SUFFICES ASSUME NEW j \in m + x + 1 .. m + i PROVE all[j] # "ok"
      OBVIOUS
    <3>1. j - m \in 1 .. i /\ m + (j - m) = j /\ ~ (x >= j - m)
      BY <1>1, <2>4
    <3>2. j - m \notin oks
      BY <2>2, <3>1
    <3>. QED
      BY <1>4, <3>1, <3>2
  <2>7. RunIs(all, m + i, i - x)
    BY <2>4, <2>5, <2>6 DEF RunIs
  <2>. QED
    BY <1>1, <2>3, <2>5, <2>7 DEF all, m
<1>. QED
  BY <1>7, <1>8

LEMMA BatchesAre == Batches \subseteq Batch
<1>. DEFINE Ns == UNION {Lengths[u] : u \in Target}
            Values == UNION {[1 .. n -> Results] : n \in Ns}
<1>1. Values \subseteq Seq(Results)
  <2>1. \A n \in Ns : n \in Nat
    BY OutageAssumption
  <2>2. \A n \in Ns : [1 .. n -> Results] \subseteq Seq(Results)
    <3>1. \A n \in Nat : [1 .. n -> Results] \subseteq Seq(Results)
      BY SeqDef
    <3>. HIDE DEF Ns
    <3>. QED
      BY <2>1, <3>1
  <2>. QED
    BY <2>2
<1>2. Batches \subseteq [Target -> Values]
  BY DEF Batches, Results
<1>. QED
  BY <1>1, <1>2 DEF Batch

\* The definitions over the history, for any history.
PastOf(h, t, n) == FlattenSeq([k \in 1 .. n |-> h[k].batch[t]])

DownOf(h, n, t, i) ==
  LET p == PastOf(h, t, n - 1) \o SubSeq(h[n].batch[t], 1, i)
  IN /\ Len(p) >= MinStreak
     /\ \A j \in 0 .. MinStreak - 1 : p[Len(p) - j] # "ok"

FailsOf(h, n) == {o \in Obs(h[n].batch) : DownOf(h, n, o[1], o[2])}

LEMMA CallParts ==
  ASSUME NEW c \in Call, NEW t \in Target
  PROVE  c.at \in 0 .. MaxTick /\ c.batch \in Batch /\ c.batch[t] \in Seq(Results)
<1>1. c.at \in 0 .. MaxTick /\ c.batch \in Batch
  BY DEF Call
<1>. QED
  BY <1>1 DEF Batch

LEMMA PastType ==
  ASSUME NEW h \in Seq(Call), NEW t \in Target, NEW n \in 0 .. Len(h)
  PROVE  /\ [k \in 1 .. n |-> h[k].batch[t]] \in Seq(Seq(Results))
         /\ PastOf(h, t, n) \in Seq(Results)
<1>. DEFINE q == [k \in 1 .. n |-> h[k].batch[t]]
<1>1. \A k \in 1 .. n : h[k] \in Call /\ h[k].batch[t] \in Seq(Results)
  BY CallParts
<1>2. q \in Seq(Seq(Results))
  BY <1>1
<1>. HIDE DEF q
<1>3. FlattenSeq(q) \in Seq(Results)
  BY <1>2, FlattenType
<1>. QED
  BY <1>2, <1>3 DEF q, PastOf

LEMMA PastGrows ==
  ASSUME NEW h \in Seq(Call), NEW c \in Call, NEW t \in Target
  PROVE  /\ \A n \in 0 .. Len(h) : PastOf(Append(h, c), t, n) = PastOf(h, t, n)
         /\ PastOf(Append(h, c), t, Len(h) + 1) = PastOf(h, t, Len(h)) \o c.batch[t]
<1>. DEFINE g == Append(h, c)
            n == Len(h)
            q == [k \in 1 .. n |-> h[k].batch[t]]
            r == [k \in 1 .. n + 1 |-> g[k].batch[t]]
            x == c.batch[t]
<1>1. n \in Nat /\ g[n + 1] = c /\ \A k \in 1 .. n : g[k] = h[k]
  OBVIOUS
<1>2. \A m \in 0 .. n : [k \in 1 .. m |-> g[k].batch[t]] = [k \in 1 .. m |-> h[k].batch[t]]
  BY <1>1
<1>3. q \in Seq(Seq(Results)) /\ x \in Seq(Results)
  BY <1>1, PastType, CallParts
<1>4. r = Append(q, x)
  BY <1>1
<1>. HIDE DEF q, x, r
<1>5. FlattenSeq(Append(q, x)) = FlattenSeq(q) \o x
  BY <1>3, FlattenAppend
<1>. QED
  BY <1>2, <1>4, <1>5 DEF PastOf, q, r, x

\* What failed in a call is not changed by later calls.
LEMMA FailsKept ==
  ASSUME NEW h \in Seq(Call), NEW c \in Call, NEW n \in 1 .. Len(h)
  PROVE  FailsOf(Append(h, c), n) = FailsOf(h, n)
<1>1. Append(h, c)[n] = h[n] /\ n - 1 \in 0 .. Len(h)
  OBVIOUS
<1>2. \A t \in Target : PastOf(Append(h, c), t, n - 1) = PastOf(h, t, n - 1)
  BY <1>1, PastGrows
<1>3. \A o \in Obs(h[n].batch) : o[1] \in Target
  BY DEF Obs
<1>. QED
  BY <1>1, <1>2, <1>3 DEF FailsOf, DownOf

\* The tracker's streaks are the runs of failures at the end of the history.
StreakInv ==
  \A t \in Target :
    LET past == PastOf(hist, t, Len(hist)) IN RunIs(past, Len(past), streaks[t])

LEMMA StreakGoes ==
  ASSUME NEW b, NEW t, NEW i
  PROVE  Streak(b, t, i) = Goes(b[t], i, streaks[t])
BY DEF Streak, Goes, Ok

\* So Observe finds failing what the definition over the history does.
LEMMA FailingIs ==
  ASSUME hist \in Seq(Call), StreakInv, NEW b \in Batch, NEW at,
         [at |-> at, batch |-> b] \in Call
  PROVE  Failing(b) = FailsOf(Append(hist, [at |-> at, batch |-> b]), Len(hist) + 1)
<1>. DEFINE c == [at |-> at, batch |-> b]
            g == Append(hist, c)
            n == Len(hist)
<1>1. n \in Nat /\ g[n + 1] = c /\ (n + 1) - 1 = n /\ n \in 0 .. Len(hist)
  OBVIOUS
<1>2. ASSUME NEW t \in Target, NEW i \in DOMAIN b[t]
      PROVE  DownOf(g, n + 1, t, i) <=> b[t][i] # "ok" /\ Streak(b, t, i) >= MinStreak
  <2>. DEFINE p == PastOf(hist, t, n)
              q == b[t]
              k == streaks[t]
              all == p \o SubSeq(q, 1, i)
              m == Len(p) + i
              run == Goes(q, i, k)
  <2>1. p \in Seq(Results) /\ q \in Seq(Results) /\ RunIs(p, Len(p), k)
    BY <1>1, PastType DEF Batch, StreakInv
  <2>2. i \in 1 .. Len(q) /\ i \in 0 .. Len(q)
    BY <2>1
  <2>3. PastOf(g, t, (n + 1) - 1) = p /\ g[n + 1].batch[t] = q
    BY <1>1, PastGrows
  <2>4. DownOf(g, n + 1, t, i)
          <=> Len(all) >= MinStreak /\ \A j \in 0 .. MinStreak - 1 : all[Len(all) - j] # "ok"
    BY <2>3 DEF DownOf
  <2>5. all[m] = q[i] /\ m \in Nat
    BY <2>1, <2>2
  <2>6. Streak(b, t, i) = run
    BY StreakGoes
  <2>7. Len(all) = m /\ run \in Nat /\ RunIs(all, m, run)
    <3>. HIDE DEF p, q, k
    <3>. QED
      BY <2>1, <2>2, RunGoesOn
  <2>. HIDE DEF c, g, n, all, m, run
  <2>8. run >= MinStreak
          <=> m >= MinStreak /\ \A j \in 0 .. MinStreak - 1 : all[m - j] # "ok"
    BY <2>5, <2>7, LongRun
  <2>9. run >= MinStreak => all[m] # "ok"
    <3>1. 0 \in 0 .. MinStreak - 1 /\ m - 0 = m
      BY <2>5, OutageAssumption
    <3>. QED
      BY <2>8, <3>1
  <2>. QED
    BY <2>4, <2>5, <2>6, <2>7, <2>8, <2>9
<1>3. \A o \in Obs(b) : o[1] \in Target /\ o[2] \in DOMAIN b[o[1]]
  BY DEF Obs
<1>4. g[n + 1].batch = b
  BY <1>1
<1>. HIDE DEF g, n
<1>. QED
  BY <1>2, <1>3, <1>4 DEF Failing, FailsOf, g, n

LEMMA StreakStep ==
  ASSUME TypeOK, hist \in Seq(Call), StreakInv, NEW b \in Batch, NEW at,
         [at |-> at, batch |-> b] \in Call,
         hist' = Append(hist, [at |-> at, batch |-> b]),
         \A t \in Target : streaks'[t] = Streak(b, t, Len(b[t]))
  PROVE  StreakInv'
<1>. DEFINE n == Len(hist)
<1>1. n \in Nat /\ Len(hist') = n + 1
  OBVIOUS
<1>2. ASSUME NEW t \in Target
      PROVE  LET past == PastOf(hist', t, Len(hist')) IN RunIs(past, Len(past), streaks'[t])
  <2>. DEFINE p == PastOf(hist, t, n)
              q == b[t]
              k == streaks[t]
  <2>1. p \in Seq(Results) /\ q \in Seq(Results) /\ RunIs(p, Len(p), k)
    BY <1>1, PastType DEF Batch, StreakInv
  <2>2. PastOf(hist', t, Len(hist')) = p \o q
    BY <1>1, PastGrows
  <2>3. streaks'[t] = Goes(q, Len(q), k)
    BY StreakGoes
  <2>. HIDE DEF p, q, k, n
  <2>4. SubSeq(q, 1, Len(q)) = q /\ Len(q) \in 0 .. Len(q)
    BY <2>1
  <2>5. /\ Len(p \o q) = Len(p) + Len(q)
        /\ RunIs(p \o q, Len(p) + Len(q), Goes(q, Len(q), k))
    <3>. DEFINE i == Len(q)
    <3>1. p \in Seq(Results) /\ q \in Seq(Results) /\ i \in 0 .. Len(q) /\ RunIs(p, Len(p), k)
      BY <2>1, <2>4
    <3>. HIDE DEF i
    <3>2. /\ Len(p \o SubSeq(q, 1, i)) = Len(p) + i
          /\ RunIs(p \o SubSeq(q, 1, i), Len(p) + i, Goes(q, i, k))
      BY ONLY <3>1, RunGoesOn
    <3>3. SubSeq(q, 1, i) = q
      BY <2>4 DEF i
    <3>. QED
      BY <3>2, <3>3 DEF i
  <2>. QED
    BY <2>2, <2>3, <2>5
<1>. QED
  BY <1>2 DEF StreakInv

-----------------------------------------------------------------------------
(* Runs of failing calls.                                                  *)

LEMMA Ranks ==
  /\ \A x \in Type : Rank(x) \in 1 .. 5
  /\ \A x, y \in Type : Rank(x) = Rank(y) => x = y
<1>1. /\ Rank("full_isp_outage") = 5 /\ Rank("multi_target_issue") = 4
      /\ Rank("dns_issue") = 3 /\ Rank("local_gateway_issue") = 2
      /\ Rank("single_target_issue") = 1
  BY DEF Rank
<1>. QED
  BY <1>1 DEF Type

LEMMA ClassifyNone ==
  ASSUME NEW b, NEW fail
  PROVE  /\ fail = {} => Classify(b, fail) = NoType
         /\ fail # {} => Classify(b, fail) \in Type /\ Classify(b, fail) # NoType
<1>1. CASE fail = {}
  BY <1>1 DEF Classify
<1>2. CASE fail # {} /\ GatewayDown(b, fail)
  BY <1>2 DEF Classify, Type, NoType
<1>3. CASE fail # {} /\ ~ GatewayDown(b, fail) /\ DNSDown(b, fail)
  BY <1>3 DEF Classify, Type, NoType
<1>4. CASE fail # {} /\ ~ GatewayDown(b, fail) /\ ~ DNSDown(b, fail) /\ AllDown(b, fail)
  BY <1>4 DEF Classify, Type, NoType
<1>5. CASE fail # {} /\ ~ GatewayDown(b, fail) /\ ~ DNSDown(b, fail) /\ ~ AllDown(b, fail)
  BY <1>5 DEF Classify, Type, NoType
<1>. QED
  BY <1>1, <1>2, <1>3, <1>4, <1>5

Worst(types) == CHOOSE w \in types : \A v \in types : Rank(v) <= Rank(w)

LEMMA WorstIs ==
  ASSUME NEW types \in SUBSET Type, types # {}
  PROVE  Worst(types) \in types /\ \A v \in types : Rank(v) <= Rank(Worst(types))
<1>. DEFINE R == {Rank(v) : v \in types}
<1>1. 5 \in Nat /\ R \in SUBSET (0 .. 5) /\ R # {}
  BY Ranks
<1>2. \E x \in R : \A y \in R : x >= y
  <2>. HIDE DEF R
  <2>. QED
    BY <1>1, LargestNumber
<1>3. \E w \in types : \A v \in types : Rank(v) <= Rank(w)
  BY <1>2, Ranks
<1>. QED
  BY <1>3 DEF Worst

LEMMA WorstUnique ==
  ASSUME NEW types \in SUBSET Type, NEW w \in types, \A v \in types : Rank(v) <= Rank(w)
  PROVE  Worst(types) = w
<1>1. Worst(types) \in types /\ Rank(w) <= Rank(Worst(types))
  BY WorstIs
<1>2. Rank(Worst(types)) <= Rank(w)
  BY <1>1
<1>3. Rank(w) \in Nat /\ Rank(Worst(types)) \in Nat
  BY <1>1, Ranks
<1>4. Rank(Worst(types)) = Rank(w)
  BY <1>1, <1>2, <1>3
<1>. QED
  BY <1>1, <1>4, Ranks

\* The calls from a to z, of n, are a maximal run of failing ones.
IsRun(F, n, a, z) ==
  /\ a \in 1 .. n /\ z \in 1 .. n /\ a <= z
  /\ \A k \in a .. z : F[k] # {}
  /\ a = 1 \/ F[a - 1] = {}
  /\ z = n \/ F[z + 1] = {}

\* The event they amount to.
SummaryOf(h, F, a, z) ==
  [start |-> h[a].at, end |-> h[z].at,
   type |-> Worst({Classify(h[k].batch, F[k]) : k \in a .. z}),
   affected |-> UNION {Affected(F[k]) : k \in a .. z}]

\* A failing last call ends exactly one run.
LEMMA LastRun ==
  ASSUME NEW F, NEW n \in Nat \ {0}, F[n] # {}
  PROVE  \E a : IsRun(F, n, a, n)
<1>. DEFINE S == {a \in 1 .. n : \A k \in a .. n : F[k] # {}}
<1>1. S \in SUBSET Nat /\ n \in S
  OBVIOUS
<1>2. PICK a \in S : \A y \in S : a <= y
  <2>. HIDE DEF S
  <2>. QED
    BY <1>1, LeastNumber
<1>3. a \in 1 .. n /\ \A k \in a .. n : F[k] # {}
  OBVIOUS
<1>4. a = 1 \/ F[a - 1] = {}
  <2>. SUFFICES ASSUME a # 1, F[a - 1] # {} PROVE FALSE
    OBVIOUS
  <2>1. a - 1 \in 1 .. n /\ ~ (a <= a - 1)
    BY <1>3
  <2>2. \A k \in a - 1 .. n : k = a - 1 \/ k \in a .. n
    BY <1>3
  <2>3. a - 1 \in S
    BY <1>3, <2>1, <2>2
  <2>. QED
    BY <1>2, <2>1, <2>3
<1>. QED
  BY <1>3, <1>4 DEF IsRun

LEMMA RunUnique ==
  ASSUME NEW F, NEW n \in Nat, NEW a, NEW b, NEW z, IsRun(F, n, a, z), IsRun(F, n, b, z)
  PROVE  a = b
<1>1. /\ a \in 1 .. n /\ b \in 1 .. n /\ z \in 1 .. n /\ a <= z /\ b <= z
      /\ a = 1 \/ F[a - 1] = {}
      /\ b = 1 \/ F[b - 1] = {}
  BY DEF IsRun
<1>2. (\A k \in a .. z : F[k] # {}) /\ (\A k \in b .. z : F[k] # {})
  BY DEF IsRun
<1>3. CASE a < b
  <2>1. b - 1 \in a .. z /\ b # 1
    BY <1>1, <1>3
  <2>. QED
    BY <1>1, <1>2, <2>1
<1>4. CASE b < a
  <2>1. a - 1 \in b .. z /\ a # 1
    BY <1>1, <1>4
  <2>. QED
    BY <1>1, <1>2, <2>1
<1>. QED
  BY <1>1, <1>3, <1>4

\* One more call: it fails nothing and ends the run before it, if any ...
LEMMA RunsQuiet ==
  ASSUME NEW F, NEW G, NEW n \in Nat, \A k \in 1 .. n : G[k] = F[k], G[n + 1] = {}
  PROVE  \A a, z : IsRun(G, n + 1, a, z) <=> IsRun(F, n, a, z)
<1>1. ASSUME NEW a, NEW z, IsRun(G, n + 1, a, z) PROVE IsRun(F, n, a, z)
  <2>1. /\ a \in 1 .. n + 1 /\ z \in 1 .. n + 1 /\ a <= z
        /\ \A k \in a .. z : G[k] # {}
    BY <1>1 DEF IsRun
  <2>2. z # n + 1
    <3>1. z \in a .. z
      BY <2>1
    <3>. QED
      BY <2>1, <3>1
  <2>3. a \in 1 .. n /\ z \in 1 .. n /\ \A k \in a .. z : k \in 1 .. n
    BY <2>1, <2>2
  <2>4. a # 1 => a - 1 \in 1 .. n
    BY <2>3
  <2>5. z # n => z + 1 \in 1 .. n
    BY <2>3
  <2>. QED
    BY <1>1, <2>1, <2>2, <2>3, <2>4, <2>5 DEF IsRun
<1>2. ASSUME NEW a, NEW z, IsRun(F, n, a, z) PROVE IsRun(G, n + 1, a, z)
  <2>1. /\ a \in 1 .. n /\ z \in 1 .. n /\ a <= z
        /\ \A k \in a .. z : F[k] # {} /\ k \in 1 .. n
    BY <1>2 DEF IsRun
  <2>2. a \in 1 .. n + 1 /\ z \in 1 .. n + 1 /\ (a # 1 => a - 1 \in 1 .. n)
        /\ (z # n => z + 1 \in 1 .. n)
    BY <2>1
  <2>. QED
    BY <1>2, <2>1, <2>2 DEF IsRun
<1>. QED
  BY <1>1, <1>2

\* ... or it fails, and goes on with that run or begins one.
LEMMA RunsFail ==
  ASSUME NEW F, NEW G, NEW n \in Nat, \A k \in 1 .. n : G[k] = F[k], G[n + 1] # {}
  PROVE  /\ \A a, z : z # n + 1 =>
              (IsRun(G, n + 1, a, z) <=> IsRun(F, n, a, z) /\ z # n)
         /\ \A a : IsRun(G, n + 1, a, n + 1)
              <=> IsRun(F, n, a, n) \/ (a = n + 1 /\ ~ \E x : IsRun(F, n, x, n))
<1>1. ASSUME NEW a, NEW z, z # n + 1, IsRun(G, n + 1, a, z)
      PROVE  IsRun(F, n, a, z) /\ z # n
  <2>1. /\ a \in 1 .. n + 1 /\ z \in 1 .. n + 1 /\ a <= z
        /\ \A k \in a .. z : G[k] # {}
    BY <1>1 DEF IsRun
  <2>2. z # n
    BY <1>1 DEF IsRun
  <2>3. a \in 1 .. n /\ z \in 1 .. n /\ \A k \in a .. z : k \in 1 .. n
    BY <1>1, <2>1
  <2>4. a # 1 => a - 1 \in 1 .. n
    BY <2>3
  <2>5. z # n => z + 1 \in 1 .. n
    BY <2>3
  <2>. QED
    BY <1>1, <2>1, <2>2, <2>3, <2>4, <2>5 DEF IsRun
<1>2. ASSUME NEW a, NEW z, z # n, IsRun(F, n, a, z) PROVE IsRun(G, n + 1, a, z)
  <2>1. /\ a \in 1 .. n /\ z \in 1 .. n /\ a <= z
        /\ \A k \in a .. z : F[k] # {} /\ k \in 1 .. n
    BY <1>2 DEF IsRun
  <2>2. a \in 1 .. n + 1 /\ z \in 1 .. n + 1 /\ (a # 1 => a - 1 \in 1 .. n)
        /\ (z # n => z + 1 \in 1 .. n)
    BY <2>1
  <2>. QED
    BY <1>2, <2>1, <2>2 DEF IsRun
<1>3. ASSUME NEW a, IsRun(F, n, a, n) PROVE IsRun(G, n + 1, a, n + 1)
  <2>1. a \in 1 .. n /\ \A k \in a .. n : F[k] # {} /\ k \in 1 .. n
    BY <1>3 DEF IsRun
  <2>2. /\ a \in 1 .. n + 1 /\ n + 1 \in 1 .. n + 1 /\ a <= n + 1
        /\ (a # 1 => a - 1 \in 1 .. n)
        /\ \A k \in a .. n + 1 : k \in a .. n \/ k = n + 1
    BY <2>1
  <2>. QED
    BY <1>3, <2>1, <2>2 DEF IsRun
<1>4. ASSUME ~ \E x : IsRun(F, n, x, n) PROVE IsRun(G, n + 1, n + 1, n + 1)
  <2>1. n = 0 \/ F[n] = {}
    BY <1>4, LastRun
  <2>2. /\ n + 1 \in 1 .. n + 1 /\ n + 1 <= n + 1 /\ (n + 1) - 1 = n
        /\ \A k \in n + 1 .. n + 1 : k = n + 1
        /\ n # 0 => n \in 1 .. n
    OBVIOUS
  <2>. QED
    BY <2>1, <2>2 DEF IsRun
<1>5. ASSUME NEW a, IsRun(G, n + 1, a, n + 1)
      PROVE  IsRun(F, n, a, n) \/ (a = n + 1 /\ ~ \E x : IsRun(F, n, x, n))
  <2>1. a \in 1 .. n + 1 /\ \A k \in a .. n + 1 : G[k] # {}
    BY <1>5 DEF IsRun
  <2>2. CASE a # n + 1
    <3>1. a \in 1 .. n /\ n \in 1 .. n /\ a <= n /\ (a # 1 => a - 1 \in 1 .. n)
      BY <2>1, <2>2
    <3>2. \A k \in a .. n : k \in 1 .. n /\ k \in a .. n + 1
      BY <2>1, <3>1
    <3>. QED
      BY <1>5, <2>1, <3>1, <3>2 DEF IsRun
  <2>3. CASE a = n + 1
    <3>. SUFFICES ASSUME NEW x, IsRun(F, n, x, n) PROVE FALSE
      BY <2>3
    <3>1. IsRun(G, n + 1, x, n + 1) /\ x \in 1 .. n /\ n + 1 \in Nat
      BY <1>3 DEF IsRun
    <3>2. x = a
      BY <1>5, <3>1, RunUnique
    <3>. QED
      BY <2>3, <3>1, <3>2
  <2>. QED
    BY <2>2, <2>3
<1>. QED
  BY <1>1, <1>2, <1>3, <1>4, <1>5

-----------------------------------------------------------------------------
(* Events are runs.                                                        *)

\* Histories g and h, with the failures G and F, agree on their first n calls.
Agree(g, G, h, F, n) == \A k \in 1 .. n : G[k] = F[k] /\ g[k] = h[k]

LEMMA SummarySame ==
  ASSUME NEW F, NEW G, NEW h, NEW g, NEW n \in Nat, Agree(g, G, h, F, n),
         NEW a \in 1 .. n, NEW z \in 1 .. n
  PROVE  SummaryOf(g, G, a, z) = SummaryOf(h, F, a, z)
<1>0. \A k \in 1 .. n : G[k] = F[k] /\ g[k] = h[k]
  BY DEF Agree
<1>1. (\A k \in a .. z : G[k] = F[k] /\ g[k] = h[k]) /\ g[a] = h[a] /\ g[z] = h[z]
  BY <1>0
<1>2. \A k \in a .. z : /\ Classify(g[k].batch, G[k]) = Classify(h[k].batch, F[k])
                        /\ Affected(G[k]) = Affected(F[k])
  BY <1>1
<1>3. {Classify(g[k].batch, G[k]) : k \in a .. z} = {Classify(h[k].batch, F[k]) : k \in a .. z}
  BY <1>2
<1>4. UNION {Affected(G[k]) : k \in a .. z} = UNION {Affected(F[k]) : k \in a .. z}
  BY <1>2
<1>. QED
  BY <1>1, <1>3, <1>4 DEF SummaryOf

\* The event of a run that one more call makes longer.
LEMMA SummaryLonger ==
  ASSUME NEW F, NEW G, NEW h, NEW g, NEW n \in Nat, Agree(g, G, h, F, n),
         G[n + 1] # {}, NEW a, IsRun(F, n, a, n)
  PROVE  LET e == SummaryOf(h, F, a, n)
         IN /\ e.type \in Type
            /\ SummaryOf(g, G, a, n + 1) =
                 [start |-> e.start, end |-> g[n + 1].at,
                  type |-> MergeType(e.type, Classify(g[n + 1].batch, G[n + 1])),
                  affected |-> e.affected \cup Affected(G[n + 1])]
<1>. DEFINE T == {Classify(h[k].batch, F[k]) : k \in a .. n}
            U == {Classify(g[k].batch, G[k]) : k \in a .. n + 1}
            c == Classify(g[n + 1].batch, G[n + 1])
            w == Worst(T)
<1>0. \A k \in 1 .. n : G[k] = F[k] /\ g[k] = h[k]
  BY DEF Agree
<1>1. a \in 1 .. n /\ a <= n /\ \A k \in a .. n : F[k] # {} /\ k \in 1 .. n
  BY DEF IsRun
<1>2. /\ \A k \in a .. n + 1 : k \in a .. n \/ k = n + 1
      /\ \A k \in a .. n : k \in a .. n + 1
      /\ n + 1 \in a .. n + 1 /\ n \in a .. n
  BY <1>1
<1>3. T \in SUBSET Type /\ c \in Type /\ T # {}
  BY <1>1, <1>2, ClassifyNone
<1>4. U = T \cup {c}
  <2>1. \A k \in a .. n : Classify(g[k].batch, G[k]) = Classify(h[k].batch, F[k])
    BY <1>0, <1>1
  <2>. QED
    BY <1>2, <2>1
<1>5. UNION {Affected(G[k]) : k \in a .. n + 1}
        = (UNION {Affected(F[k]) : k \in a .. n}) \cup Affected(G[n + 1])
  <2>1. \A k \in a .. n : Affected(G[k]) = Affected(F[k])
    BY <1>0, <1>1
  <2>2. {Affected(G[k]) : k \in a .. n + 1}
          = {Affected(F[k]) : k \in a .. n} \cup {Affected(G[n + 1])}
    BY <1>2, <2>1
  <2>3. \A S, y : UNION (S \cup {y}) = (UNION S) \cup y
    OBVIOUS
  <2>. QED
    BY <2>2, <2>3
<1>. HIDE DEF T, U, c
<1>6. w \in T /\ \A v \in T : Rank(v) <= Rank(w)
  BY <1>3, WorstIs
<1>. HIDE DEF w
<1>7. MergeType(w, c) \in U /\ \A v \in U : Rank(v) <= Rank(MergeType(w, c))
  <2>1. w \in Type /\ Rank(w) \in Nat /\ Rank(c) \in Nat /\ \A v \in U : Rank(v) \in Nat
    BY <1>3, <1>4, <1>6, Ranks
  <2>2. CASE Rank(c) > Rank(w)
    <3>1. MergeType(w, c) = c
      BY <2>2 DEF MergeType
    <3>. QED
      BY <1>4, <1>6, <2>1, <2>2, <3>1
  <2>3. CASE ~ (Rank(c) > Rank(w))
    <3>1. MergeType(w, c) = w
      BY <2>3 DEF MergeType
    <3>. QED
      BY <1>4, <1>6, <2>1, <2>3, <3>1
  <2>. QED
    BY <2>2, <2>3
<1>8. Worst(U) = MergeType(w, c)
  <2>1. U \in SUBSET Type
    BY <1>3, <1>4
  <2>. QED
    BY <1>7, <2>1, WorstUnique
<1>. DEFINE V == UNION {Affected(F[k]) : k \in a .. n}
            W == UNION {Affected(G[k]) : k \in a .. n + 1}
            e == SummaryOf(h, F, a, n)
<1>9. e.start = h[a].at /\ e.type = w /\ e.affected = V
  BY DEF SummaryOf, T, w
<1>10. SummaryOf(g, G, a, n + 1) =
         [start |-> g[a].at, end |-> g[n + 1].at, type |-> Worst(U), affected |-> W]
  BY DEF SummaryOf, U
<1>11. g[a] = h[a] /\ w \in Type
  BY <1>0, <1>1, <1>3, <1>6
<1>14. W = V \cup Affected(G[n + 1])
  BY <1>5
<1>. HIDE DEF V, W, e
<1>12. e.type \in Type
  BY <1>9, <1>11
<1>13. SummaryOf(g, G, a, n + 1) =
         [start |-> e.start, end |-> g[n + 1].at, type |-> MergeType(e.type, c),
          affected |-> e.affected \cup Affected(G[n + 1])]
  BY <1>8, <1>9, <1>10, <1>11, <1>14
<1>. QED
  BY <1>12, <1>13 DEF c, e

LEMMA SummarySingle ==
  ASSUME NEW G, NEW g, NEW n \in Nat, G[n] # {}
  PROVE  SummaryOf(g, G, n, n) =
           [start |-> g[n].at, end |-> g[n].at, type |-> Classify(g[n].batch, G[n]),
            affected |-> Affected(G[n])]
<1>. DEFINE c == Classify(g[n].batch, G[n])
<1>1. n .. n = {n}
  OBVIOUS
<1>2. {Classify(g[k].batch, G[k]) : k \in n .. n} = {c}
  BY <1>1
<1>3. UNION {Affected(G[k]) : k \in n .. n} = Affected(G[n])
  BY <1>1
<1>4. c \in Type /\ Rank(c) <= Rank(c)
  <2>1. c \in Type
    BY ClassifyNone
  <2>2. Rank(c) \in Nat
    BY <2>1, Ranks
  <2>. QED
    BY <2>1, <2>2
<1>. HIDE DEF c
<1>5. Worst({c}) = c
  BY <1>4, WorstUnique
<1>. QED
  BY <1>2, <1>3, <1>5 DEF SummaryOf, c

FailuresOf(h) == [n \in 1 .. Len(h) |-> FailsOf(h, n)]

\* EventsAreRuns, call by call.
RunsInv ==
  LET F == FailuresOf(hist)
      n == Len(hist)
  IN /\ \A e : e \in ToSet(closed)
                 <=> \E a, z : IsRun(F, n, a, z) /\ z # n /\ e = SummaryOf(hist, F, a, z)
     /\ \A e : e \in Ongoing
                 <=> \E a : IsRun(F, n, a, n) /\ e = SummaryOf(hist, F, a, n)

LEMMA FailuresAre == Failures = FailuresOf(hist)
BY DEF Failures, FailuresOf, Fails, FailsOf, DownAt, DownOf, Past, PastOf

LEMMA RunsAre == RunsInv => EventsAreRuns
<1>. SUFFICES ASSUME RunsInv PROVE EventsAreRuns
  OBVIOUS
<1>. DEFINE F == FailuresOf(hist)
            n == Len(hist)
<1>1. DOMAIN F = 1 .. n
  BY DEF FailuresOf
<1>2. \A e : e \in ToSet(closed)
               <=> \E a, z : IsRun(F, n, a, z) /\ z # n /\ e = SummaryOf(hist, F, a, z)
  BY DEF RunsInv
<1>3. \A e : e \in Ongoing <=> \E a : IsRun(F, n, a, n) /\ e = SummaryOf(hist, F, a, n)
  BY DEF RunsInv
<1>. HIDE DEF F
<1>4. \A r : r \in Runs(F) <=> \E a, z : r = <<a, z>> /\ IsRun(F, n, a, z)
  BY <1>1 DEF Runs, IsRun
<1>5. \A a, z : Summary(F, <<a, z>>) = SummaryOf(hist, F, a, z)
  BY DEF Summary, SummaryOf, Worst
<1>6. \A a, z : IsRun(F, n, a, z) => (z # n <=> z < n)
  BY DEF IsRun
<1>7. ToSet(closed) = {Summary(F, r) : r \in {r \in Runs(F) : r[2] < n}}
  <2>. DEFINE rs == {r \in Runs(F) : r[2] < n}
  <2>1. \A r : r \in rs <=> \E a, z : r = <<a, z>> /\ IsRun(F, n, a, z) /\ z # n
    BY <1>4, <1>6
  <2>. HIDE DEF rs
  <2>2. ASSUME NEW e, NEW a, NEW z, IsRun(F, n, a, z), z # n, e = SummaryOf(hist, F, a, z)
        PROVE  \E r \in rs : e = Summary(F, r)
    BY <1>5, <2>1, <2>2
  <2>3. ASSUME NEW e, NEW r \in rs, e = Summary(F, r)
        PROVE  \E a, z : IsRun(F, n, a, z) /\ z # n /\ e = SummaryOf(hist, F, a, z)
    BY <1>5, <2>1, <2>3
  <2>4. \A e : e \in ToSet(closed) <=> \E r \in rs : e = Summary(F, r)
    BY <1>2, <2>2, <2>3
  <2>. QED
    BY <2>4 DEF rs
<1>8. Ongoing = {Summary(F, r) : r \in {r \in Runs(F) : r[2] = n}}
  <2>. DEFINE rs == {r \in Runs(F) : r[2] = n}
  <2>1. \A r : r \in rs <=> \E a : r = <<a, n>> /\ IsRun(F, n, a, n)
    BY <1>4
  <2>. HIDE DEF rs
  <2>2. ASSUME NEW e, NEW a, IsRun(F, n, a, n), e = SummaryOf(hist, F, a, n)
        PROVE  \E r \in rs : e = Summary(F, r)
    BY <1>5, <2>1, <2>2
  <2>3. ASSUME NEW e, NEW r \in rs, e = Summary(F, r)
        PROVE  \E a : IsRun(F, n, a, n) /\ e = SummaryOf(hist, F, a, n)
    BY <1>5, <2>1, <2>3
  <2>4. \A e : e \in Ongoing <=> \E r \in rs : e = Summary(F, r)
    BY <1>3, <2>2, <2>3
  <2>. QED
    BY <2>4 DEF rs
<1>. QED
  BY <1>7, <1>8, FailuresAre DEF EventsAreRuns, F

\* History g is h and one more call.
Longer(g, h, c) == g = Append(h, c)

LEMMA FailuresGrow ==
  ASSUME NEW h \in Seq(Call), NEW c \in Call, NEW g, Longer(g, h, c)
  PROVE  /\ Len(h) \in Nat /\ Len(g) = Len(h) + 1 /\ g[Len(h) + 1] = c
         /\ Agree(g, FailuresOf(g), h, FailuresOf(h), Len(h))
         /\ FailuresOf(g)[Len(h) + 1] = FailsOf(g, Len(h) + 1)
<1>1. /\ Len(h) \in Nat /\ Len(g) = Len(h) + 1 /\ g[Len(h) + 1] = c
      /\ \A k \in 1 .. Len(h) : g[k] = h[k]
  BY DEF Longer
<1>2. \A k \in 1 .. Len(h) : FailsOf(g, k) = FailsOf(h, k) /\ k \in 1 .. Len(h) + 1
  BY <1>1, FailsKept DEF Longer
<1>3. Len(h) + 1 \in 1 .. Len(h) + 1
  BY <1>1
<1>. QED
  BY <1>1, <1>2, <1>3 DEF FailuresOf, Agree

\* What an event is until it is closed.
LEMMA OngoingIs ==
  open # NoEvent =>
    \A e : e \in Ongoing <=> e = [start |-> open.start, end |-> openLast, type |-> open.type,
                                  affected |-> open.affected]
BY DEF Ongoing

\* Closing reports the open event as it is.
LEMMA CloseReports ==
  ASSUME TypeOK, CloseOpen
  PROVE  ToSet(closed') = ToSet(closed) \cup Ongoing /\ Ongoing' = {}
<1>1. open' = NoEvent /\ closed \in Seq(Event)
  BY DEF CloseOpen, TypeOK
<1>2. CASE open = NoEvent
  BY <1>1, <1>2 DEF CloseOpen, Ongoing
<1>3. CASE open # NoEvent
  <2>. DEFINE e == [start |-> open.start, end |-> openLast, type |-> open.type,
                    affected |-> open.affected]
  <2>1. open \in OpenEvent /\ openLast \in 0 .. MaxTick /\ open.start <= openLast
    BY <1>3 DEF TypeOK
  <2>2. open.start \in Nat /\ open.type \in Type /\ open.affected \in SUBSET Target
        /\ open.start \in 1 .. MaxTick
    BY <2>1, OutageAssumption DEF OpenEvent
  <2>3. ~ (openLast < open.start) /\ openLast \in 1 .. MaxTick
    BY <2>1, <2>2, OutageAssumption
  <2>4. closed' = Append(closed, e) /\ e \in Event
    BY <1>3, <2>2, <2>3 DEF CloseOpen, Event
  <2>. HIDE DEF e
  <2>5. ToSet(Append(closed, e)) = ToSet(closed) \cup {e}
    BY <1>1, <2>4 DEF ToSet
  <2>6. Ongoing = {e}
    BY <1>3 DEF Ongoing, e
  <2>. QED
    BY <1>1, <2>4, <2>5, <2>6 DEF Ongoing
<1>. QED
  BY <1>2, <1>3

\* A call without a failure, or CloseAll, closes the open event and ends its run.
LEMMA RunsClose ==
  ASSUME TypeOK, RunsInv, hist \in Seq(Call), NEW c \in Call, Longer(hist', hist, c),
         FailsOf(hist', Len(hist) + 1) = {}, CloseOpen
  PROVE  RunsInv'
<1>. DEFINE F == FailuresOf(hist)
            G == FailuresOf(hist')
            n == Len(hist)
<1>1. n \in Nat /\ Len(hist') = n + 1 /\ G[n + 1] = {} /\ Agree(hist', G, hist, F, n)
  BY FailuresGrow
<1>2. \A e : e \in ToSet(closed)
               <=> \E a, z : IsRun(F, n, a, z) /\ z # n /\ e = SummaryOf(hist, F, a, z)
  BY DEF RunsInv
<1>3. \A e : e \in Ongoing <=> \E a : IsRun(F, n, a, n) /\ e = SummaryOf(hist, F, a, n)
  BY DEF RunsInv
<1>4. ToSet(closed') = ToSet(closed) \cup Ongoing /\ Ongoing' = {}
  BY CloseReports
<1>. HIDE DEF F, G
<1>5. \A a, z : IsRun(G, n + 1, a, z) <=> IsRun(F, n, a, z)
  <2>1. \A k \in 1 .. n : G[k] = F[k]
    BY <1>1 DEF Agree
  <2>. QED
    BY <1>1, <2>1, RunsQuiet
<1>6. \A a, z : IsRun(F, n, a, z) => a \in 1 .. n /\ z \in 1 .. n /\ z # n + 1
  BY <1>1 DEF IsRun
<1>7. \A a \in 1 .. n, z \in 1 .. n : SummaryOf(hist', G, a, z) = SummaryOf(hist, F, a, z)
  BY <1>1, SummarySame
<1>8. \A e : e \in ToSet(closed')
               <=> \E a, z : IsRun(F, n, a, z) /\ e = SummaryOf(hist, F, a, z)
  BY <1>2, <1>3, <1>4
<1>9. \A e : e \in ToSet(closed')
               <=> \E a, z : /\ IsRun(G, n + 1, a, z) /\ z # n + 1
                             /\ e = SummaryOf(hist', G, a, z)
  BY <1>5, <1>6, <1>7, <1>8
<1>10. \A e : e \in Ongoing'
                <=> \E a : IsRun(G, n + 1, a, n + 1) /\ e = SummaryOf(hist', G, a, n + 1)
  BY <1>4, <1>5, <1>6
<1>. QED
  BY <1>1, <1>9, <1>10 DEF RunsInv, F, G

\* A failing call opens an event with its run, or the run of the open one goes on.
LEMMA RunsOpen ==
  ASSUME TypeOK, RunsInv, hist \in Seq(Call), NEW c \in Call, Longer(hist', hist, c),
         NEW fail, fail = FailsOf(hist', Len(hist) + 1), fail # {},
         NEW type, type = Classify(c.batch, fail), open' # NoEvent,
         Begin(type, fail, c.at) \/ Extend(type, fail, c.at)
  PROVE  RunsInv'
<1>. DEFINE F == FailuresOf(hist)
            G == FailuresOf(hist')
            n == Len(hist)
<1>1. /\ n \in Nat /\ Len(hist') = n + 1 /\ G[n + 1] = fail /\ hist'[n + 1] = c
      /\ Agree(hist', G, hist, F, n)
  BY FailuresGrow
<1>2. \A e : e \in ToSet(closed)
               <=> \E a, z : IsRun(F, n, a, z) /\ z # n /\ e = SummaryOf(hist, F, a, z)
  BY DEF RunsInv
<1>3. \A e : e \in Ongoing <=> \E a : IsRun(F, n, a, n) /\ e = SummaryOf(hist, F, a, n)
  BY DEF RunsInv
<1>4. closed' = closed /\ open' # NoEvent /\ openLast' = c.at
  BY DEF Begin, Extend
<1>. DEFINE now1 == [start |-> open'.start, end |-> openLast', type |-> open'.type,
                     affected |-> open'.affected]
<1>5. \A e : e \in Ongoing' <=> e = now1
  BY <1>4 DEF Ongoing
<1>. HIDE DEF F, G, now1
<1>6. /\ \A a, z : z # n + 1 => (IsRun(G, n + 1, a, z) <=> IsRun(F, n, a, z) /\ z # n)
      /\ \A a : IsRun(G, n + 1, a, n + 1)
           <=> IsRun(F, n, a, n) \/ (a = n + 1 /\ ~ \E x : IsRun(F, n, x, n))
  <2>1. \A k \in 1 .. n : G[k] = F[k]
    BY <1>1 DEF Agree
  <2>. QED
    BY <1>1, <2>1, RunsFail
<1>7. \A a, z : IsRun(F, n, a, z) => a \in 1 .. n /\ z \in 1 .. n /\ z # n + 1
  BY <1>1 DEF IsRun
<1>8. \A a \in 1 .. n, z \in 1 .. n : SummaryOf(hist', G, a, z) = SummaryOf(hist, F, a, z)
  BY <1>1, SummarySame
<1>9. \A e : e \in ToSet(closed')
               <=> \E a, z : /\ IsRun(G, n + 1, a, z) /\ z # n + 1
                             /\ e = SummaryOf(hist', G, a, z)
  BY <1>2, <1>4, <1>6, <1>7, <1>8
<1>10. \E a : /\ \A x : IsRun(G, n + 1, x, n + 1) <=> x = a
              /\ now1 = SummaryOf(hist', G, a, n + 1)
  <2>1. CASE Begin(type, fail, c.at)
    <3>1. open = NoEvent /\ open' = [start |-> c.at, type |-> type, affected |-> Affected(fail)]
      BY <2>1 DEF Begin
    <3>2. ~ \E x : IsRun(F, n, x, n)
      BY <1>3, <3>1 DEF Ongoing
    <3>3. \A x : IsRun(G, n + 1, x, n + 1) <=> x = n + 1
      BY <1>6, <3>2
    <3>4. SummaryOf(hist', G, n + 1, n + 1) =
            [start |-> c.at, end |-> c.at, type |-> type, affected |-> Affected(fail)]
      BY <1>1, SummarySingle
    <3>5. now1 = [start |-> c.at, end |-> c.at, type |-> type, affected |-> Affected(fail)]
      BY <1>4, <3>1 DEF now1
    <3>. QED
      BY <3>3, <3>4, <3>5
  <2>2. CASE Extend(type, fail, c.at)
    <3>. DEFINE old == [start |-> open.start, end |-> openLast, type |-> open.type,
                        affected |-> open.affected]
    <3>1. /\ open # NoEvent
          /\ open' = [start |-> open.start, type |-> MergeType(open.type, type),
                      affected |-> open.affected \cup Affected(fail)]
      BY <2>2 DEF Extend
    <3>2. old \in Ongoing
      BY <3>1, OngoingIs
    <3>3. old.start = open.start /\ old.type = open.type /\ old.affected = open.affected
      OBVIOUS
    <3>. HIDE DEF old
    <3>4. PICK a : IsRun(F, n, a, n) /\ old = SummaryOf(hist, F, a, n)
      BY <1>3, <3>2
    <3>5. \A x : IsRun(F, n, x, n) => x = a
      BY <1>1, <3>4, RunUnique
    <3>6. \A x : IsRun(G, n + 1, x, n + 1) <=> x = a
      BY <1>6, <3>4, <3>5
    <3>7. SummaryOf(hist', G, a, n + 1) =
            [start |-> old.start, end |-> c.at, type |-> MergeType(old.type, type),
             affected |-> old.affected \cup Affected(fail)]
      BY <1>1, <3>4, SummaryLonger
    <3>8. now1 = [start |-> open.start, end |-> c.at, type |-> MergeType(open.type, type),
                  affected |-> open.affected \cup Affected(fail)]
      BY <1>4, <3>1 DEF now1
    <3>9. now1 = SummaryOf(hist', G, a, n + 1)
      BY <3>3, <3>7, <3>8
    <3>. QED
      BY <3>6, <3>9
  <2>. QED
    BY <2>1, <2>2
<1>11. \A e : e \in Ongoing'
                <=> \E a : IsRun(G, n + 1, a, n + 1) /\ e = SummaryOf(hist', G, a, n + 1)
  BY <1>5, <1>10
<1>. QED
  BY <1>1, <1>9, <1>11 DEF RunsInv, F, G

-----------------------------------------------------------------------------
(* Every step keeps them so.                                               *)

\* The history is in the order of its ticks, and samples are of a later tick than
\* all that came before them.
InOrder(h) ==
  \A j, k \in 1 .. Len(h) : j < k =>
    h[j].at <= h[k].at /\ (Obs(h[k].batch) # {} => h[j].at < h[k].at)

HistoryInv ==
  /\ hist \in Seq(Call)
  /\ \A k \in 1 .. Len(hist) : hist[k].at <= now
  /\ InOrder(hist)

LEMMA HistoryGrows ==
  ASSUME TypeOK, HistoryInv, NEW c \in Call, Longer(hist', hist, c), now' = c.at,
         now <= c.at, Obs(c.batch) # {} => now < c.at
  PROVE  HistoryInv'
<1>1. /\ hist \in Seq(Call) /\ now \in Nat /\ c.at \in Nat
      /\ \A k \in 1 .. Len(hist) : hist[k].at <= now
  BY OutageAssumption, CallParts DEF TypeOK, HistoryInv, Call
<1>2. /\ hist' \in Seq(Call) /\ Len(hist) \in Nat /\ Len(hist') = Len(hist) + 1
      /\ hist'[Len(hist) + 1] = c /\ \A k \in 1 .. Len(hist) : hist'[k] = hist[k]
  <2>1. Append(hist, c) \in Seq(Call)
    BY <1>1
  <2>2. hist' \in Seq(Call)
    BY <2>1 DEF Longer
  <2>. QED
    BY <1>1, <2>2, FailuresGrow DEF Agree
<1>3. \A k \in 1 .. Len(hist) : hist[k].at \in Nat
  <2>1. \A k \in 1 .. Len(hist) : hist[k] \in Call
    BY <1>1
  <2>. QED
    BY <2>1, OutageAssumption DEF Call
<1>4. \A k \in 1 .. Len(hist') : k \in 1 .. Len(hist) \/ k = Len(hist) + 1
  BY <1>2
<1>5. \A k \in 1 .. Len(hist') : hist'[k].at <= now'
  BY <1>1, <1>2, <1>3, <1>4
<1>6. InOrder(hist')
  <2>. SUFFICES ASSUME NEW j \in 1 .. Len(hist'), NEW k \in 1 .. Len(hist'), j < k
                PROVE  /\ hist'[j].at <= hist'[k].at
                       /\ Obs(hist'[k].batch) # {} => hist'[j].at < hist'[k].at
    BY DEF InOrder
  <2>1. j \in 1 .. Len(hist)
    BY <1>2
  <2>2. CASE k \in 1 .. Len(hist)
    BY <1>2, <2>1, <2>2 DEF HistoryInv, InOrder
  <2>3. CASE k = Len(hist) + 1
    BY <1>1, <1>2, <1>3, <2>1, <2>3
  <2>. QED
    BY <1>4, <2>2, <2>3
<1>. QED
  BY <1>2, <1>5, <1>6 DEF HistoryInv

\* A call of nothing fails nothing and keeps the streaks.
LEMMA EmptyBatch ==
  ASSUME TypeOK, NEW b, b = [t \in Target |-> <<>>]
  PROVE  /\ b \in Batch /\ Obs(b) = {} /\ Failing(b) = {}
         /\ \A t \in Target : Streak(b, t, Len(b[t])) = streaks[t]
<1>1. \A t \in Target : b[t] = <<>> /\ b[t] \in Seq(Results) /\ Len(b[t]) = 0 /\ DOMAIN b[t] = {}
  OBVIOUS
<1>2. b \in Batch
  BY DEF Batch
<1>3. Obs(b) = {}
  BY <1>1 DEF Obs
<1>4. Failing(b) = {}
  BY <1>3 DEF Failing
<1>5. ASSUME NEW t \in Target PROVE Streak(b, t, Len(b[t])) = streaks[t]
  <2>1. Ok(b, t, 0) = {}
    BY DEF Ok
  <2>2. streaks[t] \in Nat
    BY DEF TypeOK
  <2>. QED
    BY <1>1, <2>1, <2>2 DEF Streak
<1>. QED
  BY <1>2, <1>3, <1>4, <1>5

\* What a call c does.
Reports(c) ==
  LET fail == FailsOf(hist', Len(hist) + 1)
      type == Classify(c.batch, fail)
  IN \/ fail = {} /\ CloseOpen
     \/ /\ fail # {} /\ open' # NoEvent
        /\ Begin(type, fail, c.at) \/ Extend(type, fail, c.at)

LEMMA CallStep ==
  ASSUME TypeOK, TypeOK', hist \in Seq(Call), StreakInv, Next
  PROVE  \E c \in Call : /\ Longer(hist', hist, c)
                         /\ now' = c.at /\ now <= c.at
                         /\ Obs(c.batch) # {} => now < c.at
                         /\ \A t \in Target : streaks'[t] = Streak(c.batch, t, Len(c.batch[t]))
                         /\ Reports(c)
<1>1. CASE Observe
  <2>1. PICK at \in now + 1 .. MaxTick, b \in Batches :
          /\ streaks' = [t \in Target |-> Streak(b, t, Len(b[t]))]
          /\ now' = at
          /\ \/ Recover(Classify(b, Failing(b)))
             \/ Begin(Classify(b, Failing(b)), Failing(b), at)
             \/ Extend(Classify(b, Failing(b)), Failing(b), at)
          /\ hist' = Append(hist, [at |-> at, batch |-> b])
    BY <1>1 DEF Observe, ObserveTick
  <2>. DEFINE c == [at |-> at, batch |-> b]
              fail == Failing(b)
              type == Classify(b, fail)
  <2>2. now \in Nat /\ at \in 0 .. MaxTick /\ now < at /\ now <= at /\ b \in Batch
    BY OutageAssumption, BatchesAre DEF TypeOK
  <2>3. c \in Call /\ c.at = at /\ c.batch = b
    BY <2>2 DEF Call
  <2>4. Longer(hist', hist, c)
    BY <2>1 DEF Longer
  <2>5. fail = FailsOf(hist', Len(hist) + 1)
    BY <2>1, <2>2, <2>3, FailingIs
  <2>6. \A t \in Target : streaks'[t] = Streak(b, t, Len(b[t]))
    BY <2>1
  <2>7. /\ type = NoType <=> fail = {}
        /\ type \in Type \cup {NoType}
    BY ClassifyNone, ClassifyType
  <2>8. /\ type # NoType => type \in Type
        /\ at \in 1 .. MaxTick
        /\ Affected(fail) \in SUBSET Target
    BY <2>2, <2>7, AffectedType
  <2>. HIDE DEF c, fail, type
  <2>9. Recover(type) \/ Begin(type, fail, at) \/ Extend(type, fail, at)
    BY <2>1 DEF fail, type
  <2>10. ASSUME fail # {}, Begin(type, fail, at) \/ Extend(type, fail, at)
         PROVE  open' # NoEvent
    <3>1. CASE Begin(type, fail, at)
      <4>1. open' = [start |-> at, type |-> type, affected |-> Affected(fail)]
        BY <3>1 DEF Begin
      <4>2. open' \in OpenEvent
        BY <2>7, <2>8, <2>10, <4>1 DEF OpenEvent
      <4>. QED
        BY <4>2, OutageAssumption DEF OpenEvent
    <3>2. CASE Extend(type, fail, at)
      <4>1. open \in OpenEvent
        BY <3>2 DEF Extend, TypeOK
      <4>2. MergeType(open.type, type) \in Type
        BY <2>7, <2>8, <2>10, <4>1, MergeFacts DEF OpenEvent
      <4>3. open' = [start |-> open.start, type |-> MergeType(open.type, type),
                     affected |-> open.affected \cup Affected(fail)]
        BY <3>2 DEF Extend
      <4>4. open' \in OpenEvent
        BY <2>8, <4>1, <4>2, <4>3 DEF OpenEvent
      <4>. QED
        BY <4>4, OutageAssumption DEF OpenEvent
    <3>. QED
      BY <2>10, <3>1, <3>2
  <2>11. Reports(c)
    <3>1. CASE Recover(type)
      BY <2>5, <2>7, <3>1 DEF Recover, Reports
    <3>2. CASE Begin(type, fail, at) \/ Extend(type, fail, at)
      <4>1. fail # {}
        BY <2>7, <3>2 DEF Begin, Extend
      <4>2. open' # NoEvent
        BY <2>10, <3>2, <4>1
      <4>3. Classify(c.batch, fail) = type
        BY <2>3 DEF type, fail
      <4>. QED
        BY <2>3, <2>5, <3>2, <4>1, <4>2, <4>3 DEF Reports
    <3>. QED
      BY <2>9, <3>1, <3>2
  <2>. QED
    BY <2>1, <2>2, <2>3, <2>4, <2>6, <2>11
<1>2. CASE CloseAll
  <2>. DEFINE b == [t \in Target |-> <<>>]
              c == [at |-> now, batch |-> b]
  <2>1. CloseOpen /\ hist' = Append(hist, c) /\ streaks' = streaks /\ now' = now
    BY <1>2 DEF CloseAll
  <2>2. /\ b \in Batch /\ Obs(b) = {} /\ Failing(b) = {}
        /\ \A t \in Target : Streak(b, t, Len(b[t])) = streaks[t]
    BY EmptyBatch
  <2>3. now \in 0 .. MaxTick /\ now <= now
    BY OutageAssumption DEF TypeOK
  <2>. HIDE DEF b
  <2>4. c \in Call /\ c.at = now /\ c.batch = b
    BY <2>2, <2>3 DEF Call
  <2>5. Failing(b) = FailsOf(hist', Len(hist) + 1)
    BY <2>1, <2>2, <2>4, FailingIs
  <2>6. Longer(hist', hist, c)
    BY <2>1 DEF Longer
  <2>. HIDE DEF c
  <2>7. Reports(c)
    BY <2>1, <2>2, <2>5 DEF Reports
  <2>. QED
    BY <2>1, <2>2, <2>3, <2>4, <2>6, <2>7
<1>. QED
  BY <1>1, <1>2 DEF Next

\* All that is known of a state: its types, its history, the streaks and the events.
RunsInvariant == TypeOK /\ HistoryInv /\ StreakInv /\ RunsInv

LEMMA RunsStart == Init => RunsInvariant
<1>. SUFFICES ASSUME Init PROVE RunsInvariant
  OBVIOUS
<1>1. hist = <<>> /\ closed = <<>> /\ open = NoEvent /\ now = 0 /\ streaks = [t \in Target |-> 0]
  BY DEF Init
<1>2. /\ Len(hist) = 0 /\ hist \in Seq(Call) /\ \A k \in 1 .. Len(hist) : FALSE
  BY <1>1
<1>3. TypeOK
  BY TypeInit
<1>4. HistoryInv
  BY <1>2 DEF HistoryInv, InOrder
<1>5. StreakInv
  <2>. SUFFICES ASSUME NEW t \in Target
                PROVE  LET past == PastOf(hist, t, Len(hist))
                       IN RunIs(past, Len(past), streaks[t])
    BY DEF StreakInv
  <2>1. [k \in 1 .. 0 |-> hist[k].batch[t]] = <<>>
    OBVIOUS
  <2>2. PastOf(hist, t, Len(hist)) = <<>>
    BY <1>2, <2>1, FlattenEmpty DEF PastOf
  <2>3. Len(<<>>) = 0 /\ streaks[t] = 0
    BY <1>1
  <2>4. RunIs(<<>>, 0, 0)
    BY DEF RunIs
  <2>. QED
    BY <2>2, <2>3, <2>4
<1>6. RunsInv
  <2>1. ToSet(closed) = {} /\ Ongoing = {}
    BY <1>1 DEF ToSet, Ongoing
  <2>2. \A F, a, z : ~ IsRun(F, Len(hist), a, z)
    BY <1>2 DEF IsRun
  <2>. QED
    BY <2>1, <2>2 DEF RunsInv
<1>. QED
  BY <1>3, <1>4, <1>5, <1>6 DEF RunsInvariant

LEMMA RunsStep ==
  ASSUME RunsInvariant, [Next]_vars
  PROVE  RunsInvariant'
<1>0. TypeOK /\ HistoryInv /\ StreakInv /\ RunsInv /\ hist \in Seq(Call)
  BY DEF RunsInvariant, HistoryInv
<1>1. TypeOK'
  BY <1>0, TypeStep
<1>2. CASE Next
  <2>1. PICK c \in Call : /\ Longer(hist', hist, c)
                          /\ now' = c.at /\ now <= c.at
                          /\ Obs(c.batch) # {} => now < c.at
                          /\ \A t \in Target :
                               streaks'[t] = Streak(c.batch, t, Len(c.batch[t]))
                          /\ Reports(c)
    BY <1>0, <1>1, <1>2, CallStep
  <2>2. HistoryInv'
    BY <1>0, <2>1, HistoryGrows
  <2>3. StreakInv'
    <3>1. c.batch \in Batch /\ c = [at |-> c.at, batch |-> c.batch]
      BY DEF Call
    <3>2. hist' = Append(hist, [at |-> c.at, batch |-> c.batch])
      BY <2>1, <3>1 DEF Longer
    <3>3. [at |-> c.at, batch |-> c.batch] \in Call
      BY <3>1
    <3>. QED
      BY <1>0, <2>1, <3>1, <3>2, <3>3, StreakStep
  <2>4. RunsInv'
    <3>. DEFINE fail == FailsOf(hist', Len(hist) + 1)
                type == Classify(c.batch, fail)
    <3>1. CASE fail = {} /\ CloseOpen
      BY <1>0, <2>1, <3>1, RunsClose
    <3>2. CASE /\ fail # {} /\ open' # NoEvent
               /\ Begin(type, fail, c.at) \/ Extend(type, fail, c.at)
      BY <1>0, <2>1, <3>2, RunsOpen
    <3>. QED
      BY <2>1, <3>1, <3>2 DEF Reports
  <2>. QED
    BY <1>1, <2>2, <2>3, <2>4 DEF RunsInvariant
<1>3. CASE UNCHANGED vars
  <2>1. hist' = hist /\ closed' = closed /\ open' = open /\ openLast' = openLast
        /\ now' = now /\ streaks' = streaks
    BY <1>3 DEF vars
  <2>2. HistoryInv'
    BY <1>0, <2>1 DEF HistoryInv
  <2>3. StreakInv'
    BY <1>0, <2>1 DEF StreakInv
  <2>4. RunsInv'
    BY <1>0, <2>1 DEF RunsInv, Ongoing
  <2>. QED
    BY <1>1, <2>2, <2>3, <2>4 DEF RunsInvariant
<1>. QED
  BY <1>2, <1>3

LEMMA RunsAlways == Spec => []RunsInvariant
<1>1. RunsInvariant /\ [Next]_vars => RunsInvariant'
  BY RunsStep
<1>. QED
  BY RunsStart, <1>1, PTL DEF Spec

(* The events recorded and the open one are exactly the maximal runs of failing   *)
(* calls, in whatever order ticks and CloseAll come: the failures of a call, which *)
(* Observe finds by its streaks, are those of the history, so a call without one    *)
(* ends the open run and a call with one begins or lengthens it.                    *)
THEOREM EventsStayRuns == Spec => []EventsAreRuns
<1>1. RunsInvariant => EventsAreRuns
  BY RunsAre DEF RunsInvariant
<1>. QED
  BY RunsAlways, <1>1, PTL

-----------------------------------------------------------------------------
(* What the type of an event says.                                         *)

\* The samples of a batch are finitely many.
LEMMA ObsAre ==
  ASSUME NEW b \in Batch
  PROVE  /\ IsFiniteSet(Obs(b))
         /\ \A t \in Target : \A i \in DOMAIN b[t] : <<t, i>> \in Obs(b)
         /\ Affected(Obs(b)) = {t \in Target : b[t] # <<>>}
<1>. DEFINE L == {Len(b[t]) : t \in Target}
            m == Max(L)
<1>1. \A t \in Target : b[t] \in Seq(Results) /\ Len(b[t]) \in Nat
  BY DEF Batch
<1>2. IsFiniteSet(Target)
  BY OutageAssumption
<1>3. L \in SUBSET Nat /\ IsFiniteSet(L)
  <2>. DEFINE f == [t \in Target |-> Len(b[t])]
  <2>1. f \in Surjection(Target, L)
    BY DEF Surjection
  <2>. HIDE DEF f, L
  <2>2. IsFiniteSet(L)
    BY <1>2, <2>1, FS_Surjection
  <2>. QED
    BY <1>1, <2>2 DEF L
<1>4. Target # {} => m \in Nat /\ \A t \in Target : Len(b[t]) <= m
  <2>. SUFFICES ASSUME Target # {} PROVE m \in Nat /\ \A t \in Target : Len(b[t]) <= m
    OBVIOUS
  <2>1. L # {}
    OBVIOUS
  <2>. HIDE DEF L
  <2>2. \E x \in L : \A y \in L : x >= y
    BY <1>3, <2>1, LargestOfFinite
  <2>3. m \in L /\ \A y \in L : m >= y
    BY <2>2 DEF Max
  <2>. QED
    BY <1>3, <2>3 DEF L
<1>5. Obs(b) = {o \in Target \X (1 .. m) : o[2] \in DOMAIN b[o[1]]}
  BY DEF Obs
<1>. HIDE DEF m, L
<1>6. IsFiniteSet(Obs(b))
  <2>1. CASE Target = {}
    <3>1. Obs(b) = {}
      BY <1>5, <2>1
    <3>. QED
      BY <3>1, FS_EmptySet
  <2>2. CASE Target # {}
    <3>1. IsFiniteSet(1 .. m)
      BY <1>4, <2>2, FS_Interval
    <3>2. IsFiniteSet(Target \X (1 .. m))
      BY <1>2, <3>1, FS_Product
    <3>3. Obs(b) \subseteq Target \X (1 .. m)
      BY <1>5
    <3>. QED
      BY <3>2, <3>3, FS_Subset
  <2>. QED
    BY <2>1, <2>2
<1>7. ASSUME NEW t \in Target, NEW i \in DOMAIN b[t] PROVE <<t, i>> \in Obs(b)
  <2>1. i \in 1 .. m
    BY <1>1, <1>4
  <2>. QED
    BY <1>5, <2>1
<1>8. ASSUME NEW t \in Affected(Obs(b)) PROVE t \in Target /\ b[t] # <<>>
  <2>1. PICK o \in Obs(b) : t = o[1]
    BY DEF Affected
  <2>2. t \in Target /\ o[2] \in DOMAIN b[t]
    BY <1>5, <2>1
  <2>. QED
    BY <2>2
<1>9. ASSUME NEW t \in Target, b[t] # <<>> PROVE t \in Affected(Obs(b))
  <2>1. 1 \in DOMAIN b[t]
    BY <1>1, <1>9
  <2>2. <<t, 1>> \in Obs(b) /\ <<t, 1>>[1] = t
    BY <1>7, <2>1
  <2>. QED
    BY <2>2 DEF Affected
<1>. QED
  BY <1>6, <1>7, <1>8, <1>9

\* The rules, one call at a time.
LEMMA RulesSay ==
  ASSUME NEW b \in Batch, NEW fail, fail \subseteq Obs(b), fail # {}
  PROVE  LET type == Classify(b, fail)
         IN /\ type = "single_target_issue" => Cardinality(Affected(fail)) = 1
            /\ type = "local_gateway_issue" => Gateway \subseteq Affected(fail)
            /\ type = "dns_issue" => /\ \A t \in Host : ToSet(b[t]) \subseteq {"dns"}
                                     /\ Affected(fail) \subseteq Host
            /\ type = "full_isp_outage" => Affected(fail) = {t \in Target : b[t] # <<>>}
            /\ type = "multi_target_issue" => \E o, p \in fail : o # p
            /\ (fail = Obs(b) /\ Affected(fail) \cap Gateway = {}
                /\ ~ Affected(fail) \subseteq Host) => type = "full_isp_outage"
<1>. DEFINE type == Classify(b, fail)
<1>0. Host \subseteq Target /\ \A g, h \in Gateway : g = h
  BY OutageAssumption
<1>1. GatewayDown(b, fail) => type = "local_gateway_issue" /\ Gateway \subseteq Affected(fail)
  <2>. SUFFICES ASSUME GatewayDown(b, fail)
                PROVE  type = "local_gateway_issue" /\ Gateway \subseteq Affected(fail)
    OBVIOUS
  <2>1. PICK g \in Gateway : <<g, Len(b[g])>> \in fail
    BY DEF GatewayDown
  <2>2. <<g, Len(b[g])>>[1] = g
    OBVIOUS
  <2>3. g \in Affected(fail)
    BY <2>1, <2>2 DEF Affected
  <2>. QED
    BY <1>0, <2>3 DEF Classify
<1>2. ~ GatewayDown(b, fail) /\ DNSDown(b, fail)
        => /\ type = "dns_issue" /\ \A t \in Host : ToSet(b[t]) \subseteq {"dns"}
           /\ Affected(fail) \subseteq Host
  <2>. SUFFICES ASSUME ~ GatewayDown(b, fail), DNSDown(b, fail)
                PROVE  /\ type = "dns_issue" /\ \A t \in Host : ToSet(b[t]) \subseteq {"dns"}
                       /\ Affected(fail) \subseteq Host
    OBVIOUS
  <2>1. (\A o \in HostObs(b) : b[o[1]][o[2]] = "dns") /\ Affected(fail) \subseteq Host
    BY DEF DNSDown
  <2>2. ASSUME NEW t \in Host, NEW i \in DOMAIN b[t] PROVE b[t][i] = "dns"
    <3>1. <<t, i>> \in Obs(b) /\ <<t, i>>[1] = t /\ <<t, i>>[2] = i
      BY <1>0, ObsAre
    <3>. QED
      BY <2>1, <3>1 DEF HostObs
  <2>3. \A t \in Host : ToSet(b[t]) \subseteq {"dns"}
    BY <2>2 DEF ToSet
  <2>. QED
    BY <2>1, <2>3 DEF Classify
<1>3. ~ GatewayDown(b, fail) /\ ~ DNSDown(b, fail) /\ AllDown(b, fail)
        => type = "full_isp_outage" /\ Affected(fail) = {t \in Target : b[t] # <<>>}
  BY ObsAre DEF Classify, AllDown
<1>4. ~ GatewayDown(b, fail) /\ ~ DNSDown(b, fail) /\ ~ AllDown(b, fail)
        => /\ type \in {"single_target_issue", "multi_target_issue"}
           /\ type = "single_target_issue" => Cardinality(Affected(fail)) = 1
           /\ type = "multi_target_issue" => \E o, p \in fail : o # p
  <2>. SUFFICES ASSUME ~ GatewayDown(b, fail), ~ DNSDown(b, fail), ~ AllDown(b, fail)
                PROVE  /\ type \in {"single_target_issue", "multi_target_issue"}
                       /\ type = "single_target_issue" => Cardinality(Affected(fail)) = 1
                       /\ type = "multi_target_issue" => \E o, p \in fail : o # p
    OBVIOUS
  <2>1. type = IF Cardinality(fail) = 1 THEN "single_target_issue" ELSE "multi_target_issue"
    BY DEF Classify
  <2>2. ASSUME Cardinality(fail) = 1 PROVE Cardinality(Affected(fail)) = 1
    <3>1. IsFiniteSet(fail)
      BY ObsAre, FS_Subset
    <3>2. PICK o : fail = {o}
      BY <2>2, <3>1, FS_Singleton
    <3>3. Affected(fail) = {o[1]}
      BY <3>2 DEF Affected
    <3>. QED
      BY <3>3, FS_Singleton
  <2>3. ASSUME Cardinality(fail) # 1 PROVE \E o, p \in fail : o # p
    <3>1. PICK o : o \in fail
      OBVIOUS
    <3>2. fail # {o}
      BY <2>3, FS_Singleton
    <3>. QED
      BY <3>1, <3>2
  <2>. QED
    BY <2>1, <2>2, <2>3
<1>5. /\ Affected(fail) \cap Gateway = {} => ~ GatewayDown(b, fail)
      /\ ~ Affected(fail) \subseteq Host => ~ DNSDown(b, fail)
      /\ fail = Obs(b) => AllDown(b, fail)
  <2>1. Gateway = {} => ~ GatewayDown(b, fail)
    BY DEF GatewayDown
  <2>2. Gateway # {} /\ Gateway \subseteq Affected(fail) => Affected(fail) \cap Gateway # {}
    OBVIOUS
  <2>. QED
    BY <1>1, <2>1, <2>2 DEF DNSDown, AllDown
<1>. HIDE DEF type
<1>. QED
  BY <1>1, <1>2, <1>3, <1>4, <1>5 DEF type

\* The failing calls of an event are the calls of its run.
LEMMA SpanIs ==
  ASSUME NEW h \in Seq(Call), InOrder(h), NEW F, F = FailuresOf(h),
         NEW a, NEW z, IsRun(F, Len(h), a, z)
  PROVE  \A k \in 1 .. Len(h) :
           k \in a .. z <=> h[k].at \in h[a].at .. h[z].at /\ F[k] # {}
<1>1. /\ a \in 1 .. Len(h) /\ z \in 1 .. Len(h) /\ a <= z /\ Len(h) \in Nat
      /\ \A k \in a .. z : F[k] # {}
  BY DEF IsRun
<1>2. \A k \in 1 .. Len(h) : h[k].at \in Nat
  <2>1. \A k \in 1 .. Len(h) : h[k] \in Call
    OBVIOUS
  <2>. QED
    BY <2>1, OutageAssumption DEF Call
<1>3. \A j, k \in 1 .. Len(h) : j < k => h[j].at <= h[k].at /\ (F[k] # {} => h[j].at < h[k].at)
  <2>1. \A k \in 1 .. Len(h) : F[k] # {} => Obs(h[k].batch) # {}
    BY DEF FailuresOf, FailsOf
  <2>. QED
    BY <2>1 DEF InOrder
<1>. SUFFICES ASSUME NEW k \in 1 .. Len(h)
              PROVE  k \in a .. z <=> h[k].at \in h[a].at .. h[z].at /\ F[k] # {}
  OBVIOUS
<1>4. ASSUME k \in a .. z PROVE h[k].at \in h[a].at .. h[z].at /\ F[k] # {}
  <2>1. (a < k \/ a = k) /\ (k < z \/ k = z)
    BY <1>1, <1>4
  <2>2. h[a].at <= h[k].at /\ h[k].at <= h[z].at
    BY <1>1, <1>2, <1>3, <2>1
  <2>. QED
    BY <1>1, <1>2, <1>4, <2>2
<1>5. ASSUME h[k].at \in h[a].at .. h[z].at, F[k] # {} PROVE k \in a .. z
  <2>1. ~ (k < a)
    <3>1. a \in a .. z
      BY <1>1
    <3>2. F[a] # {}
      BY <1>1, <3>1
    <3>. QED
      BY <1>1, <1>2, <1>3, <1>5, <3>2
  <2>2. ~ (z < k)
    BY <1>1, <1>2, <1>3, <1>5
  <2>. QED
    BY <1>1, <2>1, <2>2
<1>. QED
  BY <1>4, <1>5

\* The worst type of some calls is true of them.
LEMMA WorstTrue ==
  ASSUME NEW F, NEW span, span # {},
         \A k \in span : /\ hist[k].batch \in Batch
                         /\ F[k] \subseteq Obs(hist[k].batch) /\ F[k] # {},
         NEW w, w = Worst({Classify(hist[k].batch, F[k]) : k \in span})
  PROVE  /\ TypeTrue(F, w, span)
         /\ (\E k \in span : Blackout(F, k)) => w = "full_isp_outage"
<1>. DEFINE C(k) == Classify(hist[k].batch, F[k])
            T == {C(k) : k \in span}
<1>1. \A k \in span :
        /\ C(k) \in Type
        /\ C(k) = "single_target_issue" => Cardinality(Affected(F[k])) = 1
        /\ C(k) = "local_gateway_issue" => Gateway \subseteq Affected(F[k])
        /\ C(k) = "dns_issue" => NoLookup(k) /\ Affected(F[k]) \subseteq Host
        /\ C(k) = "full_isp_outage" => Affected(F[k]) = Sampled(k)
        /\ C(k) = "multi_target_issue" => \E o, p \in F[k] : o # p
        /\ Blackout(F, k) => C(k) = "full_isp_outage"
  <2>. SUFFICES ASSUME NEW k \in span
                PROVE
                  /\ C(k) \in Type
                  /\ C(k) = "single_target_issue" => Cardinality(Affected(F[k])) = 1
                  /\ C(k) = "local_gateway_issue" => Gateway \subseteq Affected(F[k])
                  /\ C(k) = "dns_issue" => NoLookup(k) /\ Affected(F[k]) \subseteq Host
                  /\ C(k) = "full_isp_outage" => Affected(F[k]) = Sampled(k)
                  /\ C(k) = "multi_target_issue" => \E o, p \in F[k] : o # p
                  /\ Blackout(F, k) => C(k) = "full_isp_outage"
    OBVIOUS
  <2>. DEFINE b == hist[k].batch
              fail == F[k]
              type == Classify(b, fail)
  <2>1. b \in Batch /\ fail \subseteq Obs(b) /\ fail # {}
    OBVIOUS
  <2>. HIDE DEF b, fail
  <2>2. type \in Type
    BY <2>1, ClassifyNone
  <2>3. /\ type = "single_target_issue" => Cardinality(Affected(fail)) = 1
        /\ type = "local_gateway_issue" => Gateway \subseteq Affected(fail)
        /\ type = "dns_issue" => /\ \A t \in Host : ToSet(b[t]) \subseteq {"dns"}
                                 /\ Affected(fail) \subseteq Host
        /\ type = "full_isp_outage" => Affected(fail) = {t \in Target : b[t] # <<>>}
        /\ type = "multi_target_issue" => \E o, p \in fail : o # p
        /\ (fail = Obs(b) /\ Affected(fail) \cap Gateway = {}
            /\ ~ Affected(fail) \subseteq Host) => type = "full_isp_outage"
    BY <2>1, RulesSay
  <2>. QED
    BY <2>2, <2>3 DEF b, fail, NoLookup, Sampled, Blackout
<1>2. T \in SUBSET Type /\ T # {}
  BY <1>1
<1>. HIDE DEF C
<1>3. w \in T /\ \A v \in T : Rank(v) <= Rank(w)
  <2>1. w = Worst(T)
    BY DEF C
  <2>. HIDE DEF T
  <2>. QED
    BY <1>2, <2>1, WorstIs
<1>4. PICK m \in span : w = C(m)
  BY <1>3
<1>5. w \in Type /\ \A k \in span : C(k) \in Type /\ Rank(C(k)) <= Rank(w)
  BY <1>1, <1>3, <1>4
<1>6. w = "single_target_issue" => \A k \in span : C(k) = w
  <2>. SUFFICES ASSUME w = "single_target_issue", NEW k \in span PROVE C(k) = w
    OBVIOUS
  <2>1. Rank(w) = 1 /\ Rank(C(k)) \in 1 .. 5 /\ Rank(C(k)) <= Rank(w)
    BY <1>5, Ranks DEF Rank
  <2>2. Rank(C(k)) = Rank(w)
    BY <2>1
  <2>. QED
    BY <1>5, <2>2, Ranks
<1>7. TypeTrue(F, w, span)
  <2>1. w = "single_target_issue" => \A k \in span : Cardinality(Affected(F[k])) = 1
    BY <1>1, <1>6
  <2>2. /\ w = "local_gateway_issue" => Gateway \subseteq Affected(F[m])
        /\ w = "dns_issue" => NoLookup(m) /\ Affected(F[m]) \subseteq Host
        /\ w = "full_isp_outage" => Affected(F[m]) = Sampled(m)
        /\ w = "multi_target_issue" => \E o, p \in F[m] : o # p
    BY <1>1, <1>4
  <2>3. CASE w = "single_target_issue"
    BY <2>1, <2>3 DEF TypeTrue
  <2>4. CASE w = "local_gateway_issue"
    BY <2>2, <2>4 DEF TypeTrue
  <2>5. CASE w = "dns_issue"
    BY <2>2, <2>5 DEF TypeTrue
  <2>6. CASE w = "full_isp_outage"
    BY <2>2, <2>6 DEF TypeTrue
  <2>7. CASE w = "multi_target_issue"
    BY <2>2, <2>7 DEF TypeTrue
  <2>. QED
    BY <1>5, <2>3, <2>4, <2>5, <2>6, <2>7 DEF Type
<1>8. ASSUME NEW k \in span, Blackout(F, k) PROVE w = "full_isp_outage"
  <2>1. C(k) = "full_isp_outage" /\ Rank(C(k)) = 5
    BY <1>1, <1>8 DEF Rank
  <2>2. Rank(w) \in 1 .. 5 /\ Rank(C(k)) <= Rank(w)
    BY <1>5, Ranks
  <2>3. Rank(w) = Rank(C(k))
    BY <2>1, <2>2
  <2>. QED
    BY <1>5, <2>1, <2>3, Ranks
<1>. QED
  BY <1>7, <1>8

LEMMA VerdictsAre == RunsInvariant => VerdictsSound
<1>. SUFFICES ASSUME RunsInvariant PROVE VerdictsSound
  OBVIOUS
<1>. DEFINE F == FailuresOf(hist)
            n == Len(hist)
<1>1. hist \in Seq(Call) /\ InOrder(hist) /\ RunsInv /\ n \in Nat
  BY DEF RunsInvariant, HistoryInv
<1>2. DOMAIN F = 1 .. n /\ Failures = F
  BY FailuresAre DEF FailuresOf
<1>3. \A k \in 1 .. n : hist[k].batch \in Batch /\ F[k] \subseteq Obs(hist[k].batch)
  <2>1. \A k \in 1 .. n : hist[k] \in Call
    BY <1>1
  <2>2. \A k \in 1 .. n : hist[k].batch \in Batch
    BY <2>1 DEF Call
  <2>. QED
    BY <2>2 DEF FailuresOf, FailsOf
<1>. HIDE DEF F
<1>4. ASSUME NEW e \in ToSet(closed) \cup Ongoing
      PROVE  /\ TypeTrue(F, e.type, Span(F, e))
             /\ (\E k \in Span(F, e) : Blackout(F, k)) => e.type = "full_isp_outage"
  <2>1. PICK a, z : IsRun(F, n, a, z) /\ e = SummaryOf(hist, F, a, z)
    BY <1>1 DEF RunsInv, F
  <2>2. /\ a \in 1 .. n /\ z \in 1 .. n /\ a <= z /\ \A k \in a .. z : F[k] # {}
    BY <2>1 DEF IsRun
  <2>3. /\ \A k \in a .. z : k \in 1 .. n
        /\ a \in a .. z
    BY <2>2
  <2>. DEFINE w == Worst({Classify(hist[k].batch, F[k]) : k \in a .. z})
  <2>4. e.type = w /\ e.start = hist[a].at /\ e.end = hist[z].at
    BY <2>1 DEF SummaryOf
  <2>5. \A k \in 1 .. n : k \in a .. z <=> hist[k].at \in hist[a].at .. hist[z].at /\ F[k] # {}
    BY <1>1, <2>1, SpanIs DEF F
  <2>6. Span(F, e) = a .. z
    BY <1>2, <2>3, <2>4, <2>5 DEF Span
  <2>7. /\ TypeTrue(F, w, a .. z)
        /\ (\E k \in a .. z : Blackout(F, k)) => w = "full_isp_outage"
    <3>. DEFINE span == a .. z
    <3>1. span # {} /\ \A k \in span : /\ hist[k].batch \in Batch
                                       /\ F[k] \subseteq Obs(hist[k].batch) /\ F[k] # {}
      BY <1>3, <2>2, <2>3
    <3>2. w = Worst({Classify(hist[k].batch, F[k]) : k \in span})
      OBVIOUS
    <3>. HIDE DEF w, span
    <3>3. /\ TypeTrue(F, w, span)
          /\ (\E k \in span : Blackout(F, k)) => w = "full_isp_outage"
      BY <3>1, <3>2, WorstTrue
    <3>. QED
      BY <3>3 DEF span
  <2>. QED
    BY <2>4, <2>6, <2>7
<1>. QED
  BY <1>2, <1>4 DEF VerdictsSound

(* However its ticks were merged, the type of an event is true of it, and an event  *)
(* with a call that failed everything, no gateway and not only hostnames is a full   *)
(* outage: the type is the worst that Classify gives a call of its run.              *)
THEOREM VerdictsStaySound == Spec => []VerdictsSound
BY RunsAlways, VerdictsAre, PTL

=============================================================================
