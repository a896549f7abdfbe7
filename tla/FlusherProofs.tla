--------------------------- MODULE FlusherProofs ---------------------------
(***************************************************************************)
(* Proofs about Flusher, on top of those about Spool: types, rollups counted *)
(* once, a bound on the copies of a sample, the order of outage events, and  *)
(* the refinement of Delivery by the spool and the flush loop together.      *)
(***************************************************************************)
EXTENDS Flusher, SpoolProofs, SequenceTheorems, WellFoundedInduction

-----------------------------------------------------------------------------
(* Types.                                                                  *)

Place == {"idle", "list", "consume", "rename", "upsert", "drain", "insert", "cleanup",
          "finalUpsert", "finalDrain", "finalInsert", "exited", "off"}

LoopOK ==
  /\ pc \in Place
  /\ pc = "off" <=> fd = "down"
  /\ todo \subseteq Existing(ready)
  /\ trig \in BOOLEAN /\ stop \in BOOLEAN
  /\ expired \subseteq Existing(done)
  /\ pc = "rename" => todo # {}
  /\ todo # {} => pc \in {"consume", "rename"}

SamplesOK ==
  /\ hand \in Sample \cup {NoSample}
  /\ acc \subseteq Sample /\ rows \subseteq Sample
  /\ rows # {} => pc \in {"upsert", "finalUpsert"}
  /\ db \in [Sample -> Nat] /\ rolled \in [Sample -> Nat]
  /\ asked \subseteq Sample

EventsOK ==
  /\ raised \in 0 .. MaxEvent
  /\ pending \in Seq(1 .. raised)
  /\ batch \in Seq(1 .. raised)
  /\ odb \in Seq(1 .. raised)
  /\ batch # <<>> => pc \in {"insert", "finalInsert"}

TypeInv == TypeOK /\ LoopOK /\ SamplesOK /\ EventsOK

LEMMA EventsType ==
  ASSUME TypeInv, FlushLoop \/ Environment
  PROVE  EventsOK'
<1>. USE DEF TypeInv, EventsOK, outages, store
<1>1. CASE RecordOutage
  <2>1. raised' \in 0 .. MaxEvent /\ raised' \in 1 .. raised'
        /\ 1 .. raised \subseteq 1 .. raised'
    BY <1>1, FlusherAssumption DEF RecordOutage
  <2>2. /\ pending \in Seq(1 .. raised') /\ batch \in Seq(1 .. raised')
        /\ odb \in Seq(1 .. raised')
    BY <2>1, SeqMonotonic
  <2>. QED
    BY <1>1, <2>1, <2>2, AppendProperties DEF RecordOutage, loop
<1>2. CASE DrainOutages \/ FinalDrain
  BY <1>2, EmptySeq DEF DrainOutages, FinalDrain
<1>0. odb \o batch \in Seq(1 .. raised) /\ batch \o pending \in Seq(1 .. raised)
  BY ConcatProperties
<1>3. CASE InsertOutages \/ FinalInsert
  BY <1>0, <1>3, EmptySeq DEF InsertOutages, FinalInsert
<1>4. CASE InsertOutagesFails
  BY <1>0, <1>4, EmptySeq DEF InsertOutagesFails, Requeue
<1>5. CASE Exit \/ Die
  BY <1>5, EmptySeq DEF Exit, Die, Forget
<1>6. CASE \/ BeginCycle \/ ListReady \/ SkipFile \/ InsertSamples \/ InsertFails
           \/ RenameDone
  BY <1>6 DEF BeginCycle, ListReady, SkipFile, InsertSamples, InsertFails, RenameDone,
     Decoded
<1>7. CASE \/ TakeRollups \/ UpsertRollups \/ UpsertFails \/ Cleanup \/ BeginFinal
           \/ FinalUpsert
  BY <1>7 DEF TakeRollups, UpsertRollups, UpsertFails, Cleanup, BeginFinal, FinalUpsert
<1>8. CASE \/ SpoolSink \/ RollupSink \/ SpoolFlush \/ Trigger \/ Stop \/ TimePasses
           \/ Expire
  BY <1>8 DEF SpoolSink, RollupSink, SpoolFlush, Trigger, Stop, TimePasses, Expire, loop
<1>9. CASE Start
  BY <1>9 DEF Start, Open, OpenFails, LoopOK
<1>. QED
  BY <1>1, <1>2, <1>3, <1>4, <1>5, <1>6, <1>7, <1>8, <1>9 DEF FlushLoop, Environment

LEMMA CountedType ==
  ASSUME NEW f \in [Sample -> Nat], NEW S
  PROVE  Counted(f, S) \in [Sample -> Nat]
BY DEF Counted

LEMMA SamplesType ==
  ASSUME TypeInv, FlushLoop \/ Environment
  PROVE  SamplesOK'
<1>. USE DEF TypeInv, SamplesOK, rollups, store
<1>0. ASSUME NEW S PROVE /\ Counted(db, S) \in [Sample -> Nat]
                         /\ Counted(rolled, S) \in [Sample -> Nat]
  BY CountedType
<1>1. CASE SpoolSink
  <2>1. seen' \in Sample
    BY <1>1, OfferType
       DEF SpoolSink, AppendSample, AppendBuffered, AppendSpills, AppendRefused
  <2>. QED
    BY <1>1, <2>1 DEF SpoolSink, loop
<1>2. CASE RollupSink \/ SpoolFlush \/ RecordOutage \/ Stop \/ TimePasses \/ Expire
  BY <1>2 DEF RollupSink, SpoolFlush, RecordOutage, Stop, TimePasses, Expire, loop
<1>3. CASE Trigger
  <2>1. Held \subseteq Sample /\ buf \subseteq Sample
    BY FileFacts DEF TypeOK, Held, Lines, Existing
  <2>. QED
    BY <1>3, <2>1 DEF Trigger
<1>4. CASE Exit \/ Die
  BY <1>4 DEF Exit, Die, Forget
<1>5. CASE Start
  BY <1>5 DEF Start, Open, OpenFails, LoopOK
<1>6. CASE BeginCycle \/ ListReady \/ SkipFile \/ RenameDone
  BY <1>6 DEF BeginCycle, ListReady, SkipFile, RenameDone
<1>7. CASE InsertSamples \/ InsertFails
  BY <1>0, <1>7 DEF InsertSamples, InsertFails, Decoded
<1>8. CASE TakeRollups \/ BeginFinal
  BY <1>8 DEF TakeRollups, BeginFinal
<1>9. CASE UpsertRollups \/ UpsertFails \/ FinalUpsert
  BY <1>0, <1>9 DEF UpsertRollups, UpsertFails, FinalUpsert
<1>10. CASE \/ DrainOutages \/ InsertOutages \/ InsertOutagesFails \/ Cleanup
            \/ FinalDrain \/ FinalInsert
  BY <1>10 DEF DrainOutages, InsertOutages, InsertOutagesFails, Cleanup, FinalDrain,
     FinalInsert
<1>. QED
  BY <1>1, <1>2, <1>3, <1>4, <1>5, <1>6, <1>7, <1>8, <1>9, <1>10
     DEF FlushLoop, Environment

-----------------------------------------------------------------------------
(* What a step of the agent does to the spool.                             *)

\* A set of seconds that is not empty has a first one.
LEMMA MinOfSeconds ==
  ASSUME NEW S \in SUBSET Second, S # {}
  PROVE  Min(S) \in S
<1>1. S \subseteq Nat
  BY DEF Second
<1>2. PICK x \in S : \A y \in S : ~ (<<y, x>> \in OpToRel(<, Nat))
  BY <1>1, NatLessThanWellFounded, WFMin, Zenon
<1>3. ASSUME NEW y \in S PROVE x <= y
  <2>1. x \in Nat /\ y \in Nat
    BY <1>1
  <2>2. ~ (y < x)
    BY <1>2, <2>1 DEF OpToRel
  <2>. QED
    BY <2>1, <2>2
<1>. QED
  BY <1>3 DEF Min

LEMMA OldestListed ==
  ASSUME TypeInv, todo # {}
  PROVE  Oldest \in todo /\ Oldest \in Existing(ready) /\ Oldest \in Second
BY MinOfSeconds DEF TypeInv, LoopOK, Oldest, Existing

Still ==
  /\ UNCHANGED disk
  /\ UNCHANGED faults \/ \E kind : Fault(kind)

Taken(p) ==
  /\ RemoveReady(p) \/ MarkDone(p)
  /\ UNCHANGED <<clock, fd, path, buf, seen, faults>>

Cleaned ==
  /\ \E gone \in SUBSET expired :
       done' = [p \in Second |-> IF p \in gone THEN NoFile ELSE done[p]]
  /\ UNCHANGED <<clock, ndjson, ready, fd, path, buf, seen>>
  /\ UNCHANGED faults \/ \E kind : Fault(kind)

LEMMA SpoolCases ==
  ASSUME TypeInv, FlushLoop \/ Environment
  PROVE  Own \/ Still \/ Cleaned \/ \E p \in Existing(ready) : Taken(p)
<1>1. CASE BeginCycle \/ SpoolSink \/ SpoolFlush \/ TimePasses \/ Exit \/ Die \/ Start
  BY <1>1 DEF BeginCycle, SpoolSink, SpoolFlush, TimePasses, Exit, Die, Start, Own
<1>2. CASE SkipFile
  <2>1. Oldest \in Existing(ready)
    BY <1>2, OldestListed DEF SkipFile
  <2>. QED
    BY <1>2, <2>1 DEF SkipFile, Still, Taken, disk, files
<1>3. CASE RenameDone
  <2>1. Oldest \in Existing(ready)
    BY <1>3, OldestListed DEF RenameDone, TypeInv, LoopOK
  <2>. QED
    BY <1>3, <2>1 DEF RenameDone, Still, Taken, disk, files
<1>4. CASE Cleanup
  <2>1. UNCHANGED <<clock, ndjson, ready, fd, path, buf, seen>>
    BY <1>4 DEF Cleanup
  <2>2. \E gone \in SUBSET expired :
          /\ done' = [p \in Second |-> IF p \in gone THEN NoFile ELSE done[p]]
          /\ UNCHANGED faults \/ \E kind : Fault(kind)
    BY <1>4 DEF Cleanup
  <2>. QED
    BY <2>1, <2>2 DEF Cleaned
<1>5. CASE ListReady \/ InsertSamples \/ InsertFails \/ TakeRollups
  BY <1>5 DEF ListReady, InsertSamples, InsertFails, TakeRollups, CallFails, Still
<1>6. CASE UpsertRollups \/ UpsertFails \/ BeginFinal \/ FinalUpsert
  BY <1>6 DEF UpsertRollups, UpsertFails, BeginFinal, FinalUpsert, CallFails, Still
<1>7. CASE DrainOutages \/ InsertOutages \/ InsertOutagesFails \/ FinalDrain \/ FinalInsert
  BY <1>7 DEF DrainOutages, InsertOutages, InsertOutagesFails, FinalDrain, FinalInsert,
     CallFails, Still
<1>8. CASE RollupSink \/ RecordOutage \/ Trigger \/ Stop \/ Expire
  BY <1>8 DEF RollupSink, RecordOutage, Trigger, Stop, Expire, Still
<1>. QED
  BY <1>1, <1>2, <1>3, <1>4, <1>5, <1>6, <1>7, <1>8 DEF FlushLoop, Environment

LEMMA TakenOn ==
  ASSUME TypeOK, NEW p \in Existing(ready), Taken(p)
  PROVE  /\ ndjson' = ndjson
         /\ ready' = [ready EXCEPT ![p] = NoFile]
         /\ \A q \in Second : On(ndjson', ready', q) \subseteq On(ndjson, ready, q)
         /\ done' \in [Second -> File \cup {NoFile}]
         /\ Existing(done) \subseteq Existing(done')
BY ConsumedOn DEF Taken, TypeOK, RemoveReady, MarkDone, Existing

LEMMA CleanedType ==
  ASSUME TypeOK, Cleaned
  PROVE  done' \in [Second -> File \cup {NoFile}]
BY DEF TypeOK, Cleaned

LEMMA SpoolType ==
  ASSUME TypeInv, FlushLoop \/ Environment, Remember
  PROVE  TypeOK'
<1>. USE DEF TypeInv
<1>1. FilesOK'
  <2>1. CASE Own
    BY <2>1, StepType DEF Own, Step
  <2>2. CASE Still
    BY <2>2, FaultType DEF Still, disk, TypeOK, FilesOK
  <2>3. CASE Cleaned
    BY <2>3, CleanedType, FaultType DEF Cleaned, TypeOK, FilesOK
  <2>4. CASE \E p \in Existing(ready) : Taken(p)
    BY <2>4, TakenOn DEF Taken, TypeOK, FilesOK
  <2>. QED
    BY <2>1, <2>2, <2>3, <2>4, SpoolCases
<1>2. durable' \subseteq Sample
  BY <1>1, RememberType DEF FilesOK
<1>. QED
  BY <1>1, <1>2 DEF FilesOK, TypeOK

-----------------------------------------------------------------------------
(* The loop.                                                               *)

\* The ready files that there are remain until the flusher takes them.
LEMMA OwnReady ==
  ASSUME TypeOK, Own
  PROVE  Existing(ready) \subseteq Existing(ready') /\ done' = done
<1>1. CASE Grown
  BY <1>1 DEF Grown
<1>2. CASE /\ fd = "open" /\ Retire /\ UNCHANGED done
  <2>1. Flushed # NoFile
    BY <1>2, FlushedIsFile, FileFacts DEF TypeOK
  <2>. QED
    BY <1>2, <2>1, ClockFacts DEF Retire, TypeOK, Existing
<1>3. CASE Open \/ OpenFails
  BY <1>3 DEF Open, OpenFails, PromotedReady, Existing
<1>. QED
  BY <1>1, <1>2, <1>3, OwnCases DEF RotateNew, RotateCannotOpen

\* Faults are only ever added.
LEMMA OwnFaults ==
  ASSUME TypeOK, Own
  PROVE  faults' >= faults
<1>0. faults \in Nat
  BY SpoolAssumption DEF TypeOK
<1>1. WriteFails => faults' >= faults
  BY <1>0 DEF WriteFails, Fault
<1>2. CASE AppendSample \/ Flush
  BY <1>0, <1>1, <1>2 DEF AppendSample, AppendBuffered, AppendSpills, AppendRefused, Flush
<1>3. CASE RotateOk \/ RotateFails
  BY <1>0, <1>1, <1>3 DEF RotateOk, RotateIdle, RotateNew, RotateFails,
     RotateFlushFails, RotateStops, RotateCannotOpen, Fault
<1>4. CASE Close \/ Crash \/ Open \/ OpenFails \/ Tick
  BY <1>0, <1>4 DEF Close, Crash, Open, OpenFails, Tick, Fault
<1>. QED
  BY <1>2, <1>3, <1>4 DEF Own

\* Only Close and a crash end the process, and only Open starts it.
LEMMA OwnAlive ==
  /\ AppendSample \/ Flush \/ RotateOk \/ RotateFails => (fd = "down" <=> fd' = "down")
  /\ Tick => fd' = fd
  /\ Close \/ Crash => fd' = "down"
  /\ Open => fd = "down" /\ fd' = "open"
  /\ OpenFails => fd = "down" /\ fd' = "down"
<1>1. WriteFails => fd # "down" /\ fd' # "down"
  BY DEF WriteFails
<1>2. AppendSample \/ Flush => (fd = "down" <=> fd' = "down")
  BY <1>1 DEF AppendSample, AppendBuffered, AppendSpills, AppendRefused, Flush
<1>3. RotateOk \/ RotateFails => (fd = "down" <=> fd' = "down")
  BY <1>1 DEF RotateOk, RotateIdle, RotateNew, RotateFails, RotateFlushFails,
     RotateStops, RotateCannotOpen
<1>. QED
  BY <1>2, <1>3 DEF Tick, Close, Crash, Open, OpenFails

LEMMA LoopType ==
  ASSUME TypeInv, FlushLoop \/ Environment
  PROVE  LoopOK'
<1>. USE DEF TypeInv, LoopOK, Place, loop
<1>0. Own => Existing(ready) \subseteq Existing(ready') /\ done' = done
  BY OwnReady
<1>1. CASE SpoolSink \/ SpoolFlush \/ TimePasses
  BY <1>0, <1>1, OwnAlive DEF SpoolSink, SpoolFlush, TimePasses, Own, Existing
<1>2. CASE RollupSink \/ RecordOutage \/ Trigger \/ Stop
  BY <1>2 DEF RollupSink, RecordOutage, Trigger, Stop, disk, Existing
<1>3. CASE Expire
  BY <1>3 DEF Expire, disk, Existing
<1>4. CASE Exit \/ Die
  BY <1>0, <1>4, OwnAlive DEF Exit, Die, Forget, Own, Existing
<1>5. CASE Start
  BY <1>0, <1>5, OwnAlive DEF Start, Own, Existing
<1>6. CASE BeginCycle
  BY <1>0, <1>6, OwnAlive DEF BeginCycle, Own, Existing
<1>7. CASE ListReady
  BY <1>7 DEF ListReady, disk, Existing
<1>8. CASE SkipFile
  <2>1. Oldest \in Existing(ready)
    BY <1>8, OldestListed DEF SkipFile
  <2>. QED
    BY <1>8, <2>1 DEF SkipFile, RemoveReady, files, Existing, TypeOK
<1>9. CASE InsertSamples \/ InsertFails
  BY <1>9 DEF InsertSamples, InsertFails, Decoded, disk, Existing
<1>10. CASE RenameDone
  <2>1. Oldest \in Existing(ready)
    BY <1>10, OldestListed DEF RenameDone
  <2>. QED
    BY <1>10, <2>1 DEF RenameDone, MarkDone, files, Existing, TypeOK
<1>11. CASE TakeRollups \/ UpsertRollups \/ UpsertFails \/ DrainOutages
  BY <1>11 DEF TakeRollups, UpsertRollups, UpsertFails, DrainOutages, disk, Existing
<1>12. CASE InsertOutages \/ InsertOutagesFails \/ BeginFinal
  BY <1>12 DEF InsertOutages, InsertOutagesFails, BeginFinal, disk, Existing
<1>13. CASE FinalUpsert \/ FinalDrain \/ FinalInsert
  BY <1>13 DEF FinalUpsert, FinalDrain, FinalInsert, disk, Existing
<1>14. CASE Cleanup
  BY <1>14 DEF Cleanup, Existing
<1>. QED
  BY <1>1, <1>2, <1>3, <1>4, <1>5, <1>6, <1>7, <1>8, <1>9, <1>10, <1>11, <1>12, <1>13,
     <1>14 DEF FlushLoop, Environment

LEMMA TypeInvInit == InitFlusher => TypeInv
<1>. SUFFICES ASSUME InitFlusher PROVE TypeInv
  OBVIOUS
<1>1. TypeOK
  BY TypeInit DEF InitFlusher
<1>2. LoopOK
  BY DEF InitFlusher, Init, LoopOK, Place, Existing
<1>3. SamplesOK
  BY DEF InitFlusher, SamplesOK
<1>4. EventsOK
  BY EmptySeq, FlusherAssumption DEF InitFlusher, EventsOK
<1>. QED
  BY <1>1, <1>2, <1>3, <1>4 DEF TypeInv

LEMMA TypeInvStep == TypeInv /\ [NextFlusher]_allVars => TypeInv'
<1>1. ASSUME TypeInv, NextFlusher PROVE TypeInv'
  BY <1>1, SpoolType, LoopType, SamplesType, EventsType DEF NextFlusher, TypeInv
<1>2. ASSUME TypeInv, UNCHANGED allVars PROVE TypeInv'
  BY <1>2 DEF allVars, vars, loop, rollups, outages, store, TypeInv, TypeOK, LoopOK,
     SamplesOK, EventsOK, Existing
<1>. QED
  BY <1>1, <1>2

LEMMA TypeInvHolds == SpecFlusher => []TypeInv
BY TypeInvInit, TypeInvStep, PTL DEF SpecFlusher

LEMMA EventsNumbered ==
  ASSUME EventsOK
  PROVE  \A e \in ToSet(pending \o batch \o odb) : e \in 1 .. raised
<1>1. pending \o batch \in Seq(1 .. raised)
  BY ConcatProperties DEF EventsOK
<1>2. (pending \o batch) \o odb \in Seq(1 .. raised)
  BY <1>1, ConcatProperties DEF EventsOK
<1>. DEFINE all == pending \o batch \o odb
<1>3. DOMAIN all = 1 .. Len(all) /\ \A i \in 1 .. Len(all) : all[i] \in 1 .. raised
  BY <1>2, LenProperties, ElementOfSeq
<1>. QED
  BY <1>3 DEF ToSet

(* The agent's state is well formed whatever call fails and whenever it dies: *)
(* the flush loop holds rows and events only while it writes them, and the    *)
(* files that it has listed are still there when it comes to them.            *)
THEOREM TypesCorrect == SpecFlusher => []TypeFlusher
<1>1. TypeInv => TypeFlusher
  BY EventsNumbered DEF TypeInv, TypeFlusher, LoopOK, Place, SamplesOK, EventsOK
<1>. QED
  BY <1>1, TypeInvHolds, PTL

-----------------------------------------------------------------------------
(* Names and places, in the agent.                                         *)

\* As in Spool, but without the *.done.ndjson files staying: Cleanup deletes them.
PlacesInv == NamesDistinct /\ SamplesApart

LEMMA PlacesStep ==
  ASSUME TypeInv, PlacesInv, "burst" \notin Faults, [NextFlusher]_allVars
  PROVE  PlacesInv'
<1>. USE DEF TypeInv, PlacesInv
<1>1. CASE Own /\ Remember
  <2>1. Next
    BY <1>1 DEF Next, Step, Own
  <2>. QED
    BY <2>1, NamesStep, ApartStep
<1>2. CASE \E p \in Existing(ready) : Taken(p)
  <2>1. PICK p \in Existing(ready) : Taken(p)
    BY <1>2
  <2>2. NamesDistinct'
    BY <2>1 DEF Taken, RemoveReady, MarkDone, NamesDistinct, TypeOK, Existing
  <2>3. SamplesApart'
    BY <2>1, TakenOn, ConsumedApart DEF Taken
  <2>. QED
    BY <2>2, <2>3
<1>3. CASE Cleaned
  BY <1>3 DEF Cleaned, NamesDistinct, SamplesApart
<1>4. CASE Still
  BY <1>4 DEF Still, disk, NamesDistinct, SamplesApart
<1>5. CASE UNCHANGED allVars
  BY <1>5 DEF allVars, vars, NamesDistinct, SamplesApart
<1>. QED
  BY <1>1, <1>2, <1>3, <1>4, <1>5, SpoolCases DEF NextFlusher

LEMMA PlacesHold ==
  ASSUME "burst" \notin Faults
  PROVE  SpecFlusher => []PlacesInv
<1>1. InitFlusher => PlacesInv
  BY NamesInit, ApartInit DEF InitFlusher, PlacesInv
<1>2. TypeInv /\ PlacesInv /\ [NextFlusher]_allVars => PlacesInv'
  BY PlacesStep
<1>. QED
  BY <1>1, <1>2, TypeInvHolds, PTL DEF SpecFlusher

-----------------------------------------------------------------------------
(* Rollups.                                                                *)

\* A sample is handed to the accumulator once, is in one of the places between it and
\* ping_rollups, and leaves the flusher's hands whether or not the upsert worked.
RollupInv ==
  /\ hand \in 0 .. seen
  /\ acc \subseteq 1 .. seen /\ rows \subseteq 1 .. seen
  /\ hand \notin acc /\ hand \notin rows
  /\ acc \cap rows = {}
  /\ \A s \in Sample :
       /\ rolled[s] \in {0, 1}
       /\ rolled[s] = 1 => s <= seen /\ s \notin acc /\ s \notin rows /\ s # hand

LEMMA RollupInit == InitFlusher => RollupInv
BY DEF InitFlusher, Init, RollupInv, NoSample

\* Rows that are counted, and those that are given up, are let go.
LEMMA RowsLetGo ==
  ASSUME TypeInv, RollupInv, UNCHANGED <<seen, hand, acc>>, rows' = {},
         rolled' = Counted(rolled, rows) \/ rolled' = rolled
  PROVE  RollupInv'
<1>1. \A s \in Sample : rolled'[s] = rolled[s] \/ (s \in rows /\ rolled'[s] = rolled[s] + 1)
  BY DEF Counted
<1>2. \A s \in Sample : s \in rows => rolled[s] = 0 /\ s <= seen /\ s \notin acc /\ s # hand
  BY DEF RollupInv
<1>. QED
  BY <1>1, <1>2 DEF RollupInv

LEMMA RollupStep ==
  ASSUME TypeInv, RollupInv, [NextFlusher]_allVars
  PROVE  RollupInv'
<1>0. seen \in Nat
  BY SpoolAssumption DEF TypeInv, TypeOK
<1>1. CASE SpoolSink
  <2>1. seen' = seen + 1 /\ hand' = seen' /\ UNCHANGED <<acc, rows, rolled>>
    BY <1>1 DEF SpoolSink, AppendSample, AppendBuffered, AppendSpills, AppendRefused,
       Offer, rollups, store
  <2>. QED
    BY <1>0, <2>1 DEF RollupInv, TypeInv, SamplesOK
<1>2. CASE RollupSink
  BY <1>0, <1>2 DEF RollupSink, Sample, RollupInv, NoSample, store, disk
<1>3. CASE TakeRollups \/ BeginFinal
  <2>1. rows = {} \/ BeginFinal
    BY <1>3 DEF TakeRollups, TypeInv, SamplesOK
  <2>2. UNCHANGED <<hand, rolled, seen>> /\ acc' \subseteq acc /\ rows' \subseteq acc
        /\ acc' \cap rows' = {}
    BY <1>3 DEF TakeRollups, BeginFinal, disk, store
  <2>. QED
    BY <1>0, <2>2 DEF RollupInv
<1>4. CASE UpsertRollups \/ UpsertFails \/ FinalUpsert
  BY <1>4, RowsLetGo DEF UpsertRollups, UpsertFails, FinalUpsert, disk, store
<1>5. CASE Exit \/ Die
  BY <1>0, <1>5
     DEF Sample, Exit, Die, Forget, Close, Crash, files, store, RollupInv, NoSample
<1>6. CASE UNCHANGED <<seen, hand, acc, rows, rolled>>
  BY <1>6 DEF RollupInv
<1>7. CASE \/ SpoolFlush \/ RecordOutage \/ Trigger \/ Stop \/ TimePasses \/ Expire \/ Start
           \/ BeginCycle \/ ListReady \/ SkipFile \/ InsertSamples \/ InsertFails
           \/ RenameDone \/ DrainOutages \/ InsertOutages \/ InsertOutagesFails
           \/ Cleanup \/ FinalDrain \/ FinalInsert
  <2>1. UNCHANGED <<hand, acc, rows, rolled>>
    BY <1>7 DEF SpoolFlush, RecordOutage, Trigger, Stop, TimePasses, Expire, Start,
       BeginCycle, ListReady, SkipFile, InsertSamples, InsertFails, RenameDone,
       DrainOutages, InsertOutages, InsertOutagesFails, Cleanup, FinalDrain, FinalInsert,
       rollups, store
  <2>2. UNCHANGED seen
    BY <1>7 DEF SpoolFlush, RecordOutage, Trigger, Stop, TimePasses, Expire, Start,
       BeginCycle, ListReady, SkipFile, InsertSamples, InsertFails, RenameDone,
       DrainOutages, InsertOutages, InsertOutagesFails, Cleanup, FinalDrain, FinalInsert,
       disk, Flush, Tick, Open, OpenFails, RotateOk, RotateFails
  <2>. QED
    BY <1>6, <2>1, <2>2
<1>8. CASE UNCHANGED allVars
  BY <1>6, <1>8 DEF allVars, vars, rollups, store
<1>. QED
  BY <1>1, <1>2, <1>3, <1>4, <1>5, <1>7, <1>8 DEF NextFlusher, FlushLoop, Environment

(* ping_rollups counts no sample twice, for any faults: not if UpsertRollups  *)
(* fails after the database has committed, nor if the process ends with rows  *)
(* in its hands, nor in the final flush.                                      *)
THEOREM RollupsCountOnce == SpecFlusher => []RollupOnce
<1>1. TypeInv /\ RollupInv /\ [NextFlusher]_allVars => RollupInv'
  BY RollupStep
<1>2. RollupInv => RollupOnce
  BY DEF RollupInv, RollupOnce
<1>. QED
  BY RollupInit, <1>1, <1>2, TypeInvHolds, PTL DEF SpecFlusher

-----------------------------------------------------------------------------
(* Inserting a file and renaming it.                                       *)

\* Between the two the database has the file's lines.
RenameInv == pc = "rename" => \A s \in ready[Oldest].lines : db[s] > 0

LEMMA RenameStep ==
  ASSUME TypeInv, RenameInv, [NextFlusher]_allVars
  PROVE  RenameInv'
<1>. SUFFICES ASSUME pc' = "rename" PROVE \A s \in ready'[Oldest'].lines : db'[s] > 0
  BY DEF RenameInv
<1>1. CASE InsertSamples
  <2>1. Oldest \in Existing(ready)
    BY <1>1, OldestListed DEF InsertSamples, Decoded
  <2>2. ready[Oldest].lines \subseteq Sample
    BY <2>1, FileFacts DEF TypeInv, TypeOK, Existing
  <2>3. Oldest' = Oldest /\ ready' = ready /\ db' = Counted(db, ready[Oldest].lines)
    BY <1>1 DEF InsertSamples, Oldest, disk
  <2>. QED
    BY <2>2, <2>3 DEF Counted, TypeInv, SamplesOK
<1>2. CASE UNCHANGED <<pc, todo, ready, db>>
  BY <1>2 DEF RenameInv, Oldest
<1>3. CASE SpoolSink \/ SpoolFlush \/ TimePasses
  <2>1. UNCHANGED ready
    BY <1>3 DEF SpoolSink, SpoolFlush, TimePasses, AppendSample, AppendBuffered,
       AppendSpills, AppendRefused, Flush, Tick, files
  <2>. QED
    BY <1>2, <1>3, <2>1 DEF SpoolSink, SpoolFlush, TimePasses, loop, store
<1>4. CASE RollupSink \/ RecordOutage \/ Trigger \/ Stop \/ Expire
  BY <1>2, <1>4 DEF RollupSink, RecordOutage, Trigger, Stop, Expire, disk, loop, store
<1>5. CASE Exit \/ Die \/ Start
  BY <1>5 DEF Exit, Die, Forget, Start, Open, OpenFails, TypeInv, LoopOK
<1>6. CASE \/ BeginCycle \/ ListReady \/ SkipFile \/ InsertFails \/ RenameDone
           \/ TakeRollups \/ UpsertRollups \/ UpsertFails \/ DrainOutages
           \/ InsertOutages \/ InsertOutagesFails \/ Cleanup \/ BeginFinal
           \/ FinalUpsert \/ FinalDrain \/ FinalInsert
  BY <1>6 DEF BeginCycle, ListReady, SkipFile, InsertFails, RenameDone, TakeRollups,
     UpsertRollups, UpsertFails, DrainOutages, InsertOutages, InsertOutagesFails,
     Cleanup, BeginFinal, FinalUpsert, FinalDrain, FinalInsert, Decoded
<1>7. CASE UNCHANGED allVars
  BY <1>2, <1>7 DEF allVars, vars, loop, store
<1>. QED
  BY <1>1, <1>3, <1>4, <1>5, <1>6, <1>7 DEF NextFlusher, FlushLoop, Environment

LEMMA RenameHolds == SpecFlusher => []RenameInv
<1>1. InitFlusher => RenameInv
  BY DEF InitFlusher, RenameInv
<1>2. TypeInv /\ RenameInv /\ [NextFlusher]_allVars => RenameInv'
  BY RenameStep
<1>. QED
  BY <1>1, <1>2, TypeInvHolds, PTL DEF SpecFlusher

\* The file at hand is all that waits under its name.
LEMMA OldestOn ==
  ASSUME TypeInv, NamesDistinct, todo # {}
  PROVE  /\ On(ndjson, ready, Oldest) = ready[Oldest].lines
         /\ ready[Oldest].lines \subseteq Sample
         /\ ready[Oldest].lines \subseteq Held
<1>1. Oldest \in Existing(ready) /\ Oldest \in Second
  BY OldestListed
<1>2. ready[Oldest] # NoFile /\ ndjson[Oldest] = NoFile
  BY <1>1 DEF Existing, NamesDistinct
<1>. QED
  BY <1>1, <1>2, FileFacts DEF On, TypeInv, TypeOK, Held, Lines

-----------------------------------------------------------------------------
(* Copies.                                                                 *)

\* A sample of which there may be one copy too many for another insert is neither in
\* the buffer nor in a file that will be read again: only in the one being renamed.
CopyInv ==
  \A s \in Sample :
    /\ db[s] > 0 => s <= seen
    /\ db[s] <= 1 + faults
    /\ db[s] > faults =>
         /\ s \notin buf
         /\ \A p \in Second : s \in On(ndjson, ready, p) => pc = "rename" /\ p = Oldest

\* A step that inserts nothing and writes nothing twice.
LEMMA CopiesKept ==
  ASSUME TypeInv, CopyInv, NEW W, W \subseteq buf,
         \A p \in Second : On(ndjson', ready', p) \subseteq On(ndjson, ready, p) \cup W,
         buf' \subseteq (buf \ W) \cup (seen + 1 .. seen'),
         seen' \in Nat, seen' >= seen, db' = db, faults' \in Nat, faults' >= faults,
         pc # "rename" \/ UNCHANGED <<pc, todo>> \/ faults' = faults + 1
  PROVE  CopyInv'
<1>. SUFFICES ASSUME NEW s \in Sample
              PROVE  /\ db'[s] > 0 => s <= seen'
                     /\ db'[s] <= 1 + faults'
                     /\ db'[s] > faults' =>
                          /\ s \notin buf'
                          /\ \A p \in Second :
                               s \in On(ndjson', ready', p) => pc' = "rename" /\ p = Oldest'
  BY DEF CopyInv
<1>0. db[s] \in Nat /\ seen \in Nat /\ faults \in Nat /\ s \in Nat
  BY SpoolAssumption DEF TypeInv, TypeOK, SamplesOK, Sample
<1>1. db'[s] > 0 => s <= seen'
  BY <1>0 DEF CopyInv
<1>2. db'[s] <= 1 + faults'
  BY <1>0 DEF CopyInv
<1>3. ASSUME db'[s] > faults'
      PROVE  /\ s \notin buf'
             /\ \A p \in Second : s \in On(ndjson', ready', p) => pc' = "rename" /\ p = Oldest'
  <2>1. db[s] > faults /\ s <= seen /\ faults' # faults + 1
    BY <1>0, <1>3 DEF CopyInv
  <2>2. s \notin buf /\ s \notin seen + 1 .. seen'
    BY <1>0, <2>1 DEF CopyInv
  <2>3. \A p \in Second : s \in On(ndjson', ready', p) => pc = "rename" /\ p = Oldest
    BY <2>1, <2>2 DEF CopyInv
  <2>. QED
    BY <2>1, <2>2, <2>3 DEF Oldest
<1>. QED
  BY <1>1, <1>2, <1>3

\* An insert of the file at hand, which is either renamed next or, as the call is said
\* to have failed, counted as a fault.
LEMMA InsertCopies ==
  ASSUME TypeInv, PlacesInv, CopyInv, UNCHANGED disk, pc # "rename", todo # {},
         db' = Counted(db, ready[Oldest].lines),
         \/ UNCHANGED <<faults, todo>> /\ pc' = "rename"
         \/ faults' = faults + 1
  PROVE  CopyInv'
<1>. DEFINE F == ready[Oldest].lines
<1>0. On(ndjson, ready, Oldest) = F /\ Oldest \in Second /\ F \subseteq Sample
  BY OldestOn, OldestListed DEF PlacesInv
<1>. HIDE DEF F
<1>. SUFFICES ASSUME NEW s \in Sample
              PROVE  /\ db'[s] > 0 => s <= seen
                     /\ db'[s] <= 1 + faults'
                     /\ db'[s] > faults' =>
                          /\ s \notin buf
                          /\ \A p \in Second :
                               s \in On(ndjson, ready, p) => pc' = "rename" /\ p = Oldest'
  BY DEF CopyInv, disk
<1>1. db[s] \in Nat /\ seen \in Nat /\ faults \in Nat /\ s \in Nat
  BY SpoolAssumption DEF TypeInv, TypeOK, SamplesOK, Sample
<1>2. CASE s \notin F
  <2>1. db'[s] = db[s]
    BY <1>2 DEF Counted, F
  <2>2. db'[s] > faults' => db[s] > faults
    BY <1>1, <2>1
  <2>3. db[s] > faults => s \notin buf /\ \A p \in Second : s \notin On(ndjson, ready, p)
    BY DEF CopyInv
  <2>. QED
    BY <1>1, <2>1, <2>2, <2>3 DEF CopyInv
<1>3. CASE s \in F
  <2>1. db[s] <= faults /\ s \in 1 .. seen
    BY <1>0, <1>1, <1>3 DEF CopyInv, PlacesInv, SamplesApart
  <2>2. db'[s] = db[s] + 1
    BY <1>3 DEF Counted, F
  <2>3. s \notin buf /\ \A p \in Second : s \in On(ndjson, ready, p) => p = Oldest
    BY <1>0, <1>3 DEF PlacesInv, SamplesApart
  <2>4. db'[s] > faults' => pc' = "rename" /\ Oldest' = Oldest
    BY <1>1, <2>1, <2>2 DEF Oldest, disk
  <2>. QED
    BY <1>1, <2>1, <2>2, <2>3, <2>4
<1>. QED
  BY <1>2, <1>3

LEMMA CopyStep ==
  ASSUME TypeInv, PlacesInv, CopyInv, "burst" \notin Faults, [NextFlusher]_allVars
  PROVE  CopyInv'
<1>0. seen \in Nat /\ faults \in Nat /\ seen' \in Nat /\ faults' \in Nat
  BY TypeInvStep, SpoolAssumption DEF TypeInv, TypeOK
<1>1. CASE BeginCycle \/ SpoolSink \/ SpoolFlush \/ TimePasses \/ Exit \/ Die \/ Start
  <2>1. Own /\ UNCHANGED db
    BY <1>1 DEF BeginCycle, SpoolSink, SpoolFlush, TimePasses, Exit, Die, Start, Forget,
       Own, store
  <2>2. PICK W : Kept(W)
    BY <2>1, OwnKeeps DEF TypeInv, PlacesInv
  <2>3. pc # "rename" \/ UNCHANGED <<pc, todo>> \/ faults' = faults + 1
    BY <1>1 DEF BeginCycle, SpoolSink, SpoolFlush, TimePasses, Exit, Die, Start, loop,
       Crash, Fault, Open, OpenFails, TypeInv, LoopOK
  <2>4. faults' >= faults
    BY <1>0, <2>1, OwnFaults DEF TypeInv
  <2>. QED
    BY <1>0, <2>1, <2>2, <2>3, <2>4, CopiesKept DEF Kept
<1>2. CASE InsertSamples
  BY <1>2, InsertCopies DEF InsertSamples, Decoded
<1>4. CASE /\ UNCHANGED <<ndjson, buf, seen, db>> /\ faults' >= faults
           /\ \A p \in Second : On(ndjson', ready', p) \subseteq On(ndjson, ready, p)
           /\ pc # "rename" \/ UNCHANGED <<pc, todo>> \/ faults' = faults + 1
  <2>1. \A p \in Second : On(ndjson', ready', p) \subseteq On(ndjson, ready, p) \cup {}
    BY <1>4
  <2>2. buf' \subseteq (buf \ {}) \cup (seen + 1 .. seen') /\ seen' >= seen
    BY <1>0, <1>4
  <2>. QED
    BY <1>0, <1>4, <2>1, <2>2, CopiesKept
<1>5. CASE SkipFile
  <2>1. Oldest \in Existing(ready) /\ pc # "rename"
    BY <1>5, OldestListed DEF SkipFile
  <2>2. CASE RemoveReady(Oldest)
    <3>1. ndjson' = ndjson
          /\ \A p \in Second : On(ndjson', ready', p) \subseteq On(ndjson, ready, p)
      BY <2>1, <2>2, ConsumedOn DEF TypeInv
    <3>2. UNCHANGED <<buf, seen, db>> /\ faults' >= faults
      BY <1>0, <1>5 DEF SkipFile, Fault, store
    <3>. QED
      BY <1>4, <2>1, <3>1, <3>2
  <2>3. CASE UNCHANGED files
    BY <1>0, <1>4, <1>5, <2>1, <2>3 DEF SkipFile, Fault, files, store
  <2>. QED
    BY <1>5, <2>2, <2>3 DEF SkipFile
<1>6. CASE RenameDone
  <2>1. Oldest \in Existing(ready) /\ Oldest \in Second
    BY <1>6, OldestListed DEF RenameDone, TypeInv, LoopOK
  <2>2. CASE Fault("renamedone") /\ UNCHANGED files
    BY <1>0, <1>4, <1>6, <2>2 DEF RenameDone, Fault, files, store
  <2>3. CASE MarkDone(Oldest) /\ UNCHANGED faults
    <3>1. \A p \in Second : p # Oldest => On(ndjson', ready', p) = On(ndjson, ready, p)
      BY <2>3 DEF MarkDone, On, TypeInv, TypeOK
    <3>2. On(ndjson', ready', Oldest) = {}
      BY <2>1, <2>3 DEF MarkDone, On, Existing, TypeInv, TypeOK, PlacesInv, NamesDistinct
    <3>. QED
      BY <1>6, <2>3, <3>1, <3>2 DEF RenameDone, CopyInv, store
  <2>. QED
    BY <1>6, <2>2, <2>3 DEF RenameDone
<1>3. CASE InsertFails
  <2>1. CASE CallFails /\ UNCHANGED db
    BY <1>0, <1>3, <1>4, <2>1 DEF InsertFails, Decoded, CallFails, Fault, disk
  <2>2. CASE Fault("ack") /\ db' = Counted(db, ready[Oldest].lines)
    BY <1>3, <2>2, InsertCopies DEF InsertFails, Decoded, Fault
  <2>. QED
    BY <1>3, <2>1, <2>2 DEF InsertFails
<1>7. CASE \/ ListReady \/ TakeRollups \/ UpsertRollups \/ UpsertFails \/ DrainOutages \/ InsertOutages \/ InsertOutagesFails
           \/ Cleanup \/ BeginFinal \/ FinalUpsert \/ FinalDrain \/ FinalInsert
  BY <1>0, <1>4, <1>7 DEF ListReady, TakeRollups, UpsertRollups,
     UpsertFails, DrainOutages, InsertOutages, InsertOutagesFails, Cleanup, BeginFinal,
     FinalUpsert, FinalDrain, FinalInsert, CallFails, Fault, disk, store
<1>8. CASE RollupSink \/ RecordOutage \/ Trigger \/ Stop \/ Expire
  BY <1>0, <1>4, <1>8 DEF RollupSink, RecordOutage, Trigger, Stop, Expire, disk, loop,
     store
<1>9. CASE UNCHANGED allVars
  BY <1>9 DEF allVars, vars, loop, store, CopyInv, Oldest
<1>. QED
  BY <1>1, <1>2, <1>3, <1>5, <1>6, <1>7, <1>8, <1>9
     DEF NextFlusher, FlushLoop, Environment

(* However often calls fail, acknowledgements are lost and the process dies,  *)
(* a sample has at most one copy in ping_samples for each of those faults,    *)
(* and the one it should have.                                                *)
THEOREM CopiesAreBounded ==
  ASSUME "burst" \notin Faults
  PROVE  SpecFlusher => []CopiesBounded
<1>1. InitFlusher => CopyInv
  BY DEF InitFlusher, Init, CopyInv
<1>2. TypeInv /\ PlacesInv /\ CopyInv /\ [NextFlusher]_allVars => CopyInv'
  BY CopyStep
<1>3. CopyInv => CopiesBounded
  BY DEF CopyInv, CopiesBounded
<1>. QED
  BY <1>1, <1>2, <1>3, TypeInvHolds, PlacesHold, PTL DEF SpecFlusher

-----------------------------------------------------------------------------
(* Outage events.                                                          *)

\* The events on their way, first recorded first.
Line == odb \o batch \o pending

\* A process that is neither stopped nor killed goes on for good, and each of its
\* events is somewhere on the way.
EventsInv ==
  /\ stop = FALSE
  /\ pc \notin {"finalUpsert", "finalDrain", "finalInsert", "exited", "off"}
  /\ Line = [i \in 1 .. raised |-> i]

\* The operations on the queue only move events between its parts.
LEMMA LineFacts ==
  ASSUME EventsOK
  PROVE  /\ (odb \o <<>>) \o pending = odb \o pending
         /\ (odb \o pending) \o <<>> = odb \o pending
         /\ ((odb \o batch) \o <<>>) \o pending = Line
         /\ (odb \o <<>>) \o (batch \o pending) = Line
         /\ Line \in Seq(1 .. raised)
         /\ batch = <<>> => Line = odb \o pending
<1>. DEFINE S == 1 .. raised
<1>1. odb \in Seq(S) /\ batch \in Seq(S) /\ pending \in Seq(S)
  BY DEF EventsOK
<1>. HIDE DEF S
<1>2. /\ odb \o batch \in Seq(S) /\ odb \o pending \in Seq(S)
      /\ (odb \o batch) \o pending \in Seq(S)
  BY <1>1, ConcatProperties
<1>3. odb \o <<>> = odb /\ (odb \o batch) \o <<>> = odb \o batch
      /\ (odb \o pending) \o <<>> = odb \o pending
  BY <1>1, <1>2, ConcatEmptySeq
<1>4. (odb \o batch) \o pending = odb \o (batch \o pending)
  BY <1>1, ConcatAssociative
<1>5. batch = <<>> => (odb \o batch) \o pending = odb \o pending
  BY <1>3
<1>. QED
  BY <1>2, <1>3, <1>4, <1>5 DEF Line, S

\* A recorded event comes last.
LEMMA LineGrows ==
  ASSUME TypeInv, RecordOutage
  PROVE  Line' = Append(Line, raised + 1)
<1>. DEFINE S == 1 .. raised'
<1>1. raised' = raised + 1 /\ raised' \in S /\ 1 .. raised \subseteq S /\ UNCHANGED <<odb, batch>>
      /\ pending' = Append(pending, raised + 1)
  BY DEF RecordOutage, TypeInv, EventsOK, store
<1>2. odb \in Seq(S) /\ batch \in Seq(S) /\ pending \in Seq(S)
  BY <1>1, SeqMonotonic DEF TypeInv, EventsOK
<1>. HIDE DEF S
<1>3. pending' = pending \o <<raised'>> /\ <<raised'>> \in Seq(S)
  BY <1>1, <1>2, AppendIsConcat
<1>4. odb \o batch \in Seq(S) /\ Line \in Seq(S)
  BY <1>2, ConcatProperties DEF Line
<1>5. (odb \o batch) \o (pending \o <<raised'>>) = ((odb \o batch) \o pending) \o <<raised'>>
  BY <1>2, <1>3, <1>4, ConcatAssociative
<1>6. Append(Line, raised') = Line \o <<raised'>>
  BY <1>1, <1>4, AppendIsConcat
<1>. QED
  BY <1>1, <1>3, <1>5, <1>6 DEF Line

LEMMA EventsStep ==
  ASSUME TypeInv, EventsInv, Faults \cap {"crash", "stop", "ack"} = {},
         [NextFlusher]_allVars
  PROVE  EventsInv'
<1>1. stop' = FALSE /\ pc' \notin {"finalUpsert", "finalDrain", "finalInsert", "exited", "off"}
  <2>1. CASE FlushLoop
    BY <2>1 DEF FlushLoop, BeginCycle, ListReady, SkipFile, InsertSamples, InsertFails,
       RenameDone, TakeRollups, UpsertRollups, UpsertFails, DrainOutages, InsertOutages,
       InsertOutagesFails, Cleanup, BeginFinal, FinalUpsert, FinalDrain, FinalInsert,
       Decoded, EventsInv
  <2>2. CASE Environment
    BY <2>2 DEF Environment, SpoolSink, RollupSink, SpoolFlush, RecordOutage, Trigger,
       Stop, TimePasses, Expire, Exit, Die, Start, Crash, Fault, Open, OpenFails, loop,
       EventsInv, TypeInv, LoopOK
  <2>3. CASE UNCHANGED allVars
    BY <2>3 DEF allVars, loop, EventsInv
  <2>. QED
    BY <2>1, <2>2, <2>3 DEF NextFlusher
<1>2. CASE RecordOutage
  <2>1. Line = [i \in 1 .. raised |-> i] /\ Line \in Seq(1 .. raised) /\ raised \in Nat
        /\ 1 .. raised \subseteq 1 .. raised + 1 /\ raised + 1 \in 1 .. raised + 1
        /\ raised' = raised + 1
    BY <1>2, LineFacts, FlusherAssumption DEF EventsInv, TypeInv, EventsOK, RecordOutage
  <2>2. Line \in Seq(1 .. raised + 1)
    BY <2>1, SeqMonotonic
  <2>3. Len(Line) = raised
    BY <2>1, LenProperties
  <2>. DEFINE L == Append(Line, raised + 1)
  <2>4. /\ L \in Seq(1 .. raised + 1) /\ Len(L) = raised + 1
        /\ \A i \in 1 .. raised : L[i] = i
        /\ L[raised + 1] = raised + 1
    BY <2>1, <2>2, <2>3, AppendProperties
  <2>5. L \in [1 .. raised + 1 -> 1 .. raised + 1]
    BY <2>4, LenProperties
  <2>. HIDE DEF L
  <2>6. L = [i \in 1 .. raised + 1 |-> i]
    BY <2>1, <2>4, <2>5
  <2>. QED
    BY <1>1, <1>2, <2>1, <2>6, LineGrows DEF EventsInv, L
<1>3. CASE DrainOutages
  <2>1. batch = <<>>
    BY <1>3 DEF DrainOutages, TypeInv, EventsOK
  <2>2. Line' = (odb \o pending) \o <<>>
    BY <1>3 DEF DrainOutages, Line, store
  <2>. QED
    BY <1>1, <1>3, <2>1, <2>2, LineFacts DEF DrainOutages, EventsInv, TypeInv
<1>4. CASE InsertOutages
  <2>1. Line' = ((odb \o batch) \o <<>>) \o pending
    BY <1>4 DEF InsertOutages, Line
  <2>. QED
    BY <1>1, <1>4, <2>1, LineFacts DEF InsertOutages, EventsInv, TypeInv
<1>5. CASE InsertOutagesFails
  <2>1. Line' = (odb \o <<>>) \o (batch \o pending)
    BY <1>5 DEF InsertOutagesFails, Requeue, Line, Fault
  <2>. QED
    BY <1>1, <1>5, <2>1, LineFacts DEF InsertOutagesFails, EventsInv, TypeInv
<1>6. CASE UNCHANGED <<pending, batch, raised, odb>>
  BY <1>1, <1>6 DEF EventsInv, Line
<1>7. CASE \/ BeginCycle \/ ListReady \/ SkipFile \/ InsertSamples \/ InsertFails
           \/ RenameDone \/ TakeRollups \/ UpsertRollups \/ UpsertFails \/ Cleanup
  BY <1>6, <1>7 DEF BeginCycle, ListReady, SkipFile, InsertSamples, InsertFails, RenameDone,
     TakeRollups, UpsertRollups, UpsertFails, Cleanup, outages, store
<1>8. CASE BeginFinal \/ FinalUpsert \/ FinalDrain \/ FinalInsert \/ Exit \/ Die
  BY <1>8 DEF BeginFinal, FinalUpsert, FinalDrain, FinalInsert, Exit, Die, Crash, Fault,
     EventsInv
<1>9. CASE \/ SpoolSink \/ RollupSink \/ SpoolFlush \/ Trigger \/ Stop \/ TimePasses
           \/ Expire \/ Start
  BY <1>6, <1>9 DEF SpoolSink, RollupSink, SpoolFlush, Trigger, Stop, TimePasses, Expire,
     Start, outages, store
<1>10. CASE UNCHANGED allVars
  BY <1>6, <1>10 DEF allVars, outages, store
<1>. QED
  BY <1>2, <1>3, <1>4, <1>5, <1>7, <1>8, <1>9, <1>10
     DEF NextFlusher, FlushLoop, Environment

(* While the process lives, no failing call drops an outage event, doubles it *)
(* or lets a later one overtake it, unless the database commits what it then  *)
(* reports as failed.                                                         *)
THEOREM OutagesStayInOrder ==
  ASSUME Faults \cap {"crash", "stop", "ack"} = {}
  PROVE  SpecFlusher => []OutagesInOrder
<1>1. InitFlusher => EventsInv
  <2>. SUFFICES ASSUME InitFlusher PROVE EventsInv
    OBVIOUS
  <2>1. Line = <<>> \o <<>> \o <<>> /\ raised = 0
    BY DEF InitFlusher, Line
  <2>2. <<>> \o <<>> = <<>>
    BY EmptySeq, ConcatEmptySeq
  <2>3. [i \in 1 .. 0 |-> i] = <<>>
    OBVIOUS
  <2>. QED
    BY <2>1, <2>2, <2>3 DEF InitFlusher, EventsInv
<1>2. TypeInv /\ EventsInv /\ [NextFlusher]_allVars => EventsInv'
  BY EventsStep
<1>3. EventsInv => OutagesInOrder
  BY DEF EventsInv, OutagesInOrder, Line
<1>. QED
  BY <1>1, <1>2, <1>3, TypeInvHolds, PTL DEF SpecFlusher

-----------------------------------------------------------------------------
(* Events through shutdowns and crashes.                                   *)

Ascends(q) == \A i, j \in DOMAIN q : i < j => q[i] < q[j]
Precedes(q, r) == \A i \in DOMAIN q, j \in DOMAIN r : q[i] < r[j]

\* The batch in hand and the queue may be lost with the process, but what is left of
\* the line is in order.
AscentInv ==
  /\ Ascends(odb) /\ Ascends(batch) /\ Ascends(pending)
  /\ Precedes(odb, batch) /\ Precedes(odb, pending) /\ Precedes(batch, pending)

LEMMA ConcatOrder ==
  ASSUME NEW n, NEW q \in Seq(1 .. n), NEW r \in Seq(1 .. n)
  PROVE  /\ Ascends(q) /\ Ascends(r) /\ Precedes(q, r) => Ascends(q \o r)
         /\ \A s : Precedes(q, s) /\ Precedes(r, s) => Precedes(q \o r, s)
         /\ \A s : Precedes(s, q) /\ Precedes(s, r) => Precedes(s, q \o r)
<1>1. /\ Len(q) \in Nat /\ DOMAIN q = 1 .. Len(q)
      /\ Len(r) \in Nat /\ DOMAIN r = 1 .. Len(r)
  BY LenProperties
<1>2. /\ q \o r \in Seq(1 .. n) /\ Len(q \o r) = Len(q) + Len(r)
      /\ \A i \in 1 .. Len(q) + Len(r) :
           (q \o r)[i] = IF i <= Len(q) THEN q[i] ELSE r[i - Len(q)]
  BY ConcatProperties
<1>3. DOMAIN (q \o r) = 1 .. Len(q) + Len(r)
  BY <1>2, LenProperties
<1>. DEFINE c == q \o r
<1>. HIDE DEF c
<1>4. /\ DOMAIN c = 1 .. Len(q) + Len(r)
      /\ \A i \in DOMAIN c : \/ i \in DOMAIN q /\ c[i] = q[i]
                             \/ i - Len(q) \in DOMAIN r /\ i > Len(q) /\ c[i] = r[i - Len(q)]
  BY <1>1, <1>2, <1>3 DEF c
<1>5. Ascends(q) /\ Ascends(r) /\ Precedes(q, r) => Ascends(c)
  BY <1>1, <1>4 DEF Ascends, Precedes
<1>6. \A s : Precedes(q, s) /\ Precedes(r, s) => Precedes(c, s)
  BY <1>4 DEF Precedes
<1>7. \A s : Precedes(s, q) /\ Precedes(s, r) => Precedes(s, c)
  BY <1>4 DEF Precedes
<1>. QED
  BY <1>5, <1>6, <1>7 DEF c

LEMMA EmptyOrder ==
  ASSUME NEW q
  PROVE  Ascends(<<>>) /\ Precedes(<<>>, q) /\ Precedes(q, <<>>)
BY DEF Ascends, Precedes

LEMMA AscentStep ==
  ASSUME TypeInv, AscentInv, "ack" \notin Faults, [NextFlusher]_allVars
  PROVE  AscentInv'
<1>. DEFINE S == 1 .. raised
<1>0. odb \in Seq(S) /\ batch \in Seq(S) /\ pending \in Seq(S)
  BY DEF TypeInv, EventsOK
<1>. USE EmptyOrder
<1>1. CASE RecordOutage
  <2>1. pending' = Append(pending, raised + 1) /\ UNCHANGED <<odb, batch>> /\ raised \in Nat
    BY <1>1 DEF RecordOutage, TypeInv, EventsOK, store
  <2>2. pending \in Seq(Nat) /\ raised + 1 \in Nat
    BY <1>0, <2>1, SeqMonotonic
  <2>3. /\ Len(pending) \in Nat /\ DOMAIN pending = 1 .. Len(pending)
        /\ pending' \in Seq(Nat) /\ Len(pending') = Len(pending) + 1
        /\ \A i \in 1 .. Len(pending) : pending'[i] = pending[i]
        /\ pending'[Len(pending) + 1] = raised + 1
    BY <2>1, <2>2, AppendProperties, LenProperties
  <2>4. DOMAIN pending' = 1 .. Len(pending) + 1
    BY <2>3, LenProperties
  <2>5. /\ \A i \in DOMAIN odb : odb[i] \in 1 .. raised
        /\ \A i \in DOMAIN batch : batch[i] \in 1 .. raised
        /\ \A i \in DOMAIN pending : pending[i] \in 1 .. raised
    BY <1>0, LenProperties, ElementOfSeq
  <2>. QED
    BY <2>1, <2>3, <2>4, <2>5 DEF AscentInv, Ascends, Precedes
<1>2. CASE DrainOutages \/ FinalDrain
  <2>1. odb' = odb /\ batch' = pending /\ pending' = <<>>
    BY <1>2 DEF DrainOutages, FinalDrain, store
  <2>. QED
    BY <2>1 DEF AscentInv
<1>3. CASE odb' = odb \o batch /\ batch' = <<>> /\ pending' = pending
  BY <1>0, <1>3, ConcatOrder DEF AscentInv
<1>4. CASE odb' = odb /\ batch' = <<>> /\ pending' = pending
  BY <1>4 DEF AscentInv
<1>5. CASE InsertOutages \/ FinalInsert
  BY <1>3, <1>4, <1>5 DEF InsertOutages, FinalInsert
<1>6. CASE InsertOutagesFails
  <2>1. odb' = odb /\ pending' = batch \o pending /\ batch' = <<>>
    BY <1>6 DEF InsertOutagesFails, Fault, Requeue
  <2>. QED
    BY <1>0, <2>1, ConcatOrder DEF AscentInv
<1>7. CASE Exit \/ Die
  <2>1. odb' = odb /\ pending' = <<>> /\ batch' = <<>>
    BY <1>7 DEF Exit, Die, Forget, store
  <2>. QED
    BY <2>1 DEF AscentInv
<1>8. CASE UNCHANGED <<pending, batch, odb>>
  BY <1>8 DEF AscentInv
<1>9. CASE \/ BeginCycle \/ ListReady \/ SkipFile \/ InsertSamples \/ InsertFails
           \/ RenameDone \/ TakeRollups \/ UpsertRollups \/ UpsertFails \/ Cleanup
           \/ BeginFinal \/ FinalUpsert
  BY <1>8, <1>9 DEF BeginCycle, ListReady, SkipFile, InsertSamples, InsertFails, RenameDone,
     TakeRollups, UpsertRollups, UpsertFails, Cleanup, BeginFinal, FinalUpsert, outages,
     store
<1>10. CASE \/ SpoolSink \/ RollupSink \/ SpoolFlush \/ Trigger \/ Stop \/ TimePasses
            \/ Expire \/ Start
  BY <1>8, <1>10 DEF SpoolSink, RollupSink, SpoolFlush, Trigger, Stop, TimePasses, Expire,
     Start, outages, store
<1>11. CASE UNCHANGED allVars
  BY <1>8, <1>11 DEF allVars, outages, store
<1>. QED
  BY <1>1, <1>2, <1>5, <1>6, <1>7, <1>9, <1>10, <1>11
     DEF NextFlusher, FlushLoop, Environment

(* Whenever the process is stopped or killed and whatever calls fail, the     *)
(* database has no outage event twice and none behind a later one: only a     *)
(* lost acknowledgement can double one.                                       *)
THEOREM EventsAscend ==
  ASSUME "ack" \notin Faults
  PROVE  SpecFlusher => []Ascends(odb)
<1>1. InitFlusher => AscentInv
  BY EmptyOrder DEF InitFlusher, AscentInv
<1>2. TypeInv /\ AscentInv /\ [NextFlusher]_allVars => AscentInv'
  BY AscentStep
<1>3. AscentInv => Ascends(odb)
  BY DEF AscentInv
<1>. QED
  BY <1>1, <1>2, <1>3, TypeInvHolds, PTL DEF SpecFlusher

-----------------------------------------------------------------------------
(* Delivery at least once.                                                 *)

LEMMA HeldSamples ==
  ASSUME TypeOK
  PROVE  Held \subseteq Sample
BY FileFacts DEF TypeOK, Held, Lines, Existing

\* The spool's own steps only take samples in.
LEMMA OwnAccepts ==
  ASSUME TypeOK, TypeOK', PlacesInv, PlacesInv', "burst" \notin Faults, Own,
         UNCHANGED db
  PROVE  Deliv!Next
<1>1. Held \subseteq Held'
  BY OwnHolds DEF PlacesInv, Held
<1>2. Held' \subseteq Sample
  BY FileFacts DEF TypeOK, Held, Lines, Existing
<1>3. Deliv!Accept(Held')
  BY <1>1 DEF Deliv!Accept
<1>. QED
  BY <1>2, <1>3 DEF Deliv!Next

\* An insert delivers what the file at hand holds, whether or not it is acknowledged.
LEMMA InsertDelivers ==
  ASSUME TypeInv, PlacesInv, todo # {}, UNCHANGED <<ndjson, ready>>,
         db' = Counted(db, ready[Oldest].lines)
  PROVE  Deliv!Next
<1>. DEFINE F == ready[Oldest].lines
<1>1. F \subseteq Held /\ F \subseteq Sample
  BY OldestOn DEF PlacesInv
<1>2. Held' = Held
  BY DEF Held, Lines, Existing
<1>3. Deliv!Deliver(F)
  BY <1>1, <1>2 DEF Deliv!Deliver, Counted
<1>. QED
  BY <1>1, <1>3 DEF Deliv!Next

\* Taking a file away takes its lines, and no others.
LEMMA TakenHeld ==
  ASSUME TypeOK, NEW p \in Existing(ready), Taken(p)
  PROVE  Held' \subseteq Held /\ Held \subseteq Held' \cup ready[p].lines
<1>1. /\ ndjson' = ndjson /\ ready' = [ready EXCEPT ![p] = NoFile]
      /\ ready \in [Second -> File \cup {NoFile}] /\ p \in Second
  BY TakenOn DEF TypeOK, Existing
<1>2. Existing(ready') = Existing(ready) \ {p} /\ \A q \in Existing(ready') : ready'[q] = ready[q]
  BY <1>1 DEF Existing
<1>3. Lines(ready') \subseteq Lines(ready) /\ Lines(ready) \subseteq Lines(ready') \cup ready[p].lines
  BY <1>2 DEF Lines
<1>. QED
  BY <1>1, <1>3 DEF Held

\* A file that is taken away has no lines, or its lines are in the database.
LEMMA TakenDischarges ==
  ASSUME TypeOK, NEW p \in Existing(ready), Taken(p), UNCHANGED db,
         \A s \in ready[p].lines : db[s] > 0
  PROVE  Deliv!Next
<1>. DEFINE S == Held \ Held'
<1>1. Deliv!Discharge(S)
  BY TakenHeld DEF Deliv!Discharge
<1>2. S \subseteq Sample
  BY HeldSamples
<1>. QED
  BY <1>1, <1>2 DEF Deliv!Next

LEMMA DeliveryStep ==
  ASSUME TypeInv, TypeInv', PlacesInv, PlacesInv', RenameInv, "burst" \notin Faults,
         [NextFlusher]_allVars
  PROVE  [Deliv!Next]_<<Held, db>>
<1>1. CASE BeginCycle \/ SpoolSink \/ SpoolFlush \/ TimePasses \/ Exit \/ Die \/ Start
  <2>1. Own /\ UNCHANGED db
    BY <1>1 DEF BeginCycle, SpoolSink, SpoolFlush, TimePasses, Exit, Die, Start, Forget,
       Own, store
  <2>. QED
    BY <2>1, OwnAccepts DEF TypeInv
<1>2. CASE InsertSamples
  BY <1>2, InsertDelivers DEF InsertSamples, Decoded, disk
<1>3. CASE UNCHANGED <<ndjson, ready, db>>
  BY <1>3 DEF Held, Lines, Existing
<1>4. CASE InsertFails
  BY <1>3, <1>4, InsertDelivers DEF InsertFails, Decoded, disk
<1>5. CASE SkipFile
  <2>1. CASE RemoveReady(Oldest) /\ UNCHANGED faults
    <3>1. Taken(Oldest) /\ Oldest \in Existing(ready) /\ UNCHANGED db
      BY <1>5, <2>1, OldestListed DEF SkipFile, Taken, store
    <3>2. ready[Oldest].lines = {}
      BY <2>1 DEF RemoveReady, Empty
    <3>. QED
      BY <3>1, <3>2, TakenDischarges DEF TypeInv
  <2>2. CASE UNCHANGED files
    BY <1>3, <1>5, <2>2 DEF SkipFile, files, store
  <2>. QED
    BY <1>5, <2>1, <2>2 DEF SkipFile
<1>6. CASE RenameDone
  <2>1. CASE MarkDone(Oldest) /\ UNCHANGED faults
    <3>1. Taken(Oldest) /\ Oldest \in Existing(ready) /\ UNCHANGED db
      BY <1>6, <2>1, OldestListed DEF RenameDone, Taken, store, TypeInv, LoopOK
    <3>2. \A s \in ready[Oldest].lines : db[s] > 0
      BY <1>6 DEF RenameDone, RenameInv
    <3>. QED
      BY <3>1, <3>2, TakenDischarges DEF TypeInv
  <2>2. CASE UNCHANGED files
    BY <1>3, <1>6, <2>2 DEF RenameDone, files, store
  <2>. QED
    BY <1>6, <2>1, <2>2 DEF RenameDone
<1>7. CASE \/ ListReady \/ TakeRollups \/ UpsertRollups \/ UpsertFails \/ DrainOutages
           \/ InsertOutages \/ InsertOutagesFails \/ Cleanup \/ BeginFinal
           \/ FinalUpsert \/ FinalDrain \/ FinalInsert
  BY <1>3, <1>7 DEF ListReady, TakeRollups, UpsertRollups, UpsertFails, DrainOutages,
     InsertOutages, InsertOutagesFails, Cleanup, BeginFinal, FinalUpsert, FinalDrain,
     FinalInsert, disk, store
<1>8. CASE RollupSink \/ RecordOutage \/ Trigger \/ Stop \/ Expire
  BY <1>3, <1>8 DEF RollupSink, RecordOutage, Trigger, Stop, Expire, disk, store
<1>9. CASE UNCHANGED allVars
  BY <1>3, <1>9 DEF allVars, vars, store
<1>. QED
  BY <1>1, <1>2, <1>4, <1>5, <1>6, <1>7, <1>8, <1>9
     DEF NextFlusher, FlushLoop, Environment

(* The agent implements Delivery: whatever fails and whenever it dies, a      *)
(* sample that was on disk leaves the ready files only when the database has  *)
(* it, and nothing is inserted that was not on disk.                          *)
THEOREM DeliversAtLeastOnce ==
  ASSUME "burst" \notin Faults
  PROVE  SpecFlusher => AtLeastOnce
<1>1. InitFlusher => Deliv!Init
  BY DEF InitFlusher, Init, Deliv!Init, Held, Lines, Existing, Empty
<1>2. /\ TypeInv /\ TypeInv' /\ PlacesInv /\ PlacesInv' /\ RenameInv
      /\ [NextFlusher]_allVars
      => [Deliv!Next]_<<Held, db>>
  BY DeliveryStep
<1>. QED
  BY <1>1, <1>2, TypeInvHolds, PlacesHold, RenameHolds, PTL
     DEF SpecFlusher, AtLeastOnce, Deliv!Spec

-----------------------------------------------------------------------------
(* Files in the agent: none is stranded, none is torn.                     *)

LEMMA FaultsGrow ==
  ASSUME TypeInv, [NextFlusher]_allVars
  PROVE  faults' >= faults
<1>0. faults \in Nat
  BY SpoolAssumption DEF TypeInv, TypeOK
<1>1. CASE Own
  BY <1>1, OwnFaults DEF TypeInv
<1>2. CASE Still \/ Cleaned \/ \E p \in Existing(ready) : Taken(p)
  BY <1>0, <1>2 DEF Still, Cleaned, Taken, Fault
<1>3. CASE UNCHANGED allVars
  BY <1>0, <1>3 DEF allVars, vars
<1>. QED
  BY <1>1, <1>2, <1>3, SpoolCases DEF NextFlusher

\* Half a line may come to a ready file only by a kill or a failed write.
FilesInv == NoStrandedFile /\ (Unharmed => Whole)

LEMMA FilesStep ==
  ASSUME TypeInv, FilesInv, [NextFlusher]_allVars
  PROVE  FilesInv'
<1>0. Unharmed' => Unharmed
  BY FaultsGrow, SpoolAssumption DEF Unharmed, TypeInv, TypeOK
<1>1. CASE Own /\ Remember
  <2>1. Next
    BY <1>1 DEF Next, Step, Own
  <2>. QED
    BY <1>0, <1>1, <2>1, StrandStep, WholeStep DEF FilesInv, TypeInv
<1>2. CASE \E p \in Existing(ready) : Taken(p)
  <2>1. PICK p \in Existing(ready) : Taken(p)
    BY <1>2
  <2>2. ndjson' = ndjson /\ \A q \in Second : ready'[q] \in {ready[q], NoFile}
    BY <2>1, TakenOn DEF TypeInv, TypeOK, Existing
  <2>. QED
    BY <1>0, <2>1, <2>2 DEF Taken, FilesInv, NoStrandedFile, Existing, Whole
<1>3. CASE UNCHANGED <<ndjson, ready, fd, path, buf>>
  BY <1>0, <1>3 DEF FilesInv, NoStrandedFile, Existing, Whole
<1>4. CASE Still \/ Cleaned \/ UNCHANGED allVars
  BY <1>3, <1>4 DEF Still, disk, Cleaned, allVars, vars
<1>. QED
  BY <1>1, <1>2, <1>4, SpoolCases DEF NextFlusher

LEMMA FilesHold == SpecFlusher => []FilesInv
<1>1. InitFlusher => FilesInv
  <2>1. 0 \in Second
    BY SpoolAssumption DEF Second
  <2>. QED
    BY <2>1, FileFacts DEF InitFlusher, Init, FilesInv, NoStrandedFile, Existing, Whole,
       Empty
<1>2. TypeInv /\ FilesInv /\ [NextFlusher]_allVars => FilesInv'
  BY FilesStep
<1>. QED
  BY <1>1, <1>2, TypeInvHolds, PTL DEF SpecFlusher

(* In the agent, too, no file that the flusher is given ends inside a line    *)
(* unless a process was killed or a write failed: no failing sync, close,     *)
(* rename or open, and no full buffer, leaves half a line behind.             *)
THEOREM AgentFilesDecode ==
  ASSUME Faults \cap {"crash", "write"} = {}
  PROVE  SpecFlusher => []ReadyDecodes
<1>1. FilesInv => ReadyDecodes
  BY DEF FilesInv, Unharmed, Whole, ReadyDecodes, Existing
<1>. QED
  BY <1>1, FilesHold, PTL

-----------------------------------------------------------------------------
(* SIGUSR1.                                                                *)

Waiting == UNION {ready[p].lines : p \in todo}

\* While nothing has failed: a request that no cycle has taken yet covers what is
\* spooled; once one has taken it, it covers what that cycle is still to insert.
TriggerInv ==
  faults = 0 =>
    /\ stop = FALSE /\ fd = "open"
    /\ pc \notin {"finalUpsert", "finalDrain", "finalInsert", "exited", "off"}
    /\ trig => asked \subseteq InDB \cup Held \cup buf
    /\ ~ trig /\ pc = "list" => asked \subseteq InDB \cup Lines(ready)
    /\ ~ trig /\ pc \in {"consume", "rename"} => asked \subseteq InDB \cup Waiting
    /\ ~ trig /\ pc \notin {"list", "consume", "rename"} => asked \subseteq InDB

LEMMA NoFault ==
  ASSUME TypeInv, faults' = 0, [NextFlusher]_allVars
  PROVE  faults = 0 /\ \A kind : ~ Fault(kind)
BY FaultsGrow, SpoolAssumption DEF TypeInv, TypeOK, Fault

\* A rotation that works hands all there is to the flusher.
LEMMA RotateHandsOver ==
  ASSUME TypeOK, NamesDistinct, NoStrandedFile, fd = "open", RotateOk
  PROVE  Held \cup buf \subseteq Lines(ready')
<1>1. ndjson[path] # NoFile /\ path \in Existing(ndjson) /\ path \in Second
  BY DEF Existing, TypeOK
<1>2. Lines(ndjson) \cup buf = Flushed.lines /\ Flushed \in File /\ Flushed # NoFile
  <2>1. \A p \in Existing(ndjson) : p # path => ndjson[p].lines = {}
    BY DEF NoStrandedFile, Empty
  <2>2. Lines(ndjson) = ndjson[path].lines
    BY <1>1, <2>1 DEF Lines
  <2>. QED
    BY <1>1, <2>2, FlushedIsFile, FileFacts
<1>3. CASE RotateIdle
  BY <1>2, <1>3 DEF RotateIdle, Empty, Held, Lines, Existing
<1>4. CASE RotateNew
  <2>1. ready[path] = NoFile
    BY <1>1 DEF NamesDistinct
  <2>2. /\ \A p \in Second : p # path => ready'[p] = ready[p]
        /\ Flushed # Empty => ready'[path] = Flushed
        /\ Flushed = Empty => Flushed.lines = {}
    BY <1>1, <1>4 DEF RotateNew, Retire, TypeOK, Empty
  <2>3. Flushed.lines \subseteq Lines(ready')
    BY <1>1, <1>2, <2>2 DEF Lines, Existing
  <2>4. Lines(ready) \subseteq Lines(ready')
    BY <2>1, <2>2 DEF Lines, Existing
  <2>. QED
    BY <1>2, <2>3, <2>4 DEF Held
<1>. QED
  BY <1>3, <1>4 DEF RotateOk

\* While the process lives, the spool loses nothing that it has taken.
LEMMA OwnLosesNothing ==
  ASSUME TypeOK, PlacesInv, PlacesInv', "burst" \notin Faults, Own, fd' # "down"
  PROVE  Held \cup buf \subseteq Held' \cup buf'
<1>1. Held \subseteq Held'
  BY OwnHolds DEF PlacesInv, Held
<1>2. PICK W : Kept(W)
  BY OwnKeeps DEF PlacesInv
<1>3. W \subseteq Held'
  <2>1. W \subseteq On(ndjson', ready', path) /\ path \in Second
    BY <1>2, ClockFacts DEF Kept
  <2>2. Held' = UNION {On(ndjson', ready', p) : p \in Second}
    BY OnLines DEF PlacesInv, NamesDistinct, Held
  <2>. QED
    BY <2>1, <2>2
<1>. QED
  BY <1>1, <1>2, <1>3 DEF Kept

LEMMA TriggerStep ==
  ASSUME TypeInv, PlacesInv, PlacesInv', RenameInv, FilesInv, TriggerInv,
         Faults \cap {"burst", "stop"} = {}, [NextFlusher]_allVars
  PROVE  TriggerInv'
<1>. SUFFICES ASSUME faults' = 0
              PROVE  TriggerInv'
  BY DEF TriggerInv
<1>0. /\ faults = 0 /\ \A kind : ~ Fault(kind)
      /\ stop = FALSE /\ fd = "open"
      /\ pc \notin {"finalUpsert", "finalDrain", "finalInsert", "exited", "off"}
  BY NoFault DEF TriggerInv
<1>1. CASE BeginCycle
  <2>1. RotateOk /\ pc' = "list" /\ pc = "idle"
    BY <1>0, <1>1 DEF BeginCycle, RotateFails, RotateFlushFails, RotateStops,
       RotateCannotOpen, WriteFails
  <2>2. Held \cup buf \subseteq Lines(ready') /\ fd' = "open"
    BY <1>0, <2>1, RotateHandsOver DEF TypeInv, PlacesInv, FilesInv, RotateOk, RotateIdle,
       RotateNew
  <2>3. Lines(ready') \subseteq Held' /\ InDB' = InDB /\ UNCHANGED <<stop, asked>>
    BY <1>1 DEF BeginCycle, Held, InDB, store
  <2>4. trig' => trig
    BY <1>1 DEF BeginCycle
  <2>. QED
    BY <1>0, <2>1, <2>2, <2>3, <2>4 DEF TriggerInv
<1>2. CASE SpoolSink \/ SpoolFlush \/ TimePasses
  <2>1. Own /\ UNCHANGED <<ready, fd, db, pc, todo, trig, stop, asked>>
    BY <1>0, <1>2 DEF SpoolSink, SpoolFlush, TimePasses, Own, AppendSample, AppendBuffered,
       AppendSpills, AppendRefused, WriteFails, Flush, Tick, files, loop, store
  <2>2. Held \cup buf \subseteq Held' \cup buf'
    BY <1>0, <2>1, OwnLosesNothing DEF TypeInv
  <2>. QED
    BY <1>0, <2>1, <2>2 DEF TriggerInv, InDB, Waiting, Lines, Existing
<1>3. CASE Trigger
  BY <1>0, <1>3 DEF Trigger, TriggerInv, Held, InDB, Lines, Existing, disk
<1>4. CASE ListReady
  <2>1. UNCHANGED <<ndjson, ready, buf, fd, db, trig, stop, asked>>
        /\ pc = "list" /\ pc' = "consume" /\ todo' = Existing(ready)
    BY <1>0, <1>4 DEF ListReady, disk, store
  <2>2. Waiting' = Lines(ready) /\ InDB' = InDB /\ Held' = Held
    BY <2>1 DEF Waiting, Lines, Existing, InDB, Held
  <2>. QED
    BY <1>0, <2>1, <2>2 DEF TriggerInv
<1>5. CASE SkipFile \/ RenameDone
  <2>0. Oldest \in Existing(ready) /\ Oldest \in todo
    BY <1>5, OldestListed DEF SkipFile, RenameDone, TypeInv, LoopOK
  <2>1. /\ Taken(Oldest) /\ todo' = todo \ {Oldest}
        /\ UNCHANGED <<buf, fd, db, trig, stop, asked>>
        /\ pc \in {"consume", "rename"} /\ pc' = "consume"
    <3>1. ~ ready[Oldest].torn
      BY <1>0, <2>0 DEF FilesInv, Unharmed, Whole, Existing
    <3>. QED
      BY <1>0, <1>5, <3>1 DEF SkipFile, RenameDone, Taken, store
  <2>2. ready[Oldest].lines \subseteq InDB
    <3>1. CASE SkipFile
      BY <1>0, <3>1, <2>0 DEF SkipFile, RemoveReady, Empty, FilesInv, Unharmed, Whole,
         Existing
    <3>2. CASE RenameDone
      BY <2>0, <3>2, FileFacts DEF RenameDone, RenameInv, InDB, TypeInv, TypeOK, Existing
    <3>. QED
      BY <1>5, <3>1, <3>2
  <2>3. InDB' = InDB
    BY <2>1 DEF InDB
  <2>4. Held \subseteq Held' \cup ready[Oldest].lines
    BY <2>0, <2>1, TakenHeld DEF TypeInv
  <2>5. Waiting \subseteq Waiting' \cup ready[Oldest].lines
    BY <2>0, <2>1, TakenOn DEF Waiting, TypeInv, TypeOK, Existing, LoopOK
  <2>. QED
    BY <1>0, <2>1, <2>2, <2>3, <2>4, <2>5 DEF TriggerInv
<1>6. CASE InsertSamples
  <2>1. /\ UNCHANGED <<ndjson, ready, buf, fd, todo, trig, stop, asked>>
        /\ pc = "consume" /\ pc' = "rename" /\ db' = Counted(db, ready[Oldest].lines)
    BY <1>6 DEF InsertSamples, Decoded, disk
  <2>2. InDB \subseteq InDB'
    BY <2>1 DEF InDB, Counted, TypeInv, SamplesOK
  <2>. QED
    BY <1>0, <2>1, <2>2 DEF TriggerInv, Held, Waiting, Lines, Existing
<1>7. CASE InsertFails \/ UpsertFails \/ InsertOutagesFails \/ Die
  BY <1>0, <1>7 DEF InsertFails, UpsertFails, InsertOutagesFails, CallFails, Die, Crash
<1>8. CASE BeginFinal \/ FinalUpsert \/ FinalDrain \/ FinalInsert \/ Exit \/ Start \/ Stop
  BY <1>0, <1>8 DEF BeginFinal, FinalUpsert, FinalDrain, FinalInsert, Exit, Start, Open,
     OpenFails, Stop
<1>9. CASE TakeRollups \/ UpsertRollups \/ DrainOutages \/ InsertOutages \/ Cleanup
  <2>1. /\ UNCHANGED <<ndjson, ready, buf, fd, db, trig, stop, asked>>
        /\ pc \in {"upsert", "drain", "insert", "cleanup"} \/ (pc = "consume" /\ todo = {})
        /\ pc' \in {"upsert", "drain", "insert", "cleanup", "idle"}
    BY <1>9 DEF TakeRollups, UpsertRollups, DrainOutages, InsertOutages, Cleanup, disk,
       store
  <2>2. todo = {} => Waiting = {}
    BY DEF Waiting
  <2>. QED
    BY <1>0, <2>1, <2>2 DEF TriggerInv, Held, InDB, Lines, Existing
<1>10. CASE UNCHANGED <<ndjson, ready, buf, fd, db, pc, todo, trig, stop, asked>>
  BY <1>0, <1>10 DEF TriggerInv, Held, InDB, Waiting, Lines, Existing
<1>11. CASE RollupSink \/ RecordOutage \/ Expire \/ UNCHANGED allVars
  BY <1>10, <1>11 DEF RollupSink, RecordOutage, Expire, disk, allVars, vars, loop, store
<1>. QED
  BY <1>1, <1>2, <1>3, <1>4, <1>5, <1>6, <1>7, <1>8, <1>9, <1>11
     DEF NextFlusher, FlushLoop, Environment

(* As long as nothing fails and the process is not stopped, a SIGUSR1 at any  *)
(* point of a cycle ships all that was spooled when it came, what was still   *)
(* in the write buffer included.                                              *)
THEOREM TriggersShip ==
  ASSUME Faults \cap {"burst", "stop"} = {}
  PROVE  SpecFlusher => []TriggerShips
<1>1. InitFlusher => TriggerInv
  BY DEF InitFlusher, Init, TriggerInv
<1>2. /\ TypeInv /\ PlacesInv /\ PlacesInv' /\ RenameInv /\ FilesInv /\ TriggerInv
      /\ [NextFlusher]_allVars
      => TriggerInv'
  BY TriggerStep
<1>3. TriggerInv => TriggerShips
  BY DEF TriggerInv, TriggerShips
<1>4. SpecFlusher => []PlacesInv
  BY PlacesHold
<1>. QED
  BY <1>1, <1>2, <1>3, <1>4, TypeInvHolds, RenameHolds, FilesHold, PTL
     DEF SpecFlusher

=============================================================================
