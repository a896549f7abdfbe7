---------------------------- MODULE SpoolProofs ----------------------------
(***************************************************************************)
(* Proofs about Spool.  The type invariant needs nothing.  NoStrandedFile   *)
(* is inductive with it.  That files stay (FilesStay) and samples are in one *)
(* place (SamplesApart) holds only because names are distinct, and those are *)
(* distinct only if two files are never created in one second: "burst" is    *)
(* not among the faults.  That files decode (ReadyDecodes) is the matter of   *)
(* where half a line can be.                                               *)
(***************************************************************************)
EXTENDS Spool, TLAPS

(* What a file may become is a file. *)
LEMMA FileFacts ==
  /\ Empty \in File
  /\ Empty # NoFile
  /\ \A f \in File : f # NoFile /\ f.lines \subseteq Sample /\ f.torn \in BOOLEAN
  /\ \A l \in SUBSET Sample, t \in BOOLEAN : [lines |-> l, torn |-> t] \in File
<1>1. Empty \in File
  BY DEF Empty, File
<1>2. \A f \in File : f.lines \subseteq Sample /\ f.torn \in BOOLEAN
  BY DEF File
<1>3. \A l \in SUBSET Sample, t \in BOOLEAN : [lines |-> l, torn |-> t] \in File
  BY DEF File
<1>. QED
  BY <1>1, <1>2, <1>3, SpoolAssumption

(* Flushing the buffer leaves the current file a file. *)
LEMMA FlushedIsFile ==
  ASSUME TypeOK, ndjson[path] # NoFile
  PROVE  /\ Flushed \in File
         /\ Flushed.lines = ndjson[path].lines \cup buf
         /\ ndjson[path] \in File
<1>1. ndjson[path] \in File
  BY DEF TypeOK
<1>. QED
  BY <1>1, FileFacts DEF TypeOK, Flushed

(* A short write leaves a file that still has every line it had. *)
LEMMA ShortWriteIsFile ==
  ASSUME TypeOK, ndjson[path] # NoFile,
         NEW w \in ShortWrites, ndjson' = AfterShortWrite(w)
  PROVE  /\ w.wrote \subseteq buf
         /\ ndjson' \in [Second -> File \cup {NoFile}]
         /\ ndjson'[path] \in File
         /\ ndjson'[path].lines = ndjson[path].lines \cup w.wrote
         /\ \A p \in Second \ {path} : ndjson'[p] = ndjson[p]
<1>1. ndjson[path] \in File /\ path \in Second
  BY DEF TypeOK
<1>2. w.wrote \subseteq buf /\ w.torn \in BOOLEAN
  BY DEF ShortWrites
<1>3. [lines |-> ndjson[path].lines \cup w.wrote, torn |-> w.torn] \in File
  BY <1>1, <1>2, FileFacts DEF TypeOK
<1>. QED
  BY <1>1, <1>2, <1>3 DEF TypeOK, AfterShortWrite

-----------------------------------------------------------------------------
(* The current second gets an empty file; the others keep theirs. *)
LEMMA CreateFacts ==
  ASSUME NEW d \in [Second -> File \cup {NoFile}], clock \in Second
  PROVE  /\ Create(d) \in [Second -> File \cup {NoFile}]
         /\ Create(d)[clock] # NoFile
         /\ \A p \in Second : p # clock => Create(d)[p] = d[p]
         /\ d[clock] = NoFile => Create(d)[clock] = Empty
BY FileFacts DEF Create

(* promoteOrphans moves files and makes none. *)
LEMMA PromotedFacts ==
  ASSUME TypeOK, NEW k \in 0 .. MaxClock + 1
  PROVE  /\ PromotedNdjson(k) \in [Second -> File \cup {NoFile}]
         /\ PromotedReady(k) \in [Second -> File \cup {NoFile}]
BY DEF TypeOK, PromotedNdjson, PromotedReady

(* Retire keeps the ready files well formed. *)
LEMMA RetireFacts ==
  ASSUME TypeOK, ndjson[path] # NoFile, Retire
  PROVE  ready' \in [Second -> File \cup {NoFile}]
BY FlushedIsFile DEF TypeOK, Retire

LEMMA UnlinkedFacts ==
  ASSUME TypeOK
  PROVE  /\ Unlinked \in [Second -> File \cup {NoFile}]
         /\ Unlinked[path] = NoFile
         /\ \A p \in Second \ {path} : Unlinked[p] = ndjson[p]
BY DEF TypeOK, Unlinked

(* A current file that Rotate takes for empty is so, and nothing is buffered. *)
LEMMA EmptyFlushed ==
  ASSUME TypeOK, fd = "open", Flushed = Empty
  PROVE  ndjson[path] = Empty /\ buf = {}
<1>1. Flushed.lines = ndjson[path].lines \cup buf
  BY FlushedIsFile DEF TypeOK
<1>2. buf = {}
  BY <1>1 DEF Empty
<1>. QED
  BY <1>2 DEF Flushed

(* What a rotation may leave of the *.ndjson files: the old current file is gone, or  *)
(* it was empty and could not be removed, or it was made again; the others keep theirs. *)
LEMMA RotatedFacts ==
  ASSUME TypeOK, RotateNew \/ RotateCannotOpen
  PROVE  /\ ndjson' \in [Second -> File \cup {NoFile}]
         /\ RotateNew => ndjson'[clock] # NoFile
         /\ ndjson'[path] = NoFile \/ ndjson'[path] = Empty
         /\ ndjson'[path] # NoFile => path = clock \/ Flushed = Empty
         /\ \A p \in Second :
              p # path => \/ ndjson'[p] = ndjson[p]
                          \/ RotateNew /\ p = clock /\ ndjson[p] = NoFile /\ ndjson'[p] = Empty
<1>0. /\ fd = "open" /\ clock \in Second /\ path \in Second
      /\ ndjson \in [Second -> File \cup {NoFile}] /\ ndjson[path] # NoFile
  BY DEF TypeOK, RotateNew, RotateCannotOpen
<1>1. CASE ndjson' = Create(Unlinked) /\ RotateNew
  BY <1>0, <1>1, UnlinkedFacts, CreateFacts DEF Create
<1>2. CASE Flushed = Empty /\ ndjson' = Create(ndjson) /\ RotateNew
  <2>1. ndjson[path] = Empty
    BY <1>0, <1>2, EmptyFlushed
  <2>. QED
    BY <1>0, <1>2, <2>1, CreateFacts DEF Create
<1>. ~ (RotateNew /\ RotateCannotOpen)
  BY DEF RotateNew, RotateCannotOpen
<1>3. CASE ndjson' = Unlinked /\ RotateCannotOpen
  BY <1>0, <1>3, UnlinkedFacts
<1>4. CASE Flushed = Empty /\ ndjson' = ndjson /\ RotateCannotOpen
  BY <1>0, <1>4, EmptyFlushed
<1>. QED
  BY <1>1, <1>2, <1>3, <1>4 DEF RotateNew, RotateCannotOpen

-----------------------------------------------------------------------------
(* The type invariant, one lemma per group of operations.                  *)

LEMMA RememberType ==
  ASSUME TypeOK, Remember,
         ndjson' \in [Second -> File \cup {NoFile}],
         ready' \in [Second -> File \cup {NoFile}]
  PROVE  durable' \subseteq Sample
<1>1. \A d : d \in [Second -> File \cup {NoFile}] => Lines(d) \subseteq Sample
  BY FileFacts DEF Lines, Existing
<1>2. durable \subseteq Sample
  BY DEF TypeOK
<1>3. Lines(ndjson') \subseteq Sample /\ Lines(ready') \subseteq Sample
  BY <1>1
<1>. QED
  BY <1>2, <1>3 DEF Remember

LEMMA FaultType ==
  ASSUME TypeOK, NEW kind, Fault(kind)
  PROVE  faults' \in 0 .. MaxFaults
BY SpoolAssumption DEF TypeOK, Fault

LEMMA OfferType ==
  ASSUME TypeOK, Offer
  PROVE  seen' \in 0 .. MaxSample /\ seen' \in Sample
BY SpoolAssumption DEF TypeOK, Offer, Sample

(* A failing flush: the writer sticks, the file may have grown. *)
LEMMA WriteFailsType ==
  ASSUME TypeOK, WriteFails
  PROVE  /\ ndjson' \in [Second -> File \cup {NoFile}]
         /\ fd' = "stuck"
         /\ fd \in {"open", "closed"}
         /\ buf' \subseteq buf
         /\ faults' \in 0 .. MaxFaults
         /\ ndjson'[path] # NoFile
         /\ ndjson[path].lines \subseteq ndjson'[path].lines
         /\ \A p \in Second \ {path} : ndjson'[p] = ndjson[p]
<1>1. CASE fd = "open"
  <2>1. PICK w \in ShortWrites : ndjson' = AfterShortWrite(w) /\ buf' = buf \ w.wrote
    BY <1>1 DEF WriteFails
  <2>2. faults' \in 0 .. MaxFaults
    BY <1>1, FaultType DEF WriteFails
  <2>3. ndjson[path] # NoFile
    BY <1>1 DEF TypeOK
  <2>. QED
    BY <1>1, <2>1, <2>2, <2>3, ShortWriteIsFile, FileFacts DEF WriteFails
<1>2. CASE fd = "closed"
  BY <1>2, FileFacts DEF WriteFails, TypeOK
<1>. QED
  BY <1>1, <1>2 DEF WriteFails

(* The file part of the type invariant, which the operations below preserve;   *)
(* the rest of it is about counters.                                           *)
FilesOK ==
  /\ ndjson \in [Second -> File \cup {NoFile}]
  /\ ready \in [Second -> File \cup {NoFile}]
  /\ done \in [Second -> File \cup {NoFile}]
  /\ path \in Second
  /\ clock \in Second
  /\ buf \subseteq Sample
  /\ fd \in Writer
  /\ seen \in 0 .. MaxSample
  /\ faults \in 0 .. MaxFaults
  /\ fd \in {"open", "stuck", "closed"} => ndjson[path] # NoFile

LEMMA AppendType ==
  ASSUME TypeOK, AppendSample
  PROVE  FilesOK'
<1>1. CASE AppendBuffered
  BY <1>1, OfferType DEF TypeOK, FilesOK, AppendBuffered, files
<1>2. CASE AppendSpills
  <2>1. ndjson[path] \in File /\ ndjson[path] # NoFile /\ path \in Second
    BY <1>2, FileFacts DEF AppendSpills, TypeOK
  <2>2. PICK t \in BOOLEAN :
          ndjson' = [ndjson EXCEPT ![path] =
                      [lines |-> ndjson[path].lines \cup buf, torn |-> t]]
    BY <1>2 DEF AppendSpills
  <2>3. [lines |-> ndjson[path].lines \cup buf, torn |-> t] \in File
    BY <2>1, FileFacts DEF TypeOK
  <2>4. /\ ndjson' \in [Second -> File \cup {NoFile}]
        /\ ndjson'[path] # NoFile
    BY <2>1, <2>2, <2>3, FileFacts DEF TypeOK
  <2>. QED
    BY <1>2, <2>4, OfferType DEF TypeOK, FilesOK, AppendSpills
<1>3. CASE AppendRefused
  <2>1. CASE WriteFails
    BY <1>3, <2>1, WriteFailsType, OfferType
       DEF TypeOK, FilesOK, AppendRefused, Writer
  <2>2. CASE UNCHANGED <<ndjson, fd, buf, faults>>
    BY <1>3, <2>2, OfferType DEF TypeOK, FilesOK, AppendRefused
  <2>. QED
    BY <1>3, <2>1, <2>2 DEF AppendRefused
<1>. QED
  BY <1>1, <1>2, <1>3 DEF AppendSample

LEMMA FlushType ==
  ASSUME TypeOK, Flush
  PROVE  FilesOK'
<1>1. CASE WriteFails
  BY <1>1, WriteFailsType DEF TypeOK, FilesOK, Flush, Writer
<1>2. CASE /\ fd = "open"
           /\ ndjson' = [ndjson EXCEPT ![path] = Flushed]
           /\ buf' = {}
           /\ UNCHANGED <<fd, faults>>
  BY <1>2, FlushedIsFile, FileFacts DEF TypeOK, FilesOK, Flush, Writer
<1>. QED
  BY <1>1, <1>2 DEF Flush

LEMMA RotateOkType ==
  ASSUME TypeOK, RotateOk
  PROVE  FilesOK'
<1>1. CASE RotateIdle
  BY <1>1 DEF TypeOK, FilesOK, RotateOk, RotateIdle
<1>2. CASE RotateNew
  <2>1. fd = "open" /\ ndjson[path] # NoFile
    BY <1>2 DEF TypeOK, RotateNew
  <2>2. ready' \in [Second -> File \cup {NoFile}]
    BY <1>2, <2>1, RetireFacts DEF RotateNew
  <2>3. /\ path' = clock /\ fd' = fd
        /\ buf' = {} /\ UNCHANGED <<clock, done, seen>>
    BY <1>2 DEF RotateOk, RotateNew
  <2>4. faults' \in 0 .. MaxFaults
    BY <1>2, FaultType DEF RotateNew, TypeOK
  <2>. QED
    BY <1>2, <2>1, <2>2, <2>3, <2>4, RotatedFacts DEF TypeOK, FilesOK
<1>. QED
  BY <1>1, <1>2 DEF RotateOk

LEMMA RotateFailsType ==
  ASSUME TypeOK, RotateFails
  PROVE  FilesOK'
<1>0. UNCHANGED <<clock, done, seen>>
  BY DEF RotateFails
<1>1. CASE RotateFlushFails
  BY <1>0, <1>1, WriteFailsType DEF TypeOK, FilesOK, RotateFlushFails, Writer
<1>2. CASE RotateStops
  <2>1. CASE fd = "open"
    <3>1. ndjson[path] # NoFile /\ path \in Second
      BY <2>1 DEF TypeOK
    <3>2. ndjson' = [ndjson EXCEPT ![path] = Flushed] /\ buf' = {}
      BY <1>2, <2>1 DEF RotateStops
    <3>3. faults' \in 0 .. MaxFaults
      BY <1>2, <2>1, FaultType DEF RotateStops
    <3>4. /\ ndjson' \in [Second -> File \cup {NoFile}]
          /\ ndjson'[path] # NoFile
      BY <3>1, <3>2, FlushedIsFile, FileFacts DEF TypeOK
    <3>5. fd' \in {"open", "closed", "nil"} /\ UNCHANGED <<ready, path>>
      BY <1>2, <2>1 DEF RotateStops
    <3>. QED
      BY <1>0, <3>2, <3>3, <3>4, <3>5 DEF TypeOK, FilesOK, Writer
  <2>2. CASE UNCHANGED <<ndjson, fd, buf, faults>>
    BY <1>0, <1>2, <2>2 DEF TypeOK, FilesOK, RotateStops
  <2>. QED
    BY <1>2, <2>1, <2>2 DEF RotateStops
<1>3. CASE RotateCannotOpen
  <2>1. ndjson[path] # NoFile
    BY <1>3 DEF TypeOK, RotateCannotOpen
  <2>2. ready' \in [Second -> File \cup {NoFile}]
    BY <1>3, <2>1, RetireFacts DEF RotateCannotOpen
  <2>3. faults' \in 0 .. MaxFaults
    BY <1>3, FaultType DEF RotateCannotOpen
  <2>. QED
    BY <1>0, <1>3, <2>2, <2>3, RotatedFacts
       DEF TypeOK, FilesOK, RotateCannotOpen, Writer
<1>. QED
  BY <1>1, <1>2, <1>3 DEF RotateFails

LEMMA CloseType ==
  ASSUME TypeOK, Close
  PROVE  FilesOK'
<1>0. /\ fd' = "down" /\ buf' = {}
      /\ UNCHANGED <<clock, ready, done, path, seen>>
  BY DEF Close
<1>1. CASE fd = "open"
  <2>1. ndjson[path] # NoFile /\ path \in Second
    BY <1>1 DEF TypeOK
  <2>2. CASE ndjson' = [ndjson EXCEPT ![path] = Flushed] /\ UNCHANGED faults
    <3>1. ndjson' \in [Second -> File \cup {NoFile}]
      BY <2>1, <2>2, FlushedIsFile, FileFacts DEF TypeOK
    <3>. QED
      BY <1>0, <2>2, <3>1 DEF TypeOK, FilesOK, Writer
  <2>3. CASE Fault("write") /\ \E w \in ShortWrites : ndjson' = AfterShortWrite(w)
    <3>1. ndjson' \in [Second -> File \cup {NoFile}]
      BY <2>1, <2>3, ShortWriteIsFile
    <3>2. faults' \in 0 .. MaxFaults
      BY <2>3, FaultType
    <3>. QED
      BY <1>0, <3>1, <3>2 DEF TypeOK, FilesOK, Writer
  <2>. QED
    BY <1>1, <2>2, <2>3 DEF Close
<1>2. CASE UNCHANGED <<ndjson, faults>>
  BY <1>0, <1>2 DEF TypeOK, FilesOK, Writer
<1>. QED
  BY <1>1, <1>2 DEF Close

LEMMA CrashType ==
  ASSUME TypeOK, Crash
  PROVE  FilesOK'
BY FaultType DEF TypeOK, FilesOK, Crash, files, Writer

LEMMA OpenType ==
  ASSUME TypeOK, Open
  PROVE  FilesOK'
<1>1. MaxClock + 1 \in 0 .. MaxClock + 1
  BY SpoolAssumption
<1>2. /\ PromotedNdjson(MaxClock + 1) \in [Second -> File \cup {NoFile}]
      /\ PromotedReady(MaxClock + 1) \in [Second -> File \cup {NoFile}]
  BY <1>1, PromotedFacts
<1>3. clock \in Second
  BY DEF TypeOK
<1>4. /\ Create(PromotedNdjson(MaxClock + 1)) \in [Second -> File \cup {NoFile}]
      /\ Create(PromotedNdjson(MaxClock + 1))[clock] # NoFile
  BY <1>2, <1>3, CreateFacts
<1>. QED
  BY <1>2, <1>3, <1>4 DEF TypeOK, FilesOK, Open, Writer

LEMMA OpenFailsType ==
  ASSUME TypeOK, OpenFails
  PROVE  FilesOK'
<1>1. PICK k \in 0 .. MaxClock + 1 :
        ready' = PromotedReady(k) /\ ndjson' = PromotedNdjson(k)
  BY DEF OpenFails
<1>2. faults' \in 0 .. MaxFaults
  BY FaultType DEF OpenFails
<1>. QED
  BY <1>1, <1>2, PromotedFacts DEF TypeOK, FilesOK, OpenFails

LEMMA ConsumeType ==
  ASSUME TypeOK, NEW p \in Existing(ready), Consume(p)
  PROVE  FilesOK'
<1>1. p \in Second
  BY DEF Existing
<1>. QED
  BY <1>1 DEF TypeOK, FilesOK, Consume, RemoveReady, MarkDone

LEMMA TickType ==
  ASSUME TypeOK, Tick
  PROVE  FilesOK'
BY SpoolAssumption DEF TypeOK, FilesOK, Tick, files, Second

LEMMA StepType ==
  ASSUME TypeOK, Step
  PROVE  FilesOK'
BY AppendType, FlushType, RotateOkType, RotateFailsType, CloseType, CrashType,
   OpenType, OpenFailsType, ConsumeType, TickType DEF Step

LEMMA TypeInit == Init => TypeOK
<1>1. 0 \in Second /\ 0 \in 0 .. MaxSample /\ 0 \in 0 .. MaxFaults
  BY SpoolAssumption DEF Second
<1>. QED
  BY <1>1, FileFacts DEF Init, TypeOK, Writer

LEMMA TypeStep == TypeOK /\ [Next]_vars => TypeOK'
<1>. SUFFICES ASSUME TypeOK, [Next]_vars PROVE TypeOK'
  OBVIOUS
<1>1. CASE Next
  <2>1. FilesOK' /\ Remember
    BY <1>1, StepType DEF Next
  <2>2. durable' \subseteq Sample
    BY <2>1, RememberType DEF FilesOK
  <2>. QED
    BY <2>1, <2>2 DEF TypeOK, FilesOK
<1>2. CASE UNCHANGED vars
  BY <1>2 DEF vars, TypeOK
<1>. QED
  BY <1>1, <1>2

(* Every variable keeps its type, and a writer that is in use always has its   *)
(* file on disk, whatever system call fails and whenever the process dies.     *)
THEOREM TypeCorrect == Spec => []TypeOK
<1>. QED
  BY TypeInit, TypeStep, PTL DEF Spec

-----------------------------------------------------------------------------
(* Most operations only add lines to the current file.                     *)

Live == {"open", "stuck", "closed"}

\* The samples in W leave the buffer for the current file; what else leaves it is
\* lost with the process, and only samples never offered before come to it.
Written(W) ==
  /\ W \subseteq buf
  /\ W # {} => ndjson[path] # NoFile
  /\ fd' # "down" => buf \ W \subseteq buf'
  /\ buf' \subseteq (buf \ W) \cup (seen + 1 .. seen')
  /\ \A p \in Second : ndjson[p] # NoFile =>
       ndjson'[p].lines = ndjson[p].lines \cup (IF p = path THEN W ELSE {})

Grown ==
  /\ UNCHANGED <<ready, done, path>>
  /\ clock' \in Second /\ clock' >= clock
  /\ seen' >= seen
  /\ fd' \in Live => fd \in Live
  /\ \A p \in Second : ndjson'[p] = NoFile <=> ndjson[p] = NoFile
  /\ \A p \in Second : p # path => ndjson'[p] = ndjson[p]
  /\ \E W : Written(W)

LEMMA ClockFacts ==
  ASSUME TypeOK
  PROVE  /\ clock \in Second /\ clock >= clock /\ path \in Second
         /\ seen \in Nat /\ seen >= seen
BY SpoolAssumption DEF TypeOK, Second

(* Writing nothing is a way of writing. *)
LEMMA NothingWritten ==
  ASSUME UNCHANGED ndjson, buf' \subseteq buf \cup (seen + 1 .. seen'),
         fd' # "down" => buf \subseteq buf'
  PROVE  Written({})
BY DEF Written

LEMMA WriteFailsWrites ==
  ASSUME TypeOK, WriteFails, seen' \in Nat
  PROVE  \E W : Written(W)
<1>1. CASE fd = "open"
  <2>1. PICK w \in ShortWrites : ndjson' = AfterShortWrite(w) /\ buf' = buf \ w.wrote
    BY <1>1 DEF WriteFails
  <2>2. ndjson[path] # NoFile
    BY <1>1 DEF TypeOK
  <2>3. Written(w.wrote)
    BY <2>1, <2>2, ShortWriteIsFile DEF Written
  <2>. QED
    BY <2>3
<1>2. CASE fd = "closed"
  BY <1>2, NothingWritten DEF WriteFails
<1>. QED
  BY <1>1, <1>2 DEF WriteFails

LEMMA WriteFailsGrows ==
  ASSUME TypeOK, WriteFails, UNCHANGED <<clock, ready, done, path>>,
         seen' \in Nat, seen' >= seen
  PROVE  Grown
<1>1. fd \in Live /\ ndjson[path] # NoFile
  BY WriteFailsType DEF TypeOK, Live
<1>. QED
  BY <1>1, ClockFacts, WriteFailsType, WriteFailsWrites DEF Grown

LEMMA FlushedGrows ==
  ASSUME TypeOK, fd = "open", ndjson' = [ndjson EXCEPT ![path] = Flushed],
         buf' = {}, UNCHANGED <<clock, ready, done, path, seen>>
  PROVE  Grown
<1>1. ndjson[path] # NoFile
  BY DEF TypeOK
<1>2. Flushed \in File /\ Flushed # NoFile /\ Flushed.lines = ndjson[path].lines \cup buf
  BY <1>1, FlushedIsFile, FileFacts
<1>3. ndjson \in [Second -> File \cup {NoFile}]
  BY DEF TypeOK
<1>4. Written(buf)
  BY <1>1, <1>2, <1>3, ClockFacts DEF Written
<1>. QED
  BY <1>1, <1>2, <1>3, <1>4, ClockFacts DEF Grown, Live

LEMMA AppendGrows ==
  ASSUME TypeOK, AppendSample
  PROVE  Grown
<1>0. seen' = seen + 1 /\ seen' \in Nat /\ seen' >= seen
  BY ClockFacts DEF AppendSample, AppendBuffered, AppendSpills, AppendRefused, Offer
<1>1. CASE AppendBuffered
  <2>1. Written({})
    BY <1>0, <1>1, NothingWritten DEF AppendBuffered, files
  <2>. QED
    BY <1>0, <1>1, <2>1, ClockFacts DEF AppendBuffered, Grown, files
<1>2. CASE AppendSpills
  <2>1. ndjson \in [Second -> File \cup {NoFile}] /\ ndjson[path] # NoFile
    BY <1>2 DEF AppendSpills, TypeOK
  <2>2. PICK t \in BOOLEAN :
          ndjson' = [ndjson EXCEPT ![path] =
                      [lines |-> ndjson[path].lines \cup buf, torn |-> t]]
    BY <1>2 DEF AppendSpills
  <2>3. [lines |-> ndjson[path].lines \cup buf, torn |-> t] # NoFile
    BY <2>1, ClockFacts, FileFacts DEF TypeOK
  <2>4. Written(buf)
    BY <1>0, <1>2, <2>1, <2>2, ClockFacts DEF AppendSpills, Written
  <2>. QED
    BY <1>0, <1>2, <2>1, <2>2, <2>3, <2>4, ClockFacts DEF AppendSpills, Grown, Live
<1>3. CASE AppendRefused
  <2>1. CASE WriteFails
    BY <1>0, <1>3, <2>1, WriteFailsGrows DEF AppendRefused
  <2>2. CASE UNCHANGED <<ndjson, fd, buf, faults>>
    <3>1. Written({})
      BY <2>2, NothingWritten
    <3>. QED
      BY <1>0, <1>3, <2>2, <3>1, ClockFacts DEF AppendRefused, Grown
  <2>. QED
    BY <1>3, <2>1, <2>2 DEF AppendRefused
<1>. QED
  BY <1>1, <1>2, <1>3 DEF AppendSample

LEMMA FlushGrows ==
  ASSUME TypeOK, Flush
  PROVE  Grown
BY WriteFailsGrows, FlushedGrows, ClockFacts DEF Flush

LEMMA IdleGrows ==
  ASSUME TypeOK, UNCHANGED <<ndjson, ready, done, fd, path, buf, seen>>,
         clock' \in Second, clock' >= clock
  PROVE  Grown
<1>1. Written({})
  BY NothingWritten
<1>. QED
  BY <1>1, ClockFacts DEF Grown

LEMMA RotateFailsGrows ==
  ASSUME TypeOK, RotateFlushFails \/ RotateStops, UNCHANGED <<clock, done, seen>>
  PROVE  Grown
<1>1. CASE WriteFails
  BY <1>1, WriteFailsGrows, ClockFacts DEF RotateFlushFails, RotateStops
<1>2. CASE /\ fd = "open" /\ RotateStops
           /\ ndjson' = [ndjson EXCEPT ![path] = Flushed] /\ buf' = {}
  BY <1>2, FlushedGrows DEF RotateStops
<1>3. CASE UNCHANGED <<ndjson, ready, fd, path, buf, faults>>
  BY <1>3, IdleGrows, ClockFacts
<1>. QED
  BY <1>1, <1>2, <1>3 DEF RotateFlushFails, RotateStops

LEMMA CloseGrows ==
  ASSUME TypeOK, Close
  PROVE  Grown
<1>0. fd' = "down" /\ buf' = {} /\ UNCHANGED <<clock, ready, done, path, seen>>
  BY DEF Close
<1>1. CASE fd = "open" /\ ndjson' = [ndjson EXCEPT ![path] = Flushed]
  BY <1>0, <1>1, FlushedGrows
<1>2. CASE fd = "open" /\ \E w \in ShortWrites : ndjson' = AfterShortWrite(w)
  <2>1. PICK w \in ShortWrites : ndjson' = AfterShortWrite(w)
    BY <1>2
  <2>2. ndjson[path] # NoFile
    BY <1>2 DEF TypeOK
  <2>3. Written(w.wrote)
    BY <1>0, <2>1, <2>2, ShortWriteIsFile DEF Written
  <2>. QED
    BY <1>0, <1>2, <2>1, <2>2, <2>3, ShortWriteIsFile, FileFacts, ClockFacts
       DEF Grown, Live
<1>3. CASE UNCHANGED ndjson
  <2>1. Written({})
    BY <1>0, <1>3, NothingWritten
  <2>. QED
    BY <1>0, <1>3, <2>1, ClockFacts DEF Grown, Live
<1>. QED
  BY <1>1, <1>2, <1>3 DEF Close

LEMMA CrashGrows ==
  ASSUME TypeOK, Crash
  PROVE  Grown
<1>1. Written({})
  BY NothingWritten DEF Crash, files
<1>. QED
  BY <1>1, ClockFacts DEF Crash, Grown, files, Live

LEMMA TickGrows ==
  ASSUME TypeOK, Tick
  PROVE  Grown
<1>1. clock' \in Second /\ clock' >= clock
  BY SpoolAssumption DEF TypeOK, Tick, Second
<1>. QED
  BY <1>1, IdleGrows DEF Tick, files

-----------------------------------------------------------------------------
(* What the spool does itself, the flusher and the clock apart.            *)
Own == \/ AppendSample \/ Flush \/ RotateOk \/ RotateFails \/ Close \/ Crash
       \/ Open \/ OpenFails \/ Tick

(* Every such step is one of five: the rest of the proofs split on these.  *)
LEMMA OwnCases ==
  ASSUME TypeOK, Own
  PROVE  \/ Grown
         \/ RotateNew /\ UNCHANGED <<clock, done, seen>>
         \/ RotateCannotOpen /\ UNCHANGED <<clock, done, seen>>
         \/ Open
         \/ OpenFails
<1>1. CASE RotateOk
  <2>1. CASE RotateIdle
    BY <1>1, <2>1, IdleGrows, ClockFacts DEF RotateOk, RotateIdle
  <2>. QED
    BY <1>1, <2>1 DEF RotateOk
<1>2. CASE RotateFails
  BY <1>2, RotateFailsGrows DEF RotateFails
<1>. QED
  BY <1>1, <1>2, AppendGrows, FlushGrows, CloseGrows, CrashGrows, TickGrows DEF Own

LEMMA StepCases ==
  ASSUME TypeOK, Step
  PROVE  \/ Grown
         \/ RotateNew /\ UNCHANGED <<clock, done, seen>>
         \/ RotateCannotOpen /\ UNCHANGED <<clock, done, seen>>
         \/ Open
         \/ OpenFails
         \/ \E p \in Existing(ready) : Consume(p)
BY OwnCases DEF Step, Own

(* No file but the current one keeps samples as *.ndjson: Rotate renames or    *)
(* empties the old one first, Open promotes every file it finds.               *)
LEMMA StrandStep ==
  ASSUME TypeOK, NoStrandedFile, [Next]_vars
  PROVE  NoStrandedFile'
<1>1. CASE Grown
  <2>. SUFFICES ASSUME NEW p \in Second, ndjson'[p] # NoFile, p # path
                PROVE  ndjson'[p] = Empty
    BY <1>1 DEF Grown, NoStrandedFile, Existing
  <2>1. ndjson[p] = Empty
    BY <1>1 DEF Grown, NoStrandedFile, Existing
  <2>. QED
    BY <1>1, <2>1 DEF Grown, Written
<1>2. CASE RotateNew /\ UNCHANGED <<clock, done>>
  BY <1>2, RotatedFacts, ClockFacts DEF RotateNew, NoStrandedFile, Existing
<1>3. CASE RotateCannotOpen
  BY <1>3, RotatedFacts, ClockFacts DEF RotateCannotOpen, NoStrandedFile, Existing
<1>4. CASE Open
  <2>1. MaxClock + 1 \in 0 .. MaxClock + 1 /\ \A p \in Second : p < MaxClock + 1
    BY SpoolAssumption DEF Second
  <2>2. /\ PromotedNdjson(MaxClock + 1) \in [Second -> File \cup {NoFile}]
        /\ \A p \in Second : PromotedNdjson(MaxClock + 1)[p] = NoFile
    BY <2>1, PromotedFacts DEF PromotedNdjson
  <2>3. ndjson' = Create(PromotedNdjson(MaxClock + 1)) /\ path' = clock
    BY <1>4 DEF Open
  <2>4. /\ ndjson'[clock] # NoFile
        /\ \A p \in Second : p # clock => ndjson'[p] = NoFile
    BY <2>2, <2>3, ClockFacts, CreateFacts
  <2>. QED
    BY <2>3, <2>4, ClockFacts DEF NoStrandedFile, Existing
<1>5. CASE OpenFails
  BY <1>5 DEF OpenFails, NoStrandedFile, Existing, PromotedNdjson
<1>6. CASE \E p \in Existing(ready) : Consume(p)
  BY <1>6 DEF Consume, RemoveReady, MarkDone, NoStrandedFile, Existing
<1>7. CASE UNCHANGED vars
  BY <1>7 DEF vars, NoStrandedFile, Existing
<1>. QED
  BY <1>1, <1>2, <1>3, <1>4, <1>5, <1>6, <1>7, StepCases DEF Next

(* At most one file with samples is ever out of the flusher's sight, the one   *)
(* opened last: through crashes, failing calls and two files made in one      *)
(* second, what earlier files hold is where the flusher looks for it.          *)
THEOREM NothingStranded == Spec => []NoStrandedFile
<1>1. Init => NoStrandedFile
  <2>1. 0 \in Second
    BY SpoolAssumption DEF Second
  <2>. QED
    BY <2>1, FileFacts DEF Init, NoStrandedFile, Existing
<1>2. TypeOK /\ NoStrandedFile /\ [Next]_vars => NoStrandedFile'
  BY StrandStep
<1>. QED
  BY <1>1, <1>2, TypeCorrect, PTL DEF Spec

-----------------------------------------------------------------------------
(* Names.  A file is created in a second later than any name in use.       *)

LEMMA NamesStep ==
  ASSUME "burst" \notin Faults, TypeOK, NamesDistinct, [Next]_vars
  PROVE  NamesDistinct'
<1>1. CASE Grown
  BY <1>1, ClockFacts DEF Grown, NamesDistinct, Second
<1>2. CASE RotateNew /\ UNCHANGED <<clock, done>>
  <2>1. /\ path' = clock /\ Retire
        /\ UNCHANGED <<clock, done>> /\ clock > path /\ clock # path
    BY <1>2, ClockFacts DEF RotateNew, Spaced, NamesDistinct, Second
  <2>2. ndjson[path] # NoFile
    BY <1>2 DEF TypeOK, RotateNew
  <2>3. \A p \in Second : p # path => ready'[p] = ready[p]
    BY <2>1, ClockFacts DEF Retire, TypeOK
  <2>4. \A p \in Second : p # path /\ p # clock => ndjson'[p] = ndjson[p]
    BY <1>2, RotatedFacts
  <2>5. ready'[path] # NoFile => ndjson'[path] = NoFile
    BY <1>2, <2>1, <2>2, RotatedFacts, ClockFacts DEF Retire, NamesDistinct
  <2>6. done[path] = NoFile
    BY <2>2, ClockFacts DEF NamesDistinct
  <2>7. \A p \in Second : p > clock => p > path
    BY <2>1, ClockFacts DEF Second
  <2>. QED
    BY <2>1, <2>3, <2>4, <2>5, <2>6, <2>7, ClockFacts DEF NamesDistinct, Second
<1>3. CASE RotateCannotOpen /\ UNCHANGED <<clock, done>>
  <2>1. ndjson[path] # NoFile /\ path' = path /\ Retire
    BY <1>3 DEF TypeOK, RotateCannotOpen
  <2>2. \A p \in Second : p # path => ready'[p] = ready[p] /\ ndjson'[p] = ndjson[p]
    BY <2>1, <1>3, UnlinkedFacts, ClockFacts DEF Retire, TypeOK, RotateCannotOpen
  <2>3. /\ ndjson'[path] = NoFile \/ ready'[path] = NoFile
        /\ done[path] = NoFile
    BY <1>3, <2>1, UnlinkedFacts, ClockFacts DEF NamesDistinct, RotateCannotOpen, Retire
  <2>. QED
    BY <1>3, <2>1, <2>2, <2>3, ClockFacts DEF NamesDistinct, Second
<1>4. CASE Open
  <2>1. MaxClock + 1 \in 0 .. MaxClock + 1 /\ \A p \in Second : p < MaxClock + 1
    BY SpoolAssumption DEF Second
  <2>2. /\ ndjson' = Create(PromotedNdjson(MaxClock + 1)) /\ path' = clock
        /\ ready' = PromotedReady(MaxClock + 1)
        /\ UNCHANGED <<clock, done>> /\ clock > path
    BY <1>4, ClockFacts DEF Open, Spaced, NamesDistinct, Second
  <2>3. /\ PromotedNdjson(MaxClock + 1) \in [Second -> File \cup {NoFile}]
        /\ \A p \in Second : PromotedNdjson(MaxClock + 1)[p] = NoFile
    BY <2>1, PromotedFacts DEF PromotedNdjson
  <2>4. \A p \in Second : p # clock => ndjson'[p] = NoFile
    BY <2>2, <2>3, ClockFacts, CreateFacts
  <2>5. \A p \in Second :
          ready'[p] = IF ndjson[p] # NoFile THEN ndjson[p] ELSE ready[p]
    BY <2>1, <2>2 DEF PromotedReady
  <2>6. \A p \in Second : p >= clock => p > path
    BY <2>2, ClockFacts DEF Second
  <2>. QED
    BY <2>2, <2>4, <2>5, <2>6, ClockFacts DEF NamesDistinct, Second
<1>5. CASE OpenFails
  BY <1>5 DEF OpenFails, PromotedReady, PromotedNdjson, NamesDistinct
<1>6. CASE \E p \in Existing(ready) : Consume(p)
  BY <1>6 DEF Consume, RemoveReady, MarkDone, NamesDistinct, TypeOK, Existing
<1>7. CASE UNCHANGED vars
  BY <1>7 DEF vars, NamesDistinct
<1>. QED
  BY <1>1, <1>2, <1>3, <1>4, <1>5, <1>6, <1>7, StepCases DEF Next

LEMMA NamesInit == Init => NamesDistinct
BY SpoolAssumption DEF Init, NamesDistinct, Second

(* If no two files are created in one second, no name is ever used twice.     *)
THEOREM NamesStayDistinct ==
  ASSUME "burst" \notin Faults
  PROVE  Spec => []NamesDistinct
<1>1. TypeOK /\ NamesDistinct /\ [Next]_vars => NamesDistinct'
  BY NamesStep
<1>. QED
  BY NamesInit, <1>1, TypeCorrect, PTL DEF Spec

-----------------------------------------------------------------------------
(* Where samples are.  A name has at most one file to be delivered, and a   *)
(* rename leaves it the same lines.                                         *)

\* The lines under the name of second p that wait for the flusher.
On(n, r, p) == IF n[p] # NoFile THEN n[p].lines
               ELSE IF r[p] # NoFile THEN r[p].lines ELSE {}

LEMMA OnLines ==
  ASSUME NEW n, NEW r, \A p \in Second : n[p] # NoFile => r[p] = NoFile
  PROVE  Lines(n) \cup Lines(r) = UNION {On(n, r, p) : p \in Second}
<1>1. ASSUME NEW s, NEW p \in Second, s \in On(n, r, p)
      PROVE  s \in Lines(n) \cup Lines(r)
  BY <1>1 DEF On, Lines, Existing
<1>2. ASSUME NEW s \in Lines(n) \cup Lines(r)
      PROVE  \E p \in Second : s \in On(n, r, p)
  BY <1>2 DEF On, Lines, Existing
<1>. QED
  BY <1>1, <1>2

\* The samples in W reach the current file, and nothing else changes place: whatever
\* the spool does, no line leaves the name it is under.
Kept(W) ==
  /\ W \subseteq buf
  /\ \A p \in Second : On(ndjson', ready', p)
                         = On(ndjson, ready, p) \cup (IF p = path THEN W ELSE {})
  /\ buf' \subseteq (buf \ W) \cup (seen + 1 .. seen')
  /\ fd' # "down" => buf \ W \subseteq buf'
  /\ seen' >= seen
  /\ UNCHANGED done

LEMMA RetireKeeps ==
  ASSUME TypeOK, NamesDistinct, fd = "open", Retire, buf' = {},
         UNCHANGED <<done, seen>>,
         ndjson'[path] = NoFile \/ (ndjson'[path] = Empty /\ Flushed = Empty),
         \A p \in Second : p # path => ndjson'[p] = ndjson[p] \/
                             (/\ ndjson'[p] = Empty /\ ndjson[p] = NoFile
                              /\ ready[p] = NoFile)
  PROVE  Kept(buf)
<1>1. ndjson[path] # NoFile
  BY DEF TypeOK
<1>2. /\ Flushed \in File /\ Flushed # NoFile
      /\ Flushed.lines = ndjson[path].lines \cup buf
  BY <1>1, FlushedIsFile, FileFacts
<1>3. ready[path] = NoFile
  BY <1>1, ClockFacts DEF NamesDistinct
<1>4. /\ \A p \in Second : p # path => ready'[p] = ready[p]
      /\ ready'[path] = IF Flushed = Empty THEN NoFile ELSE Flushed
  BY <1>3, ClockFacts DEF Retire, TypeOK
<1>5. On(ndjson', ready', path) = Flushed.lines
  BY <1>2, <1>4 DEF On, Empty
<1>6. ASSUME NEW p \in Second, p # path
      PROVE  On(ndjson', ready', p) = On(ndjson, ready, p)
  <2>1. ready'[p] = ready[p]
    BY <1>4, <1>6
  <2>2. CASE ndjson'[p] = ndjson[p]
    BY <2>1, <2>2 DEF On
  <2>3. CASE ndjson'[p] = Empty /\ ndjson[p] = NoFile /\ ready[p] = NoFile
    BY <2>3, FileFacts DEF On, Empty
  <2>. QED
    BY <1>6, <2>2, <2>3
<1>7. On(ndjson, ready, path) = ndjson[path].lines
  BY <1>1 DEF On
<1>. QED
  BY <1>2, <1>5, <1>6, <1>7, ClockFacts DEF Kept

LEMMA OwnKeeps ==
  ASSUME TypeOK, NamesDistinct, "burst" \notin Faults, Own
  PROVE  \E W : Kept(W)
<1>1. CASE Grown
  <2>1. PICK W : Written(W)
    BY <1>1 DEF Grown
  <2>2. ASSUME NEW p \in Second
        PROVE  On(ndjson', ready', p)
                 = On(ndjson, ready, p) \cup (IF p = path THEN W ELSE {})
    <3>1. CASE ndjson[p] # NoFile
      BY <1>1, <2>1, <3>1 DEF On, Grown, Written
    <3>2. CASE ndjson[p] = NoFile
      BY <1>1, <2>1, <3>2 DEF On, Grown, Written
    <3>. QED
      BY <3>1, <3>2
  <2>3. Kept(W)
    BY <1>1, <2>1, <2>2 DEF Kept, Grown, Written
  <2>. QED
    BY <2>3
<1>2. CASE RotateNew /\ UNCHANGED <<clock, done, seen>>
  <2>1. /\ Retire /\ fd = "open" /\ buf' = {}
        /\ clock > path /\ clock # path
    BY <1>2, ClockFacts DEF RotateNew, TypeOK, Spaced, NamesDistinct, Second
  <2>2. ndjson[clock] = NoFile /\ ready[clock] = NoFile
    BY <2>1, ClockFacts DEF NamesDistinct
  <2>. QED
    BY <1>2, <2>1, <2>2, RotatedFacts, RetireKeeps
<1>3. CASE RotateCannotOpen /\ UNCHANGED <<clock, done, seen>>
  <2>1. Retire /\ fd = "open" /\ buf' = {}
    BY <1>3 DEF RotateCannotOpen
  <2>2. /\ ndjson'[path] = NoFile \/ (ndjson'[path] = Empty /\ Flushed = Empty)
        /\ \A p \in Second : p # path => ndjson'[p] = ndjson[p]
    BY <1>3, UnlinkedFacts, EmptyFlushed DEF RotateCannotOpen
  <2>. QED
    BY <1>3, <2>1, <2>2, RetireKeeps
<1>4. CASE Open
  <2>1. MaxClock + 1 \in 0 .. MaxClock + 1 /\ \A p \in Second : p < MaxClock + 1
    BY SpoolAssumption DEF Second
  <2>2. /\ ndjson' = Create(PromotedNdjson(MaxClock + 1))
        /\ ready' = PromotedReady(MaxClock + 1)
        /\ UNCHANGED <<done, buf, seen>> /\ clock > path
    BY <1>4, ClockFacts DEF Open, Spaced, NamesDistinct, Second
  <2>3. /\ PromotedNdjson(MaxClock + 1) \in [Second -> File \cup {NoFile}]
        /\ \A p \in Second : PromotedNdjson(MaxClock + 1)[p] = NoFile
    BY <2>1, PromotedFacts DEF PromotedNdjson
  <2>4. /\ \A p \in Second : p # clock => ndjson'[p] = NoFile
        /\ ndjson'[clock] = Empty
    BY <2>2, <2>3, ClockFacts, CreateFacts
  <2>5. \A p \in Second :
          ready'[p] = IF ndjson[p] # NoFile THEN ndjson[p] ELSE ready[p]
    BY <2>1, <2>2 DEF PromotedReady
  <2>6. ndjson[clock] = NoFile /\ ready[clock] = NoFile
    BY <2>2, ClockFacts DEF NamesDistinct
  <2>7. \A p \in Second : On(ndjson', ready', p) = On(ndjson, ready, p)
    BY <2>4, <2>5, <2>6, FileFacts DEF On, Empty
  <2>8. Kept({})
    BY <2>2, <2>7, ClockFacts DEF Kept
  <2>. QED
    BY <2>8
<1>5. CASE OpenFails
  <2>1. \A p \in Second : On(ndjson', ready', p) = On(ndjson, ready, p)
    BY <1>5 DEF OpenFails, PromotedReady, PromotedNdjson, On
  <2>2. Kept({})
    BY <1>5, <2>1, ClockFacts DEF Kept, OpenFails
  <2>. QED
    BY <2>2
<1>. QED
  BY <1>1, <1>2, <1>3, <1>4, <1>5, OwnCases

(* No step of the spool's own takes a line out of the files to be delivered. *)
LEMMA OwnHolds ==
  ASSUME TypeOK, NamesDistinct, NamesDistinct', "burst" \notin Faults, Own
  PROVE  Lines(ndjson) \cup Lines(ready) \subseteq Lines(ndjson') \cup Lines(ready')
<1>1. Lines(ndjson) \cup Lines(ready) = UNION {On(ndjson, ready, p) : p \in Second}
  BY OnLines DEF NamesDistinct
<1>2. Lines(ndjson') \cup Lines(ready') = UNION {On(ndjson', ready', p) : p \in Second}
  BY OnLines DEF NamesDistinct
<1>3. \A p \in Second : On(ndjson, ready, p) \subseteq On(ndjson', ready', p)
  BY OwnKeeps DEF Kept
<1>. QED
  BY <1>1, <1>2, <1>3

(* The flusher removes a file without lines or keeps it as *.done.ndjson.    *)
LEMMA ConsumedStays ==
  ASSUME TypeOK, NamesDistinct, NEW q \in Existing(ready), RemoveReady(q) \/ MarkDone(q)
  PROVE  Lines(ndjson) \cup Lines(ready) \cup Lines(done)
           \subseteq Lines(ndjson') \cup Lines(ready') \cup Lines(done')
<1>. SUFFICES ASSUME NEW s, NEW p \in Second,
                     \/ ndjson[p] # NoFile /\ s \in ndjson[p].lines
                     \/ ready[p] # NoFile /\ s \in ready[p].lines
                     \/ done[p] # NoFile /\ s \in done[p].lines
              PROVE  \E o \in Second : \/ ndjson'[o] # NoFile /\ s \in ndjson'[o].lines
                                       \/ ready'[o] # NoFile /\ s \in ready'[o].lines
                                       \/ done'[o] # NoFile /\ s \in done'[o].lines
  BY DEF Lines, Existing
<1>1. CASE RemoveReady(q)
  BY <1>1 DEF RemoveReady, Empty, Existing, TypeOK
<1>2. CASE MarkDone(q)
  BY <1>2 DEF MarkDone, Existing, TypeOK, NamesDistinct
<1>. QED
  BY <1>1, <1>2

LEMMA FilesStayStep ==
  ASSUME TypeOK, NamesDistinct, FilesStay, [Next]_vars, "burst" \notin Faults
  PROVE  FilesStay'
<1>0. NamesDistinct'
  BY NamesStep
<1>1. CASE Own /\ Remember
  BY <1>0, <1>1, OwnHolds, OwnKeeps DEF FilesStay, Remember, Kept
<1>2. CASE Remember /\ \E q \in Existing(ready) : Consume(q)
  BY <1>2, ConsumedStays DEF FilesStay, Remember, Consume
<1>3. CASE UNCHANGED vars
  BY <1>3 DEF vars, FilesStay, Lines, Existing
<1>. QED
  BY <1>1, <1>2, <1>3 DEF Next, Step, Own

(* A sample that reached the disk stays there through rotations, crashes,     *)
(* restarts and failing system calls, if no two files are created in one      *)
(* second.                                                                    *)
THEOREM SpooledFilesStay ==
  ASSUME "burst" \notin Faults
  PROVE  Spec => []FilesStay
<1>1. Init => FilesStay
  BY DEF Init, FilesStay
<1>2. TypeOK /\ NamesDistinct /\ FilesStay /\ [Next]_vars => FilesStay'
  BY FilesStayStep
<1>. QED
  BY <1>1, <1>2, TypeCorrect, NamesStayDistinct, PTL DEF Spec

-----------------------------------------------------------------------------
(* Each sample is in one place.                                            *)

\* A sample that Append has taken is in the buffer, or on a line of the one file of
\* one name: the spool itself never doubles a line.
SamplesApart ==
  /\ buf \subseteq 1 .. seen
  /\ \A p \in Second : /\ On(ndjson, ready, p) \subseteq 1 .. seen
                       /\ On(ndjson, ready, p) \cap buf = {}
  /\ \A p, q \in Second :
       p # q => On(ndjson, ready, p) \cap On(ndjson, ready, q) = {}

LEMMA ApartInit == Init => SamplesApart
BY DEF Init, SamplesApart, On, Empty

(* Only what was in the buffer comes to a file, and leaves the buffer for it. *)
LEMMA KeptApart ==
  ASSUME TypeOK, SamplesApart, NEW W, Kept(W), seen' \in Nat
  PROVE  SamplesApart'
<1>1. 1 .. seen \subseteq 1 .. seen' /\ (seen + 1 .. seen') \cap (1 .. seen) = {}
      /\ seen + 1 .. seen' \subseteq 1 .. seen'
  BY ClockFacts DEF Kept
<1>2. buf' \subseteq 1 .. seen'
  BY <1>1 DEF Kept, SamplesApart
<1>3. ASSUME NEW p \in Second
      PROVE  /\ On(ndjson', ready', p) \subseteq 1 .. seen'
             /\ On(ndjson', ready', p) \cap buf' = {}
  BY <1>1 DEF Kept, SamplesApart
<1>4. ASSUME NEW p \in Second, NEW q \in Second, p # q
      PROVE  On(ndjson', ready', p) \cap On(ndjson', ready', q) = {}
  BY <1>4 DEF Kept, SamplesApart
<1>. QED
  BY <1>2, <1>3, <1>4 DEF SamplesApart

(* A file that the flusher takes away leaves the others as they were.       *)
LEMMA ConsumedApart ==
  ASSUME SamplesApart, UNCHANGED <<buf, seen>>,
         \A p \in Second : On(ndjson', ready', p) \subseteq On(ndjson, ready, p)
  PROVE  SamplesApart'
BY DEF SamplesApart

LEMMA ConsumedOn ==
  ASSUME TypeOK, NEW q \in Existing(ready), RemoveReady(q) \/ MarkDone(q)
  PROVE  /\ ndjson' = ndjson
         /\ ready' = [ready EXCEPT ![q] = NoFile]
         /\ \A p \in Second : On(ndjson', ready', p) \subseteq On(ndjson, ready, p)
BY DEF TypeOK, RemoveReady, MarkDone, On, Existing

LEMMA ApartStep ==
  ASSUME TypeOK, NamesDistinct, SamplesApart, "burst" \notin Faults, [Next]_vars
  PROVE  SamplesApart'
<1>1. CASE Own /\ Remember
  <2>1. seen' \in Nat
    BY <1>1, StepType, SpoolAssumption DEF Step, Own, FilesOK
  <2>. QED
    BY <1>1, <2>1, OwnKeeps, KeptApart
<1>2. CASE \E q \in Existing(ready) : Consume(q)
  BY <1>2, ConsumedOn, ConsumedApart DEF Consume
<1>3. CASE UNCHANGED vars
  BY <1>3 DEF vars, SamplesApart
<1>. QED
  BY <1>1, <1>2, <1>3 DEF Next, Step, Own

(* If no two files are created in one second, a sample is on disk at most     *)
(* once among the files to be delivered, and never both there and in the      *)
(* buffer: a failed write, a crash or a restart does not write it again.      *)
THEOREM SamplesStayApart ==
  ASSUME "burst" \notin Faults
  PROVE  Spec => []SamplesApart
<1>1. TypeOK /\ NamesDistinct /\ SamplesApart /\ [Next]_vars => SamplesApart'
  BY ApartStep
<1>. QED
  BY ApartInit, <1>1, TypeCorrect, NamesStayDistinct, PTL DEF Spec

-----------------------------------------------------------------------------
(* Whole lines.                                                            *)

\* No process was killed and no write has failed, so far or at all.
Unharmed == faults = 0 \/ Faults \cap {"crash", "write"} = {}

\* Half a line is only where its other half is still in the buffer.
Whole ==
  \A p \in Second :
    /\ ndjson[p] # NoFile /\ ndjson[p].torn => p = path /\ fd = "open" /\ buf # {}
    /\ ready[p] # NoFile => ~ ready[p].torn

LEMMA UnharmedFaults ==
  ASSUME TypeOK, Unharmed'
  PROVE  ~ Fault("crash") /\ ~ Fault("write")
BY DEF Unharmed, Fault, TypeOK

LEMMA FlushedWhole ==
  ASSUME TypeOK, Whole, fd = "open"
  PROVE  Flushed \in File /\ Flushed # NoFile /\ ~ Flushed.torn
<1>1. ndjson[path] # NoFile /\ path \in Second
  BY DEF TypeOK
<1>. QED
  BY <1>1, FlushedIsFile, FileFacts DEF Whole, Flushed

\* Steps that write the whole buffer, or nothing, to the current file.
LEMMA WrittenWhole ==
  ASSUME TypeOK, Whole, UNCHANGED <<ready, path>>,
         \/ fd = "open" /\ ndjson' = [ndjson EXCEPT ![path] = Flushed]
         \/ UNCHANGED ndjson /\ (buf # {} => buf' # {}) /\ (fd = "open" => fd' = "open")
  PROVE  Whole'
<1>1. CASE fd = "open" /\ ndjson' = [ndjson EXCEPT ![path] = Flushed]
  BY <1>1, FlushedWhole DEF Whole, TypeOK
<1>2. CASE UNCHANGED ndjson /\ (buf # {} => buf' # {}) /\ (fd = "open" => fd' = "open")
  BY <1>2 DEF Whole
<1>. QED
  BY <1>1, <1>2

LEMMA WriteFailsWhole ==
  ASSUME TypeOK, Whole, Unharmed', WriteFails, UNCHANGED <<ready, path>>
  PROVE  Whole'
<1>1. fd = "closed" /\ UNCHANGED <<ndjson, buf>>
  BY UnharmedFaults DEF WriteFails
<1>. QED
  BY <1>1, WrittenWhole

LEMMA RetireWhole ==
  ASSUME TypeOK, Whole, fd = "open", Retire,
         \A p \in Second : \/ ndjson'[p] = NoFile \/ ndjson'[p] = Empty
                           \/ p # path /\ ndjson'[p] = ndjson[p]
  PROVE  Whole'
<1>1. \A p \in Second : ready'[p] # NoFile => ~ ready'[p].torn
  BY FlushedWhole, ClockFacts DEF Retire, Whole, TypeOK
<1>. QED
  BY <1>1, ClockFacts DEF Whole, Empty

LEMMA WholeStep ==
  ASSUME TypeOK, Whole, Unharmed', Own
  PROVE  Whole'
<1>1. CASE AppendBuffered
  BY <1>1, WrittenWhole DEF AppendBuffered, files
<1>2. CASE AppendSpills
  <2>1. ndjson \in [Second -> File \cup {NoFile}] /\ ndjson[path] # NoFile
    BY <1>2 DEF AppendSpills, TypeOK
  <2>2. \A p \in Second : p # path => ndjson'[p] = ndjson[p]
    BY <1>2, <2>1 DEF AppendSpills
  <2>. QED
    BY <1>2, <2>2 DEF AppendSpills, Whole
<1>3. CASE AppendRefused
  BY <1>3, WriteFailsWhole, WrittenWhole DEF AppendRefused
<1>4. CASE Flush
  BY <1>4, WriteFailsWhole, WrittenWhole DEF Flush
<1>5. CASE RotateOk
  <2>1. CASE RotateIdle
    BY <2>1, WrittenWhole DEF RotateIdle
  <2>2. CASE RotateNew
    BY <2>2, RotatedFacts, RetireWhole, ClockFacts DEF RotateNew
  <2>. QED
    BY <1>5, <2>1, <2>2 DEF RotateOk
<1>6. CASE RotateFails
  <2>1. CASE RotateFlushFails
    BY <2>1, WriteFailsWhole, WrittenWhole DEF RotateFlushFails
  <2>2. CASE RotateStops
    BY <2>2, WrittenWhole DEF RotateStops
  <2>3. CASE RotateCannotOpen
    BY <2>3, RotatedFacts, RetireWhole, ClockFacts DEF RotateCannotOpen
  <2>. QED
    BY <1>6, <2>1, <2>2, <2>3 DEF RotateFails
<1>7. CASE Close
  <2>1. CASE fd = "open"
    BY <1>7, <2>1, UnharmedFaults, WrittenWhole DEF Close
  <2>2. CASE fd # "open"
    BY <1>7, <2>2 DEF Close, Whole
  <2>. QED
    BY <2>1, <2>2
<1>8. CASE Crash
  BY <1>8, UnharmedFaults DEF Crash
<1>9. CASE Open
  <2>1. MaxClock + 1 \in 0 .. MaxClock + 1 /\ \A p \in Second : p < MaxClock + 1
    BY SpoolAssumption DEF Second
  <2>2. /\ PromotedNdjson(MaxClock + 1) \in [Second -> File \cup {NoFile}]
        /\ \A p \in Second : PromotedNdjson(MaxClock + 1)[p] = NoFile
    BY <2>1, PromotedFacts DEF PromotedNdjson
  <2>3. \A p \in Second : ndjson'[p] = NoFile \/ ndjson'[p] = Empty
    BY <1>9, <2>2, CreateFacts, ClockFacts DEF Open
  <2>4. \A p \in Second : ready'[p] = ndjson[p] \/ ready'[p] = ready[p]
    BY <1>9 DEF Open, PromotedReady
  <2>5. \A p \in Second : ndjson[p] # NoFile => ~ ndjson[p].torn
    BY <1>9 DEF Open, Whole
  <2>. QED
    BY <2>3, <2>4, <2>5 DEF Whole, Empty
<1>10. CASE OpenFails
  BY <1>10 DEF OpenFails, PromotedNdjson, PromotedReady, Whole
<1>11. CASE Tick
  BY <1>11, WrittenWhole DEF Tick, files
<1>. QED
  BY <1>1, <1>2, <1>3, <1>4, <1>5, <1>6, <1>7, <1>8, <1>9, <1>10, <1>11
     DEF Own, AppendSample

(* If no process is killed and no write fails, no file that the flusher is    *)
(* given ends inside a line.                                                  *)
THEOREM ReadyFilesDecode ==
  ASSUME Faults \cap {"crash", "write"} = {}
  PROVE  Spec => []ReadyDecodes
<1>1. Init => Whole
  BY DEF Init, Whole, Empty
<1>2. TypeOK /\ Whole /\ [Next]_vars => Whole'
  <2>. SUFFICES ASSUME TypeOK, Whole, [Next]_vars PROVE Whole'
    OBVIOUS
  <2>1. CASE Own
    BY <2>1, WholeStep DEF Unharmed
  <2>2. CASE \E q \in Existing(ready) : Consume(q)
    BY <2>2, ConsumedOn DEF Consume, Whole, TypeOK
  <2>3. CASE UNCHANGED vars
    BY <2>3 DEF vars, Whole
  <2>. QED
    BY <2>1, <2>2, <2>3 DEF Next, Step, Own
<1>3. Whole => ReadyDecodes
  BY DEF Whole, ReadyDecodes, Existing
<1>. QED
  BY <1>1, <1>2, <1>3, TypeCorrect, PTL DEF Spec

=============================================================================
