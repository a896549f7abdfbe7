------------------------------- MODULE Spool -------------------------------
(***************************************************************************)
(* The on-disk sample spool (internal/spool).                              *)
(*                                                                         *)
(* Samples are appended through a buffered writer to one current file      *)
(* samples-<second>.ndjson.  Rotate finishes the current file, renames it  *)
(* to *.ready.ndjson and opens the next one; the flusher later turns a     *)
(* ready file into *.done.ndjson.  Every operation runs under the spool's  *)
(* mutex, so each is one action; its error returns are separate disjuncts. *)
(*                                                                         *)
(* A file is named after the SECOND it was created in, so the directory is *)
(* three functions of the second, one per extension.  A sample is its      *)
(* position in the order of Append calls; a file is the set of samples     *)
(* whose whole line it holds, and whether it ends in the middle of a line. *)
(***************************************************************************)
EXTENDS Naturals

CONSTANTS
  MaxSample,   \* bound: how many samples are offered to Append
  MaxClock,    \* bound: the last second of a run
  MaxFaults,   \* bound: how many faults happen in a run
  Faults,      \* the kinds of fault the environment may inject
  NoFile       \* no file of that name

FaultKind ==
  { "crash",    \* the process is killed: the write buffer is gone
    "write",    \* write(2) fails, possibly after a short write (disk full)
    "sync", "close", "rename", "open",   \* that system call fails
    "remove",     \* so does os.Remove of an empty current file, which is ignored
    "spill",    \* no fault: the 64 KB buffer may fill between two flushes
    "burst" }   \* no fault: two files may be created in the same second

Sample == 1 .. MaxSample
Second == 0 .. MaxClock
File == [lines : SUBSET Sample, torn : BOOLEAN]
Empty == [lines |-> {}, torn |-> FALSE]

ASSUME SpoolAssumption ==
  /\ MaxSample \in Nat
  /\ MaxClock \in Nat
  /\ MaxFaults \in Nat
  /\ NoFile \notin File

VARIABLES
  clock,    \* wall clock, in seconds
  ndjson,   \* [Second -> File or NoFile]: the *.ndjson files
  ready,    \* the *.ready.ndjson files
  done,     \* the *.done.ndjson files
  fd,       \* the writer; see Writer
  path,     \* the second in the name of the current (or last) file
  buf,      \* samples with bytes still in the bufio.Writer
  seen,     \* how many samples Append has been called with
  durable,  \* history: every sample whose whole line has ever been on disk
  faults    \* how many faults have happened

Writer ==
  { "down",    \* no process
    "nil",     \* s.f, s.w and s.enc are nil: Append answers "spool closed"
    "open",
    "stuck",   \* bufio.Writer and json.Encoder keep their first error for good
    "closed" } \* the descriptor was closed under a writer still in use

files == <<ndjson, ready, done>>
spoolVars == <<clock, ndjson, ready, done, fd, path, buf, seen, faults>>
vars == <<clock, ndjson, ready, done, fd, path, buf, seen, durable, faults>>

Existing(d) == {p \in Second : d[p] # NoFile}
Lines(d) == UNION {d[p].lines : p \in Existing(d)}

Fault(kind) ==
  /\ kind \in Faults
  /\ faults < MaxFaults
  /\ faults' = faults + 1

TypeOK ==
  /\ clock \in Second
  /\ ndjson \in [Second -> File \cup {NoFile}]
  /\ ready \in [Second -> File \cup {NoFile}]
  /\ done \in [Second -> File \cup {NoFile}]
  /\ fd \in Writer
  /\ path \in Second
  /\ buf \subseteq Sample
  /\ seen \in 0 .. MaxSample
  /\ durable \subseteq Sample
  /\ faults \in 0 .. MaxFaults
  /\ fd \in {"open", "stuck", "closed"} => ndjson[path] # NoFile

-----------------------------------------------------------------------------
(* Writing.                                                                *)

\* The current file once bufio has flushed all it holds.
Flushed ==
  IF buf = {} THEN ndjson[path]
  ELSE [lines |-> ndjson[path].lines \cup buf, torn |-> FALSE]

\* What a failing write may have left behind: the samples written in full, and
\* whether the file now ends inside a line.  A line that was torn already stays
\* torn unless its sample is among those completed.
ShortWrites ==
  {w \in [wrote : {{s \in buf : s <= k} : k \in 0 .. MaxSample}, torn : BOOLEAN] :
     w.wrote = {} /\ ndjson[path].torn => w.torn}

AfterShortWrite(w) ==
  [ndjson EXCEPT ![path] = [lines |-> @.lines \cup w.wrote, torn |-> w.torn]]

\* A flush of a non-empty buffer fails; the writer keeps the error for good.
WriteFails ==
  /\ buf # {}
  /\ fd' = "stuck"
  /\ \/ /\ fd = "open"
        /\ Fault("write")
        /\ \E w \in ShortWrites : /\ ndjson' = AfterShortWrite(w)
                                  /\ buf' = buf \ w.wrote
     \/ /\ fd = "closed"
        /\ UNCHANGED <<ndjson, buf, faults>>

\* Bound: nothing new happens in the last second, so that a run can drain.
Quiet == clock = MaxClock

Offer == /\ ~ Quiet
         /\ seen < MaxSample
         /\ seen' = seen + 1

AppendBuffered ==
  /\ fd \in {"open", "closed"}
  /\ Offer
  /\ buf' = buf \cup {seen'}
  /\ UNCHANGED <<clock, files, fd, path, faults>>

\* The line does not fit: what was buffered goes to disk, with or without the
\* head of the new line, whose tail stays behind.
AppendSpills ==
  /\ "spill" \in Faults
  /\ fd = "open"
  /\ buf # {}
  /\ Offer
  /\ \E t \in BOOLEAN :
       ndjson' = [ndjson EXCEPT ![path] = [lines |-> @.lines \cup buf, torn |-> t]]
  /\ buf' = {seen'}
  /\ UNCHANGED <<clock, ready, done, fd, path, faults>>

\* Append returns an error and the sample is not spooled.
AppendRefused ==
  /\ Offer
  /\ \/ /\ fd \in {"nil", "stuck"}
        /\ UNCHANGED <<ndjson, fd, buf, faults>>
     \/ /\ "spill" \in Faults
        /\ WriteFails
  /\ UNCHANGED <<clock, ready, done, path>>

AppendSample == AppendBuffered \/ AppendSpills \/ AppendRefused

\* The periodic Flush.  On a nil or stuck writer it changes nothing.
Flush ==
  /\ \/ /\ fd = "open"
        /\ ndjson' = [ndjson EXCEPT ![path] = Flushed]
        /\ buf' = {}
        /\ UNCHANGED <<fd, faults>>
     \/ WriteFails
  /\ UNCHANGED <<clock, ready, done, path, seen>>

-----------------------------------------------------------------------------
(* Rotating, opening, closing.                                             *)

\* Unless bursts are allowed, a file is created in a later second than the last.
Spaced == "burst" \in Faults \/ clock # path

\* O_CREATE|O_APPEND on the name of the current second.
Create(d) == [d EXCEPT ![clock] = IF @ = NoFile THEN Empty ELSE @]

Unlinked == [ndjson EXCEPT ![path] = NoFile]

\* Variants of Retire: the rename without the flush, and a ready file named after
\* the second of its rotation.
RetireUnflushed == ready' = IF ndjson[path] = Empty THEN ready
                            ELSE [ready EXCEPT ![path] = ndjson[path]]
RetireRenamed == ready' = IF Flushed = Empty THEN ready
                          ELSE [ready EXCEPT ![clock] = Flushed]

\* rename(2) replaces whatever had the new name; an empty file is deleted.
Retire == ready' = IF Flushed = Empty THEN ready
                   ELSE [ready EXCEPT ![path] = Flushed]

\* There is no file to rotate, or an empty one, which is opened again under the same
\* name if the second is still the same, whether or not its removal failed.
RotateIdle ==
  /\ \/ fd = "nil"
     \/ fd = "open" /\ clock = path /\ Flushed = Empty
  /\ UNCHANGED <<ndjson, ready, fd, path, buf, faults>>

RotateNew ==
  /\ fd = "open"
  /\ Spaced
  /\ Retire
  /\ \/ ndjson' = Create(Unlinked) /\ UNCHANGED faults
     \/ Flushed = Empty /\ Fault("remove") /\ ndjson' = Create(ndjson)
  /\ path' = clock
  /\ buf' = {}
  /\ UNCHANGED fd

RotateOk ==
  /\ RotateIdle \/ RotateNew
  /\ UNCHANGED <<clock, done, seen>>

RotateFlushFails ==
  \/ WriteFails /\ UNCHANGED <<ready, path>>
  \/ fd = "stuck" /\ UNCHANGED <<ndjson, ready, fd, path, buf, faults>>

\* Sync or Close fails with the file still current, or Rename fails after the
\* handle was dropped: the spool then stays closed until the process restarts.
RotateStops ==
  /\ \/ /\ fd = "open"
        /\ ndjson' = [ndjson EXCEPT ![path] = Flushed]
        /\ buf' = {}
        /\ \/ Fault("sync") /\ UNCHANGED fd
           \/ Fault("close") /\ fd' = "closed"
           \/ Fault("rename") /\ Flushed # Empty /\ fd' = "nil"
     \/ /\ fd = "closed" /\ buf = {}     \* Sync of a closed file
        /\ UNCHANGED <<ndjson, fd, buf, faults>>
  /\ UNCHANGED <<ready, path>>

\* Variant: the writer is reset only once the new file is open.
RotateKeepsWriter ==
  /\ fd = "open"
  /\ Fault("open")
  /\ Retire
  /\ ndjson' = Unlinked
  /\ buf' = {}
  /\ UNCHANGED <<fd, path>>

\* A directory that no file can be made in may not let one be removed either.
RotateCannotOpen ==
  /\ fd = "open"
  /\ Fault("open")
  /\ Retire
  /\ \/ ndjson' = Unlinked
     \/ Flushed = Empty /\ "remove" \in Faults /\ UNCHANGED ndjson
  /\ fd' = "nil"
  /\ buf' = {}
  /\ UNCHANGED path

RotateFails ==
  /\ RotateFlushFails \/ RotateStops \/ RotateCannotOpen
  /\ UNCHANGED <<clock, done, seen>>

\* Close is deferred to the end of run(): the process ends with it.
Close ==
  /\ fd # "down"
  /\ \/ /\ fd = "open"
        /\ \/ /\ ndjson' = [ndjson EXCEPT ![path] = Flushed]
              /\ UNCHANGED faults
           \/ /\ Fault("write")
              /\ \E w \in ShortWrites : ndjson' = AfterShortWrite(w)
     \/ /\ fd # "open"
        /\ UNCHANGED <<ndjson, faults>>
  /\ fd' = "down"
  /\ buf' = {}
  /\ UNCHANGED <<clock, ready, done, path, seen>>

Crash ==
  /\ fd # "down"
  /\ ~ Quiet
  /\ Fault("crash")
  /\ fd' = "down"
  /\ buf' = {}
  /\ UNCHANGED <<clock, files, path, seen>>

\* promoteOrphans, as far as the files named before second k.
PromotedNdjson(k) == [p \in Second |-> IF p < k THEN NoFile ELSE ndjson[p]]
PromotedReady(k) ==
  [p \in Second |-> IF p < k /\ ndjson[p] # NoFile THEN ndjson[p] ELSE ready[p]]

\* Variant: Open without promoteOrphans.
OpenBeside ==
  /\ fd = "down"
  /\ Spaced
  /\ ndjson' = Create(ndjson)
  /\ path' = clock
  /\ fd' = "open"
  /\ UNCHANGED <<clock, ready, done, buf, seen, faults>>

\* Variant: promoteOrphans also takes *.done.ndjson for an orphan.
OpenPromotesDone ==
  /\ fd = "down"
  /\ Spaced
  /\ ready' = [p \in Second |-> IF done[p] # NoFile THEN done[p]
                                ELSE PromotedReady(MaxClock + 1)[p]]
  /\ ndjson' = Create(PromotedNdjson(MaxClock + 1))
  /\ path' = clock
  /\ fd' = "open"
  /\ UNCHANGED <<clock, done, buf, seen, faults>>

Open ==
  /\ fd = "down"
  /\ Spaced
  /\ ready' = PromotedReady(MaxClock + 1)
  /\ ndjson' = Create(PromotedNdjson(MaxClock + 1))
  /\ path' = clock
  /\ fd' = "open"
  /\ UNCHANGED <<clock, done, buf, seen, faults>>

\* A rename or the final open fails: run() returns and the unit is restarted.
OpenFails ==
  /\ fd = "down"
  /\ Fault("open")
  /\ \E k \in 0 .. MaxClock + 1 : /\ ready' = PromotedReady(k)
                                  /\ ndjson' = PromotedNdjson(k)
  /\ UNCHANGED <<clock, done, fd, path, buf, seen>>

-----------------------------------------------------------------------------
(* Environment: the clock, and the flusher as the spool sees it.           *)

Tick == /\ clock < MaxClock
        /\ clock' = clock + 1
        /\ UNCHANGED <<files, fd, path, buf, seen, faults>>

\* os.Remove of an empty ready file.
RemoveReady(p) ==
  /\ ready[p] = Empty
  /\ ready' = [ready EXCEPT ![p] = NoFile]
  /\ UNCHANGED <<ndjson, done>>

\* os.Rename of *.ready.ndjson to *.done.ndjson.
MarkDone(p) ==
  /\ ready[p] # NoFile
  /\ done' = [done EXCEPT ![p] = ready[p]]
  /\ ready' = [ready EXCEPT ![p] = NoFile]
  /\ UNCHANGED ndjson

Consume(p) ==
  /\ fd # "down"
  /\ RemoveReady(p) \/ (~ ready[p].torn /\ MarkDone(p))
  /\ UNCHANGED <<clock, fd, path, buf, seen, faults>>

\* What Open leaves in an empty directory.
Init ==
  /\ clock = 0
  /\ ndjson = [p \in Second |-> IF p = 0 THEN Empty ELSE NoFile]
  /\ ready = [p \in Second |-> NoFile]
  /\ done = [p \in Second |-> NoFile]
  /\ fd = "open"
  /\ path = 0
  /\ buf = {}
  /\ seen = 0
  /\ durable = {}
  /\ faults = 0

Step ==
  \/ AppendSample
  \/ Flush
  \/ RotateOk
  \/ RotateFails
  \/ Close
  \/ Crash
  \/ Open
  \/ OpenFails
  \/ Tick
  \/ \E p \in Existing(ready) : Consume(p)

Remember == durable' = durable \cup Lines(ndjson') \cup Lines(ready')

Next == Step /\ Remember

Spec == Init /\ [][Next]_vars

-----------------------------------------------------------------------------
(* Properties.                                                             *)

\* A sample that has once been on disk stays in some file: neither a rotation,
\* nor a restart, nor any failing system call replaces or drops a file that
\* still holds samples.
FilesStay == durable \subseteq Lines(ndjson) \cup Lines(ready) \cup Lines(done)

\* The one *.ndjson file that may hold anything is the file opened last: whatever an
\* earlier process or rotation left behind has been promoted (Open, promoteOrphans) or
\* is an empty file that could not be removed.  So at most one file is ever out of the
\* flusher's sight.  After a failing Close or Rename it stays so until the next start,
\* which promotes it; this invariant does not say when that is.
NoStrandedFile == \A p \in Existing(ndjson) : p = path \/ ndjson[p] = Empty

\* Unless a process is killed or a write fails, no file that the flusher is given
\* ends inside a line, even if the buffer spilled half of one while the file was
\* current: Rotate and Close flush before they let go of a file.
ReadyDecodes == \A p \in Existing(ready) : ~ ready[p].torn

\* Why nothing is replaced: the current file has the latest name of all, and no
\* second has files of two extensions, so no rename finds its new name taken.
NamesDistinct ==
  /\ path <= clock
  /\ \A p \in Second :
       /\ p > path => ndjson[p] = NoFile /\ ready[p] = NoFile /\ done[p] = NoFile
       /\ ndjson[p] # NoFile => ready[p] = NoFile /\ done[p] = NoFile
       /\ ready[p] # NoFile => done[p] = NoFile

=============================================================================
