------------------------------ MODULE Flusher ------------------------------
(***************************************************************************)
(* The flusher (internal/flush) over the spool it drains, the database it  *)
(* fills (internal/db) and the fan-out that feeds them (internal/buffer).  *)
(*                                                                         *)
(* One flush cycle is not atomic: the spool is rotated, the ready files    *)
(* are consumed oldest first, then the closed rollup buckets and the       *)
(* queued outage events are written.  Between any two of those steps       *)
(* samples arrive, events are queued, signals are delivered and the        *)
(* process may die.  A database call may succeed, fail, or fail after the  *)
(* database has committed.                                                 *)
(*                                                                         *)
(* A rollup row is the set of samples it counts.  Which buckets are closed *)
(* at the time of a cycle is left open here.  An outage event is its       *)
(* number in the order of RecordOutage calls.                              *)
(***************************************************************************)
EXTENDS Spool, Sequences, SequencesExt

CONSTANT MaxEvent   \* bound: how many outage events are recorded

ASSUME FlusherAssumption == MaxEvent \in Nat

\* The kinds of fault, besides those of Spool.
CycleFault ==
  { "list",         \* the spool directory cannot be read
    "db",           \* a database call fails and leaves no trace
    "ack",          \* a database call fails though the database committed
    "read",         \* a ready file cannot be opened or read
    "renamedone",   \* rename(2) to *.done.ndjson, or remove(2), fails
    "stop",         \* no fault: SIGINT or SIGTERM may arrive
    "usr1",         \* no fault: SIGUSR1 may arrive
    "age" }         \* no fault: retention.spool_hours may pass

NoSample == 0

VARIABLES
  pc,        \* where the flush loop is
  todo,      \* ready files listed by this cycle and not yet looked at
  trig,      \* a manual flush is requested (a channel of capacity 1)
  stop,      \* ctx is cancelled
  hand,      \* the sample that buffer.Run has spooled and not yet rolled up
  acc,       \* samples in the rollup accumulator
  rows,      \* samples in rollup rows that the flusher holds
  pending,   \* outage events queued by RecordOutage
  batch,     \* outage events that the flusher holds
  raised,    \* how many outage events were recorded
  db,        \* ping_samples: how often each sample was inserted
  rolled,    \* ping_rollups: how often each sample was counted
  odb,       \* outage_events, in the order of insertion
  expired,   \* *.done.ndjson files older than the retention
  asked      \* history: what was spooled at the last SIGUSR1

loop == <<pc, todo, trig, stop>>
rollups == <<acc, rows>>
outages == <<pending, batch, raised>>
store == <<db, rolled, odb>>
disk == <<clock, ndjson, ready, done, fd, path, buf, seen>>
allVars == <<vars, loop, hand, rollups, outages, store, expired, asked>>

Held == Lines(ndjson) \cup Lines(ready)
InDB == {s \in Sample : db[s] > 0}

\* One more of everything in S.
Counted(f, S) == [s \in Sample |-> IF s \in S THEN f[s] + 1 ELSE f[s]]

-----------------------------------------------------------------------------
(* The sample path and the other goroutines.                               *)

\* buffer.Run: the spool sink.  Its error is logged; the sample goes on.
SpoolSink ==
  /\ hand = NoSample
  /\ AppendSample
  /\ hand' = seen'
  /\ UNCHANGED <<loop, rollups, outages, store, expired, asked>>

\* buffer.Run: the rollup sink.
RollupSink ==
  /\ hand # NoSample
  /\ acc' = acc \cup {hand}
  /\ hand' = NoSample
  /\ UNCHANGED <<disk, faults, loop, rows, outages, store, expired, asked>>

SpoolFlush ==
  /\ Flush
  /\ UNCHANGED <<loop, hand, rollups, outages, store, expired, asked>>

\* The tracker queues an event; until the process ends it may still do so, even
\* after the final flush (CloseAll runs in main, beside the flush loop).
RecordOutage ==
  /\ fd # "down"
  /\ raised < MaxEvent
  /\ raised' = raised + 1
  /\ pending' = Append(pending, raised')
  /\ UNCHANGED <<disk, faults, loop, hand, rollups, batch, store, expired, asked>>

\* Variant: a trigger during a cycle counts as served by that cycle.
TriggerUnlessBusy ==
  /\ "usr1" \in Faults
  /\ fd # "down" /\ ~ Quiet
  /\ trig' = (pc = "idle")
  /\ asked' = Held \cup buf
  /\ UNCHANGED <<disk, faults, pc, todo, stop, hand, rollups, outages, store, expired>>

Trigger ==
  /\ "usr1" \in Faults
  /\ fd # "down" /\ ~ Quiet
  /\ trig' = TRUE
  /\ asked' = Held \cup buf
  /\ UNCHANGED <<disk, faults, pc, todo, stop, hand, rollups, outages, store, expired>>

Stop ==
  /\ "stop" \in Faults
  /\ fd # "down" /\ ~ Quiet
  /\ ~ stop
  /\ stop' = TRUE
  /\ UNCHANGED <<disk, faults, pc, todo, trig, hand, rollups, outages, store,
                 expired, asked>>

\* Bound: a process that is stopping has ended before the last second, so that there
\* is time for the next one to start.
TimePasses ==
  /\ Tick
  /\ stop => clock' < MaxClock
  /\ UNCHANGED <<loop, hand, rollups, outages, store, expired, asked>>

Expire ==
  /\ "age" \in Faults
  /\ \E p \in Existing(done) \ expired : expired' = expired \cup {p}
  /\ UNCHANGED <<disk, faults, loop, hand, rollups, outages, store, asked>>

-----------------------------------------------------------------------------
(* A flush cycle: Once.                                                    *)

\* A call fails, and the database has nothing of it: after ctx is cancelled every
\* call of Once does.
CallFails == Fault("db") \/ (stop /\ UNCHANGED faults)

\* Run takes a tick or a trigger, and rotates the spool.
BeginCycle ==
  /\ pc = "idle"
  /\ fd # "down"
  /\ \/ UNCHANGED trig
     \/ trig /\ trig' = FALSE
  /\ \/ RotateOk /\ pc' = "list"
     \/ RotateFails /\ pc' = "idle"
  /\ UNCHANGED <<todo, stop, hand, rollups, outages, store, expired, asked>>

ListReady ==
  /\ pc = "list"
  /\ \/ /\ pc' = "consume"
        /\ todo' = Existing(ready)
        /\ UNCHANGED faults
     \/ /\ Fault("list")
        /\ pc' = "idle"
        /\ UNCHANGED todo
  /\ UNCHANGED <<disk, trig, stop, hand, rollups, outages, store, expired, asked>>

Oldest == Min(todo)

\* consumeFile does not get to the database: the file cannot be read or decoded, or
\* holds nothing and is removed.
SkipFile ==
  /\ pc = "consume" /\ todo # {}
  /\ \/ /\ ready[Oldest].torn
        /\ UNCHANGED <<files, faults>>
     \/ /\ RemoveReady(Oldest)
        /\ UNCHANGED faults
     \/ /\ Fault("read") \/ (ready[Oldest] = Empty /\ Fault("renamedone"))
        /\ UNCHANGED files
  /\ todo' = todo \ {Oldest}
  /\ UNCHANGED <<clock, fd, path, buf, seen, pc, trig, stop, hand, rollups, outages,
                 store, expired, asked>>

Decoded ==
  /\ pc = "consume" /\ todo # {}
  /\ ~ ready[Oldest].torn
  /\ ready[Oldest] # Empty

\* Variant: the file is left for the next cycle to rename.
InsertAndLeave ==
  /\ Decoded
  /\ db' = Counted(db, ready[Oldest].lines)
  /\ todo' = todo \ {Oldest}
  /\ UNCHANGED <<disk, faults, pc, trig, stop, hand, rollups, outages, rolled, odb,
                 expired, asked>>

InsertSamples ==
  /\ Decoded
  /\ db' = Counted(db, ready[Oldest].lines)
  /\ pc' = "rename"
  /\ UNCHANGED <<disk, faults, todo, trig, stop, hand, rollups, outages, rolled, odb,
                 expired, asked>>

\* Variant: the error is logged and the file goes on to be renamed.
InsertFailsUnseen ==
  /\ Decoded
  /\ \/ CallFails /\ UNCHANGED db
     \/ Fault("ack") /\ db' = Counted(db, ready[Oldest].lines)
  /\ pc' = "rename"
  /\ UNCHANGED <<disk, todo, trig, stop, hand, rollups, outages, rolled, odb,
                 expired, asked>>

\* Logged; the file stays for the next cycle.
InsertFails ==
  /\ Decoded
  /\ \/ CallFails /\ UNCHANGED db
     \/ Fault("ack") /\ db' = Counted(db, ready[Oldest].lines)
  /\ todo' = todo \ {Oldest}
  /\ UNCHANGED <<disk, pc, trig, stop, hand, rollups, outages, rolled, odb,
                 expired, asked>>

RenameDone ==
  /\ pc = "rename"
  /\ \/ MarkDone(Oldest) /\ UNCHANGED faults
     \/ Fault("renamedone") /\ UNCHANGED files
  /\ todo' = todo \ {Oldest}
  /\ pc' = "consume"
  /\ UNCHANGED <<clock, fd, path, buf, seen, trig, stop, hand, rollups, outages,
                 store, expired, asked>>

\* rollups.Flush: the rows of the closed buckets leave the accumulator.
TakeRollups ==
  /\ pc = "consume" /\ todo = {}
  /\ \E closed \in SUBSET acc : rows' = closed /\ acc' = acc \ closed
  /\ pc' = "upsert"
  /\ UNCHANGED <<disk, faults, todo, trig, stop, hand, outages, store, expired, asked>>

UpsertRollups ==
  /\ pc = "upsert"
  /\ rolled' = Counted(rolled, rows)
  /\ rows' = {}
  /\ pc' = "drain"
  /\ UNCHANGED <<disk, faults, todo, trig, stop, hand, acc, outages, db, odb,
                 expired, asked>>

\* Variant: what could not be written goes back to the accumulator.
UpsertRequeues ==
  /\ pc = "upsert" /\ rows # {}
  /\ \/ CallFails /\ UNCHANGED rolled
     \/ Fault("ack") /\ rolled' = Counted(rolled, rows)
  /\ acc' = acc \cup rows
  /\ rows' = {}
  /\ pc' = "idle"
  /\ UNCHANGED <<disk, todo, trig, stop, hand, outages, db, odb, expired, asked>>

\* Variant: the flusher goes on holding them.
UpsertFailsKeeping ==
  /\ pc = "upsert" /\ rows # {}
  /\ \/ CallFails /\ UNCHANGED rolled
     \/ Fault("ack") /\ rolled' = Counted(rolled, rows)
  /\ pc' = "idle"
  /\ UNCHANGED <<disk, todo, trig, stop, hand, rollups, outages, db, odb, expired,
                 asked>>

\* The cycle ends here, and nothing keeps the rows.
UpsertFails ==
  /\ pc = "upsert" /\ rows # {}
  /\ \/ CallFails /\ UNCHANGED rolled
     \/ Fault("ack") /\ rolled' = Counted(rolled, rows)
  /\ rows' = {}
  /\ pc' = "idle"
  /\ UNCHANGED <<disk, todo, trig, stop, hand, acc, outages, db, odb, expired, asked>>

DrainOutages ==
  /\ pc = "drain"
  /\ batch' = pending
  /\ pending' = <<>>
  /\ pc' = "insert"
  /\ UNCHANGED <<disk, faults, todo, trig, stop, hand, rollups, raised, store,
                 expired, asked>>

InsertOutages ==
  /\ pc = "insert"
  /\ odb' = odb \o batch
  /\ batch' = <<>>
  /\ pc' = "cleanup"
  /\ UNCHANGED <<disk, faults, todo, trig, stop, hand, rollups, pending, raised, db,
                 rolled, expired, asked>>

\* Variant: the events go to the back of the queue.
RequeueLast == pending' = pending \o batch

\* append(events, f.pending...): events recorded meanwhile come after.
Requeue == pending' = batch \o pending

InsertOutagesFails ==
  /\ pc = "insert" /\ batch # <<>>
  /\ \/ CallFails /\ UNCHANGED odb
     \/ Fault("ack") /\ odb' = odb \o batch
  /\ Requeue
  /\ batch' = <<>>
  /\ pc' = "idle"
  /\ UNCHANGED <<disk, todo, trig, stop, hand, rollups, raised, db, rolled,
                 expired, asked>>

\* cleanupOldDone.  The directory to clean is that of the first ready file, if there is
\* one and it can be listed, twice; a file that cannot be looked at or removed stays.
Cleanup ==
  /\ pc = "cleanup"
  /\ \E gone \in SUBSET expired :
       /\ \/ gone = (IF Existing(ready) = {} THEN {} ELSE expired) /\ UNCHANGED faults
          \/ gone = {} /\ Fault("list")
          \/ Existing(ready) # {} /\ Fault("renamedone")
       /\ done' = [p \in Second |-> IF p \in gone THEN NoFile ELSE done[p]]
       /\ expired' = expired \ gone
  /\ pc' = "idle"
  /\ UNCHANGED <<clock, ndjson, ready, fd, path, buf, seen, todo, trig, stop,
                 hand, rollups, outages, store, asked>>

-----------------------------------------------------------------------------
(* Shutdown: finalFlush, whose calls have a context of their own.          *)

BeginFinal ==
  /\ pc = "idle" /\ stop
  /\ rows' = acc
  /\ acc' = {}
  /\ pc' = "finalUpsert"
  /\ UNCHANGED <<disk, faults, todo, trig, stop, hand, outages, store, expired, asked>>

FinalUpsert ==
  /\ pc = "finalUpsert"
  /\ \/ rolled' = Counted(rolled, rows) /\ UNCHANGED faults
     \/ rows # {} /\ Fault("ack") /\ rolled' = Counted(rolled, rows)
     \/ rows # {} /\ Fault("db") /\ UNCHANGED rolled
  /\ rows' = {}
  /\ pc' = "finalDrain"
  /\ UNCHANGED <<disk, todo, trig, stop, hand, acc, outages, db, odb, expired, asked>>

FinalDrain ==
  /\ pc = "finalDrain"
  /\ batch' = pending
  /\ pending' = <<>>
  /\ pc' = "finalInsert"
  /\ UNCHANGED <<disk, faults, todo, trig, stop, hand, rollups, raised, store,
                 expired, asked>>

FinalInsert ==
  /\ pc = "finalInsert"
  /\ \/ odb' = odb \o batch /\ UNCHANGED faults
     \/ batch # <<>> /\ Fault("ack") /\ odb' = odb \o batch
     \/ batch # <<>> /\ Fault("db") /\ UNCHANGED odb
  /\ batch' = <<>>
  /\ pc' = "exited"
  /\ UNCHANGED <<disk, todo, trig, stop, hand, rollups, pending, raised, db, rolled,
                 expired, asked>>

\* What a process that ends takes with it.
Forget ==
  /\ pc' = "off"
  /\ todo' = {} /\ trig' = FALSE /\ stop' = FALSE
  /\ hand' = NoSample /\ acc' = {} /\ rows' = {}
  /\ pending' = <<>> /\ batch' = <<>>
  /\ UNCHANGED <<raised, store, expired, asked>>

\* run() returns once every goroutine has ended, and closes the spool.
Exit == pc = "exited" /\ hand = NoSample /\ Close /\ Forget

Die == Crash /\ Forget

Start ==
  /\ \/ Open /\ pc' = "idle"
     \/ OpenFails /\ UNCHANGED pc
  /\ UNCHANGED <<todo, trig, stop, hand, rollups, outages, store, expired, asked>>

-----------------------------------------------------------------------------
InitFlusher ==
  /\ Init
  /\ pc = "idle" /\ todo = {} /\ trig = FALSE /\ stop = FALSE
  /\ hand = NoSample /\ acc = {} /\ rows = {}
  /\ pending = <<>> /\ batch = <<>> /\ raised = 0
  /\ db = [s \in Sample |-> 0] /\ rolled = [s \in Sample |-> 0] /\ odb = <<>>
  /\ expired = {} /\ asked = {}

\* The flush loop.
FlushLoop ==
  \/ BeginCycle \/ ListReady \/ SkipFile \/ InsertSamples \/ InsertFails
  \/ RenameDone \/ TakeRollups \/ UpsertRollups \/ UpsertFails \/ DrainOutages
  \/ InsertOutages \/ InsertOutagesFails \/ Cleanup
  \/ BeginFinal \/ FinalUpsert \/ FinalDrain \/ FinalInsert

Environment == \/ SpoolSink \/ RollupSink \/ SpoolFlush \/ RecordOutage \/ Trigger
               \/ Stop \/ TimePasses \/ Expire \/ Exit \/ Die \/ Start

NextFlusher == (FlushLoop \/ Environment) /\ Remember

SpecFlusher == InitFlusher /\ [][NextFlusher]_allVars

\* The flush loop and buffer.Run go on, time passes, a process that has nothing left to
\* do exits, and systemd restarts it (Restart=always).  Strong fairness: select chooses
\* at random between a tick and a cancelled ctx, and ctx stays cancelled.  That a call to
\* the disk or the database returns at all is an assumption: Once sets no deadline, and
\* one that hangs would hold the loop until the process is killed.
Fairness == /\ WF_allVars(FlushLoop /\ Remember)
            /\ WF_allVars(RollupSink /\ Remember)
            /\ WF_allVars(TimePasses /\ Remember)
            /\ WF_allVars(Exit /\ Remember)
            /\ WF_allVars(Start /\ Remember)
            /\ SF_allVars(BeginFinal /\ Remember)

FairSpec == SpecFlusher /\ Fairness

-----------------------------------------------------------------------------
(* Properties.                                                             *)

\* Types; what the loop holds it holds only while it writes it; and the files of
\* the current cycle are still there, since only the loop renames ready files.
TypeFlusher ==
  /\ TypeOK
  /\ pc \in {"idle", "list", "consume", "rename", "upsert", "drain", "insert", "cleanup",
             "finalUpsert", "finalDrain", "finalInsert", "exited", "off"}
  /\ pc = "off" <=> fd = "down"
  /\ todo \subseteq Existing(ready)
  /\ trig \in BOOLEAN /\ stop \in BOOLEAN
  /\ hand \in Sample \cup {NoSample}
  /\ acc \subseteq Sample /\ rows \subseteq Sample
  /\ rows # {} => pc \in {"upsert", "finalUpsert"}
  /\ \A e \in ToSet(pending \o batch \o odb) : e \in 1 .. raised
  /\ raised \in 0 .. MaxEvent
  /\ batch # <<>> => pc \in {"insert", "finalInsert"}
  /\ DOMAIN db = Sample /\ DOMAIN rolled = Sample
  /\ expired \subseteq Existing(done)
  /\ asked \subseteq Sample

Deliv == INSTANCE Delivery WITH held <- Held, sent <- db

\* The spool and the flusher implement at-least-once delivery: a sample that was on
\* disk leaves the ready files only after the database has it, through every
\* failure and crash between the insert and the rename.
AtLeastOnce == Deliv!Spec

\* A writer that Rotate will not replace as long as the process lives: every cycle ends
\* there, or (nil) goes on without the file that could not be renamed.
Broken == fd \in {"nil", "stuck", "closed"}

\* Samples in a ready file that ends inside a line, which no cycle can decode.
Undecodable == UNION {ready[p].lines : p \in {q \in Existing(ready) : ready[q].torn}}

\* Once faults stop, what is on disk reaches the database in the end, whichever calls
\* have failed and whenever the process died or was stopped (README: retried on the
\* next cycle).  Two things excuse it, both of the code: the process lives on with a
\* broken writer for good, since nothing but a restart opens a new one; or a kill or a
\* failed write has left the sample in a file that does not decode.
EventuallyShipped ==
  \/ <>[]Broken
  \/ \A s \in Sample : s \in Held ~> s \in InDB \cup Undecodable

\* A sample is stored more than once only by as many copies as there were faults:
\* a cycle that meets none never reads a file again that it has inserted.
CopiesBounded == \A s \in Sample : db[s] <= 1 + faults

\* ping_rollups counts no sample twice, although UpsertRollups is additive and may
\* report a failure after the database has committed.
RollupOnce == \A s \in Sample : rolled[s] <= 1

\* Outage events reach the database in the order they were recorded, each once, and
\* none is dropped, while calls fail and more events are recorded.
OutagesInOrder == odb \o batch \o pending = [i \in 1 .. raised |-> i]

\* As long as nothing fails, SIGUSR1 ships what was spooled when it arrived, even if
\* it arrives in the middle of a cycle that has rotated already (README: immediate
\* rotate + ship).
TriggerShips == faults = 0 /\ pc = "idle" /\ ~ trig => asked \subseteq InDB

\* While the process lives, every sample it has rolled up is in the accumulator, in
\* the flusher's hands or in ping_rollups (README: "Rollups + outage events queue in
\* memory until the flush succeeds").
RollupsQueue ==
  fd # "down" =>
    1 .. seen \subseteq {hand} \cup acc \cup rows \cup {s \in Sample : rolled[s] > 0}

\* Every outage event, that of CloseAll too, is in the database at exit
\* (main: "so it reaches the final-flush sink").
OutagesShipped == fd = "down" => odb = [i \in 1 .. raised |-> i]

=============================================================================
