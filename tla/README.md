# ping-lens in TLA+

A verification development of ping-lens, the agent that pings a few targets every
five seconds, keeps the results through crashes and database outages, and reports
outages of the ISP. TLC checks the models on small instances; TLAPS proves the
theorems of the modules named `...Proofs` for every value of the constants: among them
every safety property that TLC checks in a run, all but the two liveness properties.
Paths below are relative to the repository.

## The system

```
 probe.Prober --chan(1024)--> buffer.Run --> spool.Append ----file----> flush.Flusher --> ping_samples
   one goroutine per target      |---------> rollup.Consume --rows----> flush.Flusher --> ping_rollups
                                 `---------> tickCollator --> outage.Tracker
                                                               `--queue--> flush.Flusher --> outage_events
```

| component | state it keeps | operations | what makes it correct |
|---|---|---|---|
| `internal/probe` | the tick loop; one goroutine per target and tick | `Run`, `tick`, `runOne`; `Targets` at start | one sample per target and tick, stamped when its probe starts; ticks never overlap |
| `internal/buffer` | none: a loop between a channel and the sinks | `Run` | every sample reaches every sink, in one order |
| `cmd/ping-lens` | the collator's window and batch; goroutines; shutdown order | `tickCollator.Consume`, `run` | `Observe` gets increasing windows and every sample once |
| `internal/spool` | current file, buffered writer, directory | `Open` (with `promoteOrphans`), `Append`, `Flush`, `Rotate`, `Ready`, `Close` | what is on disk is never lost, and where the flusher looks after the next start at the latest |
| `internal/flush` | pending events, trigger channel | `Once`, `consumeFile`, `RecordOutage`, `Trigger`, `finalFlush`, `cleanupOldDone` | at-least-once delivery of samples; rows and events written in order, once |
| `internal/outage` | a streak per target, the open event | `Observe`, `CloseAll` | events are the maximal runs of failing ticks, with a sound type |
| `internal/rollup` | samples per 5-minute bucket | `Consume`, `Flush`, `FlushAll` | the row of a bucket is that of all its samples |
| `internal/db` | the tables | `InsertSamples`, `UpsertRollups`, `InsertOutages` | additive upsert: segments of one bucket combine |
| `internal/grade` | none (pure) | `Summarize`, `Grade`, `PickWinner` | total, antisymmetric comparison |
| `internal/config`, `probe.Targets`, `probe/autodetect*` | the configuration and the probe list, fixed at the start | `Load`, `applyDefaults`, `DefaultGateway`, `FirstHopBeyondGateway` | nothing is probed twice; the tracker knows its gateway |
| `internal/server`, `db/queries.go` | none: a page is what it read | `handleIndex`, `handleReport`; `Rollups`, `Outages`, `SampleAggregates` | figures, charts and reports of one source agree |

They interact by a channel (prober to buffer), by calls under a mutex (spool,
accumulator, tracker, queue), by files (spool to flusher) and by a callback (the
tracker's sink is `Flusher.RecordOutage`). `SIGINT`/`SIGTERM` cancel one context that
every goroutine watches; `SIGUSR1` calls `Trigger`.

What is hard here, and where (the full list with lines is `hazards` in
`PROJECT.json`):

- *Crashes.* A kill between closing, renaming and creating spool files, or between
  an insert's commit and the rename that records it.
- *Failing calls.* `write(2)`, `fsync`, `close`, `rename` and `open` in `Rotate`; any
  database call, before or after it committed; each leaves a half-done operation.
- *Interleavings.* Samples, events and signals between any two steps of a flush
  cycle; probes of one tick that end in any order; `CloseAll` beside the final flush.
- *Time.* Files named by the second; windows cut by timestamps; slow probes, so that
  ticks are dropped or straddle a window; late samples that recreate a bucket.
- *Shutdown.* Probes that are cut short report failures nobody had; `CloseAll` races
  samples and the flush loop.
- *Pages.* A page reads three times, in three transactions, while agents write.
- *Numbers.* `min_ms = 0` for "no reply", blends weighted by samples, streaks across
  batches that miss a target or hold it twice.

## Modules

Each definition's source lines are in `PROJECT.json`, `map`.

**`Spool`** models `internal/spool`. Every operation holds the spool's mutex, so each
is one action, and every error return is a disjunct of its own (`RotateFlushFails`,
`RotateStops`, `RotateCannotOpen`). The directory is three functions, `ndjson`,
`ready` and `done`, from the second in a file's name to the file. A sample is its
position in the order of `Append` calls; a file is the set of samples whose line it
holds in full, and whether it ends inside a line. `fd` is the writer: `"open"`;
`"nil"` after a failed `Rotate` (`s.w == nil`, "spool closed"); `"stuck"` because
`bufio.Writer` keeps its first error; `"closed"` because `Rotate` closed the
descriptor and returned before it cleared `s.w`; `"down"` if there is no process.
`Faults` is the set of things the environment may do in a run and `MaxFaults` how
often.

**`Flusher`** extends `Spool` with `internal/flush`, the calls of `internal/db` and
the fan-out of `internal/buffer`. `pc` is the place in `Once`: `"list"`, `"consume"`
(and `"rename"`, between the commit of a file's rows and its rename), `"upsert"`,
`"drain"`, `"insert"`, `"cleanup"`, then the steps of `finalFlush`. Between any two of
them a sample may be spooled and rolled up, an event queued, a signal delivered, the
process killed. A database call may fail without trace (`"db"`) or fail after it
committed (`"ack"`); after the context is cancelled every call of `Once` may fail.
`db`, `rolled` and `odb` are the three tables.

**`Delivery`** is the abstract specification of raw samples: a sample that has
reached the disk is held until the database has stored it at least once. `Flusher`
implements it with `held <- Held, sent <- db` (every line in a `*.ndjson` or
`*.ready.ndjson` file, and the count of inserts).

**`Outage`** models `Tracker.Observe` and `CloseAll`. A batch gives each target the
sequence of its outcomes (`"ok"`, `"ping"` for a lost ping, `"dns"` for a failed
lookup). The order of samples of different targets is abstracted, since `Observe`
counts them; the order within a target is kept, since streaks depend on it. `hist`
records the calls for the reference definition `Summary`/`Runs`.

**`Ticks`** models the prober's loop, its goroutines, the sample channel, `buffer.Run`
and the collator. `Interval` is the probe interval in steps of a finer clock, so that
probes start and end anywhere in a window and may outlast it.

A sample carries its result: a reply, a lost ping, a failed lookup, or `"cut"`, a lookup
that the shutdown cancelled (`probe.go:156`).

**`Agent`** composes `Ticks` with `Outage`, which it instantiates: a batch that the
collator completes is at once an `Observe`, and `CloseAll` runs as soon as the context is
cancelled, beside all the rest. It relates the two accounts of one stream, the samples
that were taken from the channel and the events. `taken` is what `buffer.Run` handed to
every sink: the spool may still refuse a sample (`SpoolSink` only logs it) or lose it in a
crash, which is the matter of `Spool`.

**`Rollup`** models the accumulator, `finalize` and the `ON CONFLICT` clause of
`UpsertRollups` for one source and target. A fractional column is kept as `Scale`
times its value times the number of samples, which makes the weighted mean of the
upsert an exact sum (`Scale` is a constant, a multiple of 100 and of every number of
samples that a run can take). `Query` is the same row as the SQL of `SampleAggregates` computes
it from raw samples; its percentiles are defined by ranks, not by sorting. The columns about
lookups (`dns_failures`, `dns_failure_pct`) are left out, and `loss_pct` is the quotient of
two columns that are kept.

**`Grade`** models `internal/grade`. The package keeps no state, so the state is what
it reads, the rows and outages that agents have written, and `Summary`, `Grade` and
`PickWinner` are operators over it. A weighted mean is kept as a fraction, which two
floating-point divisions only approximate. The columns p50, p90 and DNS failures, on
which no decision rests, and the wording of the reasons are left out; days are counted
in buckets.

**`Startup`** models `run()` up to the probes, under systemd: `Load` with the defaults,
`OpenDB`, `OpenSpool`, `Detect`. Each step fails as the code's early returns do, which
ends the process, and systemd begins the next one at `Load` (`Restart=always` in
`deploy/ping-lens.service`). `Load` accepts a `mode` of any name, and so does the model. `Targets` builds the probe list from
the user's targets, the two network settings and what is detected. An address is a model
value, and two spellings of one address are two of them, as they are to the code.

**`Dashboard`** extends `Startup` with the server: a request goes through `parseWindow`
and up to three reads, each an action that may fail, and then the page, whose content is
the operator `Page` over what was read. Agents write samples, rollups and outages between
any two of these steps. A row that is there may grow meanwhile: by any samples if it is one of raw
samples, as the `ON CONFLICT` clause blends them if it is a rollup (`Grows`, `Blends`). An
outage may be written any time after its end, and one of a single tick has duration 0; one
that a repeated insert has stored twice counts once. The figures are those of `Grade`, instantiated with the rows of
the page. Sources are numbers, whose order stands for that of their names.

**`MCSpool`, `MCFlusher`, `MCOutage`, `MCAgent`, `MCRollup`, `MCGrade`, `MCDashboard`**
give the runs their sets.
**`SpoolProofs`, `FlusherProofs`, `OutageProofs`, `AgentProofs`, `RollupProofs`,
`GradeProofs`, `DashboardProofs`** hold the theorems, **`Folding`** the lemmas on
concatenations, sums, ordered lists and means that they share. Operators whose comment begins
with "Variant" are altered forms of the definition below them, which the mutation
entries of `PROJECT.json` use to show that a property depends on that definition.

## Runs

| run | specification | shows |
|---|---|---|
| `Spool_faults` | `Spool`, every fault but `burst` | Crashes, restarts and failing calls replace or drop no file that holds samples (`FilesStay`), because names stay distinct (`NamesDistinct`). `NoStrandedFile`: no `*.ndjson` but the one opened last holds anything, so at most one file is out of the flusher's sight; after a failing `Close` or `Rename` it waits there for the next start. |
| `Flusher_faults` | `FairSpec` of `Flusher`: kills, stops, and failures of any system or database call of the spool and the loop | `AtLeastOnce`: every step is one of `Delivery` or a stutter. `CopiesBounded`: a row is inserted again only after a fault. `RollupOnce`: no sample is counted twice in `ping_rollups` although the upsert adds and may be unacknowledged. `EventuallyShipped`: all that is on disk is delivered once faults stop, unless the process lives on with a writer that only a restart replaces (`Broken`), or the sample is in a file that does not decode (`Undecodable`). |
| `Flusher_calls` | `Flusher`: failing calls, `spill`, `usr1`, `age`; the process lives | `OutagesInOrder`: events go back to the front of the queue. `ReadyDecodes`: no ready file ends inside a line. `TriggerShips`: a SIGUSR1 in the middle of a cycle is not swallowed by it. |
| `Outage_events` | gateway, IP target and hostname; a tick may lack the gateway's sample or hold two of the IP target; 3 ticks | `EventsAreRuns`: the tracker agrees with a reference definition over the whole history. `EventsDisjoint`, also for ticks after `CloseAll`. `VerdictsSound`: after any merging of types, what the type of an event says is true of some of its ticks, or of all of them, whichever the type says; for `multi_target_issue` that is two failing samples in a tick, which may be of one target (see below). `EventsGrow`: nothing in an open event is taken back. |
| `Agent_stream` | `Agent`: an IP target that may not reply and a hostname whose lookups fail only when they are cancelled; shutdown at any time | The collator's batches have increasing windows, hold each sample once and keep each target's order. `EventsBacked`: an event names a target only if the samples taken have it failing `MinStreak` times in a row. `FailuresReported`: and every such run that was observed is in an event. `ShutdownIsMild`: a `full_isp_outage` has in one of its own ticks a sample that really had no reply; cancelled lookups alone do not make one. |
| `Rollup_segments` | one sample per reply of 1, 2, 7 or none; late samples; kills | `SegmentsAddUp`: counts, minimum and maximum equal those of the unsegmented bucket. `QuantilesOrdered`: p50..p99 never cross, blended or not. `RowsMatchQuery`: what a flush would write now is what the chart query finds in the raw samples. |
| `Grade_report` | two sources, two targets, two buckets | `WinnerSymmetric` and `BetterNeverLoses`: five axes, averaged in different ways, make one fair comparison. `ConfidenceEarned`, `SourceBetweenTargets`, `OutagesNeverHelp`: the parts of a report agree with each other. |
| `Dashboard_pages` | 102 configuration files, three routing tables, one kill; pages under each `mode`, one of them a word the code does not know | `NoDoubleProbe`, `GatewayWatched`: the probe list, however names and addresses collide. `EventuallyRunning`: a start that failed is repeated until one works. `ChartFitsFigures`: in the windows 7d and longer a page's charts bracket its figures, whatever is written between its reads; the short ones (1h, 24h, `evening_peak`), whose figures come from rollups and charts from raw samples, are exempt. `PagesAgree`: the two chart builders, and index and report, tell the same of a source. `PanicsOnlyWhenForced`: only `single_isp` without data has no page. |
| `Flusher_rollups` | one failing database call | violated: finding 1 |
| `Flusher_shutdown` | a stop, no fault | violated: finding 2 |
| `Outage_lan` | a gateway that answers | violated: finding 3 |
| `Grade_dead` | the tables of `Grade_report` | violated: finding 4 |

*Bounds.* `MaxSample`, `MaxClock`, `MaxEvent`, `MaxTick` and `MaxTime` cap counters.
Two samples are the least that make "some of the buffer" differ from "all of it",
three files (seconds 0 to 3, with `burst` out) the least in which a current, a ready and
a done file coexist, two faults the least that make a failure during a recovery.
Nothing is offered in the last second (`Quiet`), so that a run can drain. A streak of
`MinStreak = 2` separates one failure from two; three ticks of up to
two samples hold two events, or one that changes its type twice. `Interval = 2` gives a window a first and a second
half, `Capacity = 1` makes the channel of 1024 fill up; five steps of time hold three
windows. In `Flusher_faults` no events are recorded (`MaxEvent = 0`), which are the matter of
`Flusher_calls`, and a process that is stopping has ended before the last second, so that the next one can start. Four samples make two segments of two. Four rows over two sources,
two targets and two buckets are the least in which the per-source and per-target means
can disagree and both sources have the days a high confidence asks for; the rows are a
good, a slow and a dead bucket, the outages (up to four, of one source) a short and a
long one, and the thresholds are scaled to them. For pages, two writes are the least that can
come on either side of a read, and only plain files (`PageConfigs`) are used until the first
kill: a page reads nothing of the configuration but `mode`. The network settings and user lists
are all combinations of none, `auto`, a literal and a name with six lists that use the
same names or addresses. Every run ends by these bounds, and
the agent itself may be stopped for good, so `CHECK_DEADLOCK` is off.

*Fairness* of `Flusher` is weak on the flush loop, since its `select` always has a ticker and
its calls are taken to return, with or without an error (`Once` gives them no deadline: a call
that hangs for ever stops the loop, in the model and in the code); on the fan-out, the exit of a stopped process and the passing of
time; and on `Start`, since the unit file has `Restart=always`. It is strong on `BeginFinal`:
the loop's `select` picks at random between a tick and the cancelled context, so a
cycle may come first, but not for ever. Samples, events, signals and faults have none. In
`Dashboard` fairness is weak on `Run`: each step of a start goes on or fails in the end, and
systemd starts the next process after five seconds, which is too slow for its start limit
to stop it. Pages and agents have none.

## Findings

Where the code does other than a document or a comment of the repository says, and a run shows it:

1. `Flusher_rollups`: rows taken out of the accumulator are dropped when the upsert
   fails; the README says they queue until the flush succeeds. (Requeueing them would
   break `RollupOnce`, since a failed call may have committed.)
2. `Flusher_shutdown`: `CloseAll` runs in `main` beside the flush loop's final flush; an
   event closed after the queue was drained is lost, against the comment at the call.
3. `Outage_lan`: a gateway target counts as a public one, so `full_isp_outage` cannot be
   reported while it answers; the README defines the type by "LAN gateway up".
4. `Grade_dead`: a rollup row without replies has p95 = p99 = 0, and lower is better. A
   source that lost every ping leads on p95, p99 and the targets' p95, three axes of
   five, and is named the better one over a source that lost none.

The models show more that no run of this list is spent on:

- `Rotate` renames over whatever has the new name, and names have a resolution of one
  second. A tick and a SIGUSR1, or a restart, in one second replace a ready file that
  nobody has consumed: with `"burst"` among the faults of `Spool_faults`, `FilesStay`
  fails. Its theorem, and the runs of `Flusher`, assume that this does not happen.
- After one failed write the buffered writer fails for good: `Rotate` returns before anything
  is rotated and `Once` before anything is consumed. After a failing `Close` the same holds of
  the closed descriptor; after a failing `Rename` the other files are consumed but nothing
  new is spooled, and the file that could not be renamed is where no cycle looks. Each lasts
  until a restart, and nothing restarts a process that lives. `EventuallyShipped` excuses it
  (`Broken`).
- A file that ends inside a line, after a kill or a failed write, is never decoded
  (`SkipFile`) nor given up, so that even rows flushed long before are not delivered
  (`Undecodable`).
- An empty file that `Rotate` fails to remove (it ignores the error) stays until the next start.
- `grade.go:267` says that differences below 0.5% loss or 1 ms do not count; the code compares
  with 0.0001 on every axis, and `Near` models the code.
- `RenameDone` that fails makes the next cycle insert the same rows (the comment in
  `consumeFile` says it does not): `CopiesBounded` is all that holds.
- `Cleanup` removes nothing after a cycle that consumed every file, since it takes the
  directory from the first file still waiting: a healthy agent keeps its `*.done.ndjson`
  files.
- In `Ticks` a tick that straddles a window is split over two batches, either of which gets a
  verdict of its own; the batch being collected at shutdown is never observed, and what is
  in the channel then is dropped. A tick observed after `CloseAll` may open an event, which
  nobody closes.
- In the short windows a page's figures come from the rollups, which lag behind by up to a
  flush interval, and its charts from the raw samples: they need not fit.
- In `Rollup` a segment without replies is blended in with mean and percentiles 0, so a
  row's mean may be below its minimum.
- A `local_gateway: auto` whose address the user lists as a target of his own is not injected,
  and the tracker compares addresses with the string `auto`: it cannot report a
  `local_gateway_issue`. The same holds of a gateway given by name. `GatewayWatched` is about
  literals only. A route without a gateway is detected as 0.0.0.0 and probed.
- A negative period passes `Load` and makes `time.NewTicker` panic: the agent is restarted
  for ever (`EventuallyRunning` asks for periods that are not negative).
- A hostname whose only failures are lookups that the shutdown cancelled can make a
  `dns_issue`, or with samples that replied in the same batch a milder type or a
  `multi_target_issue` (`Agent`, even with `MinStreak = 2`, if probes outlast the interval).
- A forced `single_isp` shows the first source by name, which need not be the agent's own, and
  panics in the handler without data. The comparison draws 0 where a source has no row,
  and never considers a third source. Before 19:00 UTC "Evening peak (today)" is
  yesterday's. An outage that touches a window counts with its whole duration, whatever
  its type, which the report calls a full outage.
- A port that is taken is only logged: the agent then probes without a dashboard.
- `Serve` returns once a shutdown has begun, not when it is done: pages still being made end
  with the process (`Process` drops them).
- The chart query rounds timestamps to seconds before it cuts buckets, the rollups truncate;
  it counts samples inserted twice (`CopiesBounded`) twice.
- `retention.raw_days` and `rollup_days` are defaulted and never used: nothing deletes rows.
- In `Outage` two failing samples of one target, in a batch that merged two ticks, are a
  `multi_target_issue`, since `Observe` counts samples: an event of that type may name a
  single target, where the README (98-99) has "several targets down". `TypeTrue` says no more
  than the code does. And a full outage needs every sample of the batch to be past the
  threshold.
- In `Grade` one axis of five suffices to win when the others are level (the comment at
  `PickWinner` asks for the majority), a source known only by its outages has loss and
  latency 0, and days are counted in buckets of 30 minutes (`grade.go:118`), where the
  default configuration writes buckets of 5.

## Proofs

Every theorem holds for all values of the constants that the module's assumption admits: any
number of samples, seconds, events, faults, targets, windows, sources, rows. Assumptions are
types, but for these: a hostname's address is never the gateway's, at most one target is
(`OutageAssumption`, `AgentAssumption`); "" and "auto" are not addresses
(`StartupAssumption`); thresholds on days and samples are ordered as their names say, and
the value `Tie`, the winner where the code sets the flag of that name, is no source
(`GradeAssumption`); a rollup row has samples and no more failures than samples
(`GradeAssumption`, `DashboardAssumption`); sources are numbered from 1
(`DashboardAssumption`); `Scale` is divisible by what it is divided by
(`RollupAssumption`); a probe interval fits into the time of a run (`TicksAssumption`). Some theorems of the spool and the flusher exclude
kinds of faults. They are named below, and each is one under which the property fails:
*burst*, two files in one second, throughout (see above); the others as said.

**`SpoolProofs`**

- `TypeCorrect`, and `NothingStranded` (`NoStrandedFile`), under all faults. `NoStrandedFile`
  is inductive together with `TypeOK`: an operation that changes `path` has renamed or
  promoted the file that was there, or found it empty and perhaps failed to remove it.
- `NamesStayDistinct` (`NamesDistinct`), without burst: the current name is the latest of
  all, so no rename finds its target taken.
- `SpooledFilesStay` (`FilesStay`), without burst. `FilesStay` alone is not inductive: a
  rename could replace a file. The invariant is `TypeOK`, `NoStrandedFile`, `NamesDistinct`
  and `FilesStay` together.
- `SamplesStayApart`, without burst: a sample's line is in one file, or in the buffer, not in
  two of them. The theorems on copies rest on it.
- `ReadyFilesDecode` (`ReadyDecodes`), with neither kill nor failing write. The invariant
  (`Whole`) says where half a line may be: in the current file, while its other half is in
  the buffer of an open writer.

**`FlusherProofs`** (`SpecFlusher`, all steps of the spool included)

- `TypesCorrect` (`TypeFlusher`), all faults. The type is inductive only with what ties the
  loop's place to what it holds: no rows but between `TakeRollups` and `UpsertRollups`, no
  files to do but in the middle of `consumeFile`.
- `RollupsCountOnce` (`RollupOnce`), all faults. A sample is in one of the fan-out's hand,
  the accumulator, the rows and the table (`RollupInv`), and the rows are dropped before it
  is known whether they were stored. It is this that finding 1 costs.
- `CopiesAreBounded` (`CopiesBounded`), without burst. A sample may have one more copy than
  there were faults only while its file is being renamed, or when it is in no file any more
  (`CopyInv`): every other insertion is preceded by a fault of its own.
- `OutagesStayInOrder` (`OutagesInOrder`): stored, held and queued events, in this order, are
  the events recorded so far, 1, 2, 3, ...; with neither kill, stop nor lost acknowledgement,
  each of which loses or doubles one. `EventsAscend` needs only the last of these: through
  kills and stops the events that are stored are in order, none of them twice.
- `DeliversAtLeastOnce` (`AtLeastOnce`), without burst: each action is mapped to one of
  `Delivery` or a stutter. Rotation, promotion and `Cleanup` keep `Held`; a kill takes no
  file; a rename to `*.done.ndjson` drops only what `db` counts.
- `AgentFilesDecode` carries `ReadyFilesDecode` over to the whole agent.
- `TriggersShip` (`TriggerShips`), without burst or stop. While nothing failed, what was
  asked for is in the database, or in the places which the rest of the cycle, or the
  cycle that the pending signal starts, still comes to (`TriggerInv`, by `pc`).

**`OutageProofs`**

- `TypeCorrect`; `EventsStayDisjoint` (`EventsDisjoint`), from `TypeOK` and the fact
  that `openLast` is a tick already observed, later than every closed event's end;
  `EventsOnlyGrow` (`EventsGrow`), which rests on lemmas that `MergeType` never lowers the
  rank and that `Classify` returns a type for every non-empty set of failures.
- `EventsStayRuns` (`EventsAreRuns`) and `VerdictsStaySound` (`VerdictsSound`), for histories
  of any length. The invariant (`RunsInvariant`) is what the definitions over the history
  become call by call. `StreakInv`: `streaks[t]` is the length of the run of failures at the
  end of what `t` ever got, so what `Observe` finds failing is what the history says
  (`FailingIs`). `RunsInv`: the closed events are the summaries of the runs that ended, the
  open one of the run that goes on. A call that fails nothing, or `CloseAll`, leaves the
  runs as they are and ends the last (`RunsQuiet`); one that fails begins a run or lengthens
  the last (`RunsFail`), and `MergeType` is then the worst type of the longer run
  (`SummaryLonger`). `HistoryInv`: only an empty call can have the tick of the call before,
  so an event's start and end single out the calls of its run (`SpanIs`). `RulesSay` reads
  each rule of `Classify` backwards, and the worst type of a run is the type of one of its
  calls (`WorstTrue`).

**`AgentProofs`**

- `TypesCorrect` (`TypeOK` of `Ticks`), `TicksStayInOrder` (`TicksInOrder`),
  `NothingIsSkipped` (`NothingSkipped`): by induction, with `Collected` a concatenation that
  each completed batch makes longer.
- `TargetsStayInOrder` (`TargetsInOrder`). The line of a target is what was taken, then
  what is in the channel, then its running probe: it is ordered by timestamps, and no tick
  begins before the last one's probes are over (`LineInv`).
- `AgentFeedsTracker`: `SpecAgent` implements the specification of `Outage`: what the tracker
  assumes of its caller is what the collator does. `AgentEventsDisjoint`,
  `AgentEventsAreRuns` and `AgentVerdictsSound` follow from `OutageProofs` by instantiation.
- `EventsStayBacked` (`EventsBacked`), `FailuresAreReported` (`FailuresReported`). Neither the
  stream nor the tracker alone can say it. The invariant (`AgentInv`) ties them: the streak
  of a target is the length of the run of failures at the end of the samples collected
  (`StreakInv`), so `Failing` is a statement about the samples taken. Each step then keeps what old
  events rest on, and a new or extended event is backed by the last sample of its batch.
- `ShutdownStaysMild` (`ShutdownIsMild`): a full outage is opened or reached only by a tick
  that is neither the gateway's nor the resolver's, and in its batch some sample had no reply
  (`FullMeansNoReply`); the tick stays within the event while it grows or is closed.

**`RollupProofs`**

- `StoredAlways` is the inductive invariant (`Stored`): every sample that was taken is in the
  accumulator or behind the table, and each row has the counts and extremes of the samples
  behind it (`AddsUp`) and percentiles that do not cross (`Uncrossed`). The columns of a row
  alone are not inductive, since a later segment is added to them: what must be carried
  along is which samples they are of. An upsert joins two segments (`Together`), and the
  columns follow (`CombineRow`); a crash takes only what had no row yet.
- `TypeCorrect` (`TypeOK`), `RowsAddUp` (`SegmentsAddUp`) and `PercentilesOrdered`
  (`QuantilesOrdered`) follow. `RowsAddUp` is where the 0 that stands for no minimum is
  told from a latency.
- `FinalizeIsQuery`, and with it `ChartsMatch` (`RowsMatchQuery`): for every list of outcomes
  the code, which sorts and interpolates, and the SQL, which counts, agree in every column (those about lookups are not in the model).
  Sorting is a bijection of positions (`SortedOrders`), so it changes neither what the
  replies are nor their sum (`SortedSum`); the latency at a position of the sorted list is
  the one that the query finds by counting the replies up to it (`RankedSorted`); and the two
  weights of `percentile_cont` are those of the interpolation (`PercentileContSame`). Of two
  percentiles the greater one is not the lower (`PercentileMonotone`), whether or not their
  ranks fall between the same two replies.

**`GradeProofs`** are about all tables and outages that agents can write. `Summary` and
`PickWinner` are functions of them, so the properties are lemmas on arithmetic, put
together in `ReportSound`, which holds of any well-formed tables:

- `WinnerStaysSymmetric` (`WinnerSymmetric`), `BetterStaysAhead` (`BetterNeverLoses`): each
  axis is antisymmetric, and so is the count of leads; for the second, sums over rows that
  are no worse cell by cell are no worse, cross-multiplied.
- `ConfidenceStaysEarned` (`ConfidenceEarned`), `OutagesDoNotHelp` (`OutagesNeverHelp`).
- `SourceStaysBetween` (`SourceBetweenTargets`): a mean over all rows is between the least
  and the largest mean per target (`Mediant` of `Folding`).

**`DashboardProofs`**

- `ProbeListSound` (`NoDoubleProbe` and `GatewayWatched`). The conjunction is inductive: only
  `Detect` starts to probe, and the list it makes is sound by the lemmas that
  `appendNetworkTarget` keeps a list free of doubles (`AppendDistinct`) and leaves the name
  or the address in it (`AppendCovers`).
- `PagesLeaveStartup`: the server disturbs the start in no step. `ListStaysSound` follows:
  both properties hold in the specification with pages, writers and restarts, too.
- `PagesAreMade` (`PanicsOnlyWhenForced`): whatever word `mode` is, `Load` turns none into
  `single_isp`, and only that word indexes an empty list.
- `PagesStayAgreed` (`PagesAgree`): the figures and the chart of a source are functions of its
  own rows and outages (`SummarySame`, `StatsSame`), and a filter leaves these alone
  (`FilteredSame`), so the index and the report tell the same. It holds of any state, since the
  two are compared on the same database.
- `ChartsFit` (`ChartFitsFigures`), about pages read while the database is written to. The
  invariant (`Drawing`): the tables are well formed, and a finished index page of a long window
  has drawn its chart from the very rows of its figures, whatever was committed between its
  reads. The figures are then sums over all rows, the points sums over the rows of a bucket,
  and the one lies between the others (`Bracketed`, by `Mediant`).
- `PagesReportSoundly`: the tables of any page satisfy what `ReportSound` asks
  (`PageTables`), so by instantiating `GradeProofs` the five properties of `Grade` hold of what
  a page shows, even though its rows and its outages are of different moments.

**`Folding`.** `FlattenSeq` and `MapThenSumSet` of the community modules are recursive
functions. What one of them computes is shown by taking the first position, or a smallest
set, at which it would compute something else, and looking at the step to it: well-founded
minima (`LeastNumber`, `SmallestSet`) stand for the induction theorems, whose operator
parameters the provers cannot instantiate. That a finite set of numbers can be listed in
ascending order (`AscendingExists`), and a list of numbers be sorted, is shown in the same way;
`TotalPermuted` says that a sum does not depend on the order of its terms, `FibreTotals` that it
can be taken group by group, and `Mediant` that a quotient of sums is between the least and
the largest quotient of its groups.

*Model-checked only.* Liveness (`EventuallyShipped`, `EventuallyRunning`): its proof needs
ENABLED, which the prover does not treat. The violated properties of the four findings are not
theorems. `DeliversAtLeastOnce` and the others about copies are proved without burst, and
`AtLeastOnce` is a safety property: that a sample is delivered in the end is
`EventuallyShipped`.

## Not modelled

- DNS and ICMP exchanges: a probe is a span of time with an outcome.
- YAML parsing, flags, logging, the schema and the connection pool: a start's step works or
  fails.
- The socket calls of `FirstHopBeyondGateway`: it yields an address or nothing.
- The transaction scope of a batch in pgx: a call commits as a whole or not at all.
- Panics of a sink, which `buffer.Run` recovers from.
- Of the server: templates, wording, rounding, `/healthz`; of the queries: the arithmetic of
  chart buckets (a raw row is given by its bucket) and `Sources`, which nothing calls.

## Plan

Done: all modules of the inventory, and the proofs above.

What could follow: to compose `Rollup` for all targets with the flusher's `ping_rollups`, so
that the rows a page reads are those of the samples on disk, which now meet only in
their types; and the arithmetic of the chart query's buckets.
