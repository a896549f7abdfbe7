------------------------------ MODULE Dashboard ------------------------------
(***************************************************************************)
(* The dashboard (internal/server) and the queries behind it                 *)
(* (internal/db/queries.go), beside the agents of all sources that write to   *)
(* the database.  It is served while this agent runs (Startup).               *)
(*                                                                         *)
(* A page reads the database up to three times, in three transactions, and    *)
(* is written when it has them all.  Figures come from Grade, applied to       *)
(* what was read.  A bucket is the time it begins; a short window's charts     *)
(* come from the raw samples, here one row to a bucket.                       *)
(***************************************************************************)
EXTENDS Startup, FiniteSets, FiniteSetsExt

CONSTANTS
  Source,    \* in alphabetical order: natural numbers
  Target, Rows, LossBands, P95Bands, P99Bands,
  MediumDays, HighDays, MediumSamples, HighSamples, NoRow,   \* as in Grade
  MaxClock,  \* bound: the last step of time
  MaxWrites, \* bound: how often the agents write
  PageConfigs, \* bound: the configurations under which pages are asked for
  Widths,    \* the windows that end now: from their keys to their lengths
  Short,     \* the windows whose charts come from raw samples
  Day, Peak, PeakLength   \* the day, when its evening peak begins and how long it is

ASSUME DashboardAssumption ==
  /\ Source \subseteq Nat \ {0}
  /\ IsFiniteSet(Source) /\ IsFiniteSet(Target)
  /\ \A r \in Rows : /\ r.samples \in Nat \ {0}
                     /\ r.fails \in 0 .. r.samples
                     /\ r.p95 \in Nat /\ r.p99 \in Nat
  /\ {LossBands, P95Bands, P99Bands} \subseteq [{"excellent", "good", "fair", "poor"} -> Nat]
  /\ {MediumDays, HighDays, MediumSamples, HighSamples} \subseteq Nat
  /\ MediumDays <= HighDays /\ MediumSamples <= HighSamples
  /\ NoRow \notin Rows
  /\ MaxClock \in Nat
  /\ PageConfigs \subseteq Configs
  /\ "7d" \in DOMAIN Widths
  /\ Short \subseteq DOMAIN Widths \cup {"evening_peak"}
  /\ Peak \in 0 .. Day - 1 /\ PeakLength \in 1 .. Day

Bucket == 0 .. MaxClock
Durations == 0 .. MaxClock

VARIABLES
  clock,
  samples,   \* ping_samples, as rows: [Source -> [Target \X Bucket -> Row or NoRow]]
  rollups,   \* ping_rollups, likewise
  events,    \* outage_events: records of a source, a start and an end
  request    \* the page in the making, or Idle

database == <<clock, samples, rollups, events>>
vars == <<startup, database, request>>

\* The figures of a page: the report over the rows t and the table o of outages.
G(t, o) == INSTANCE Grade WITH table <- t, outages <- o,
             Tie <- 0, MaxRows <- MaxWrites, MaxOutages <- [s \in Source |-> MaxWrites]

-----------------------------------------------------------------------------
(* Windows and queries.                                                    *)

EveningStart(now) ==
  LET today == Day * (now \div Day) + Peak IN IF now < today THEN today - Day ELSE today

\* An unknown key is taken for "7d".
ParseWindow(key, now) ==
  IF key = "evening_peak"
  THEN [key |-> key, since |-> EveningStart(now), until |-> EveningStart(now) + PeakLength]
  ELSE LET known == IF key \in DOMAIN Widths THEN key ELSE "7d"
       IN [key |-> known, since |-> now - Widths[known], until |-> now]

Within(b, w) == w.since <= b /\ b < w.until

NoRows == [s \in Source |-> [k \in Target \X Bucket |-> NoRow]]
NoOutages == [s \in Source |-> [d \in Durations |-> 0]]

\* The rows of some sources in a window.
Select(table, S, w) ==
  [s \in Source |-> [k \in Target \X Bucket |->
     IF s \in S /\ Within(k[2], w) THEN table[s][k] ELSE NoRow]]

\* The outages that touch a window, by duration.
Outages(S, w) ==
  [s \in Source |-> [d \in Durations |->
     Cardinality({e \in events : /\ e.source = s /\ s \in S
                                 /\ e.end - e.start = d
                                 /\ e.start < w.until /\ e.end >= w.since})]]

-----------------------------------------------------------------------------
(* Charts.                                                                 *)

Keys(rows, s) == {k \in Target \X Bucket : rows[s][k] # NoRow}
Drawn(rows, s) == {k[2] : k \in Keys(rows, s)}

\* A point: the p95 and the loss of some rows of a source, as fractions.
Point(rows, s, keys) ==
  LET n == MapThenSumSet(LAMBDA k : rows[s][k].samples, keys)
  IN [p95 |-> <<MapThenSumSet(LAMBDA k : rows[s][k].p95 * rows[s][k].samples, keys), n>>,
      loss |-> <<100 * MapThenSumSet(LAMBDA k : rows[s][k].fails, keys), n>>]

Zero == [p95 |-> <<0, 1>>, loss |-> <<0, 1>>]

\* One line, over the buckets of its source.
SingleSeries(rows, s) ==
  [b \in Drawn(rows, s) |-> Point(rows, s, {k \in Keys(rows, s) : k[2] = b})]

\* Variant: the buckets of the first source only.
MultiSeriesOfFirst(rows) ==
  LET drawn == {s \in Source : Keys(rows, s) # {}}
  IN [s \in drawn |-> [b \in Drawn(rows, Min(drawn)) |->
       LET keys == {k \in Keys(rows, s) : k[2] = b}
       IN IF keys = {} THEN Zero ELSE Point(rows, s, keys)]]

\* A line for each source, over the buckets of all: 0 where a source has no row.
MultiSeries(rows) ==
  LET drawn == {s \in Source : Keys(rows, s) # {}}
  IN [s \in drawn |-> [b \in UNION {Drawn(rows, u) : u \in drawn} |->
       LET keys == {k \in Keys(rows, s) : k[2] = b}
       IN IF keys = {} THEN Zero ELSE Point(rows, s, keys)]]

-----------------------------------------------------------------------------
(* Pages.                                                                  *)

\* The sources of a page, in order.
Sources(rows, outs) ==
  LET known == {s \in Source : G(rows, outs)!Known(s)}
  IN CHOOSE q \in [1 .. Cardinality(known) -> known] : IsSorted(q, <)

\* Variant: no source is a single source.
DetectModeAtMostOne(sources) ==
  LET mode == WithDefaults(config).mode
  IN IF mode \in {"single_isp", "multi_isp"} THEN mode
     ELSE IF Len(sources) <= 1 THEN "single_isp" ELSE "multi_isp"

\* A mode of any other name is taken for "auto".
DetectMode(sources) ==
  LET mode == WithDefaults(config).mode
  IN IF mode \in {"single_isp", "multi_isp"} THEN mode
     ELSE CASE Len(sources) = 0 -> "empty"
            [] Len(sources) = 1 -> "single_isp"
            [] OTHER -> "multi_isp"

Stats(rows, outs, s) ==
  [figures |-> G(rows, outs)!Summary(s, outs[s]), grade |-> G(rows, outs)!Grade(s, outs[s]),
   confidence |-> G(rows, outs)!SingleConfidence(s)]

\* renderSingle takes the first source, renderMulti compares the first two.
Index(rows, outs, chart) ==
  LET sources == Sources(rows, outs)
      mode == DetectMode(sources)
  IN CASE mode = "empty" -> [page |-> "empty"]
       [] mode = "single_isp" /\ sources = <<>> -> [page |-> "panic"]
       [] mode = "single_isp" /\ sources # <<>> ->
            [page |-> "single",
             stats |-> [s \in {sources[1]} |-> Stats(rows, outs, s)],
             chart |-> [s \in {sources[1]} |-> SingleSeries(chart, s)]]
       [] mode = "multi_isp" ->
            [page |-> "multi",
             stats |-> [s \in ToSet(sources) |-> Stats(rows, outs, s)],
             winner |-> IF Len(sources) < 2 THEN [source |-> 0, confidence |-> "low"]
                        ELSE G(rows, outs)!PickWinner(sources[1], sources[2]),
             chart |-> MultiSeries(chart)]

Report(rows, outs, s) ==
  IF ~ G(rows, outs)!Known(s) THEN [page |-> "not found"]
  ELSE [page |-> "report", stats |-> Stats(rows, outs, s)]

-----------------------------------------------------------------------------
(* Handlers.                                                               *)

Idle == [step |-> "idle"]

\* The index asks for all sources, a report for one.
Asked == IF request.source = 0 THEN Source ELSE {request.source}

Reads(step, field, value) == request' = [request EXCEPT !.step = step, ![field] = value]

\* The window is fixed before the first read.
Begin ==
  /\ request = Idle
  /\ \E s \in Source \cup {0}, key \in DOMAIN Widths \cup {"evening_peak"} :
       request' = [step |-> "rollups", source |-> s, window |-> ParseWindow(key, clock),
                   rows |-> NoRows, outs |-> NoOutages, chart |-> NoRows]

ReadRollups ==
  /\ request.step = "rollups"
  /\ Reads("outages", "rows", Select(rollups, Asked, request.window))

\* The page of a report has no chart.
ReadOutages ==
  /\ request.step = "outages"
  /\ Reads(IF request.source = 0 THEN "chart" ELSE "done", "outs",
           Outages(Asked, request.window))

\* Variant: the rollups are read again for the chart.
ChartRowsAfresh ==
  IF request.window.key \in Short THEN Select(samples, Source, request.window)
  ELSE Select(rollups, Source, request.window)

\* Long windows draw the rollups that were read for the figures.
ChartRows ==
  IF request.window.key \in Short THEN Select(samples, Source, request.window)
  ELSE request.rows

ReadChart ==
  /\ request.step = "chart"
  /\ Reads("done", "chart", ChartRows)

\* A query failed: status 500.
Fail == request.step \in {"rollups", "outages", "chart"} /\ request' = Idle

\* The page that is written, and is gone with the next step.
Page ==
  IF request.source = 0 THEN Index(request.rows, request.outs, request.chart)
  ELSE Report(request.rows, request.outs, request.source)

Write == request.step = "done" /\ request' = Idle

Handle == Begin \/ ReadRollups \/ ReadOutages \/ ReadChart \/ Fail \/ Write

-----------------------------------------------------------------------------
(* Beside them: the agents' writes and the process itself.                  *)

Filled(table) == UNION {{<<s, k>> : k \in Keys(table, s)} : s \in Source}

Written == Cardinality(Filled(samples)) + Cardinality(Filled(rollups)) + Cardinality(events)

\* What a row may become when more samples are put to it.
Grows(row, r) ==
  row # NoRow => /\ r.samples > row.samples
                 /\ r.fails - row.fails \in 0 .. r.samples - row.samples

\* And when the ON CONFLICT clause does it, which blends percentiles by samples: what the
\* new segment has to put in is not negative.
Blends(row, r) ==
  Grows(row, r) /\ (row # NoRow => /\ r.p95 * r.samples >= row.p95 * row.samples
                                  /\ r.p99 * r.samples >= row.p99 * row.samples)

\* A flush cycle writes samples and rollups one after the other.
InsertSamples(s, k, r) ==
  /\ Grows(samples[s][k], r)
  /\ samples' = [samples EXCEPT ![s][k] = r]
  /\ UNCHANGED <<clock, rollups, events>>

UpsertRollups(s, k, r) ==
  /\ Blends(rollups[s][k], r)
  /\ rollups' = [rollups EXCEPT ![s][k] = r]
  /\ UNCHANGED <<clock, samples, events>>

\* An outage of one tick lasts no time.
InsertOutage(s, start, end) ==
  /\ start <= end /\ end <= clock
  /\ events' = events \cup {[source |-> s, start |-> start, end |-> end]}
  /\ UNCHANGED <<clock, samples, rollups>>

\* An agent writes of what is past.
WriteDatabase ==
  /\ Written < MaxWrites
  /\ \E s \in Source :
       \/ \E k \in Target \X {b \in Bucket : b <= clock}, r \in Rows :
            InsertSamples(s, k, r) \/ UpsertRollups(s, k, r)
       \/ \E start, end \in Bucket : InsertOutage(s, start, end)

TimePasses ==
  /\ clock < MaxClock
  /\ clock' = clock + 1
  /\ UNCHANGED <<samples, rollups, events>>

\* Only a process that runs serves pages; one that ends drops the page it was at.
Process ==
  /\ NextStartup
  /\ request' = IF phase' = "running" THEN request ELSE Idle
  /\ UNCHANGED database

\* Bound: the database changes only while pages are served, and pages are asked for until
\* the process is first killed.
Served == phase = "running" /\ config \in PageConfigs /\ kills = 0 /\ UNCHANGED startup

Serve == Served /\ Handle /\ UNCHANGED database

Elsewhere == Served /\ (WriteDatabase \/ TimePasses) /\ UNCHANGED request

Init ==
  /\ InitStartup
  /\ clock = 0 /\ samples = NoRows /\ rollups = NoRows /\ events = {}
  /\ request = Idle

Next == Process \/ Serve \/ Elsewhere

\* Every step of run goes on or fails in the end, and systemd starts a new process for
\* one that ended.
Spec == Init /\ [][Next]_vars /\ WF_vars(Run /\ Process)

-----------------------------------------------------------------------------
(* Properties.                                                             *)

NoMore(v, w) == v[1] * w[2] <= w[1] * v[2]

\* The chart of a source brackets its figure: some point is at most as high, and some
\* point at least as high.
Brackets(chart, column, figure) ==
  /\ \E b \in DOMAIN chart : NoMore(chart[b][column], figure)
  /\ \E b \in DOMAIN chart : NoMore(figure, chart[b][column])

\* A page over a long window tells one story: whatever is written to the database while
\* it is made, the p95 and the loss that it states of a source lie within their charts.
\* A short window (1h, 24h, evening_peak) is exempt: its figures come from the rollups and
\* its charts from the raw samples, read later, and they need not fit.
ChartFitsFigures ==
  request.step = "done" /\ request.source = 0 /\ request.window.key \notin Short =>
    \A p \in {Page} : p.page \in {"single", "multi"} =>
      \A s \in DOMAIN p.stats : p.stats[s].figures.samples > 0 =>
        /\ Brackets(p.chart[s], "p95", p.stats[s].figures.p95)
        /\ Brackets(p.chart[s], "loss", p.stats[s].figures.loss)

\* The line of a source in the comparison is its own chart, with zeros where only others
\* have rows.
SeriesAgree(rows) ==
  \A multi \in {MultiSeries(rows)} : \A s \in DOMAIN multi :
    LET own == SingleSeries(rows, s)
        line == multi[s]
    IN DOMAIN own \subseteq DOMAIN line
       /\ \A b \in DOMAIN line : line[b] = IF b \in DOMAIN own THEN own[b] ELSE Zero

\* What is said of a source does not depend on the page: its report, read with a filter
\* on the source, has the figures of the index, and is there when the index lists it.
ReportsAgree(w) ==
  LET rows == Select(rollups, Source, w)
      outs == Outages(Source, w)
  IN \A s \in Source :
       LET p == Report(Select(rollups, {s}, w), Outages({s}, w), s)
       IN IF s \in ToSet(Sources(rows, outs))
          THEN p.page = "report" /\ p.stats = Stats(rows, outs, s)
          ELSE p.page = "not found"

\* Whenever a page may be asked for, over whatever the agents have written, the pages about
\* a source agree with each other.
PagesAgree ==
  request = Idle => \A key \in DOMAIN Widths :
    LET w == ParseWindow(key, clock)
    IN SeriesAgree(Select(rollups, Source, w)) /\ ReportsAgree(w)

\* A page fails on missing data only where single_isp is forced and nothing was found;
\* with "auto" every state of the database has its page.
PanicsOnlyWhenForced ==
  request.step = "done" /\ Page.page = "panic" =>
    config.mode = "single_isp" /\ Sources(request.rows, request.outs) = <<>>

=============================================================================
