--------------------------- MODULE DashboardProofs ---------------------------
(***************************************************************************)
(* What holds of the probe list for every configuration, routing table and   *)
(* detected address, also while pages are served and the database is written  *)
(* to, and of the pages, their charts and their reports for every state of    *)
(* the database.                                                             *)
(***************************************************************************)
EXTENDS Dashboard, Folding

\* The claim of NoDoubleProbe about a list that holds the user's targets.
Distinct(c, list) ==
  /\ UserTargets(c) \subseteq list
  /\ \A t, u \in list :
       t # u /\ (t.name = u.name \/ t.address = u.address)
       => {t, u} \subseteq UserTargets(c) /\ t.name # u.name

\* The user's own targets have different names: they are the keys of a map.
LEMMA UserListDistinct ==
  ASSUME NEW c
  PROVE  Distinct(c, UserTargets(c))
<1> SUFFICES ASSUME NEW t \in UserTargets(c), NEW u \in UserTargets(c), t # u
             PROVE  t.name # u.name
  BY DEF Distinct
<1>1. PICK m \in DOMAIN c.targets : t = [name |-> m, address |-> c.targets[m]]
  BY DEF UserTargets
<1>2. PICK n \in DOMAIN c.targets : u = [name |-> n, address |-> c.targets[n]]
  BY DEF UserTargets
<1> QED BY <1>1, <1>2

\* appendNetworkTarget adds nothing that would be probed twice.
LEMMA AppendDistinct ==
  ASSUME NEW c, NEW list, NEW name, NEW address, Distinct(c, list)
  PROVE  Distinct(c, WithNetworkTarget(list, name, address))
<1>1. CASE address = Missing \/ \E t \in list : t.name = name \/ t.address = address
  BY <1>1 DEF WithNetworkTarget
<1>2. CASE ~ (address = Missing \/ \E t \in list : t.name = name \/ t.address = address)
  <2> DEFINE new == [name |-> name, address |-> address]
  <2>1. WithNetworkTarget(list, name, address) = list \cup {new}
    BY <1>2 DEF WithNetworkTarget
  <2>2. \A t \in list : t.name # new.name /\ t.address # new.address
    BY <1>2
  <2> HIDE DEF new
  <2> QED BY <2>1, <2>2 DEF Distinct
<1> QED BY <1>1, <1>2

\* The whole list is free of double probes.
LEMMA TargetsDistinct ==
  ASSUME NEW c, NEW gateway, NEW hop
  PROVE  Distinct(c, Targets(c, gateway, hop))
BY UserListDistinct, AppendDistinct DEF Targets

\* appendNetworkTarget only adds, and leaves the name or the address in the list.
LEMMA AppendCovers ==
  ASSUME NEW c, NEW list, NEW name, NEW address, address # Missing
  PROVE  /\ list \subseteq WithNetworkTarget(list, name, address)
         /\ \E t \in WithNetworkTarget(list, name, address) :
              t.name = name \/ t.address = address
<1>1. CASE \E t \in list : t.name = name \/ t.address = address
  BY <1>1 DEF WithNetworkTarget
<1>2. CASE ~ \E t \in list : t.name = name \/ t.address = address
  <2>1. WithNetworkTarget(list, name, address)
          = list \cup {[name |-> name, address |-> address]}
    BY <1>2 DEF WithNetworkTarget
  <2> DEFINE new == [name |-> name, address |-> address]
  <2>2. new \in WithNetworkTarget(list, name, address) /\ new.name = name
    BY <2>1
  <2>3. list \subseteq WithNetworkTarget(list, name, address)
    BY <2>1
  <2> QED BY <2>2, <2>3
<1> QED BY <1>1, <1>2

\* A literal gateway is in the list, under its name or by its address.
LEMMA GatewayListed ==
  ASSUME NEW c, NEW gateway, NEW hop, c.gateway \in Ip
  PROVE  \E t \in Targets(c, gateway, hop) :
           t.name = "local_gateway" \/ t.address = c.gateway
<1> DEFINE own == UserTargets(c)
           first == WithNetworkTarget(own, "local_gateway", c.gateway)
           second == Resolved(c.firstHop, hop)
<1>1. c.gateway # Missing /\ c.gateway # AutoDetect
  BY StartupAssumption
<1>2. Targets(c, gateway, hop) = WithNetworkTarget(first, "isp_first_hop", second)
  BY <1>1 DEF Targets, Resolved
<1>3. PICK t \in first : t.name = "local_gateway" \/ t.address = c.gateway
  <2> HIDE DEF own
  <2> QED BY <1>1, AppendCovers
<1> HIDE DEF first, second
<1>4. first \subseteq WithNetworkTarget(first, "isp_first_hop", second)
  BY DEF WithNetworkTarget
<1> QED BY <1>2, <1>3, <1>4

\* Both properties of the list, kept by every step of run().
ListInv == NoDoubleProbe /\ GatewayWatched

LEMMA Detected ==
  ASSUME Detect
  PROVE  ListInv'
<1>1. PICK routes \in RouteTables, offender \in Ip \cup {Missing} :
        targets' = Targets(config, DefaultGateway(routes), FirstHopBeyondGateway(offender))
  BY DEF Detect
<1>2. config' = config
  BY DEF Detect, Then
<1>3. Distinct(config, targets')
  BY <1>1, TargetsDistinct
<1>4. NoDoubleProbe'
  BY <1>2, <1>3 DEF NoDoubleProbe, Distinct, UserTargets
<1>5. GatewayWatched'
  <2> SUFFICES ASSUME config.gateway \in Ip
               PROVE  \E t \in targets' : IsGateway(t)'
    BY <1>2 DEF GatewayWatched
  <2>1. PICK t \in targets' : t.name = "local_gateway" \/ t.address = config.gateway
    BY <1>1, GatewayListed
  <2>2. config.gateway # Missing
    BY StartupAssumption
  <2> QED BY <2>1, <2>2, <1>2 DEF IsGateway
<1> QED BY <1>4, <1>5 DEF ListInv

\* No other step has both a process that probes and a list that is new.
LEMMA OthersKeep ==
  ASSUME ListInv,
         \/ phase' # "running"
         \/ UNCHANGED <<config, phase, targets>>
  PROVE  ListInv'
<1>1. CASE phase' # "running"
  BY <1>1 DEF ListInv, NoDoubleProbe, GatewayWatched
<1>2. CASE UNCHANGED <<config, phase, targets>>
  BY <1>2 DEF ListInv, NoDoubleProbe, GatewayWatched, IsGateway, UserTargets
<1> QED BY <1>1, <1>2

LEMMA ListPreserved == ListInv /\ [NextStartup]_startup => ListInv'
<1> SUFFICES ASSUME ListInv, [NextStartup]_startup PROVE ListInv'
  OBVIOUS
<1>1. CASE Load \/ OpenDB \/ OpenSpool \/ Panic
  <2>1. phase' # "running"
    BY <1>1 DEF Load, OpenDB, OpenSpool, Panic, Then
  <2> QED BY <2>1, OthersKeep
<1>2. CASE Detect
  BY <1>2, Detected
<1>3. CASE Kill
  BY <1>3, OthersKeep DEF Kill
<1>4. CASE Unreachable
  BY <1>4, OthersKeep DEF Unreachable
<1>5. CASE UNCHANGED startup
  BY <1>5, OthersKeep DEF startup
<1> QED BY <1>1, <1>2, <1>3, <1>4, <1>5 DEF NextStartup, Run

\* For any file and any network no target is probed twice but at the user's own wish, and
\* a literal gateway is always one that the tracker recognises.
THEOREM ProbeListSound == SpecStartup => [](NoDoubleProbe /\ GatewayWatched)
<1>1. InitStartup => ListInv
  BY DEF InitStartup, ListInv, NoDoubleProbe, GatewayWatched
<1> QED BY <1>1, ListPreserved, PTL DEF SpecStartup, ListInv

-----------------------------------------------------------------------------
(* With the pages beside it.                                               *)

\* Every step of the dashboard is one of the process that serves it, or leaves that alone.
THEOREM PagesLeaveStartup == Spec => SpecStartup
<1>1. Init => InitStartup
  BY DEF Init
<1>2. [Next]_vars => [NextStartup]_startup
  <2>1. Process => NextStartup
    BY DEF Process
  <2>2. Serve \/ Elsewhere => UNCHANGED startup
    BY DEF Serve, Elsewhere, Served
  <2>3. UNCHANGED vars => UNCHANGED startup
    BY DEF vars
  <2>. QED
    BY <2>1, <2>2, <2>3 DEF Next
<1>. QED
  BY <1>1, <1>2, PTL DEF Spec, SpecStartup

\* No target is probed twice and a literal gateway stays one that the tracker recognises,
\* whatever pages are served.
THEOREM ListStaysSound == Spec => [](NoDoubleProbe /\ GatewayWatched)
BY PagesLeaveStartup, ProbeListSound, PTL

-----------------------------------------------------------------------------
(* Pages without data.                                                     *)

\* What is known of the configuration.
Configured == config \in Configs

LEMMA StaysConfigured == SpecStartup => []Configured
<1>1. InitStartup => Configured
  BY DEF InitStartup, Configured
<1>2. Configured /\ [NextStartup]_startup => Configured'
  BY DEF Configured, NextStartup, Run, Load, OpenDB, OpenSpool, Detect, Panic, Then, Kill,
         Unreachable, startup
<1>. QED
  BY <1>1, <1>2, PTL DEF SpecStartup

\* Only a file that says so forces a mode.
LEMMA ForcedByFile ==
  ASSUME Configured, WithDefaults(config).mode = "single_isp"
  PROVE  config.mode = "single_isp"
<1>1. "mode" \in DOMAIN config /\ "interval" \in DOMAIN config
  BY StartupAssumption DEF Configured
<1>2. WithDefaults(config).mode = IF config.mode = "" THEN "auto" ELSE config.mode
  BY <1>1 DEF WithDefaults
<1>. QED
  BY <1>2

\* A mode that is found out fits the sources that were found.
LEMMA DetectedModes ==
  ASSUME NEW sources
  PROVE  \/ DetectMode(sources) \in {"empty", "multi_isp"}
         \/ DetectMode(sources) = "single_isp" /\ sources # <<>>
         \/ DetectMode(sources) = "single_isp" /\ WithDefaults(config).mode = "single_isp"
<1>. DEFINE mode == WithDefaults(config).mode
<1>1. CASE mode = "single_isp" \/ mode = "multi_isp"
  BY <1>1 DEF DetectMode
<1>2. CASE ~ (mode = "single_isp" \/ mode = "multi_isp")
  <2>1. DetectMode(sources) = CASE Len(sources) = 0 -> "empty"
                                [] Len(sources) = 1 -> "single_isp"
                                [] OTHER -> "multi_isp"
    BY <1>2 DEF DetectMode
  <2>2. CASE Len(sources) = 0
    BY <2>1, <2>2
  <2>3. CASE Len(sources) = 1
    <3>1. sources # <<>>
      BY <2>3
    <3>. QED
      BY <2>1, <2>3, <3>1
  <2>4. CASE Len(sources) # 0 /\ Len(sources) # 1
    BY <2>1, <2>4
  <2>. QED
    BY <2>2, <2>3, <2>4
<1>. QED
  BY <1>1, <1>2

\* The index cannot be made in one case only.
LEMMA IndexPanics ==
  ASSUME NEW rows, NEW outs, NEW chart, Configured, Index(rows, outs, chart).page = "panic"
  PROVE  config.mode = "single_isp" /\ Sources(rows, outs) = <<>>
<1>. DEFINE sources == Sources(rows, outs)
            mode == DetectMode(sources)
<1>1. CASE mode = "empty"
  BY <1>1 DEF Index
<1>2. CASE mode = "multi_isp"
  BY <1>2 DEF Index
<1>3. CASE mode = "single_isp" /\ sources # <<>>
  BY <1>3 DEF Index
<1>4. CASE mode = "single_isp" /\ sources = <<>>
  <2>1. WithDefaults(config).mode = "single_isp"
    BY <1>4, DetectedModes
  <2>. QED
    BY <2>1, <1>4, ForcedByFile
<1>. QED
  BY <1>1, <1>2, <1>3, <1>4, DetectedModes

\* Whatever the agents have written between the reads of a page, it is made, unless the
\* file forces single_isp and nothing was found.
THEOREM PagesAreMade == Spec => []PanicsOnlyWhenForced
<1>1. Configured => PanicsOnlyWhenForced
  <2>. SUFFICES ASSUME Configured, request.step = "done", Page.page = "panic"
                PROVE  config.mode = "single_isp" /\ Sources(request.rows, request.outs) = <<>>
    BY DEF PanicsOnlyWhenForced
  <2>1. request.source = 0
    BY DEF Page, Report
  <2>. QED
    BY <2>1, IndexPanics DEF Page
<1>. QED
  BY <1>1, PagesLeaveStartup, StaysConfigured, PTL

-----------------------------------------------------------------------------
(* The figures and the points of a chart, as sums over rows f of a source.   *)

Cell == Target \X Bucket
Table == [Source -> [Cell -> Rows \cup {NoRow}]]

LEMMA BucketFinite == IsFiniteSet(Bucket)
<1>1. MaxClock \in Nat
  BY DashboardAssumption
<1>. QED
  BY <1>1, FS_Interval DEF Bucket

LEMMA CellsFinite == \A keys \in SUBSET Cell : IsFiniteSet(keys)
<1>1. IsFiniteSet(Bucket)
  BY BucketFinite
<1>2. IsFiniteSet(Cell)
  BY <1>1, DashboardAssumption, FS_Product DEF Cell
<1>. QED
  BY <1>2, FS_Subset

RowsOf(f) == {k \in Cell : f[k] # NoRow}
SamplesOf(f) == [k \in Cell |-> f[k].samples]
FailsOf(f) == [k \in Cell |-> f[k].fails]
P95Of(f) == [k \in Cell |-> f[k].p95 * f[k].samples]
P99Of(f) == [k \in Cell |-> f[k].p99 * f[k].samples]

LEMMA SamplesTotal ==
  ASSUME NEW f, NEW keys \in SUBSET Cell
  PROVE  MapThenSumSet(LAMBDA k : f[k].samples, keys) = Total(keys, SamplesOf(f))
<1>. DEFINE Adds(z) == z = [T \in SUBSET keys |->
              IF T = {} THEN 0 ELSE f[Chosen(T)].samples + z[T \ {Chosen(T)}]]
            h == CHOOSE z : Adds(z)
<1>1. \A T \in SUBSET keys : T # {} => Chosen(T) \in Cell
  BY ChosenIn
<1>2. \A z : Adds(z) <=> Sums(z, keys, SamplesOf(f))
  BY <1>1 DEF Sums, SamplesOf
<1>3. MapThenSumSet(LAMBDA k : f[k].samples, keys) = h[keys]
  BY DEF MapThenSumSet, MapThenFoldSet, Chosen
<1>4. \E z : Adds(z)
  <2>. HIDE DEF Adds
  <2>. QED
    BY <1>2, SumsExist, CellsFinite
<1>. HIDE DEF Adds
<1>5. Adds(h)
  BY <1>4
<1>. HIDE DEF h
<1>6. Sums(h, keys, SamplesOf(f))
  BY <1>2, <1>5
<1>. QED
  BY <1>3, <1>6, TotalUnique, CellsFinite

LEMMA FailsTotal ==
  ASSUME NEW f, NEW keys \in SUBSET Cell
  PROVE  MapThenSumSet(LAMBDA k : f[k].fails, keys) = Total(keys, FailsOf(f))
<1>. DEFINE Adds(z) == z = [T \in SUBSET keys |->
              IF T = {} THEN 0 ELSE f[Chosen(T)].fails + z[T \ {Chosen(T)}]]
            h == CHOOSE z : Adds(z)
<1>1. \A T \in SUBSET keys : T # {} => Chosen(T) \in Cell
  BY ChosenIn
<1>2. \A z : Adds(z) <=> Sums(z, keys, FailsOf(f))
  BY <1>1 DEF Sums, FailsOf
<1>3. MapThenSumSet(LAMBDA k : f[k].fails, keys) = h[keys]
  BY DEF MapThenSumSet, MapThenFoldSet, Chosen
<1>4. \E z : Adds(z)
  <2>. HIDE DEF Adds
  <2>. QED
    BY <1>2, SumsExist, CellsFinite
<1>. HIDE DEF Adds
<1>5. Adds(h)
  BY <1>4
<1>. HIDE DEF h
<1>6. Sums(h, keys, FailsOf(f))
  BY <1>2, <1>5
<1>. QED
  BY <1>3, <1>6, TotalUnique, CellsFinite

LEMMA P95Total ==
  ASSUME NEW f, NEW keys \in SUBSET Cell
  PROVE  MapThenSumSet(LAMBDA k : f[k].p95 * f[k].samples, keys) = Total(keys, P95Of(f))
<1>. DEFINE Adds(z) == z = [T \in SUBSET keys |->
              IF T = {} THEN 0
              ELSE f[Chosen(T)].p95 * f[Chosen(T)].samples + z[T \ {Chosen(T)}]]
            h == CHOOSE z : Adds(z)
<1>1. \A T \in SUBSET keys : T # {} => Chosen(T) \in Cell
  BY ChosenIn
<1>2. \A z : Adds(z) <=> Sums(z, keys, P95Of(f))
  BY <1>1 DEF Sums, P95Of
<1>3. MapThenSumSet(LAMBDA k : f[k].p95 * f[k].samples, keys) = h[keys]
  BY DEF MapThenSumSet, MapThenFoldSet, Chosen
<1>4. \E z : Adds(z)
  <2>. HIDE DEF Adds
  <2>. QED
    BY <1>2, SumsExist, CellsFinite
<1>. HIDE DEF Adds
<1>5. Adds(h)
  BY <1>4
<1>. HIDE DEF h
<1>6. Sums(h, keys, P95Of(f))
  BY <1>2, <1>5
<1>. QED
  BY <1>3, <1>6, TotalUnique, CellsFinite

LEMMA P99Total ==
  ASSUME NEW f, NEW keys \in SUBSET Cell
  PROVE  MapThenSumSet(LAMBDA k : f[k].p99 * f[k].samples, keys) = Total(keys, P99Of(f))
<1>. DEFINE Adds(z) == z = [T \in SUBSET keys |->
              IF T = {} THEN 0
              ELSE f[Chosen(T)].p99 * f[Chosen(T)].samples + z[T \ {Chosen(T)}]]
            h == CHOOSE z : Adds(z)
<1>1. \A T \in SUBSET keys : T # {} => Chosen(T) \in Cell
  BY ChosenIn
<1>2. \A z : Adds(z) <=> Sums(z, keys, P99Of(f))
  BY <1>1 DEF Sums, P99Of
<1>3. MapThenSumSet(LAMBDA k : f[k].p99 * f[k].samples, keys) = h[keys]
  BY DEF MapThenSumSet, MapThenFoldSet, Chosen
<1>4. \E z : Adds(z)
  <2>. HIDE DEF Adds
  <2>. QED
    BY <1>2, SumsExist, CellsFinite
<1>. HIDE DEF Adds
<1>5. Adds(h)
  BY <1>4
<1>. HIDE DEF h
<1>6. Sums(h, keys, P99Of(f))
  BY <1>2, <1>5
<1>. QED
  BY <1>3, <1>6, TotalUnique, CellsFinite

LEMMA PointIs ==
  ASSUME NEW t, NEW s, NEW keys \in SUBSET Cell
  PROVE  /\ Point(t, s, keys).p95 = <<Total(keys, P95Of(t[s])), Total(keys, SamplesOf(t[s]))>>
         /\ Point(t, s, keys).loss
              = <<100 * Total(keys, FailsOf(t[s])), Total(keys, SamplesOf(t[s]))>>
<1>1. MapThenSumSet(LAMBDA k : t[s][k].samples, keys) = Total(keys, SamplesOf(t[s]))
  BY SamplesTotal
<1>2. MapThenSumSet(LAMBDA k : t[s][k].fails, keys) = Total(keys, FailsOf(t[s]))
  BY FailsTotal
<1>3. MapThenSumSet(LAMBDA k : t[s][k].p95 * t[s][k].samples, keys) = Total(keys, P95Of(t[s]))
  BY P95Total
<1>. QED
  BY <1>1, <1>2, <1>3 DEF Point

LEMMA InstanceSums ==
  ASSUME NEW t, NEW o, NEW s, NEW keys \in SUBSET Cell
  PROVE  /\ G(t, o)!Samples(s, keys) = Total(keys, SamplesOf(t[s]))
         /\ G(t, o)!Loss(s, keys)
              = <<100 * Total(keys, FailsOf(t[s])), Total(keys, SamplesOf(t[s]))>>
         /\ G(t, o)!P95(s, keys) = <<Total(keys, P95Of(t[s])), Total(keys, SamplesOf(t[s]))>>
         /\ G(t, o)!P99(s, keys) = <<Total(keys, P99Of(t[s])), Total(keys, SamplesOf(t[s]))>>
<1>1. MapThenSumSet(LAMBDA k : t[s][k].samples, keys) = Total(keys, SamplesOf(t[s]))
  BY SamplesTotal
<1>2. MapThenSumSet(LAMBDA k : t[s][k].fails, keys) = Total(keys, FailsOf(t[s]))
  BY FailsTotal
<1>3. MapThenSumSet(LAMBDA k : t[s][k].p95 * t[s][k].samples, keys) = Total(keys, P95Of(t[s]))
  BY P95Total
<1>4. MapThenSumSet(LAMBDA k : t[s][k].p99 * t[s][k].samples, keys) = Total(keys, P99Of(t[s]))
  BY P99Total
<1>5. G(t, o)!Samples(s, keys) = MapThenSumSet(LAMBDA k : t[s][k].samples, keys)
  BY DEF G!Samples, G!MapThenSumSet, G!MapThenFoldSet, MapThenSumSet, MapThenFoldSet
<1>6. G(t, o)!Loss(s, keys)
        = <<100 * MapThenSumSet(LAMBDA k : t[s][k].fails, keys), G(t, o)!Samples(s, keys)>>
  BY DEF G!Loss, G!Samples, G!MapThenSumSet, G!MapThenFoldSet, MapThenSumSet, MapThenFoldSet
<1>7. G(t, o)!P95(s, keys)
        = <<MapThenSumSet(LAMBDA k : t[s][k].p95 * t[s][k].samples, keys),
            G(t, o)!Samples(s, keys)>>
  BY DEF G!P95, G!Samples, G!MapThenSumSet, G!MapThenFoldSet, MapThenSumSet, MapThenFoldSet
<1>8. G(t, o)!P99(s, keys)
        = <<MapThenSumSet(LAMBDA k : t[s][k].p99 * t[s][k].samples, keys),
            G(t, o)!Samples(s, keys)>>
  BY DEF G!P99, G!Samples, G!MapThenSumSet, G!MapThenFoldSet, MapThenSumSet, MapThenFoldSet
<1>. QED
  BY <1>1, <1>2, <1>3, <1>4, <1>5, <1>6, <1>7, <1>8

-----------------------------------------------------------------------------
(* What is said of a source depends on its own rows and outages.             *)

LEMMA KeysAre ==
  ASSUME NEW t, NEW o, NEW s
  PROVE  /\ Keys(t, s) = RowsOf(t[s])
         /\ G(t, o)!Keys(s, Target) = RowsOf(t[s])
         /\ RowsOf(t[s]) \in SUBSET Cell
BY DEF Keys, G!Keys, RowsOf, Cell

LEMMA SummarySame ==
  ASSUME NEW t, NEW o, NEW u, NEW v, NEW s, t[s] = u[s], NEW ended
  PROVE  G(t, o)!Summary(s, ended) = G(u, v)!Summary(s, ended)
<1>. DEFINE own == RowsOf(t[s])
<1>1. /\ G(t, o)!Keys(s, Target) = own /\ G(u, v)!Keys(s, Target) = own
      /\ own \in SUBSET Cell
  BY KeysAre
<1>2. /\ G(t, o)!Samples(s, own) = G(u, v)!Samples(s, own)
      /\ G(t, o)!Loss(s, own) = G(u, v)!Loss(s, own)
      /\ G(t, o)!P95(s, own) = G(u, v)!P95(s, own)
      /\ G(t, o)!P99(s, own) = G(u, v)!P99(s, own)
  <2>. HIDE DEF own
  <2>. QED
    BY <1>1, InstanceSums
<1>3. \A x : G(t, o)!OrZero(x) = G(u, v)!OrZero(x)
  BY DEF G!OrZero
<1>4. G(t, o)!SumFunction(ended) = G(u, v)!SumFunction(ended)
  BY DEF G!SumFunction, G!SumFunctionOnSet, G!FoldFunctionOnSet, G!MapThenFoldSet
<1>5. G(t, o)!Longest(ended) = G(u, v)!Longest(ended)
  BY DEF G!Longest, G!Ended, G!Max
<1>6. \A S : G(t, o)!Cardinality(S) = G(u, v)!Cardinality(S)
  BY DEF G!Cardinality
<1>. HIDE DEF own
<1>. QED
  BY <1>1, <1>2, <1>3, <1>4, <1>5, <1>6 DEF G!Summary

\* The label that follows from the figures x.
LabelFrom(x) ==
  LET labels == {G(NoRows, NoOutages)!LossLabel(x.loss, LossBands),
                 G(NoRows, NoOutages)!Latency(x.p95, P95Bands),
                 G(NoRows, NoOutages)!Latency(x.p99, P99Bands),
                 G(NoRows, NoOutages)!OutageLabel(x.count, x.longest)}
  IN CHOOSE l \in labels : \A m \in labels :
       G(NoRows, NoOutages)!LabelRank(l) <= G(NoRows, NoOutages)!LabelRank(m)

ConfidenceFrom(x) == G(NoRows, NoOutages)!Confidence(x.days, x.samples)

LEMMA StatsAre ==
  ASSUME NEW t, NEW o, NEW s
  PROVE  LET x == G(t, o)!Summary(s, o[s])
         IN Stats(t, o, s) = [figures |-> x, grade |-> LabelFrom(x), confidence |-> ConfidenceFrom(x)]
<1>. DEFINE x == G(t, o)!Summary(s, o[s])
<1>1. G(t, o)!Grade(s, o[s]) = LabelFrom(x)
  BY DEF G!Grade, G!LossLabel, G!Latency, G!OutageLabel, G!LabelRank, G!Under, LabelFrom
<1>2. G(t, o)!SingleConfidence(s) = ConfidenceFrom(x)
  BY DEF G!SingleConfidence, G!Confidence, ConfidenceFrom
<1>. QED
  BY <1>1, <1>2 DEF Stats

LEMMA StatsSame ==
  ASSUME NEW t, NEW o, NEW u, NEW v, NEW s, t[s] = u[s], o[s] = v[s]
  PROVE  Stats(t, o, s) = Stats(u, v, s)
<1>1. G(t, o)!Summary(s, o[s]) = G(u, v)!Summary(s, v[s])
  BY SummarySame
<1>. QED
  BY <1>1, StatsAre

Ended(f) == {d \in Durations : f[d] > 0}

LEMMA KnownIs ==
  ASSUME NEW t, NEW o, NEW s
  PROVE  G(t, o)!Known(s) <=> RowsOf(t[s]) # {} \/ Ended(o[s]) # {}
<1>1. G(t, o)!Known(s) <=> G(t, o)!Keys(s, Target) # {} \/ G(t, o)!Ended(o[s]) # {}
  BY DEF G!Known
<1>2. G(t, o)!Ended(o[s]) = Ended(o[s])
  BY DEF G!Ended, Ended
<1>. QED
  BY <1>1, <1>2, KeysAre

\* The sources of a page are those that have rows or outages, in order.
LEMMA SourcesListed ==
  ASSUME NEW t, NEW o, NEW known, known = {s \in Source : G(t, o)!Known(s)}
  PROVE  /\ Sources(t, o) \in [1 .. Cardinality(known) -> known]
         /\ Ascends(Sources(t, o))
         /\ known \in SUBSET Nat /\ IsFiniteSet(known) /\ Cardinality(known) \in Nat
<1>. DEFINE n == Cardinality(known)
<1>1. known \in SUBSET Nat /\ IsFiniteSet(known)
  BY DashboardAssumption, FS_Subset
<1>2. n \in Nat
  BY <1>1, FS_CardinalityType
<1>3. \E q \in [1 .. n -> known] : Ascends(q)
  BY <1>1, AscendingExists
<1>4. Sources(t, o) = CHOOSE q \in [1 .. n -> known] : Ascends(q)
  BY DEF Sources, Ascends, IsSorted
<1>. QED
  BY <1>1, <1>2, <1>3, <1>4

LEMMA SourcesAre ==
  ASSUME NEW t, NEW o
  PROVE  ToSet(Sources(t, o)) = {s \in Source : G(t, o)!Known(s)}
<1>. DEFINE known == {s \in Source : G(t, o)!Known(s)}
<1>1. /\ Sources(t, o) \in [1 .. Cardinality(known) -> known] /\ Ascends(Sources(t, o))
      /\ known \in SUBSET Nat /\ IsFiniteSet(known)
  BY SourcesListed
<1>. HIDE DEF known
<1>2. ToSet(Sources(t, o)) = known
  BY <1>1, AscendingCovers
<1>. QED
  BY <1>2 DEF known

\* The report on a source, read with a filter, has the rows and outages of the index.
LEMMA FilteredSame ==
  ASSUME NEW s \in Source, NEW w
  PROVE  /\ Select(rollups, {s}, w)[s] = Select(rollups, Source, w)[s]
         /\ Outages({s}, w)[s] = Outages(Source, w)[s]
<1>1. s \in {s}
  OBVIOUS
<1>2. Select(rollups, {s}, w)[s] = Select(rollups, Source, w)[s]
  BY <1>1 DEF Select
<1>3. \A S \in {{s}, Source} :
        Outages(S, w)[s] = [d \in Durations |->
          Cardinality({e \in events : /\ e.source = s /\ s \in S
                                      /\ e.end - e.start = d
                                      /\ e.start < w.until /\ e.end >= w.since})]
  BY DEF Outages
<1>. DEFINE Ends(d) == {e \in events : /\ e.source = s
                                       /\ e.end - e.start = d
                                       /\ e.start < w.until /\ e.end >= w.since}
<1>4. \A S \in {{s}, Source} : Outages(S, w)[s] = [d \in Durations |-> Cardinality(Ends(d))]
  <2>. SUFFICES ASSUME NEW S \in {{s}, Source}
                PROVE  Outages(S, w)[s] = [d \in Durations |-> Cardinality(Ends(d))]
    OBVIOUS
  <2>1. s \in S
    BY <1>1
  <2>2. \A d : {e \in events : /\ e.source = s /\ s \in S
                               /\ e.end - e.start = d
                               /\ e.start < w.until /\ e.end >= w.since} = Ends(d)
    BY <2>1
  <2>. HIDE DEF Ends
  <2>. QED
    BY <1>3, <2>2
<1>. HIDE DEF Ends
<1>. QED
  BY <1>2, <1>4

LEMMA ReportsMatch ==
  ASSUME NEW w
  PROVE  ReportsAgree(w)
<1>. DEFINE t == Select(rollups, Source, w)
            o == Outages(Source, w)
            u(s) == Select(rollups, {s}, w)
            v(s) == Outages({s}, w)
<1>1. SUFFICES ASSUME NEW s \in Source
               PROVE  IF s \in ToSet(Sources(t, o))
                      THEN /\ Report(u(s), v(s), s).page = "report"
                           /\ Report(u(s), v(s), s).stats = Stats(t, o, s)
                      ELSE Report(u(s), v(s), s).page = "not found"
  BY DEF ReportsAgree
<1>2. u(s)[s] = t[s] /\ v(s)[s] = o[s]
  BY FilteredSame
<1>. HIDE DEF t, o, u, v
<1>3. s \in ToSet(Sources(t, o)) <=> G(t, o)!Known(s)
  BY SourcesAre
<1>4. G(u(s), v(s))!Known(s) <=> G(t, o)!Known(s)
  BY <1>2, KnownIs
<1>5. Stats(u(s), v(s), s) = Stats(t, o, s)
  BY <1>2, StatsSame
<1>6. CASE G(t, o)!Known(s)
  <2>1. Report(u(s), v(s), s) = [page |-> "report", stats |-> Stats(u(s), v(s), s)]
    BY <1>4, <1>6 DEF Report
  <2>. QED
    BY <1>3, <1>5, <1>6, <2>1
<1>7. CASE ~ G(t, o)!Known(s)
  <2>1. Report(u(s), v(s), s) = [page |-> "not found"]
    BY <1>4, <1>7 DEF Report
  <2>2. \A x : [page |-> x].page = x
    OBVIOUS
  <2>3. Report(u(s), v(s), s).page = "not found"
    BY <2>1, <2>2, Zenon
  <2>4. s \notin ToSet(Sources(t, o))
    BY <1>3, <1>7
  <2>. QED
    BY <2>3, <2>4, Zenon
<1>. QED
  BY <1>6, <1>7

\* The line of a source in the comparison is its own chart where it has rows.
LEMMA LineIs ==
  ASSUME NEW t, NEW s \in Source, Keys(t, s) # {}
  PROVE  /\ s \in DOMAIN MultiSeries(t)
         /\ Drawn(t, s) \subseteq DOMAIN MultiSeries(t)[s]
         /\ \A b \in DOMAIN MultiSeries(t)[s] :
              MultiSeries(t)[s][b] = IF b \in Drawn(t, s) THEN SingleSeries(t, s)[b] ELSE Zero
<1>. DEFINE drawn == {u \in Source : Keys(t, u) # {}}
            all == UNION {Drawn(t, u) : u \in drawn}
            at(b) == {k \in Keys(t, s) : k[2] = b}
<1>1. s \in drawn
  OBVIOUS
<1>2. /\ DOMAIN MultiSeries(t) = drawn
      /\ MultiSeries(t)[s] = [b \in all |-> IF at(b) = {} THEN Zero ELSE Point(t, s, at(b))]
  BY <1>1 DEF MultiSeries
<1>3. \A b : b \in Drawn(t, s) <=> at(b) # {}
  BY DEF Drawn
<1>4. \A b \in Drawn(t, s) : SingleSeries(t, s)[b] = Point(t, s, at(b))
  BY DEF SingleSeries
<1>5. Drawn(t, s) \subseteq all
  BY <1>1
<1>. HIDE DEF drawn, all, at
<1>6. DOMAIN MultiSeries(t)[s] = all
  BY <1>2
<1>. QED
  BY <1>1, <1>2, <1>3, <1>4, <1>5, <1>6

LEMMA SeriesMatch ==
  ASSUME NEW t
  PROVE  SeriesAgree(t)
<1>1. \A s \in DOMAIN MultiSeries(t) : s \in Source /\ Keys(t, s) # {}
  BY DEF MultiSeries
<1>2. \A s : DOMAIN SingleSeries(t, s) = Drawn(t, s)
  BY DEF SingleSeries
<1>3. ASSUME NEW s \in DOMAIN MultiSeries(t)
      PROVE  /\ DOMAIN SingleSeries(t, s) \subseteq DOMAIN MultiSeries(t)[s]
             /\ \A b \in DOMAIN MultiSeries(t)[s] :
                  MultiSeries(t)[s][b]
                    = IF b \in DOMAIN SingleSeries(t, s) THEN SingleSeries(t, s)[b] ELSE Zero
  BY <1>1, <1>2, LineIs
<1>. QED
  BY <1>3 DEF SeriesAgree

\* Whatever the agents have written, the pages about a source agree: its line in the
\* comparison with its own chart, and its report with its figures in the index.
THEOREM PagesStayAgreed == Spec => []PagesAgree
<1>1. PagesAgree
  BY ReportsMatch, SeriesMatch DEF PagesAgree
<1>. QED
  BY <1>1, PTL

-----------------------------------------------------------------------------
(* The request: a chart over a long window is drawn from the rows of the     *)
(* figures.                                                                *)

Fields == {"step", "source", "window", "rows", "outs", "chart"}

OutageTable == [Source -> [Durations -> Nat]]

Drawing ==
  /\ samples \in Table /\ rollups \in Table /\ IsFiniteSet(events)
  /\ request # Idle =>
       /\ DOMAIN request = Fields
       /\ request.rows \in Table /\ request.outs \in OutageTable
       /\ request.step = "done" /\ request.source = 0 /\ request.window.key \notin Short =>
            request.chart = request.rows

LEMMA SelectType ==
  ASSUME NEW t \in Table, NEW S, NEW w
  PROVE  Select(t, S, w) \in Table
<1>1. \A s \in Source, k \in Cell : t[s][k] \in Rows \cup {NoRow}
  BY DEF Table
<1>. QED
  BY <1>1 DEF Select, Table, Cell

LEMMA EmptyType == NoRows \in Table /\ NoOutages \in OutageTable
BY DEF NoRows, NoOutages, Table, OutageTable, Cell

LEMMA OutagesType ==
  ASSUME IsFiniteSet(events), NEW S, NEW w
  PROVE  Outages(S, w) \in OutageTable
<1>1. \A E \in SUBSET events : Cardinality(E) \in Nat
  BY FS_Subset, FS_CardinalityType
<1>2. ASSUME NEW s \in Source, NEW d \in Durations
      PROVE  Outages(S, w)[s][d] \in Nat
  <2>. DEFINE E == {e \in events : /\ e.source = s /\ s \in S
                                   /\ e.end - e.start = d
                                   /\ e.start < w.until /\ e.end >= w.since}
  <2>1. Outages(S, w)[s][d] = Cardinality(E)
    BY DEF Outages
  <2>2. E \in SUBSET events
    OBVIOUS
  <2>. HIDE DEF E
  <2>. QED
    BY <1>1, <2>1, <2>2
<1>3. /\ DOMAIN Outages(S, w) = Source
      /\ \A s \in Source : DOMAIN Outages(S, w)[s] = Durations
  BY DEF Outages
<1>4. \A s \in Source : Outages(S, w)[s] = [d \in Durations |-> Outages(S, w)[s][d]]
  BY DEF Outages
<1>5. Outages(S, w) = [s \in Source |-> Outages(S, w)[s]]
  BY DEF Outages
<1>6. \A s \in Source : Outages(S, w)[s] \in [Durations -> Nat]
  BY <1>2, <1>4
<1>. QED
  BY <1>5, <1>6 DEF OutageTable

\* What a read changes.
LEMMA ReadsFields ==
  ASSUME DOMAIN request = Fields, NEW step, NEW field \in Fields \ {"step"}, NEW value,
         Reads(step, field, value)
  PROVE  /\ request'["step"] = step /\ request'[field] = value
         /\ DOMAIN request' = Fields
         /\ \A x \in Fields \ {"step", field} : request'[x] = request[x]
<1>1. "step" \in DOMAIN request /\ field \in DOMAIN request /\ field # "step"
  BY DEF Fields
<1>2. request' = [request EXCEPT !["step"] = step, ![field] = value]
  BY DEF Reads
<1>. QED
  BY <1>1, <1>2

LEMMA DrawingHandle ==
  ASSUME Drawing, Handle, UNCHANGED database
  PROVE  Drawing'
<1>1. /\ samples' \in Table /\ rollups' \in Table /\ samples \in Table /\ rollups \in Table
      /\ IsFiniteSet(events) /\ IsFiniteSet(events')
  BY DEF Drawing, database
<1>2. CASE Begin
  <2>1. PICK s, w : request' = [step |-> "rollups", source |-> s, window |-> w,
                                rows |-> NoRows, outs |-> NoOutages, chart |-> NoRows]
    BY <1>2 DEF Begin
  <2>2. /\ DOMAIN request' = Fields /\ request'.step # "done"
        /\ request'.rows \in Table /\ request'.outs \in OutageTable
    BY <2>1, EmptyType DEF Fields
  <2>. QED
    BY <1>1, <2>2 DEF Drawing
<1>3. ASSUME request.step # "idle"
      PROVE  /\ request # Idle /\ DOMAIN request = Fields
             /\ request.rows \in Table /\ request.outs \in OutageTable
  BY <1>3 DEF Drawing, Idle
<1>4. CASE ReadRollups
  <2>1. DOMAIN request = Fields /\ request.outs \in OutageTable
    BY <1>3, <1>4 DEF ReadRollups
  <2>2. Reads("outages", "rows", Select(rollups, Asked, request.window))
    BY <1>4 DEF ReadRollups
  <2>3. "rows" \in Fields \ {"step"} /\ "outs" \in Fields \ {"step", "rows"}
    BY DEF Fields
  <2>4. /\ request'["step"] = "outages" /\ DOMAIN request' = Fields
        /\ request'["rows"] = Select(rollups, Asked, request.window)
        /\ request'["outs"] = request["outs"]
    BY <2>1, <2>2, <2>3, ReadsFields
  <2>. QED
    BY <1>1, <2>1, <2>4, SelectType DEF Drawing
<1>5. CASE ReadOutages
  <2>1. DOMAIN request = Fields /\ request.rows \in Table
    BY <1>3, <1>5 DEF ReadOutages
  <2>. DEFINE next == IF request.source = 0 THEN "chart" ELSE "done"
  <2>2. Reads(next, "outs", Outages(Asked, request.window))
    BY <1>5 DEF ReadOutages
  <2>3. "outs" \in Fields \ {"step"} /\ {"rows", "source"} \subseteq Fields \ {"step", "outs"}
    BY DEF Fields
  <2>. HIDE DEF next
  <2>4. /\ request'["step"] = next /\ DOMAIN request' = Fields
        /\ request'["rows"] = request["rows"] /\ request'["source"] = request["source"]
        /\ request'["outs"] = Outages(Asked, request.window)
    BY <2>1, <2>2, <2>3, ReadsFields
  <2>5. request'.step = "done" => request'.source # 0
    BY <2>4 DEF next
  <2>. QED
    BY <1>1, <2>1, <2>4, <2>5, OutagesType DEF Drawing
<1>6. CASE ReadChart
  <2>1. DOMAIN request = Fields /\ request.rows \in Table /\ request.outs \in OutageTable
    BY <1>3, <1>6 DEF ReadChart
  <2>2. Reads("done", "chart", ChartRows)
    BY <1>6 DEF ReadChart
  <2>3. /\ "chart" \in Fields \ {"step"}
        /\ {"rows", "outs", "source", "window"} \subseteq Fields \ {"step", "chart"}
    BY DEF Fields
  <2>4. /\ DOMAIN request' = Fields /\ request'["chart"] = ChartRows
        /\ request'["rows"] = request["rows"] /\ request'["window"] = request["window"]
        /\ request'["outs"] = request["outs"]
    BY <2>1, <2>2, <2>3, ReadsFields
  <2>5. request'.window.key \notin Short => request'.chart = request'.rows
    BY <2>4 DEF ChartRows
  <2>. QED
    BY <1>1, <2>1, <2>4, <2>5 DEF Drawing
<1>7. CASE Fail \/ Write
  BY <1>1, <1>7 DEF Fail, Write, Drawing
<1>. QED
  BY <1>2, <1>4, <1>5, <1>6, <1>7 DEF Handle

LEMMA DrawingWrites ==
  ASSUME Drawing, WriteDatabase \/ TimePasses, UNCHANGED request
  PROVE  Drawing'
<1>1. samples \in Table /\ rollups \in Table
  BY DEF Drawing
<1>2. ASSUME NEW t \in Table, NEW s \in Source, NEW k \in Cell, NEW r \in Rows
      PROVE  [t EXCEPT ![s][k] = r] \in Table
  <2>. DEFINE R == Rows \cup {NoRow}
  <2>1. t \in [Source -> [Cell -> R]] /\ r \in R
    BY DEF Table
  <2>. HIDE DEF R
  <2>2. t[s] \in [Cell -> R]
    BY <2>1
  <2>3. [t[s] EXCEPT ![k] = r] \in [Cell -> R]
    BY <2>1, <2>2
  <2>4. [t EXCEPT ![s][k] = r] \in [Source -> [Cell -> R]]
    BY <2>1, <2>3
  <2>. QED
    BY <2>4 DEF Table, R
<1>3. samples' \in Table /\ rollups' \in Table
  <2>1. CASE TimePasses
    BY <1>1, <2>1 DEF TimePasses
  <2>2. CASE WriteDatabase
    <3>1. CASE UNCHANGED <<samples, rollups>>
      BY <1>1, <3>1
    <3>2. CASE ~ UNCHANGED <<samples, rollups>>
      <4>1. PICK s \in Source, k \in Target \X {b \in Bucket : b <= clock}, r \in Rows :
              InsertSamples(s, k, r) \/ UpsertRollups(s, k, r)
        BY <2>2, <3>2 DEF WriteDatabase, InsertOutage
      <4>2. k \in Cell
        BY DEF Cell
      <4>3. CASE InsertSamples(s, k, r)
        BY <1>1, <1>2, <4>2, <4>3 DEF InsertSamples
      <4>4. CASE UpsertRollups(s, k, r)
        BY <1>1, <1>2, <4>2, <4>4 DEF UpsertRollups
      <4>. QED
        BY <4>1, <4>3, <4>4
    <3>. QED
      BY <3>1, <3>2
  <2>. QED
    BY <2>1, <2>2
<1>4. IsFiniteSet(events')
  <2>1. CASE UNCHANGED events
    BY <2>1 DEF Drawing
  <2>2. CASE \E x : events' = events \cup {x}
    BY <2>2, FS_AddElement DEF Drawing
  <2>. QED
    BY <2>1, <2>2 DEF WriteDatabase, InsertSamples, UpsertRollups, InsertOutage, TimePasses
<1>. QED
  BY <1>3, <1>4 DEF Drawing

LEMMA DrawingHolds == Spec => []Drawing
<1>1. Init => Drawing
  BY EmptyType, FS_EmptySet DEF Init, Drawing
<1>2. Drawing /\ [Next]_vars => Drawing'
  <2>. SUFFICES ASSUME Drawing, [Next]_vars PROVE Drawing'
    OBVIOUS
  <2>1. CASE Process
    BY <2>1 DEF Process, Drawing, database
  <2>2. CASE Serve
    BY <2>2, DrawingHandle DEF Serve
  <2>3. CASE Elsewhere
    BY <2>3, DrawingWrites DEF Elsewhere
  <2>4. CASE UNCHANGED vars
    BY <2>4 DEF vars, Drawing, database
  <2>. QED
    BY <2>1, <2>2, <2>3, <2>4 DEF Next
<1>. QED
  BY <1>1, <1>2, PTL DEF Spec

-----------------------------------------------------------------------------
(* The figure of a source lies between the points of its chart.              *)

LEMMA Columns ==
  ASSUME NEW t \in Table, NEW s \in Source, NEW k \in RowsOf(t[s])
  PROVE  /\ SamplesOf(t[s])[k] \in Nat
         /\ FailsOf(t[s])[k] \in Nat
         /\ P95Of(t[s])[k] \in Nat
<1>. DEFINE r == t[s][k]
<1>1. k \in Cell /\ r \in Rows
  BY DEF RowsOf, Table
<1>2. r.samples \in Nat /\ r.fails \in Nat /\ r.p95 \in Nat
  BY <1>1, DashboardAssumption
<1>3. /\ SamplesOf(t[s])[k] = r.samples /\ FailsOf(t[s])[k] = r.fails
      /\ P95Of(t[s])[k] = r.p95 * r.samples
  BY <1>1 DEF SamplesOf, FailsOf, P95Of
<1>4. r.p95 * r.samples \in Nat
  <2>1. \A m, n \in Nat : m * n \in Nat
    OBVIOUS
  <2>. QED
    BY <1>2, <2>1
<1>. QED
  BY <1>2, <1>3, <1>4

\* The mean of h over some rows, weighted by g, is neither below those of all buckets nor
\* above them.
LEMMA MeanBetween ==
  ASSUME NEW own, IsFiniteSet(own), NEW at, NEW B, IsFiniteSet(B), B = {at[k] : k \in own}, B # {},
         NEW g, \A k \in own : g[k] \in Nat,
         NEW h, \A k \in own : h[k] \in Nat
  PROVE  /\ \E b \in B : Total(Fibre(own, at, {b}), h) * Total(own, g)
                           <= Total(own, h) * Total(Fibre(own, at, {b}), g)
         /\ \E b \in B : Total(own, h) * Total(Fibre(own, at, {b}), g)
                           <= Total(Fibre(own, at, {b}), h) * Total(own, g)
<1>. DEFINE n == Total(own, g)
            m == Total(own, h)
<1>1. n \in Nat /\ m \in Nat
  BY TotalNat
<1>2. \A k \in own : at[k] \in B
  OBVIOUS
<1>3. ASSUME NEW b \in B
      PROVE  Total(Fibre(own, at, {b}), g) \in Nat /\ Total(Fibre(own, at, {b}), h) \in Nat
  <2>1. Fibre(own, at, {b}) \in SUBSET own
    BY DEF Fibre
  <2>2. IsFiniteSet(Fibre(own, at, {b}))
    BY <2>1, FS_Subset
  <2>3. \A k \in Fibre(own, at, {b}) : g[k] \in Nat /\ h[k] \in Nat
    BY <2>1
  <2>. QED
    BY <2>2, <2>3, TotalNat
<1>4. \A i, j \in Nat : i * j = j * i /\ i * j \in Nat
  OBVIOUS
<1>. HIDE DEF n, m
<1>5. \E b \in B : Total(Fibre(own, at, {b}), h) * n <= m * Total(Fibre(own, at, {b}), g)
  <2>. SUFFICES ASSUME \A b \in B : ~ (Total(Fibre(own, at, {b}), h) * n
                                         <= m * Total(Fibre(own, at, {b}), g))
                PROVE  FALSE
    OBVIOUS
  <2>1. ASSUME NEW b \in B
        PROVE  m * Total(Fibre(own, at, {b}), g) < n * Total(Fibre(own, at, {b}), h)
    <3>. DEFINE i == Total(Fibre(own, at, {b}), g)
                j == Total(Fibre(own, at, {b}), h)
    <3>1. i \in Nat /\ j \in Nat /\ ~ (j * n <= m * i)
      BY <1>3
    <3>. HIDE DEF i, j
    <3>2. m * i < n * j
      BY <1>1, <1>4, <3>1
    <3>. QED
      BY <3>2 DEF i, j
  <2>2. m * n < n * m
    <3>1. m * Total(own, g) < n * Total(own, h)
      BY <1>1, <1>2, <2>1, Mediant
    <3>. QED
      BY <3>1 DEF n, m
  <2>. QED
    BY <1>1, <1>4, <2>2
<1>6. \E b \in B : m * Total(Fibre(own, at, {b}), g) <= Total(Fibre(own, at, {b}), h) * n
  <2>. SUFFICES ASSUME \A b \in B : ~ (m * Total(Fibre(own, at, {b}), g)
                                         <= Total(Fibre(own, at, {b}), h) * n)
                PROVE  FALSE
    OBVIOUS
  <2>1. ASSUME NEW b \in B
        PROVE  n * Total(Fibre(own, at, {b}), h) < m * Total(Fibre(own, at, {b}), g)
    <3>. DEFINE i == Total(Fibre(own, at, {b}), g)
                j == Total(Fibre(own, at, {b}), h)
    <3>1. i \in Nat /\ j \in Nat /\ ~ (m * i <= j * n)
      BY <1>3
    <3>. HIDE DEF i, j
    <3>2. n * j < m * i
      BY <1>1, <1>4, <3>1
    <3>. QED
      BY <3>2 DEF i, j
  <2>2. n * m < m * n
    <3>1. n * Total(own, h) < m * Total(own, g)
      BY <1>1, <1>2, <2>1, Mediant
    <3>. QED
      BY <3>1 DEF n, m
  <2>. QED
    BY <1>1, <1>4, <2>2
<1>. QED
  BY <1>5, <1>6 DEF n, m

LEMMA Hundredfold ==
  ASSUME NEW a \in Nat, NEW b \in Nat, NEW c \in Nat, NEW d \in Nat, a * b <= c * d
  PROVE  (100 * a) * b <= (100 * c) * d
OBVIOUS

\* Series q has at least the points of the chart of s.
Shows(q, t, s) ==
  /\ Drawn(t, s) \subseteq DOMAIN q
  /\ \A b \in Drawn(t, s) : q[b] = Point(t, s, {k \in Keys(t, s) : k[2] = b})

\* n is the number of samples of s, and what its figures are divided by.
Divides(n, t, o, s) ==
  /\ n > 0
  /\ G(t, o)!Summary(s, o[s]).p95 = <<Total(RowsOf(t[s]), P95Of(t[s])), n>>
  /\ G(t, o)!Summary(s, o[s]).loss = <<100 * Total(RowsOf(t[s]), FailsOf(t[s])), n>>

LEMMA FiguresOf ==
  ASSUME NEW t, NEW o, NEW s, G(t, o)!Summary(s, o[s]).samples > 0
  PROVE  Divides(Total(RowsOf(t[s]), SamplesOf(t[s])), t, o, s)
<1>. DEFINE own == RowsOf(t[s])
            x == G(t, o)!Summary(s, o[s])
            n == Total(own, SamplesOf(t[s]))
<1>1. own \in SUBSET Cell /\ G(t, o)!Keys(s, Target) = own
  BY KeysAre
<1>2. /\ x.samples = G(t, o)!Samples(s, own)
      /\ x.p95 = G(t, o)!OrZero(G(t, o)!P95(s, own))
      /\ x.loss = G(t, o)!OrZero(G(t, o)!Loss(s, own))
  BY <1>1 DEF G!Summary
<1>. HIDE DEF own, x, n
<1>3. /\ G(t, o)!Samples(s, own) = n
      /\ G(t, o)!P95(s, own) = <<Total(own, P95Of(t[s])), n>>
      /\ G(t, o)!Loss(s, own) = <<100 * Total(own, FailsOf(t[s])), n>>
  BY <1>1, InstanceSums DEF n
<1>4. n > 0
  BY <1>2, <1>3 DEF x
<1>5. \A v : v[2] = n => G(t, o)!OrZero(v) = v
  BY <1>4 DEF G!OrZero
<1>. QED
  BY <1>2, <1>3, <1>4, <1>5 DEF own, x, n, Divides

LEMMA Bracketed ==
  ASSUME NEW t \in Table, NEW o, NEW s \in Source, NEW q, Shows(q, t, s),
         G(t, o)!Summary(s, o[s]).samples > 0
  PROVE  /\ Brackets(q, "p95", G(t, o)!Summary(s, o[s]).p95)
         /\ Brackets(q, "loss", G(t, o)!Summary(s, o[s]).loss)
<1>. DEFINE own == RowsOf(t[s])
            g == SamplesOf(t[s])
            h == P95Of(t[s])
            l == FailsOf(t[s])
            n == Total(own, g)
            at == [k \in own |-> k[2]]
            B == {at[k] : k \in own}
            P(b) == Fibre(own, at, {b})
<1>1. own \in SUBSET Cell /\ Keys(t, s) = own /\ IsFiniteSet(own)
  BY KeysAre, CellsFinite
<1>2. \A k \in own : g[k] \in Nat /\ h[k] \in Nat /\ l[k] \in Nat
  BY Columns
<1>3. /\ n > 0
      /\ G(t, o)!Summary(s, o[s]).p95 = <<Total(own, h), n>>
      /\ G(t, o)!Summary(s, o[s]).loss = <<100 * Total(own, l), n>>
  <2>1. Divides(n, t, o, s)
    BY FiguresOf
  <2>. HIDE DEF n
  <2>. QED
    BY <2>1 DEF Divides
<1>4. n \in Nat /\ Total(own, h) \in Nat /\ Total(own, l) \in Nat
  BY <1>1, <1>2, TotalNat
<1>5. own # {}
  <2>1. own = {} => n = 0
    BY TotalEmpty
  <2>. HIDE DEF own, n
  <2>. QED
    BY <1>3, <2>1
<1>6. B # {} /\ B = Drawn(t, s) /\ IsFiniteSet(B)
  <2>1. B # {} /\ B = Drawn(t, s)
    BY <1>1, <1>5 DEF Drawn
  <2>2. IsFiniteSet(Bucket)
    BY BucketFinite
  <2>3. B \in SUBSET Bucket
    BY <1>1 DEF Cell
  <2>. HIDE DEF B
  <2>. QED
    BY <2>1, <2>2, <2>3, FS_Subset
<1>7. \A b \in B : {k \in Keys(t, s) : k[2] = b} = P(b) /\ P(b) \in SUBSET own
  BY <1>1 DEF Fibre
<1>8. ASSUME NEW b \in B
      PROVE  /\ b \in DOMAIN q
             /\ q[b]["p95"] = <<Total(P(b), h), Total(P(b), g)>>
             /\ q[b]["loss"] = <<100 * Total(P(b), l), Total(P(b), g)>>
             /\ Total(P(b), g) \in Nat /\ Total(P(b), h) \in Nat /\ Total(P(b), l) \in Nat
  <2>1. b \in DOMAIN q /\ q[b] = Point(t, s, P(b))
    <3>1. b \in Drawn(t, s) /\ {k \in Keys(t, s) : k[2] = b} = P(b)
      BY <1>6, <1>7
    <3>. HIDE DEF P, B, own
    <3>. QED
      BY <3>1 DEF Shows
  <2>2. P(b) \in SUBSET own /\ P(b) \in SUBSET Cell
    BY <1>1, <1>7
  <2>3. /\ Point(t, s, P(b)).p95 = <<Total(P(b), h), Total(P(b), g)>>
        /\ Point(t, s, P(b)).loss = <<100 * Total(P(b), l), Total(P(b), g)>>
    <3>. HIDE DEF P
    <3>. QED
      BY <2>2, PointIs
  <2>4. IsFiniteSet(P(b)) /\ \A k \in P(b) : g[k] \in Nat /\ h[k] \in Nat /\ l[k] \in Nat
    <3>. HIDE DEF P, own, g, h, l
    <3>. QED
      BY <1>1, <1>2, <2>2, FS_Subset
  <2>5. Total(P(b), g) \in Nat /\ Total(P(b), h) \in Nat /\ Total(P(b), l) \in Nat
    <3>. HIDE DEF P, g, h, l
    <3>. QED
      BY <2>4, TotalNat
  <2>. HIDE DEF P
  <2>. QED
    BY <2>1, <2>3, <2>5
<1>. HIDE DEF own, g, h, l, at
<1>9. /\ \E b \in B : Total(P(b), h) * n <= Total(own, h) * Total(P(b), g)
      /\ \E b \in B : Total(own, h) * Total(P(b), g) <= Total(P(b), h) * n
  BY <1>1, <1>2, <1>6, MeanBetween
<1>10. /\ \E b \in B : Total(P(b), l) * n <= Total(own, l) * Total(P(b), g)
       /\ \E b \in B : Total(own, l) * Total(P(b), g) <= Total(P(b), l) * n
  BY <1>1, <1>2, <1>6, MeanBetween
<1>. HIDE DEF B, P, n
<1>11. Brackets(q, "p95", <<Total(own, h), n>>)
  BY <1>8, <1>9 DEF Brackets, NoMore
<1>12. Brackets(q, "loss", <<100 * Total(own, l), n>>)
  <2>1. PICK b \in B : Total(P(b), l) * n <= Total(own, l) * Total(P(b), g)
    BY <1>10
  <2>2. (100 * Total(P(b), l)) * n <= (100 * Total(own, l)) * Total(P(b), g)
    BY <1>4, <1>8, <2>1, Hundredfold
  <2>3. PICK c \in B : Total(own, l) * Total(P(c), g) <= Total(P(c), l) * n
    BY <1>10
  <2>4. (100 * Total(own, l)) * Total(P(c), g) <= (100 * Total(P(c), l)) * n
    BY <1>4, <1>8, <2>3, Hundredfold
  <2>. QED
    BY <1>8, <2>2, <2>4 DEF Brackets, NoMore
<1>. QED
  BY <1>3, <1>11, <1>12

\* The chart of a source, on a page of its own or in the comparison, shows its buckets.
LEMMA ChartsShow ==
  ASSUME NEW t, NEW s \in Source
  PROVE  /\ Shows(SingleSeries(t, s), t, s)
         /\ Keys(t, s) # {} => Shows(MultiSeries(t)[s], t, s)
<1>1. /\ DOMAIN SingleSeries(t, s) = Drawn(t, s)
      /\ \A b \in Drawn(t, s) :
           SingleSeries(t, s)[b] = Point(t, s, {k \in Keys(t, s) : k[2] = b})
  BY DEF SingleSeries
<1>2. Shows(SingleSeries(t, s), t, s)
  BY <1>1 DEF Shows
<1>3. ASSUME Keys(t, s) # {}
      PROVE  Shows(MultiSeries(t)[s], t, s)
  <2>1. /\ Drawn(t, s) \subseteq DOMAIN MultiSeries(t)[s]
        /\ \A b \in DOMAIN MultiSeries(t)[s] :
             MultiSeries(t)[s][b] = IF b \in Drawn(t, s) THEN SingleSeries(t, s)[b] ELSE Zero
    BY <1>3, LineIs
  <2>2. \A b \in Drawn(t, s) : MultiSeries(t)[s][b] = SingleSeries(t, s)[b]
    BY <2>1
  <2>. QED
    BY <1>1, <2>1, <2>2 DEF Shows
<1>. QED
  BY <1>2, <1>3

LEMMA NoSamples ==
  ASSUME NEW t, NEW o, NEW s, Keys(t, s) = {}
  PROVE  ~ (G(t, o)!Summary(s, o[s]).samples > 0)
<1>1. RowsOf(t[s]) = {} /\ G(t, o)!Keys(s, Target) = {} /\ {} \in SUBSET Cell
  BY KeysAre
<1>2. G(t, o)!Summary(s, o[s]).samples = G(t, o)!Samples(s, {})
  BY <1>1 DEF G!Summary
<1>3. G(t, o)!Samples(s, {}) = 0
  BY <1>1, InstanceSums, TotalEmpty
<1>. QED
  BY <1>2, <1>3

\* A page whose chart is drawn from the rows of its figures.
LEMMA IndexFits ==
  ASSUME NEW t \in Table, NEW o, NEW p, p = Index(t, o, t), p.page \in {"single", "multi"},
         NEW s \in DOMAIN p.stats, p.stats[s].figures.samples > 0
  PROVE  /\ Brackets(p.chart[s], "p95", p.stats[s].figures.p95)
         /\ Brackets(p.chart[s], "loss", p.stats[s].figures.loss)
<1>. DEFINE sources == Sources(t, o)
            mode == DetectMode(sources)
            first == sources[1]
<1>1. ToSet(sources) \subseteq Source
  BY SourcesAre
<1>2. \A u : /\ Stats(t, o, u).figures = G(t, o)!Summary(u, o[u])
  BY DEF Stats
<1>3. CASE mode = "single_isp" /\ sources # <<>>
  <2>1. p = [page |-> "single", stats |-> [u \in {first} |-> Stats(t, o, u)],
             chart |-> [u \in {first} |-> SingleSeries(t, u)]]
    BY <1>3 DEF Index
  <2>2. s = first /\ p.stats[s] = Stats(t, o, s) /\ p.chart[s] = SingleSeries(t, s)
    BY <2>1
  <2>3. first \in Source
    <3>. DEFINE known == {u \in Source : G(t, o)!Known(u)}
    <3>1. sources \in [1 .. Cardinality(known) -> known] /\ Cardinality(known) \in Nat
      BY SourcesListed
    <3>2. known \in SUBSET Source
      OBVIOUS
    <3>. HIDE DEF known, sources
    <3>3. 1 \in 1 .. Cardinality(known)
      BY <1>3, <3>1
    <3>. QED
      BY <3>1, <3>2, <3>3
  <2>. QED
    BY <1>2, <2>2, <2>3, Bracketed, ChartsShow
<1>4. CASE mode = "multi_isp"
  <2>. DEFINE w == IF Len(sources) < 2 THEN [source |-> 0, confidence |-> "low"]
                   ELSE G(t, o)!PickWinner(sources[1], sources[2])
  <2>1. p = [page |-> "multi", stats |-> [u \in ToSet(sources) |-> Stats(t, o, u)],
             winner |-> w, chart |-> MultiSeries(t)]
    BY <1>4 DEF Index
  <2>. HIDE DEF w, sources
  <2>2. s \in Source /\ p.stats[s] = Stats(t, o, s) /\ p.chart[s] = MultiSeries(t)[s]
    BY <1>1, <2>1
  <2>3. G(t, o)!Summary(s, o[s]).samples > 0
    BY <1>2, <2>2
  <2>4. Shows(MultiSeries(t)[s], t, s)
    BY <2>2, <2>3, NoSamples, ChartsShow
  <2>. QED
    BY <1>2, <2>2, <2>3, <2>4, Bracketed
<1>5. CASE mode = "empty" \/ (mode = "single_isp" /\ sources = <<>>)
  BY <1>5 DEF Index
<1>. QED
  BY <1>3, <1>4, <1>5, DetectedModes

\* A page over a long window tells one story, whatever is written to the database while it
\* is made: what it states of a source lies within the chart of the source.
THEOREM ChartsFit == Spec => []ChartFitsFigures
<1>1. Drawing => ChartFitsFigures
  <2>. SUFFICES ASSUME Drawing, request.step = "done", request.source = 0,
                       request.window.key \notin Short,
                       NEW p, p = Page, p.page \in {"single", "multi"},
                       NEW s \in DOMAIN p.stats, p.stats[s].figures.samples > 0
                PROVE  /\ Brackets(p.chart[s], "p95", p.stats[s].figures.p95)
                       /\ Brackets(p.chart[s], "loss", p.stats[s].figures.loss)
    BY DEF ChartFitsFigures
  <2>1. request # Idle
    BY DEF Idle
  <2>2. request.rows \in Table /\ request.chart = request.rows
    BY <2>1 DEF Drawing
  <2>3. p = Index(request.rows, request.outs, request.rows)
    BY <2>2 DEF Page
  <2>. QED
    BY <2>2, <2>3, IndexFits
<1>. QED
  BY <1>1, DrawingHolds, PTL

-----------------------------------------------------------------------------
(* The report and the comparison on the tables that a page has read.           *)

PageRows == IF request = Idle THEN NoRows ELSE request.rows
PageOuts == IF request = Idle THEN NoOutages ELSE request.outs

Pg == INSTANCE GradeProofs WITH table <- PageRows, outages <- PageOuts,
        Tie <- 0, MaxRows <- MaxWrites, MaxOutages <- [s \in Source |-> MaxWrites]

LEMMA PageAssumption == Pg!GradeAssumption
<1>1. MaxClock \in Nat /\ IsFiniteSet(Bucket)
  BY DashboardAssumption, BucketFinite
<1>2. IsFiniteSet(Durations) /\ Durations \subseteq Nat
  BY <1>1, FS_Interval DEF Durations
<1>3. Pg!IsFiniteSet(Target) /\ Pg!IsFiniteSet(Bucket) /\ Pg!IsFiniteSet(Durations)
  BY <1>1, <1>2, DashboardAssumption DEF Pg!IsFiniteSet, IsFiniteSet
<1>4. Pg!Band = {"excellent", "good", "fair", "poor"}
  BY DEF Pg!Band, Pg!Label
<1>5. 0 \notin Source
  BY DashboardAssumption
<1>. QED
  BY <1>2, <1>3, <1>4, <1>5, DashboardAssumption DEF Pg!GradeAssumption

LEMMA PageTables == Drawing => Pg!TablesOK
<1>1. NoRows \in Table
  BY DEF NoRows, Table, Cell
<1>2. NoOutages \in OutageTable
  BY DEF NoOutages, OutageTable
<1>3. Drawing => PageRows \in Table /\ PageOuts \in OutageTable
  BY <1>1, <1>2 DEF Drawing, PageRows, PageOuts
<1>. QED
  BY <1>3 DEF Pg!TablesOK, Table, Cell, OutageTable

\* The two instances are of one report.
LEMMA SameSums ==
  ASSUME NEW t, t = PageRows, NEW o, o = PageOuts
  PROVE  /\ \A s, T : G(t, o)!Keys(s, T) = Pg!Keys(s, T)
         /\ \A s, keys : G(t, o)!Samples(s, keys) = Pg!Samples(s, keys)
         /\ \A s, keys : G(t, o)!Loss(s, keys) = Pg!Loss(s, keys)
         /\ \A s, keys : G(t, o)!P95(s, keys) = Pg!P95(s, keys)
         /\ \A s, keys : G(t, o)!P99(s, keys) = Pg!P99(s, keys)
         /\ \A f : G(t, o)!SumFunction(f) = Pg!SumFunction(f)
<1>1. \A s, T : G(t, o)!Keys(s, T) = Pg!Keys(s, T)
  BY DEF G!Keys, Pg!Keys
<1>2. \A s, keys : G(t, o)!Samples(s, keys) = Pg!Samples(s, keys)
  BY DEF G!Samples, G!MapThenSumSet, G!MapThenFoldSet, Pg!Samples, Pg!MapThenSumSet,
     Pg!MapThenFoldSet
<1>3. \A s, keys : G(t, o)!Loss(s, keys) = Pg!Loss(s, keys)
  BY <1>2 DEF G!Loss, G!MapThenSumSet, G!MapThenFoldSet, Pg!Loss, Pg!MapThenSumSet,
     Pg!MapThenFoldSet
<1>4. \A s, keys : G(t, o)!P95(s, keys) = Pg!P95(s, keys)
  BY <1>2 DEF G!P95, G!MapThenSumSet, G!MapThenFoldSet, Pg!P95, Pg!MapThenSumSet,
     Pg!MapThenFoldSet
<1>5. \A s, keys : G(t, o)!P99(s, keys) = Pg!P99(s, keys)
  BY <1>2 DEF G!P99, G!MapThenSumSet, G!MapThenFoldSet, Pg!P99, Pg!MapThenSumSet,
     Pg!MapThenFoldSet
<1>6. \A f : G(t, o)!SumFunction(f) = Pg!SumFunction(f)
  BY DEF G!SumFunction, G!SumFunctionOnSet, G!FoldFunctionOnSet, G!MapThenFoldSet,
     Pg!SumFunction, Pg!SumFunctionOnSet, Pg!FoldFunctionOnSet, Pg!MapThenFoldSet
<1>. QED
  BY <1>1, <1>2, <1>3, <1>4, <1>5, <1>6

LEMMA SameFigures ==
  ASSUME NEW t, t = PageRows, NEW o, o = PageOuts
  PROVE  /\ \A e : G(t, o)!Ended(e) = Pg!Ended(e)
         /\ \A s, e : G(t, o)!Summary(s, e) = Pg!Summary(s, e)
         /\ \A s, e : G(t, o)!Grade(s, e) = Pg!Grade(s, e)
         /\ \A d, n : G(t, o)!Confidence(d, n) = Pg!Confidence(d, n)
         /\ \A S : G(t, o)!Cardinality(S) = Pg!Cardinality(S)
<1>1. \A e : G(t, o)!Ended(e) = Pg!Ended(e)
  BY DEF G!Ended, Pg!Ended
<1>2. \A e : G(t, o)!Longest(e) = Pg!Longest(e)
  BY DEF G!Longest, Pg!Longest, G!Ended, Pg!Ended, G!Max, Pg!Max
<1>3. \A S : G(t, o)!Cardinality(S) = Pg!Cardinality(S)
  BY DEF G!Cardinality, Pg!Cardinality
<1>4. \A v : G(t, o)!OrZero(v) = Pg!OrZero(v)
  BY DEF G!OrZero, Pg!OrZero
<1>5. ASSUME NEW s, NEW e
      PROVE  G(t, o)!Summary(s, e) = Pg!Summary(s, e)
  <2>1. G(t, o)!Keys(s, Target) = Pg!Keys(s, Target) /\ G(t, o)!SumFunction(e) = Pg!SumFunction(e)
    BY SameSums
  <2>. DEFINE own == Pg!Keys(s, Target)
              B == {k[2] : k \in own}
  <2>2. /\ G(t, o)!Samples(s, own) = Pg!Samples(s, own)
        /\ G(t, o)!OrZero(G(t, o)!Loss(s, own)) = Pg!OrZero(Pg!Loss(s, own))
        /\ G(t, o)!OrZero(G(t, o)!P95(s, own)) = Pg!OrZero(Pg!P95(s, own))
        /\ G(t, o)!OrZero(G(t, o)!P99(s, own)) = Pg!OrZero(Pg!P99(s, own))
    BY <1>4, SameSums
  <2>3. G(t, o)!Cardinality(B) = Pg!Cardinality(B) /\ G(t, o)!Longest(e) = Pg!Longest(e)
    BY <1>2, <1>3
  <2>4. G(t, o)!Summary(s, e)
          = [samples |-> G(t, o)!Samples(s, own), loss |-> G(t, o)!OrZero(G(t, o)!Loss(s, own)),
             p95 |-> G(t, o)!OrZero(G(t, o)!P95(s, own)),
             p99 |-> G(t, o)!OrZero(G(t, o)!P99(s, own)),
             count |-> G(t, o)!SumFunction(e), longest |-> G(t, o)!Longest(e),
             days |-> G(t, o)!Cardinality(B)]
    BY <2>1 DEF G!Summary
  <2>5. Pg!Summary(s, e)
          = [samples |-> Pg!Samples(s, own), loss |-> Pg!OrZero(Pg!Loss(s, own)),
             p95 |-> Pg!OrZero(Pg!P95(s, own)), p99 |-> Pg!OrZero(Pg!P99(s, own)),
             count |-> Pg!SumFunction(e), longest |-> Pg!Longest(e),
             days |-> Pg!Cardinality(B)]
    BY DEF Pg!Summary
  <2>. HIDE DEF own, B
  <2>. QED
    BY <2>1, <2>2, <2>3, <2>4, <2>5
<1>6. \A v, b : G(t, o)!Latency(v, b) = Pg!Latency(v, b)
  BY DEF G!Latency, Pg!Latency, G!Under, Pg!Under
<1>7. \A v, b : G(t, o)!LossLabel(v, b) = Pg!LossLabel(v, b)
  BY <1>6 DEF G!LossLabel, Pg!LossLabel
<1>8. \A c, l : G(t, o)!OutageLabel(c, l) = Pg!OutageLabel(c, l)
  BY DEF G!OutageLabel, Pg!OutageLabel
<1>9. \A l : G(t, o)!LabelRank(l) = Pg!LabelRank(l)
  BY DEF G!LabelRank, Pg!LabelRank
<1>10. \A s, e : G(t, o)!Grade(s, e) = Pg!Grade(s, e)
  BY <1>5, <1>6, <1>7, <1>8, <1>9 DEF G!Grade, Pg!Grade
<1>11. \A d, n : G(t, o)!Confidence(d, n) = Pg!Confidence(d, n)
  BY DEF G!Confidence, Pg!Confidence
<1>. QED
  BY <1>1, <1>3, <1>5, <1>10, <1>11

LEMMA SameWinner ==
  ASSUME NEW t, t = PageRows, NEW o, o = PageOuts
  PROVE  \A a, b : G(t, o)!PickWinner(a, b) = Pg!PickWinner(a, b)
<1>1. \A n : G(t, o)!Abs(n) = Pg!Abs(n)
  BY DEF G!Abs, Pg!Abs
<1>2. \A v, w : G(t, o)!Less(v, w) <=> Pg!Less(v, w)
  BY DEF G!Less, Pg!Less
<1>3. \A v, w : G(t, o)!CmpLower(v, w) = Pg!CmpLower(v, w)
  BY <1>1, <1>2 DEF G!CmpLower, Pg!CmpLower, G!Near, Pg!Near
<1>4. \A s, u : G(t, o)!TargetP95(s, u) = Pg!TargetP95(s, u)
  BY SameSums DEF G!TargetP95, Pg!TargetP95
<1>5. \A a, b : G(t, o)!Leads(a, b) = Pg!Leads(a, b)
  BY <1>2, <1>4, SameSums DEF G!Leads, Pg!Leads
<1>6. \A a, b : G(t, o)!TargetAxis(a, b) = Pg!TargetAxis(a, b)
  BY <1>5, SameFigures DEF G!TargetAxis, Pg!TargetAxis, G!Sign, Pg!Sign
<1>7. \A a, b, x, y : G(t, o)!Axes(a, b, x, y) = Pg!Axes(a, b, x, y)
  BY <1>3, <1>6 DEF G!Axes, Pg!Axes
<1>8. \A S : G(t, o)!Min(S) = Pg!Min(S)
  BY DEF G!Min, Pg!Min
<1>9. \A x, y, n : G(t, o)!ScoreConfidence(x, y, n) = Pg!ScoreConfidence(x, y, n)
  BY <1>8, SameFigures DEF G!ScoreConfidence, Pg!ScoreConfidence
<1>10. \A s : G(t, o)!Known(s) <=> Pg!Known(s)
  BY SameSums, SameFigures DEF G!Known, Pg!Known
<1>. SUFFICES ASSUME NEW a, NEW b
              PROVE  G(t, o)!PickWinner(a, b) = Pg!PickWinner(a, b)
  OBVIOUS
<1>11. CASE ~ Pg!Known(a) \/ ~ Pg!Known(b)
  <2>1. /\ G(t, o)!PickWinner(a, b) = [source |-> 0, confidence |-> "low"]
        /\ Pg!PickWinner(a, b) = [source |-> 0, confidence |-> "low"]
    BY <1>10, <1>11 DEF G!PickWinner, Pg!PickWinner
  <2>. QED
    BY <2>1
<1>12. CASE Pg!Known(a) /\ Pg!Known(b)
  <2>. DEFINE x == Pg!Summary(a, PageOuts[a])
              y == Pg!Summary(b, PageOuts[b])
              axes == Pg!Axes(a, b, x, y)
              ours == Pg!Cardinality({i \in 1 .. 5 : axes[i] = 1})
              theirs == Pg!Cardinality({i \in 1 .. 5 : axes[i] = -1})
  <2>1. /\ G(t, o)!Summary(a, o[a]) = x /\ G(t, o)!Summary(b, o[b]) = y
        /\ G(t, o)!Axes(a, b, x, y) = axes
    BY <1>7, SameFigures
  <2>2. /\ G(t, o)!Cardinality({i \in 1 .. 5 : axes[i] = 1}) = ours
        /\ G(t, o)!Cardinality({i \in 1 .. 5 : axes[i] = -1}) = theirs
    BY SameFigures
  <2>3. G(t, o)!Abs(ours - theirs) = Pg!Abs(ours - theirs)
    BY <1>1
  <2>4. G(t, o)!ScoreConfidence(x, y, Pg!Abs(ours - theirs))
          = Pg!ScoreConfidence(x, y, Pg!Abs(ours - theirs))
    BY <1>9
  <2>5. Pg!PickWinner(a, b)
          = [source |-> IF ours = theirs THEN 0 ELSE IF ours > theirs THEN a ELSE b,
             confidence |-> Pg!ScoreConfidence(x, y, Pg!Abs(ours - theirs))]
    BY <1>12 DEF Pg!PickWinner
  <2>6. G(t, o)!PickWinner(a, b)
          = [source |-> IF ours = theirs THEN 0 ELSE IF ours > theirs THEN a ELSE b,
             confidence |-> G(t, o)!ScoreConfidence(x, y, G(t, o)!Abs(ours - theirs))]
    <3>. HIDE DEF x, y, ours, theirs, axes
    <3>. QED
      BY <1>10, <1>12, <2>1, <2>2 DEF G!PickWinner, ours, theirs
  <2>. QED
    BY <2>3, <2>4, <2>5, <2>6
<1>. QED
  BY <1>11, <1>12

LEMMA SameReport ==
  ASSUME NEW t, t = PageRows, NEW o, o = PageOuts
  PROVE  /\ Pg!WinnerSymmetric => G(t, o)!WinnerSymmetric
         /\ Pg!BetterNeverLoses => G(t, o)!BetterNeverLoses
         /\ Pg!ConfidenceEarned => G(t, o)!ConfidenceEarned
         /\ Pg!OutagesNeverHelp => G(t, o)!OutagesNeverHelp
         /\ Pg!SourceBetweenTargets => G(t, o)!SourceBetweenTargets
<1>1. Pg!WinnerSymmetric => G(t, o)!WinnerSymmetric
  BY SameWinner DEF G!WinnerSymmetric, Pg!WinnerSymmetric
<1>2. Pg!BetterNeverLoses => G(t, o)!BetterNeverLoses
  <2>1. \A a, b : G(t, o)!NoWorse(a, b) <=> Pg!NoWorse(a, b)
    BY SameSums DEF G!NoWorse, Pg!NoWorse
  <2>. QED
    BY <2>1, SameWinner DEF G!BetterNeverLoses, Pg!BetterNeverLoses
<1>3. Pg!ConfidenceEarned => G(t, o)!ConfidenceEarned
  <2>1. \A s : G(t, o)!SingleConfidence(s) = Pg!SingleConfidence(s)
    BY SameFigures DEF G!SingleConfidence, Pg!SingleConfidence
  <2>2. \A c : G(t, o)!ConfidenceRank(c) = Pg!ConfidenceRank(c)
    BY DEF G!ConfidenceRank, Pg!ConfidenceRank
  <2>. QED
    BY <2>1, <2>2, SameWinner DEF G!ConfidenceEarned, Pg!ConfidenceEarned
<1>4. Pg!OutagesNeverHelp => G(t, o)!OutagesNeverHelp
  <2>1. \A l : G(t, o)!LabelRank(l) = Pg!LabelRank(l)
    BY DEF G!LabelRank, Pg!LabelRank
  <2>. QED
    BY <2>1, SameFigures DEF G!OutagesNeverHelp, Pg!OutagesNeverHelp
<1>5. Pg!SourceBetweenTargets => G(t, o)!SourceBetweenTargets
  <2>1. \A v, w : G(t, o)!Less(v, w) <=> Pg!Less(v, w)
    BY DEF G!Less, Pg!Less
  <2>2. \A s, u : G(t, o)!TargetP95(s, u) = Pg!TargetP95(s, u)
    BY SameSums DEF G!TargetP95, Pg!TargetP95
  <2>. SUFFICES ASSUME Pg!SourceBetweenTargets,
                       NEW s \in Source, NEW own, own = {u \in Target : G(t, o)!Keys(s, {u}) # {}},
                       NEW all, all = G(t, o)!P95(s, G(t, o)!Keys(s, Target)), own # {}
                PROVE  /\ \E u \in own : ~ G(t, o)!Less(all, G(t, o)!TargetP95(s, u))
                       /\ \E u \in own : ~ G(t, o)!Less(G(t, o)!TargetP95(s, u), all)
    BY DEF G!SourceBetweenTargets
  <2>3. own = {u \in Target : Pg!Keys(s, {u}) # {}}
    BY SameSums
  <2>4. all = Pg!P95(s, Pg!Keys(s, Target))
    BY SameSums
  <2>5. /\ \E u \in own : ~ Pg!Less(all, Pg!TargetP95(s, u))
        /\ \E u \in own : ~ Pg!Less(Pg!TargetP95(s, u), all)
    BY <2>3, <2>4 DEF Pg!SourceBetweenTargets
  <2>. QED
    BY <2>1, <2>2, <2>5
<1>. QED
  BY <1>1, <1>2, <1>3, <1>4, <1>5

\* Whatever a page reads, and however far the database has moved on between its reads, the
\* comparison and the reports it makes of that are sound.
THEOREM PagesReportSoundly ==
  Spec => [](request # Idle =>
               /\ G(request.rows, request.outs)!WinnerSymmetric
               /\ G(request.rows, request.outs)!BetterNeverLoses
               /\ G(request.rows, request.outs)!ConfidenceEarned
               /\ G(request.rows, request.outs)!OutagesNeverHelp
               /\ G(request.rows, request.outs)!SourceBetweenTargets)
<1>1. ASSUME Drawing, request # Idle, NEW t, t = request.rows, NEW o, o = request.outs
      PROVE  /\ G(t, o)!WinnerSymmetric
             /\ G(t, o)!BetterNeverLoses
             /\ G(t, o)!ConfidenceEarned
             /\ G(t, o)!OutagesNeverHelp
             /\ G(t, o)!SourceBetweenTargets
  <2>1. t = PageRows /\ o = PageOuts
    BY <1>1 DEF PageRows, PageOuts
  <2>2. Pg!TablesOK
    BY <1>1, PageTables
  <2>3. /\ Pg!WinnerSymmetric /\ Pg!BetterNeverLoses /\ Pg!ConfidenceEarned
        /\ Pg!OutagesNeverHelp /\ Pg!SourceBetweenTargets
    BY <2>2, PageAssumption, Pg!ReportSound
  <2>. QED
    BY <2>1, <2>3, SameReport
<1>2. Drawing =>
        (request # Idle =>
               /\ G(request.rows, request.outs)!WinnerSymmetric
               /\ G(request.rows, request.outs)!BetterNeverLoses
               /\ G(request.rows, request.outs)!ConfidenceEarned
               /\ G(request.rows, request.outs)!OutagesNeverHelp
               /\ G(request.rows, request.outs)!SourceBetweenTargets)
  BY <1>1
<1>. QED
  BY <1>2, DrawingHolds, PTL

=============================================================================
