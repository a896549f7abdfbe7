------------------------------- MODULE Outage -------------------------------
(***************************************************************************)
(* The outage tracker (internal/outage): consecutive failures per target,  *)
(* the classification of a tick, and the one outage event that may be open. *)
(*                                                                         *)
(* A tick's batch gives each target the sequence of its outcomes: usually   *)
(* one, none if its sample has not arrived yet, more if the collator merged *)
(* two ticks.  The order between targets plays no part in Observe: it        *)
(* counts samples, and the only one it looks at last is the gateway's.       *)
(***************************************************************************)
EXTENDS Integers, FiniteSets, Sequences, FiniteSetsExt, SequencesExt

CONSTANTS
  Target,     \* the probe targets
  Host,       \* those with a hostname; the others have an IP address
  Gateway,    \* the target whose samples match network.local_gateway, if any
  MinStreak,  \* outage.min_consecutive_failures
  Lengths,    \* [Target -> SUBSET Nat]: how many samples of each a batch may hold
  MaxTick,    \* bound: the last tick
  NoEvent     \* no event is open

Type == {"single_target_issue", "multi_target_issue", "full_isp_outage",
         "dns_issue", "local_gateway_issue"}

ASSUME OutageAssumption ==
  /\ IsFiniteSet(Target)
  /\ Host \subseteq Target
  /\ Gateway \subseteq Target \ Host
  /\ \A g, h \in Gateway : g = h
  /\ MinStreak \in Nat \ {0}
  /\ Lengths \in [Target -> SUBSET Nat]
  /\ MaxTick \in Nat
  /\ NoEvent \notin [start : 1 .. MaxTick, type : Type, affected : SUBSET Target]

NoType == "none"

Outcome(t) == {"ok", "ping"} \cup (IF t \in Host THEN {"dns"} ELSE {})

\* What one call of Observe may be given: something of some target.
Batches ==
  {b \in [Target -> UNION {[1 .. n -> {"ok", "ping", "dns"}] :
                             n \in UNION {Lengths[t] : t \in Target}}] :
     /\ \A t \in Target : /\ Len(b[t]) \in Lengths[t]
                          /\ \A i \in DOMAIN b[t] : b[t][i] \in Outcome(t)
     /\ \E t \in Target : b[t] # <<>>}

OpenEvent == [start : 1 .. MaxTick, type : Type, affected : SUBSET Target]
Event == [start : 1 .. MaxTick, end : 1 .. MaxTick, type : Type,
          affected : SUBSET Target]

VARIABLES
  streaks,    \* [Target -> Nat]: consecutive failures
  open,       \* the open event or NoEvent
  openLast,   \* the last tick at which it was still failing; 0 if none is open
  closed,     \* the events recorded with the sink, in order
  now,        \* the last tick observed
  hist        \* history: what Observe and CloseAll were called with

vars == <<streaks, open, openLast, closed, now, hist>>

-----------------------------------------------------------------------------
(* The verdict on a batch.                                                 *)

\* A sample of a batch: the i-th of its target.
Obs(b) == {o \in Target \X (1 .. Max({Len(b[t]) : t \in Target})) :
             o[2] \in DOMAIN b[o[1]]}

Ok(b, t, i) == {j \in 1 .. i : b[t][j] = "ok"}

\* The streak of target t after the i-th of its samples.
Streak(b, t, i) ==
  IF Ok(b, t, i) = {} THEN streaks[t] + i ELSE i - Max(Ok(b, t, i))

Failing(b) ==
  {o \in Obs(b) : b[o[1]][o[2]] # "ok" /\ Streak(b, o[1], o[2]) >= MinStreak}

Affected(fail) == {o[1] : o \in fail}

HostObs(b) == {o \in Obs(b) : o[1] \in Host}

\* The gateway's last sample decides whether it is up.
GatewayDown(b, fail) == \E g \in Gateway : b[g] # <<>> /\ <<g, Len(b[g])>> \in fail

\* Variant: failing IP targets do not keep the rule from applying.
DNSDownAnyway(b, fail) ==
  /\ HostObs(b) # {}
  /\ \A o \in HostObs(b) : b[o[1]][o[2]] = "dns"

DNSDown(b, fail) ==
  /\ HostObs(b) # {}
  /\ \A o \in HostObs(b) : b[o[1]][o[2]] = "dns"
  /\ Affected(fail) \subseteq Host

\* Every target counts as public, the gateway too.
AllDown(b, fail) == fail = Obs(b)

\* Variant: the rule for a full outage comes before that for the resolver.
ClassifyFullFirst(b, fail) ==
  CASE fail = {} -> NoType
    [] fail # {} /\ AllDown(b, fail) -> "full_isp_outage"
    [] fail # {} /\ ~ AllDown(b, fail) /\ DNSDown(b, fail) -> "dns_issue"
    [] OTHER -> IF Cardinality(fail) = 1 THEN "single_target_issue"
                ELSE "multi_target_issue"

\* The type of a tick: the first rule that applies.
Classify(b, fail) ==
  CASE fail = {} -> NoType
    [] fail # {} /\ GatewayDown(b, fail) -> "local_gateway_issue"
    [] fail # {} /\ ~ GatewayDown(b, fail) /\ DNSDown(b, fail) -> "dns_issue"
    [] fail # {} /\ ~ GatewayDown(b, fail) /\ ~ DNSDown(b, fail) /\ AllDown(b, fail)
         -> "full_isp_outage"
    [] OTHER -> IF Cardinality(fail) = 1 THEN "single_target_issue"
                ELSE "multi_target_issue"

Rank(type) ==
  CASE type = "full_isp_outage" -> 5
    [] type = "multi_target_issue" -> 4
    [] type = "dns_issue" -> 3
    [] type = "local_gateway_issue" -> 2
    [] type = "single_target_issue" -> 1
    [] OTHER -> 0

\* Variant: the latest tick decides.
MergeLatest(a, b) == b

MergeType(a, b) == IF Rank(b) > Rank(a) THEN b ELSE a

-----------------------------------------------------------------------------
(* Observe and CloseAll.                                                   *)

\* Variants: an event ends at the tick that closes it; t.open is not reset.
CloseOpenAtNow ==
  /\ closed' = IF open = NoEvent THEN closed
               ELSE Append(closed, [start |-> open.start, end |-> now',
                                    type |-> open.type, affected |-> open.affected])
  /\ open' = NoEvent
  /\ openLast' = 0
CloseOpenKeeps ==
  /\ closed' = IF open = NoEvent THEN closed
               ELSE Append(closed, [start |-> open.start, end |-> openLast,
                                    type |-> open.type, affected |-> open.affected])
  /\ UNCHANGED <<open, openLast>>

\* closeOpenLocked: the event ends when it was last failing.
CloseOpen ==
  /\ closed' = IF open = NoEvent THEN closed
               ELSE Append(closed, [start |-> open.start,
                                    end |-> IF openLast < open.start THEN open.start
                                            ELSE openLast,
                                    type |-> open.type, affected |-> open.affected])
  /\ open' = NoEvent
  /\ openLast' = 0

Recover(type) ==
  /\ type = NoType
  /\ CloseOpen

\* Variant: openLast is set when the event is extended only.
BeginOnly(type, fail, at) ==
  /\ type # NoType
  /\ open = NoEvent
  /\ open' = [start |-> at, type |-> type, affected |-> Affected(fail)]
  /\ UNCHANGED <<closed, openLast>>

Begin(type, fail, at) ==
  /\ type # NoType
  /\ open = NoEvent
  /\ open' = [start |-> at, type |-> type, affected |-> Affected(fail)]
  /\ openLast' = at
  /\ UNCHANGED closed

Extend(type, fail, at) ==
  /\ type # NoType
  /\ open # NoEvent
  /\ open' = [start |-> open.start, type |-> MergeType(open.type, type),
              affected |-> open.affected \cup Affected(fail)]
  /\ openLast' = at
  /\ UNCHANGED closed

ObserveTick(at, b) ==
  LET fail == Failing(b)
      type == Classify(b, fail)
  IN /\ streaks' = [t \in Target |-> Streak(b, t, Len(b[t]))]
     /\ now' = at
     /\ Recover(type) \/ Begin(type, fail, at) \/ Extend(type, fail, at)
     /\ hist' = Append(hist, [at |-> at, batch |-> b])

\* One tick.  The collator hands ticks over in increasing order, with gaps where
\* nothing was probed.
Observe == \E at \in now + 1 .. MaxTick, b \in Batches : ObserveTick(at, b)

\* CloseAll, on shutdown; main does not wait for the other goroutines first, so
\* ticks may follow.  It is noted in the history as a batch of nothing.
CloseAll ==
  /\ open # NoEvent
  /\ CloseOpen
  /\ hist' = Append(hist, [at |-> now, batch |-> [t \in Target |-> <<>>]])
  /\ UNCHANGED <<streaks, now>>

Init ==
  /\ streaks = [t \in Target |-> 0]
  /\ open = NoEvent
  /\ openLast = 0
  /\ closed = <<>>
  /\ now = 0
  /\ hist = <<>>

Next == Observe \/ CloseAll

Spec == Init /\ [][Next]_vars

-----------------------------------------------------------------------------
(* What the history says should have been reported.                        *)

\* All outcomes of target t in the first n batches, in order.
Past(t, n) == FlattenSeq([k \in 1 .. n |-> hist[k].batch[t]])

\* Target t had failed MinStreak times in a row when its i-th sample of batch n came.
DownAt(n, t, i) ==
  LET p == Past(t, n - 1) \o SubSeq(hist[n].batch[t], 1, i)
  IN /\ Len(p) >= MinStreak
     /\ \A j \in 0 .. MinStreak - 1 : p[Len(p) - j] # "ok"

Fails(n) == {o \in Obs(hist[n].batch) : DownAt(n, o[1], o[2])}

\* The failures of every call, in order.
Failures == [n \in 1 .. Len(hist) |-> Fails(n)]

\* The maximal runs of consecutive failing ticks.
Runs(F) ==
  {r \in {<<m, n>> : m, n \in DOMAIN F} :
     /\ r[1] <= r[2]
     /\ \A k \in r[1] .. r[2] : F[k] # {}
     /\ r[1] = 1 \/ F[r[1] - 1] = {}
     /\ r[2] = Len(hist) \/ F[r[2] + 1] = {}}

\* The event a run amounts to: its worst type and all its targets.
Summary(F, r) ==
  LET types == {Classify(hist[k].batch, F[k]) : k \in r[1] .. r[2]}
  IN [start |-> hist[r[1]].at,
      end |-> hist[r[2]].at,
      type |-> CHOOSE w \in types : \A v \in types : Rank(v) <= Rank(w),
      affected |-> UNION {Affected(F[k]) : k \in r[1] .. r[2]}]

-----------------------------------------------------------------------------
(* Properties.                                                             *)

TypeOK ==
  /\ streaks \in [Target -> Nat]
  /\ open \in OpenEvent \cup {NoEvent}
  /\ openLast \in 0 .. MaxTick
  /\ closed \in Seq(Event)
  /\ now \in 0 .. MaxTick
  /\ openLast <= now
  /\ open # NoEvent => open.start <= openLast

\* The open event, as it would be reported now.
Ongoing ==
  IF open = NoEvent THEN {}
  ELSE {[start |-> open.start, end |-> openLast, type |-> open.type,
         affected |-> open.affected]}

\* The events reported, and the open one, are exactly the maximal runs of ticks in
\* which some target had failed at least MinStreak times in a row: no shorter
\* failure opens an event, no run is split, merged or lost, and each event has
\* the start, the end, all the targets and the worst type of its run.
EventsAreRuns ==
  LET F == Failures
      Summaries(rs) == {Summary(F, r) : r \in rs}
  IN /\ ToSet(closed) = Summaries({r \in Runs(F) : r[2] < Len(hist)})
     /\ Ongoing = Summaries({r \in Runs(F) : r[2] = Len(hist)})

\* Events never overlap and are recorded in the order they happened, the open one
\* last, whatever ticks come in after CloseAll.
EventsDisjoint ==
  /\ \A i \in 1 .. Len(closed) : closed[i].start <= closed[i].end
  /\ \A i \in 1 .. Len(closed) : \A j \in i + 1 .. Len(closed) :
       closed[i].end < closed[j].start
  /\ \A i \in 1 .. Len(closed) : closed[i].end <= now
  /\ open # NoEvent => \A i \in 1 .. Len(closed) : closed[i].end < open.start

\* While an event is open its type only gets worse and it loses no target; what has
\* been recorded is never taken back.
EventsGrow ==
  [][/\ \A i \in 1 .. Len(closed) : i \in DOMAIN closed' /\ closed'[i] = closed[i]
     /\ open # NoEvent /\ open' # NoEvent =>
          /\ Rank(open'.type) >= Rank(open.type)
          /\ open.affected \subseteq open'.affected
          /\ open'.start = open.start]_vars

\* The failing ticks of event e.
Span(F, e) == {k \in DOMAIN F : hist[k].at \in e.start .. e.end /\ F[k] # {}}

Sampled(k) == {t \in Target : hist[k].batch[t] # <<>>}

\* Every hostname sampled in tick k failed its lookup.
NoLookup(k) == \A t \in Host : ToSet(hist[k].batch[t]) \subseteq {"dns"}

\* What a type says of the failing ticks of its event.  Two failing samples in one tick
\* may be of one target, of which the collator has merged two ticks: a
\* multi_target_issue then affects a single target, which is not what README.md says of
\* it ("several targets down").
TypeTrue(F, type, span) ==
  CASE type = "single_target_issue" -> \A k \in span : Cardinality(Affected(F[k])) = 1
    [] type = "local_gateway_issue" -> \E k \in span : Gateway \subseteq Affected(F[k])
    [] type = "dns_issue" -> \E k \in span : NoLookup(k) /\ Affected(F[k]) \subseteq Host
    [] type = "multi_target_issue" -> \E k \in span : \E o, p \in F[k] : o # p
    [] type = "full_isp_outage" -> \E k \in span : Affected(F[k]) = Sampled(k)

\* Every sample of tick k was one failure too many, none of them of a gateway and some of
\* an IP target.
Blackout(F, k) ==
  /\ F[k] = Obs(hist[k].batch)
  /\ Affected(F[k]) \cap Gateway = {}
  /\ ~ Affected(F[k]) \subseteq Host

\* However its ticks were merged, the type of an event is true of it: one target at a
\* time, the gateway, the resolver and nothing else, several failing samples at once, or
\* everything that was sampled down at some tick.  And an event with a tick of blackout
\* is a full outage and nothing milder.
VerdictsSound ==
  LET F == Failures
  IN \A e \in ToSet(closed) \cup Ongoing :
       /\ TypeTrue(F, e.type, Span(F, e))
       /\ (\E k \in Span(F, e) : Blackout(F, k)) => e.type = "full_isp_outage"

\* "All public targets down (LAN gateway up)" is a full_isp_outage.
FullOutageSeen ==
  LET F == Failures
  IN \A e \in ToSet(closed) \cup Ongoing :
       (\E k \in Span(F, e) : /\ Sampled(k) = Target
                              /\ Affected(F[k]) = Target \ Gateway
                              /\ ~ NoLookup(k))
       => e.type = "full_isp_outage"

=============================================================================
