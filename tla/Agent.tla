------------------------------- MODULE Agent -------------------------------
(***************************************************************************)
(* From the probes to the outage events: the stream of Ticks feeds the      *)
(* tracker of Outage, beside main's shutdown.  An agent's samples and its    *)
(* events are two accounts of one stream, which reports put side by side.   *)
(***************************************************************************)
EXTENDS Ticks

CONSTANTS
  Gateway, MinStreak, NoEvent   \* as in Outage

VARIABLES
  streaks, open, openLast, closed, now, hist,   \* the tracker
  closing    \* main has called CloseAll

tracker == <<streaks, open, openLast, closed, now, hist>>
agent == <<vars, tracker, closing>>

\* The last window, counted from 1 as the tracker does.
LastTick == MaxTime \div Interval + 1

\* A batch may hold any number of samples of a target.
Tr == INSTANCE Outage WITH MaxTick <- LastTick, Lengths <- [t \in Target |-> Nat]

ASSUME AgentAssumption ==
  /\ IsFiniteSet(Target)
  /\ Gateway \subseteq Target \ Host
  /\ \A g, h \in Gateway : g = h
  /\ MinStreak \in Nat \ {0}
  /\ NoEvent \notin Tr!OpenEvent

-----------------------------------------------------------------------------
\* What a sample tells the tracker.
Told(s) == IF s.result = "cut" THEN "dns" ELSE s.result

\* Variant: a map by target keeps its last sample only.
LastByTarget(samples) ==
  [t \in Target |-> LET own == OfTarget(samples, t)
                    IN IF own = <<>> THEN <<>> ELSE <<Told(own[Len(own)])>>]

\* A batch, target by target.
ByTarget(samples) ==
  [t \in Target |-> LET own == OfTarget(samples, t)
                    IN [i \in 1 .. Len(own) |-> Told(own[i])]]

\* The collator calls Observe as soon as it has completed a tick.
TakeSample ==
  /\ Take
  /\ IF observed' = observed THEN UNCHANGED tracker
     ELSE LET tick == observed'[Len(observed')]
          IN Tr!ObserveTick(tick.at + 1, ByTarget(tick.samples))
  /\ UNCHANGED closing

\* main calls it when ctx is cancelled, and waits for nobody.
CloseAll ==
  /\ stop
  /\ ~ closing
  /\ closing' = TRUE
  /\ Tr!CloseAll \/ (open = NoEvent /\ UNCHANGED tracker)
  /\ UNCHANGED vars

\* What does not concern the tracker.
Elsewhere ==
  /\ \/ Pass \/ BeginTick \/ Stop \/ Leave
     \/ \E t \in Target : StartProbe(t)
     \/ \E t \in Target : \E ts \in probes[t] : EmitSample(t, ts) \/ DropSample(t, ts)
  /\ UNCHANGED <<tracker, closing>>

InitAgent == Init /\ Tr!Init /\ closing = FALSE

NextAgent == TakeSample \/ CloseAll \/ Elsewhere

SpecAgent == InitAgent /\ [][NextAgent]_agent

-----------------------------------------------------------------------------
(* Properties.                                                             *)

\* The events recorded, and the one that is open.
Events == ToSet(closed) \cup Tr!Ongoing

Failed(s) == s.result # "ok"

\* The n-th sample of seq ends MinStreak failures in a row.
InARow(seq, n) == n >= MinStreak /\ \A j \in n - MinStreak + 1 .. n : Failed(seq[j])

\* The tick that is observed in the window of a sample.
TickOf(s) == Bucket(s) + 1

\* Every event is borne out by the samples the agent took: each target it names failed
\* MinStreak times in a row, the last time no later than the event ended.
EventsBacked ==
  \A e \in Events : \A t \in e.affected :
    LET own == OfTarget(taken, t)
    IN \E n \in 1 .. Len(own) : InARow(own, n) /\ TickOf(own[n]) <= e.end

\* Of what was observed no failure goes unreported, however the samples were spread over
\* batches: if a target failed MinStreak times in a row, an event names it that was not
\* over before the window of the last of them.
FailuresReported ==
  \A t \in Target :
    LET own == OfTarget(Collected, t)
    IN \A n \in 1 .. Len(own) : InARow(own, n) =>
         \E e \in Events : t \in e.affected /\ e.end >= TickOf(own[n])

\* A sample really had no reply in one of the batches observed between x and y.
NoReplyIn(x, y) ==
  \E k \in 1 .. Len(observed) :
    /\ observed[k].at + 1 \in x .. y
    /\ \E s \in ToSet(observed[k].samples) : s.result = "ping"

\* Lookups that the shutdown cancelled look like failures, but never make a full outage of
\* themselves: in a batch of the event's own ticks a sample really had no reply.
ShutdownIsMild ==
  \A e \in Events : e.type = "full_isp_outage" => NoReplyIn(e.start, e.end)

=============================================================================
