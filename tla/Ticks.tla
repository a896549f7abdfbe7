------------------------------- MODULE Ticks -------------------------------
(***************************************************************************)
(* From the prober to the outage tracker: probe.Prober's ticks, the sample  *)
(* channel, buffer.Run, and main's tickCollator, which puts the samples of  *)
(* the stream together again, by the window of their timestamps, into the   *)
(* batches that Tracker.Observe is given.                                  *)
(*                                                                         *)
(* Each target is probed by a goroutine of its own, which stamps its sample *)
(* when it starts and may be slower than the interval.  The prober waits    *)
(* for all of them before the next tick.  Time runs in steps finer than the *)
(* probe interval.  The result of a probe is "ok", "ping" (no reply), "dns"  *)
(* (the lookup failed) or "cut" (the lookup was cancelled, which the sample  *)
(* does not tell from "dns").                                              *)
(***************************************************************************)
EXTENDS Integers, Sequences, SequencesExt

CONSTANTS
  Target,    \* the probe targets
  Host,      \* those with a hostname
  Results,   \* [Target -> SUBSET STRING]: the results their probes may have
  Interval,  \* probe.interval_seconds, in steps of time
  MaxTime,   \* bound: the last step of time
  Capacity,  \* of the sample channel
  Stopping,  \* may SIGTERM arrive in this run?
  Unset      \* the collator has seen no sample

ASSUME TicksAssumption ==
  /\ Host \subseteq Target
  /\ \A t \in Target :
       Results[t] \subseteq {"ok", "ping"} \cup (IF t \in Host THEN {"dns"} ELSE {})
  /\ Interval \in Nat \ {0}
  /\ MaxTime \in Nat /\ Interval - 1 <= MaxTime   \* the agent may start anywhere in a window
  /\ Capacity \in Nat \ {0}
  /\ Stopping \in BOOLEAN
  /\ Unset \notin Nat

VARIABLES
  time,      \* now
  start,     \* when the ticker was started
  fired,     \* the ticker's channel holds a tick
  todo,      \* targets of this tick whose goroutine has not started
  probes,    \* [Target -> SUBSET Nat]: the timestamps of the running probes
  chan,      \* the sample channel
  current,   \* the collator's window, or Unset
  batch,     \* the samples it has collected for it
  observed,  \* what Observe was called with, in order
  taken,     \* history: what buffer.Run has taken from the channel and handed to every
             \* sink; the spool may still refuse or lose it (see Spool)
  stop,      \* ctx is cancelled
  running    \* buffer.Run is running

vars == <<time, start, fired, todo, probes, chan, current, batch, observed, taken, stop,
          running>>
prober == <<todo, probes>>
collator == <<current, batch, observed>>

Bucket(s) == s.ts \div Interval

Resting == todo = {} /\ \A t \in Target : probes[t] = {}

-----------------------------------------------------------------------------
(* The prober.                                                             *)

\* A tick that finds the ticker's channel full is dropped.
Pass ==
  /\ time < MaxTime
  /\ time' = time + 1
  /\ fired' = (fired \/ (time' - start) % Interval = 0)
  /\ UNCHANGED <<start, prober, chan, collator, taken, stop, running>>

\* Variant: the next tick does not wait for the probes of the last one.
BeginUnwaited ==
  /\ fired
  /\ todo = {}
  /\ todo' = Target
  /\ fired' = FALSE
  /\ UNCHANGED <<time, start, probes, chan, collator, taken, stop, running>>

\* Run picks at random between a tick and a cancelled ctx.
BeginTick ==
  /\ fired
  /\ Resting
  /\ todo' = Target
  /\ fired' = FALSE
  /\ UNCHANGED <<time, start, probes, chan, collator, taken, stop, running>>

StartProbe(t) ==
  /\ t \in todo
  /\ todo' = todo \ {t}
  /\ probes' = [probes EXCEPT ![t] = @ \cup {time}]
  /\ UNCHANGED <<time, start, fired, chan, collator, taken, stop, running>>

\* A cancelled ctx cancels the lookups under way.
Outcomes(t) == Results[t] \cup (IF stop /\ t \in Host THEN {"cut"} ELSE {})

\* The probe is over and its sample goes into the channel, which blocks the
\* goroutine while it is full.
EmitSample(t, ts) ==
  /\ Len(chan) < Capacity
  /\ \E r \in Outcomes(t) :
       chan' = Append(chan, [target |-> t, ts |-> ts, result |-> r])
  /\ probes' = [probes EXCEPT ![t] = @ \ {ts}]
  /\ UNCHANGED <<time, start, fired, todo, collator, taken, stop, running>>

DropSample(t, ts) ==
  /\ stop
  /\ probes' = [probes EXCEPT ![t] = @ \ {ts}]
  /\ UNCHANGED <<time, start, fired, todo, chan, collator, taken, stop, running>>

-----------------------------------------------------------------------------
(* The collator.                                                           *)

\* Variants: any other window completes the tick; the sample that completes it is
\* collected with it.
CollateAnyChange(s) ==
  IF current # Unset /\ Bucket(s) # current
  THEN /\ observed' = Append(observed, [at |-> current, samples |-> batch])
       /\ batch' = <<s>>
       /\ current' = Bucket(s)
  ELSE /\ batch' = Append(batch, s)
       /\ current' = IF current = Unset THEN Bucket(s) ELSE current
       /\ UNCHANGED observed
CollateWithNext(s) ==
  IF current # Unset /\ Bucket(s) > current
  THEN /\ observed' = Append(observed, [at |-> current, samples |-> Append(batch, s)])
       /\ batch' = <<s>>
       /\ current' = Bucket(s)
  ELSE /\ batch' = Append(batch, s)
       /\ current' = IF current = Unset THEN Bucket(s) ELSE current
       /\ UNCHANGED observed

\* A sample of a later window completes the tick; one of an earlier window is put
\* with the current one.
Collate(s) ==
  IF current # Unset /\ Bucket(s) > current
  THEN /\ observed' = Append(observed, [at |-> current, samples |-> batch])
       /\ batch' = <<s>>
       /\ current' = Bucket(s)
  ELSE /\ batch' = Append(batch, s)
       /\ current' = IF current = Unset THEN Bucket(s) ELSE current
       /\ UNCHANGED observed

\* buffer.Run hands the sample to every sink before it takes the next.  SpoolSink only
\* logs that an Append fails, and the collator gets the sample all the same.
Take ==
  /\ running
  /\ chan # <<>>
  /\ chan' = Tail(chan)
  /\ taken' = Append(taken, Head(chan))
  /\ Collate(Head(chan))
  /\ UNCHANGED <<time, start, fired, prober, stop, running>>

Stop ==
  /\ Stopping
  /\ ~ stop
  /\ stop' = TRUE
  /\ UNCHANGED <<time, start, fired, prober, chan, collator, taken, running>>

\* buffer.Run picks at random between a sample and a cancelled ctx.
Leave ==
  /\ stop
  /\ running
  /\ running' = FALSE
  /\ UNCHANGED <<time, start, fired, prober, chan, collator, taken, stop>>

\* The agent starts at any point of a window; the first tick comes at once.
Init ==
  /\ start \in 0 .. Interval - 1
  /\ time = start
  /\ fired = TRUE
  /\ todo = {}
  /\ probes = [t \in Target |-> {}]
  /\ chan = <<>>
  /\ current = Unset
  /\ batch = <<>>
  /\ observed = <<>>
  /\ taken = <<>>
  /\ stop = FALSE
  /\ running = TRUE

Next ==
  \/ Pass
  \/ BeginTick
  \/ \E t \in Target : StartProbe(t)
  \/ \E t \in Target : \E ts \in probes[t] : EmitSample(t, ts) \/ DropSample(t, ts)
  \/ Take
  \/ Stop
  \/ Leave

Spec == Init /\ [][Next]_vars

-----------------------------------------------------------------------------
(* Properties.                                                             *)

Sample == [target : Target, ts : 0 .. MaxTime, result : {"ok", "ping", "dns", "cut"}]

Collected == FlattenSeq([k \in 1 .. Len(observed) |-> observed[k].samples])

OfTarget(seq, t) ==
  FlattenSeq([i \in 1 .. Len(seq) |-> IF seq[i].target = t THEN <<seq[i]>> ELSE <<>>])

\* Types; and a target has at most one probe under way.
TypeOK ==
  /\ time \in 0 .. MaxTime /\ start \in 0 .. Interval - 1
  /\ fired \in BOOLEAN /\ stop \in BOOLEAN /\ running \in BOOLEAN
  /\ todo \subseteq Target
  /\ probes \in [Target -> SUBSET (0 .. MaxTime)]
  /\ \A t \in Target : \A x, y \in probes[t] : x = y
  /\ \A t \in todo : probes[t] = {}
  /\ ToSet(chan \o batch \o taken) \subseteq Sample
  /\ Len(chan) <= Capacity
  /\ current = Unset <=> batch = <<>>
  /\ current # Unset => current \in 0 .. MaxTime

\* Observe is called with windows that strictly increase and batches that are not
\* empty: what Outage assumes of its caller.
TicksInOrder ==
  /\ \A k \in 1 .. Len(observed) :
       /\ observed[k].samples # <<>>
       /\ observed[k].at < current
  /\ \A k \in 2 .. Len(observed) : observed[k - 1].at < observed[k].at

\* The tracker gets every sample once, in the order of the stream, and none is
\* dropped between two ticks.
NothingSkipped == Collected \o batch = taken

\* The tracker sees the samples of one target in the order they were taken, however
\* the probes of a tick race, as its streaks require.
TargetsInOrder ==
  \A t \in Target :
    LET seen == OfTarget(Collected \o batch, t)
    IN \A i \in 2 .. Len(seen) : seen[i - 1].ts <= seen[i].ts

=============================================================================
