------------------------------ MODULE Delivery ------------------------------
(***************************************************************************)
(* What the spool and the flusher together promise about raw samples        *)
(* (README.md: the spool is rotated and consumed; if Postgres is            *)
(* unreachable, files accumulate and are retried): a sample that has        *)
(* reached the disk is held until the database has it.  Delivery is at      *)
(* least once, not exactly once: ping_samples has no key to tell a second   *)
(* insert by.                                                               *)
(***************************************************************************)
EXTENDS Naturals

CONSTANT Sample

VARIABLES
  held,   \* samples on disk that are still to be delivered
  sent    \* [Sample -> Nat]: how often the database has stored each

TypeOK == held \subseteq Sample /\ sent \in [Sample -> Nat]

Init == held = {} /\ sent = [s \in Sample |-> 0]

Accept(S) == held' = held \cup S /\ UNCHANGED sent

\* Only what is held is delivered.
Deliver(S) ==
  /\ S \subseteq held
  /\ sent' = [s \in Sample |-> IF s \in S THEN sent[s] + 1 ELSE sent[s]]
  /\ UNCHANGED held

\* Nothing is let go before it was delivered.
Discharge(S) ==
  /\ \A s \in S : sent[s] > 0
  /\ held' = held \ S
  /\ UNCHANGED sent

Next == \E S \in SUBSET Sample : Accept(S) \/ Deliver(S) \/ Discharge(S)

Spec == Init /\ [][Next]_<<held, sent>>

=============================================================================
