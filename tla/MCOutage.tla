------------------------------ MODULE MCOutage ------------------------------
(* Batches for the runs of Outage. *)
EXTENDS Outage

\* Every target is in every batch once, as in a tick that the collator got whole.
Whole == [t \in Target |-> {1}]

\* A tick may lack the gateway's sample, and two ticks of an IP target may have been
\* merged.
Mixed == [t \in Target |-> IF t \in Gateway THEN {0, 1}
                           ELSE IF t \in Host THEN {1} ELSE {1, 2}]

=============================================================================
