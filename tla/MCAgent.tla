------------------------------ MODULE MCAgent ------------------------------
(* Results for the runs of Agent. *)
EXTENDS Agent

\* An IP address that may not reply, and a hostname whose lookups fail only when they are
\* cancelled.
Replies == [t \in Target |-> IF t \in Host THEN {"ok"} ELSE {"ok", "ping"}]

=============================================================================
