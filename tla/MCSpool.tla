------------------------------ MODULE MCSpool ------------------------------
(* Fault sets for the runs of Spool. *)
EXTENDS Spool

\* Everything but two files created in the same second.
AllFaults == FaultKind \ {"burst"}

=============================================================================
