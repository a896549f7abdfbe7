------------------------------ MODULE MCRollup ------------------------------
(* Latencies for the runs of Rollup. *)
EXTENDS Rollup

Latencies == {1, 2, 7}

=============================================================================
