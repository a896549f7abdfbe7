------------------------------ MODULE MCGrade ------------------------------
(* Two ISPs and a few rows for the runs of Grade. *)
EXTENDS Grade

\* A good bucket, a slow one with losses, and a short one without any reply.
SomeRows ==
  { [samples |-> 2, fails |-> 0, p95 |-> 20, p99 |-> 40],
    [samples |-> 2, fails |-> 1, p95 |-> 60, p99 |-> 60],
    [samples |-> 1, fails |-> 1, p95 |-> 0, p99 |-> 0] }

Percent == [b \in Band |-> CASE b = "excellent" -> 0 [] b = "good" -> 20
                             [] b = "fair" -> 40 [] b = "poor" -> 60]
Millis == [b \in Band |-> CASE b = "excellent" -> 25 [] b = "good" -> 50
                            [] b = "fair" -> 100 [] b = "poor" -> 200]

\* One source goes through the bands of outage counts.
Counts == [s \in Source |-> IF s = "a" THEN 4 ELSE 0]

=============================================================================
