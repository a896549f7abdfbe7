---------------------------- MODULE MCDashboard ----------------------------
(* Configuration files, routing tables and rows for the runs of Dashboard. *)
EXTENDS Dashboard

CONSTANTS ip1, ip2, host1

\* A file with one target, and with the settings that matter.
File(mode, interval, users, gateway, hop) ==
  [source |-> TRUE, url |-> TRUE, mode |-> mode, interval |-> interval, targets |-> users,
   gateway |-> gateway, firstHop |-> hop]

Simple == {File(m, 0, [web |-> host1], Missing, Missing) :
             m \in {"", "dual_isp", "single_isp", "multi_isp"}}

UserLists ==
  { [web |-> ip1], [web |-> host1], [local_gateway |-> ip2], [web |-> Missing],
    [web |-> ip1, dns |-> ip1], [web |-> ip2, isp_first_hop |-> ip1] }

Networks == {Missing, AutoDetect, ip2, host1}

Files == Simple
  \cup {File("", i, u, g, h) : i \in {0}, u \in UserLists, g \in Networks, h \in Networks}
  \cup {File("", -1, [web |-> ip1], Missing, Missing),
        [File("", 5, [web |-> ip1], Missing, Missing) EXCEPT !.url = FALSE],
        [File("", 5, [web |-> ip1], Missing, Missing) EXCEPT !.source = FALSE]}

\* No route, a gateway behind another route, and a default route without a gateway.
Tables ==
  { <<>>,
    <<[default |-> FALSE, gateway |-> ip2], [default |-> TRUE, gateway |-> ip1]>>,
    <<[default |-> TRUE, gateway |-> Unspecified]>> }

\* A good bucket, and a slow one with losses, which the first may become.
SomeRows ==
  { [samples |-> 2, fails |-> 0, p95 |-> 20, p99 |-> 40],
    [samples |-> 3, fails |-> 1, p95 |-> 60, p99 |-> 60] }

Percent == [b \in {"excellent", "good", "fair", "poor"} |->
              CASE b = "excellent" -> 0 [] b = "good" -> 20 [] b = "fair" -> 40 [] b = "poor" -> 60]
Millis == [b \in {"excellent", "good", "fair", "poor"} |->
             CASE b = "excellent" -> 25 [] b = "good" -> 50 [] b = "fair" -> 100 [] b = "poor" -> 200]

Lengths == [k \in {"7d"} |-> 2]

=============================================================================
