----------------------------- MODULE MCFlusher -----------------------------
(* Fault sets for the runs of Flusher. *)
EXTENDS Flusher

\* The database and the disk misbehave and the process dies or is stopped.
Outage == {"crash", "db", "ack", "renamedone", "list", "read", "write", "sync", "close",
           "rename", "open", "remove", "spill", "stop"}

\* Failing calls only, manual flushes, spilling buffers and time enough to clean up:
\* the process neither dies nor is stopped.
Calls == {"db", "list", "read", "renamedone", "sync", "close", "rename", "remove", "usr1",
          "spill", "age"}

OnlyDb == {"db"}
OnlyStop == {"stop"}

=============================================================================
