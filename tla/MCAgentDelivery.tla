--------------------------- MODULE MCAgentDelivery ---------------------------
(* The agent's delivery path, on small buffers, batches and segments.         *)
EXTENDS AgentDelivery

\* The daemon alone, with a spool: through crashes, and through refusals.
Crashing == [spool |-> TRUE, events |-> 4, outages |-> 2, refusals |-> 0, diskFaults |-> 1,
             crashes |-> 1, shutdowns |-> 0]
Refusing == [Crashing EXCEPT !.refusals = 1, !.crashes = 0]
\* The hook beside the daemon, with and without a spool.
Exiting == [spool |-> TRUE, events |-> 3, outages |-> 1, refusals |-> 0, diskFaults |-> 0,
            crashes |-> 0, shutdowns |-> 1]
ExitingUnspooled == [Exiting EXCEPT !.spool = FALSE, !.outages = 2]

AllDeployments == {Crashing, Refusing, Exiting, ExitingUnspooled}
OneExit == {[Exiting EXCEPT !.events = 2]}
=============================================================================
