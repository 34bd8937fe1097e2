---------------------------- MODULE MCWorkerLoop ----------------------------
(* Two tenants sharing one stream and, in the middle of it, one batch.     *)
EXTENDS WorkerLoop

Rec(o, k) == [org |-> o, kind |-> k]

SoundStream ==
    << Rec("A", "hit"), Rec("B", "hit"), Rec("A", "inert"), Rec("A", "garbled"),
       Rec("B", "hit") >>

\* A taint hit whose "request" is null passes the gateway's shallow checks.
PoisonedStream == << Rec("A", "hit"), Rec("B", "poison"), Rec("A", "hit") >>
=============================================================================
