----------------------------- MODULE WorkerLoop -----------------------------
(***************************************************************************)
(* The worker: aegis_worker.main._run_loop and _process_with_retry over   *)
(* FileTailSource and its FileCursor, folding the gateway's stream into   *)
(* findings with ProcessRuntimeEvents.execute: one database transaction   *)
(* per tenant of a batch, the cursor advanced after the last of them.     *)
(*                                                                         *)
(* An offset is a number of complete lines.  What a transaction does to a *)
(* finding is the count of times each record has been durably folded.     *)
(***************************************************************************)
EXTENDS Naturals, Sequences

CONSTANTS
    Stream,         \* the records the gateway appends, in order: [org, kind]
    BatchSize,      \* WorkerSettings.batch_size
    MaxFolds,       \* bound: the fold counter saturates here
    \* Bounds on the environment:
    MaxCrashes, MaxDbFaults, MaxDiskFaults, MaxShutdowns

\* "hit" becomes a finding; "inert" is ignored or rejected with an
\* EventRejectedError; "garbled" is not JSON; "poison" makes _apply raise
\* something else.
Kind == {"hit", "inert", "garbled", "poison"}

ASSUME StreamAssumption ==
    /\ Stream \in Seq([org : STRING, kind : Kind])
ASSUME BatchAssumption == BatchSize \in Nat \ {0}
ASSUME FoldsAssumption == MaxFolds \in Nat \ {0}
ASSUME BoundAssumption ==
    /\ MaxCrashes \in Nat /\ MaxDbFaults \in Nat
    /\ MaxDiskFaults \in Nat /\ MaxShutdowns \in Nat

VARIABLES
    written,        \* complete lines in the file
    torn,           \* the gateway is in the middle of appending one more
    cursor,         \* the cursor file: survives the process
    committed,      \* FileTailSource._committed_offset
    pending,        \* FileTailSource._pending_offset; = committed when None
    pc,             \* "poll", "fold", "backoff", "down"
    todo,           \* tenants of the batch whose transaction is still to come
    shutdown,       \* _Shutdown.requested
    folds,          \* how often each record is in the database
    crashes, dbFaults, diskFaults, shutdowns

envVars == <<crashes, dbFaults, diskFaults, shutdowns>>
vars == <<written, torn, cursor, committed, pending, pc, todo, shutdown, folds, envVars>>

Line == 1..Len(Stream)

WInit ==
    /\ written = 0 /\ torn = FALSE
    /\ cursor = 0 /\ committed = 0 /\ pending = 0
    /\ pc = "poll" /\ todo = {} /\ shutdown = FALSE
    /\ folds = [i \in Line |-> 0]
    /\ crashes = 0 /\ dbFaults = 0 /\ diskFaults = 0 /\ shutdowns = 0

(***************************************************************************)
(* The gateway's FileEventSink appends lines; a reader can see half a line *)
(***************************************************************************)
AppendBegins ==
    /\ ~torn /\ written < Len(Stream)
    /\ torn' = TRUE
    /\ UNCHANGED <<written, cursor, committed, pending, pc, todo, shutdown, folds, envVars>>

AppendEnds ==
    /\ torn
    /\ torn' = FALSE
    /\ written' = written + 1
    /\ UNCHANGED <<cursor, committed, pending, pc, todo, shutdown, folds, envVars>>

(***************************************************************************)
(* One turn of _run_loop                                                   *)
(***************************************************************************)
\* The lines of the batch in hand, and the tenants of those that are JSON.
Batch == (committed + 1)..pending
TenantsOf(lines) == {Stream[i].org : i \in {j \in lines : Stream[j].kind # "garbled"}}

PollTorn ==                 \* mutant: an incomplete last line is read as well
    /\ pc = "poll" /\ ~shutdown
    /\ LET last == IF torn THEN written + 1 ELSE written
       IN  /\ committed < last
           /\ pending' = IF committed + BatchSize < last THEN committed + BatchSize ELSE last
    /\ todo' = TenantsOf((committed + 1)..pending')
    /\ pc' = "fold"
    /\ UNCHANGED <<written, torn, cursor, committed, shutdown, folds, envVars>>

PollFull ==                 \* mutant: a batch is handed over only when it is full
    /\ pc = "poll" /\ ~shutdown
    /\ committed + BatchSize <= written
    /\ pending' = committed + BatchSize
    /\ todo' = TenantsOf((committed + 1)..pending')
    /\ pc' = "fold"
    /\ UNCHANGED <<written, torn, cursor, committed, shutdown, folds, envVars>>

\* FileTailSource.poll: complete lines only, up to batch_size of them.
Poll ==
    /\ pc = "poll" /\ ~shutdown
    /\ committed < written
    /\ pending' = IF committed + BatchSize < written THEN committed + BatchSize ELSE written
    /\ todo' = TenantsOf((committed + 1)..pending')
    /\ pc' = "fold"
    /\ UNCHANGED <<written, torn, cursor, committed, shutdown, folds, envVars>>

\* Nothing new: sleep and look again.
PollNothing ==
    /\ pc = "poll" /\ ~shutdown
    /\ committed = written
    /\ UNCHANGED vars

\* The records of one tenant, and the tenant whose turn it is: the one that
\* appears first in the batch.
RecordsOf(o) == {i \in Batch : Stream[i].kind # "garbled" /\ Stream[i].org = o}
IsNext(o) ==
    /\ o \in todo
    /\ \A p \in todo : \E i \in RecordsOf(o) : \A j \in RecordsOf(p) : i <= j

Saturated(n) == IF n < MaxFolds THEN n ELSE MaxFolds

Takes(o) == \A i \in RecordsOf(o) : Stream[i].kind # "poison"
Folded(o) == [i \in Line |-> IF i \in RecordsOf(o) /\ Stream[i].kind = "hit"
                             THEN Saturated(folds[i] + 1) ELSE folds[i]]

\* execute: the transaction of tenant o commits.
FoldTenant(o) ==
    /\ pc = "fold" /\ IsNext(o)
    /\ Takes(o)
    /\ folds' = Folded(o)
    /\ todo' = todo \ {o}
    /\ UNCHANGED <<written, torn, cursor, committed, pending, pc, shutdown, envVars>>

\* execute raises: a record is one _apply cannot take, or the database is
\* away.  The open transaction rolls back, or the database did commit it and
\* only the answer was lost; the transactions committed before it stay.
FoldRaises(o) ==
    /\ pc = "fold" /\ IsNext(o)
    /\ \/ /\ ~Takes(o)
          /\ UNCHANGED <<folds, dbFaults>>
       \/ /\ dbFaults < MaxDbFaults
          /\ dbFaults' = dbFaults + 1
          /\ \/ UNCHANGED folds
             \/ Takes(o) /\ folds' = Folded(o)
    /\ pc' = "backoff"
    /\ UNCHANGED <<written, torn, cursor, committed, pending, todo, shutdown,
                   crashes, diskFaults, shutdowns>>

RetryRest ==                \* mutant: the retry skips the tenant that failed
    /\ pc = "backoff" /\ ~shutdown
    /\ \E o \in todo : IsNext(o) /\ todo' = todo \ {o}
    /\ pc' = "fold"
    /\ UNCHANGED <<written, torn, cursor, committed, pending, shutdown, folds, envVars>>

\* _process_with_retry: the whole batch again, every tenant of it.
Retry ==
    /\ pc = "backoff" /\ ~shutdown
    /\ todo' = TenantsOf(Batch)
    /\ pc' = "fold"
    /\ UNCHANGED <<written, torn, cursor, committed, pending, shutdown, folds, envVars>>

CommitFileOnly ==           \* mutant: the source does not move on with its cursor file
    /\ pc = "fold" /\ todo = {}
    /\ cursor' = pending
    /\ pending' = committed
    /\ pc' = "poll"
    /\ UNCHANGED <<written, torn, committed, todo, shutdown, folds, envVars>>

\* Every transaction is in: FileCursor.advance, then the source moves on.
Commit ==
    /\ pc = "fold" /\ todo = {}
    /\ cursor' = pending
    /\ committed' = pending
    /\ pc' = "poll"
    /\ UNCHANGED <<written, torn, pending, todo, shutdown, folds, envVars>>

(***************************************************************************)
(* The process                                                             *)
(***************************************************************************)
\* Whatever was in memory is gone.
Gone ==
    /\ pc' = "down"
    /\ todo' = {}
    /\ pending' = committed
    /\ UNCHANGED <<written, torn, cursor, committed, shutdown, folds>>

\* advance raised: the exception leaves _run_loop and the process ends.
CommitFails ==
    /\ pc = "fold" /\ todo = {}
    /\ diskFaults < MaxDiskFaults /\ diskFaults' = diskFaults + 1
    /\ Gone
    /\ UNCHANGED <<crashes, dbFaults, shutdowns>>

\* SIGTERM or SIGINT sets the flag; the loop looks at it between batches and
\* while it waits to retry.
RequestShutdown ==
    /\ pc # "down" /\ ~shutdown /\ shutdowns < MaxShutdowns
    /\ shutdown' = TRUE
    /\ shutdowns' = shutdowns + 1
    /\ UNCHANGED <<written, torn, cursor, committed, pending, pc, todo, folds,
                   crashes, dbFaults, diskFaults>>

Stop ==
    /\ shutdown /\ pc \in {"poll", "backoff"}
    /\ Gone
    /\ UNCHANGED envVars

Crash ==
    /\ pc # "down" /\ crashes < MaxCrashes
    /\ crashes' = crashes + 1
    /\ Gone
    /\ UNCHANGED <<dbFaults, diskFaults, shutdowns>>

\* A new process reads the cursor; an unreadable one reads as zero.
Start ==
    /\ pc = "down"
    /\ \/ /\ committed' = cursor
          /\ UNCHANGED <<cursor, diskFaults>>
       \/ /\ diskFaults < MaxDiskFaults
          /\ diskFaults' = diskFaults + 1
          /\ committed' = 0 /\ cursor' = 0
    /\ pending' = committed'
    /\ shutdown' = FALSE
    /\ pc' = "poll"
    /\ UNCHANGED <<written, torn, todo, folds, crashes, dbFaults, shutdowns>>

Work ==
    \/ Poll \/ PollNothing \/ Retry \/ Commit \/ CommitFails \/ Stop \/ Start
    \/ \E o \in todo : FoldTenant(o) \/ FoldRaises(o)

WNext == AppendBegins \/ AppendEnds \/ RequestShutdown \/ Crash \/ Work

WSpec == WInit /\ [][WNext]_vars

(***************************************************************************)
(* Fairness: the event loop keeps running the worker, its supervisor       *)
(* starts it again, and the gateway finishes the line it began.            *)
(***************************************************************************)
WFairSpec == WSpec /\ WF_vars(Work) /\ WF_vars(AppendEnds)

(***************************************************************************)
(* Properties                                                              *)
(***************************************************************************)
\* Every variable keeps its type, and the worker never holds more than a
\* batch of complete lines.
TypeOK ==
    /\ written \in 0..Len(Stream) /\ torn \in BOOLEAN
    /\ cursor \in 0..Len(Stream) /\ committed \in 0..Len(Stream)
    /\ pending \in committed..(committed + BatchSize)
    /\ pending <= Len(Stream)
    /\ pc \in {"poll", "fold", "backoff", "down"}
    /\ todo \subseteq {Stream[i].org : i \in Line}
    /\ shutdown \in BOOLEAN
    /\ folds \in [Line -> 0..MaxFolds]
    /\ crashes \in Nat /\ dbFaults \in Nat /\ diskFaults \in Nat /\ shutdowns \in Nat

\* "the position only advances after the database has durably accepted it":
\* no hit below the cursor file's offset is missing from the database.
CursorNeverPassesUnfolded ==
    \A i \in Line : i <= cursor /\ Stream[i].kind = "hit" => folds[i] >= 1

\* A line the gateway is still writing is left for the next poll.
OnlyCompleteLines == pending <= written

\* Replays are bounded by what went wrong: each crash, database fault or
\* cursor fault adds at most one count to a hit, and an orderly shutdown adds
\* none, wherever in the loop it arrives.
ReplaysBounded ==
    \A i \in Line : folds[i] <= 1 + crashes + dbFaults + diskFaults

\* Every line that reaches the stream is eventually behind the cursor: the
\* worker always gets past it, whatever crashes and outages came between.
StreamIsConsumed == \A i \in Line : (written >= i) ~> (cursor >= i)
=============================================================================
