--------------------------- MODULE FindingRecords ---------------------------
(***************************************************************************)
(* The findings table under its three writers: the worker folding batches  *)
(* of hits, analysts triaging one finding or many, and the sweeper that    *)
(* returns expired acceptances.  Each use case is one READ COMMITTED       *)
(* transaction; a step is what happens between two awaits.                 *)
(*                                                                         *)
(* upsert reads the row again and assigns every mutable column; the flush  *)
(* sends the columns that differ from that second read.  A row is locked   *)
(* from the flush to the end of the transaction, and nothing compares the  *)
(* row with the one the decision was made on.  Audit entries are chained   *)
(* under an advisory lock held to the end of the transaction.              *)
(***************************************************************************)
EXTENDS FindingRules

CONSTANTS
    Worker, Sweeper, Analysts,  \* the clients of the database
    Stream,             \* the taint hits the worker folds, in order; those of a
                        \* batch folded again after a crash (WorkerLoop) again
    BatchSize,          \* records of one transaction
    Targets,            \* the findings a request names: sequences of identities
    Requests,           \* what analysts ask: sets of [status, note]
    Period,             \* how long a risk is accepted
    EvidenceInterval,
    IdOrder,            \* rank of each identity's row id
    MaxListed,          \* findings the audit entry of a bulk request lists
    MaxClock, MaxRequests, MaxAborts    \* bounds on the environment

Clients == Analysts \cup {Worker, Sweeper}

IsSequence(s) == s \in Seq({s[i] : i \in DOMAIN s})

ASSUME ClientAssumption == Worker # Sweeper /\ {Worker, Sweeper} \cap Analysts = {}

\* _severity and _confidence map whatever the agent says to one of the levels.
ASSUME StreamAssumption ==
    /\ IsSequence(Stream)
    /\ \A i \in DOMAIN Stream :
          Usable(Stream[i]) =>
              Stream[i].confidence \in DOMAIN ConfidenceOrder /\ Stream[i].severity \in Severity

\* A row's id is its primary key: no two findings have the same.
ASSUME OrderAssumption ==
    \A i, j \in DOMAIN Stream :
        LET a == Identity(Stream[i])
            b == Identity(Stream[j])
        IN Usable(Stream[i]) /\ Usable(Stream[j]) =>
               IdOrder[a] \in Nat /\ (IdOrder[a] = IdOrder[b] => a = b)

\* A request names each finding once: dict.fromkeys(finding_ids).
ASSUME TargetAssumption ==
    \A ids \in Targets :
        IsSequence(ids) /\ \A i, j \in DOMAIN ids : ids[i] = ids[j] => i = j

ASSUME SizeAssumption == BatchSize \in Nat \ {0} /\ Period \in Nat \ {0} /\ MaxListed \in Nat
ASSUME BoundAssumption == MaxClock \in Nat /\ MaxRequests \in Nat /\ MaxAborts \in Nat

VARIABLES
    rows,       \* committed findings, by identity
    thread,     \* committed status comments, in order
    samples,    \* committed evidence, [id, at] in order
    audit,      \* committed audit entries
    folded,     \* hits of committed batches (the cursor file follows: WorkerLoop)
    work,       \* per client: the request in progress
    own,        \* per client: rows it wrote and not yet committed (and locks)
    notes,      \* per client: comments it wrote
    evidence,   \* per client: samples it stored
    entry,      \* per client: audit entries it appended; it holds the lock
    clock, requests, aborts

pendings == <<own, notes, evidence, entry>>
tables   == <<rows, thread, samples, audit, folded>>
envVars  == <<clock, requests, aborts>>
vars     == <<tables, work, pendings, envVars>>

Idle == [pc |-> "idle"]

Init ==
    /\ rows = <<>> /\ thread = <<>> /\ samples = <<>> /\ audit = <<>> /\ folded = 0
    /\ work = [c \in Clients |-> Idle]
    /\ own = [c \in Clients |-> <<>>]
    /\ notes = [c \in Clients |-> <<>>]
    /\ evidence = [c \in Clients |-> <<>>]
    /\ entry = [c \in Clients |-> <<>>]
    /\ clock = 1 /\ requests = 0 /\ aborts = 0

(***************************************************************************)
(* Reading and writing a row                                               *)
(***************************************************************************)
Row(id, columns) == [i \in {id} |-> columns]

Overlay(new, old) ==
    [i \in DOMAIN new \cup DOMAIN old |-> IF i \in DOMAIN new THEN new[i] ELSE old[i]]

View(c) == Overlay(own[c], rows)

ReadRow(c, id) == IF id \in DOMAIN View(c) THEN View(c)[id] ELSE NoRow

Columns == {"status", "severity", "confidence", "risk", "occurrences", "suppressed",
            "wouldBlock", "regressed", "remediatedAt", "acceptedUntil", "noted"}

Changed(obj, seen) == {k \in Columns : obj[k] # seen[k]}

\* UPDATE ... SET the changed columns: the rest is whatever is committed now.
Merge(current, obj, seen) ==
    [k \in Columns |-> IF k \in Changed(obj, seen) THEN obj[k] ELSE current[k]]

LockedByOther(c, id) == \E d \in Clients \ {c} : id \in DOMAIN own[d]

Blocked(c) ==
    /\ work[c].pc = "flush"
    /\ work[c].seen # NoRow /\ Changed(work[c].obj, work[c].seen) # {}
    /\ LockedByOther(c, work[c].id)

Holders(c) == {d \in Clients \ {c} : work[c].id \in DOMAIN own[d]}

Deadlocked(c) ==
    \E D \in SUBSET Clients :
        c \in D /\ \A d \in D : Blocked(d) /\ Holders(d) \cap D # {}

(***************************************************************************)
(* Opening a transaction                                                   *)
(***************************************************************************)
Open(c, kind, todo, ask) ==
    work' = [work EXCEPT ![c] =
        [pc |-> "load", kind |-> kind, todo |-> todo, ask |-> ask, base |-> <<>>,
         fresh |-> TRUE]]

\* The transaction goes on with what is left to do.
AtLoad(w, todo) ==
    [pc |-> "load", kind |-> w.kind, todo |-> todo, ask |-> w.ask, base |-> w.base,
     fresh |-> w.fresh]

\* execute(): a batch of one tenant's records.
BatchEnd == AtMost(folded + BatchSize, Len(Stream))

BeginBatch ==
    /\ work[Worker] = Idle /\ folded < Len(Stream)
    /\ Open(Worker, "batch", SubSeq(Stream, folded + 1, BatchEnd), Idle)
    /\ UNCHANGED <<tables, pendings, envVars>>

\* A request on one finding, or on several in the caller's order.
BeginTriage(c) ==
    /\ work[c] = Idle /\ requests < MaxRequests
    /\ \E ids \in Targets, ask \in Requests :
        \E kind \in IF Len(ids) = 1 THEN {"single", "bulk"} ELSE {"bulk"} :
          Open(c, kind, ids, [status |-> ask.status, note |-> ask.note, now |-> clock])
    /\ requests' = requests + 1
    /\ UNCHANGED <<tables, pendings, clock, aborts>>

\* list_expired_acceptances loads every row of the sweep at once.
BeginSweep ==
    /\ work[Sweeper] = Idle
    /\ \E ids \in UNION {[1..n -> DOMAIN rows] : n \in 1..Cardinality(DOMAIN rows)} :
        /\ {ids[i] : i \in DOMAIN ids} = {i \in DOMAIN rows : AcceptanceExpired(rows[i], clock)}
        /\ \A i, j \in DOMAIN ids : ids[i] = ids[j] => i = j
        /\ Open(Sweeper, "sweep", [i \in DOMAIN ids |-> [id |-> ids[i], row |-> rows[ids[i]]]],
                Idle)
    /\ UNCHANGED <<tables, pendings, envVars>>

(***************************************************************************)
(* get or get_by_identity, and the change to the object it returned        *)
(***************************************************************************)
Loaded(c, id, old, obj) ==
    work' = [work EXCEPT ![c] =
        [pc |-> "reread", kind |-> @.kind, todo |-> @.todo, ask |-> @.ask,
         base |-> Overlay(@.base, Row(id, old)), fresh |-> @.fresh,
         id |-> id, old |-> old, obj |-> obj]]

HasTodo(c) == work[c].pc = "load" /\ work[c].todo # <<>>

\* What is not usable is counted as ignored or rejected, and the batch goes on.
RejectHit ==
    /\ HasTodo(Worker) /\ ~Usable(Head(work[Worker].todo))
    /\ work' = [work EXCEPT ![Worker] = AtLoad(@, Tail(@.todo))]
    /\ UNCHANGED <<tables, pendings, envVars>>

LoadForHit ==
    /\ HasTodo(Worker) /\ Usable(Head(work[Worker].todo))
    /\ LET h   == Head(work[Worker].todo)
           old == ReadRow(Worker, Identity(h))
       IN Loaded(Worker, Identity(h), old, Fold(old, h))
    /\ UNCHANGED <<tables, pendings, envVars>>

LoadForTriage(c) ==
    /\ HasTodo(c)
    /\ LET id  == Head(work[c].todo)
           old == ReadRow(c, id)
           ask == work[c].ask
       IN /\ old # NoRow /\ CanTransition(old, ask.status, ask.note)
          /\ Loaded(c, id, old,
                    Transition(old, ask.status, ask.note,
                               IF work[c].kind = "bulk" THEN ask.now ELSE clock, Period))
    /\ UNCHANGED <<tables, pendings, envVars>>

\* NotFoundError or InvalidStateError: alone it ends the request, in bulk it is
\* an outcome and the loop goes on.
RefuseTriage(c) ==
    /\ HasTodo(c)
    /\ LET old == ReadRow(c, Head(work[c].todo))
           ask == work[c].ask
       IN ~(old # NoRow /\ CanTransition(old, ask.status, ask.note))
    /\ work' = [work EXCEPT ![c] =
                  IF work[c].kind = "bulk" THEN AtLoad(@, Tail(@.todo)) ELSE Idle]
    /\ UNCHANGED <<tables, pendings, envVars>>

LoadForSweep ==
    /\ HasTodo(Sweeper)
    /\ LET item == Head(work[Sweeper].todo)
       IN Loaded(Sweeper, item.id, item.row, ExpireAcceptance(item.row))
    /\ UNCHANGED <<tables, pendings, envVars>>

(***************************************************************************)
(* upsert: the second read, then the flush with what follows it            *)
(***************************************************************************)
Reread(c) ==
    /\ work[c].pc = "reread"
    /\ work' = [work EXCEPT ![c] = [pc |-> "flush", kind |-> @.kind, todo |-> @.todo,
                                    ask |-> @.ask, base |-> @.base,
                                    fresh |-> @.fresh /\ ReadRow(c, @.id) = @.old,
                                    id |-> @.id, old |-> @.old, obj |-> @.obj,
                                    seen |-> ReadRow(c, @.id)]]
    /\ UNCHANGED <<tables, pendings, envVars>>

StoredRow(c, id, obj, seen) ==
    IF seen = NoRow THEN obj ELSE Merge(ReadRow(c, id), obj, seen)

Latest(c, id) ==
    LET kept == {s.at : s \in {t \in {(samples \o evidence[c])[i] :
                                      i \in DOMAIN (samples \o evidence[c])} : t.id = id}}
    IN IF kept = {} THEN Never ELSE CHOOSE t \in kept : \A u \in kept : u <= t

\* What the flush carries besides the row: a sample of the hit, or a comment.
Sample(id, at) == [id |-> id, at |-> at]
StatusComment(c, w) == [id |-> w.id, by |-> c, from |-> w.old.status, to |-> w.obj.status]

Flush(c) ==
    /\ work[c].pc = "flush" /\ ~Blocked(c)
    /\ LET w == work[c]
       IN /\ own' = IF w.seen # NoRow /\ Changed(w.obj, w.seen) = {} THEN own
                    ELSE [own EXCEPT ![c] = Overlay(Row(w.id, StoredRow(c, w.id, w.obj, w.seen)), @)]
          /\ IF c = Worker
             THEN LET at == Head(w.todo).at
                  IN /\ evidence' =
                          IF KeepEvidence(w.obj, Latest(c, w.id), at, EvidenceInterval)
                          THEN [evidence EXCEPT ![c] = Append(@, Sample(w.id, at))]
                          ELSE evidence
                     /\ notes' = notes
             ELSE /\ notes' = [notes EXCEPT ![c] = Append(@, StatusComment(c, w))]
                  /\ evidence' = evidence
          /\ work' = [work EXCEPT ![c] = AtLoad(w, Tail(w.todo))]
    /\ UNCHANGED <<tables, entry, envVars>>

(***************************************************************************)
(* The audit chain.  A hash stands for what it digests.                    *)
(***************************************************************************)
Genesis == <<"genesis">>
Hash(e) == <<e.sequence, e.body, e.previous>>

Seal(body, previous, sequence) ==
    LET bare == [sequence |-> sequence, body |-> body, previous |-> previous]
    IN [sequence |-> sequence, body |-> body, previous |-> previous, hash |-> Hash(bare)]

TailHash(log) == IF log = <<>> THEN Genesis ELSE log[Len(log)].hash

AppendLockFree(c) == \A d \in Clients \ {c} : entry[d] = <<>>

NextEntry(log, body) ==
    Seal(body, TailHash(log), IF log = <<>> THEN 1 ELSE log[Len(log)].sequence + 1)

\* What an entry tells of a request on one finding, and on many: the status they
\* got, how many they are and the first of them.  (The number of the rejected and
\* the rule are left out: no table tells them.)
SingleBody(c) ==
    LET only == notes[c][1]
    IN [kind |-> "single", by |-> c, id |-> only.id, from |-> only.from, to |-> only.to]

Listed(c) == [i \in 1..AtMost(MaxListed, Len(notes[c])) |-> notes[c][i].id]

BulkBody(c) ==
    [kind |-> "bulk", by |-> c, to |-> work[c].ask.status, applied |-> Len(notes[c]),
     ids |-> Listed(c)]

\* Mutant of EntryBody: counts the findings it lists.
EntryBodyCountingListed(c) ==
    IF work[c].kind = "bulk" THEN [BulkBody(c) EXCEPT !.applied = Len(Listed(c))]
    ELSE SingleBody(c)

EntryBody(c) == IF work[c].kind = "bulk" THEN BulkBody(c) ELSE SingleBody(c)

Done(c) == work[c].pc = "load" /\ work[c].todo = <<>>
OwesAudit(c) == c \in Analysts /\ notes[c] # <<>> /\ entry[c] = <<>>

\* Mutant of RecordAudit: an entry after each finding of a bulk request.
RecordAuditEarly(c) ==
    /\ work[c].pc = "load" /\ OwesAudit(c) /\ AppendLockFree(c)
    /\ entry' = [entry EXCEPT ![c] = <<NextEntry(audit, EntryBody(c))>>]
    /\ UNCHANGED <<tables, work, own, notes, evidence, envVars>>

RecordAudit(c) ==
    /\ Done(c) /\ OwesAudit(c) /\ AppendLockFree(c)
    /\ entry' = [entry EXCEPT ![c] = <<NextEntry(audit, EntryBody(c))>>]
    /\ UNCHANGED <<tables, work, own, notes, evidence, envVars>>

ChainIntact(log) ==
    \A i \in DOMAIN log :
        /\ log[i].previous = (IF i = 1 THEN Genesis ELSE log[i - 1].hash)
        /\ log[i].hash = Hash(log[i])

(***************************************************************************)
(* The end of a transaction                                                *)
(***************************************************************************)
Forget(c) ==
    /\ work' = [work EXCEPT ![c] = Idle]
    /\ own' = [own EXCEPT ![c] = <<>>]
    /\ notes' = [notes EXCEPT ![c] = <<>>]
    /\ evidence' = [evidence EXCEPT ![c] = <<>>]
    /\ entry' = [entry EXCEPT ![c] = <<>>]

Commit(c) ==
    /\ Done(c) /\ ~OwesAudit(c)
    /\ rows' = View(c)
    /\ thread' = thread \o notes[c]
    /\ samples' = samples \o evidence[c]
    /\ audit' = audit \o entry[c]
    /\ folded' = IF c = Worker THEN BatchEnd ELSE folded
    /\ Forget(c)
    /\ UNCHANGED envVars

\* Mutant of Abort: the rows written so far stay.
AbortKeepingRows(c) ==
    /\ work[c] # Idle /\ aborts < MaxAborts
    /\ aborts' = aborts + 1 /\ rows' = View(c)
    /\ Forget(c)
    /\ UNCHANGED <<thread, samples, audit, folded, clock, requests>>

\* The session is lost: everything is rolled back.  The worker repeats its
\* batch, an analyst gets an error.
Abort(c) ==
    /\ work[c] # Idle /\ aborts < MaxAborts
    /\ aborts' = aborts + 1
    /\ Forget(c)
    /\ UNCHANGED <<tables, clock, requests>>

\* PostgreSQL breaks a cycle of row locks by failing one of the waiters.
DeadlockVictim(c) ==
    /\ Deadlocked(c)
    /\ Forget(c)
    /\ UNCHANGED <<tables, envVars>>

Tick ==
    /\ clock < MaxClock
    /\ clock' = clock + 1
    /\ UNCHANGED <<tables, work, pendings, requests, aborts>>

Next ==
    \/ BeginBatch
    \/ BeginSweep
    \/ RejectHit
    \/ LoadForHit
    \/ LoadForSweep
    \/ \E c \in Analysts : BeginTriage(c)
    \/ \E c \in Analysts : LoadForTriage(c)
    \/ \E c \in Analysts : RefuseTriage(c)
    \/ \E c \in Clients : Reread(c)
    \/ \E c \in Clients : Flush(c)
    \/ \E c \in Clients : RecordAudit(c)
    \/ \E c \in Clients : Commit(c)
    \/ \E c \in Clients : Abort(c)
    \/ \E c \in Clients : DeadlockVictim(c)
    \/ Tick

Spec == Init /\ [][Next]_vars

(***************************************************************************)
(* Properties                                                              *)
(***************************************************************************)
LegalStep(kind, old, new) ==
    CASE kind = "batch" ->
            /\ Suppressed(old.status) =>
                   new.status = old.status /\ new.occurrences = old.occurrences
            /\ old.status = "REMEDIATED" => new.status = "OPEN" /\ new.regressed
            /\ old.status \in {"OPEN", "CONFIRMED"} => new.status = old.status
            /\ ConfidenceOrder[new.confidence] >= ConfidenceOrder[old.confidence]
            /\ new.occurrences + new.suppressed > old.occurrences + old.suppressed
      [] kind \in {"single", "bulk"} ->
            /\ new.status \in Allowed[old.status]
            /\ Suppressed(new.status) => new.noted
            /\ new.status = "ACCEPTED_RISK" <=> new.acceptedUntil # Never
            /\ new.status = "REMEDIATED" <=> new.remediatedAt # Never
            /\ new.occurrences = old.occurrences /\ new.suppressed = old.suppressed
      [] kind = "sweep" -> AcceptanceExpired(old, clock) /\ new.status = "OPEN"

Committing(c) == work[c] # Idle /\ work'[c] = Idle /\ own[c] # <<>> /\ rows' # rows

\* Lifecycle: whoever commits a finding that nobody else changed between the
\* load and the commit moves it along the lifecycle of domain/entities/
\* findings.py, whatever else of the batch was folded, refused or repeated.
FreshStepsAreLegal ==
    [][\A c \in Clients : \A id \in DOMAIN own[c] \cap DOMAIN rows :
          Committing(c) /\ work[c].fresh /\ work[c].base[id] = rows[id]
              => LegalStep(work[c].kind, rows[id], rows'[id])]_vars

\* Counting: however batches are rolled back and repeated, and whatever stale
\* row a triage writes back, a finding never counts more sightings than hits
\* of its defect were folded.  (It may count fewer: see the README.)
NoInventedOccurrence ==
    \A id \in DOMAIN rows :
        rows[id].occurrences + rows[id].suppressed
            <= Cardinality({i \in 1..folded : Usable(Stream[i]) /\ Identity(Stream[i]) = id})

\* Identity (ADR-0009, ADR-0012): there is one row per vulnerable line, however
\* it is reached, from whichever environment.
OneRowPerDefect ==
    Cardinality(DOMAIN rows)
        = Cardinality({Stream[i].site : i \in {j \in 1..folded : Usable(Stream[j])}})

\* What the analysts decided, of a thread that shows the sweeper's decisions too.
Decided(log) ==
    LET told[n \in 0..Len(log)] ==
            IF n = 0 THEN <<>>
            ELSE IF log[n].by \in Analysts THEN Append(told[n - 1], log[n]) ELSE told[n - 1]
    IN told[Len(log)]

\* An entry tells who decided and which status the findings got; of one finding
\* from which status, of many how many they are and the first MaxListed of them.
Tells(body, decisions) ==
    /\ \A i \in DOMAIN decisions : decisions[i].by = body.by /\ decisions[i].to = body.to
    /\ \/ /\ body.kind = "single" /\ Len(decisions) = 1
          /\ decisions[1].id = body.id /\ decisions[1].from = body.from
       \/ /\ body.kind = "bulk" /\ Len(decisions) = body.applied
          /\ body.ids = [i \in 1..AtMost(MaxListed, body.applied) |-> decisions[i].id]

\* One entry after the other tells of the next decisions.
Accounts(log, decided) ==
    \E end \in [0..Len(log) -> 0..Len(decided)] :
        /\ end[0] = 0 /\ end[Len(log)] = Len(decided)
        /\ \A i \in DOMAIN log :
              /\ end[i - 1] < end[i]
              /\ Tells(log[i].body, SubSeq(decided, end[i - 1] + 1, end[i]))

\* Accountability: the audit chain verifies from its first entry, without a gap,
\* and the decisions the comment threads show are, in the same order, those of
\* one entry after the other, each telling what its kind of entry holds, though
\* analysts decide concurrently and sessions are lost.  (From which status a
\* bulk request moved a finding, and which findings follow the first MaxListed,
\* is in no entry.)
AuditTellsTheThread ==
    /\ ChainIntact(audit)
    /\ \A i \in DOMAIN audit : audit[i].sequence = i
    /\ Accounts(audit, Decided(thread))

\* list_all: pages of any size list every finding once, ties included.
PagesPartitionQueue ==
    \A limit \in 1..2 :
        LET walk[n \in 0..Cardinality(DOMAIN rows)] ==
                IF n = 0 THEN [pages |-> <<>>, at |-> <<>>]
                ELSE LET page == QueuePage(rows, IdOrder, limit, walk[n - 1].at)
                     IN IF page = {} THEN walk[n - 1]
                        ELSE [pages |-> Append(walk[n - 1].pages, page),
                              at |-> NextCursor(rows, IdOrder, page)]
            pages == walk[Cardinality(DOMAIN rows)].pages
        IN /\ UNION {pages[i] : i \in DOMAIN pages} = DOMAIN rows
           /\ \A i, j \in DOMAIN pages : i # j => pages[i] \cap pages[j] = {}

\* Lock order: whoever holds the chain's advisory lock waits for no row, so a
\* cycle of row locks never holds up the audit entries of other requests.
AuditLockIsLast == \A c \in Clients : entry[c] # <<>> => ~Blocked(c) /\ work[c].todo = <<>>

=============================================================================
