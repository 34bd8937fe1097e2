# Aegis IAST: a TLA+ verification project

This directory models Aegis from the character an attacker types to the row an
analyst triages: the Java agent's taint engine, the queue and spool its findings
travel through, the ingest gateway, the worker, and the control plane's records
with the requests that overlap on them. TLC checks every module on small
instances; TLAPS proves the parts that are stated for all of them.

```
 application threads                                     control plane
 ───────────────────                                     ─────────────
 sources ─▶ propagators ─▶ sinks          RequestContexts, RequestFlow, Taint
                             │ finding
                             ▼
 Reporter.report ─▶ BoundedRingBuffer ─▶ ReportingThread.flushOnce
                                             │    ▲
                                        fail ▼    │ replay
                                            Spool (files)
                                             │
                                  HTTP batch ▼  status code
                              gateway IngestEvents.execute
                               quota · shedding · dedup
                                             │
                                             ▼
                              stream (file or Kafka topic)
                                             │
                                             ▼
                       worker _run_loop ─▶ ProcessRuntimeEvents.execute
                                             │  one transaction per tenant
                                             ▼
   findings, audit chain ◀─ triage, sweeper      sessions ◀─ sign-in, refresh
   members, keys, applications, agents, rules, analyses ◀─ requests of the API
```

## 1. Inventory

| Component | State | Operations | What is hard about it |
|---|---|---|---|
| Taint engine (`TaintRange`, `TaintedValue`, `TaintTracker`, hooks in `AgentRuntime`, `Advices`, `AegisAgent`) | one identity table per request, ranges per value | sources, propagators, sanitizers, sinks, blocking | offsets after every edit; collapsing many ranges; what is cleared for which rule; a repeated attack |
| Request contexts (`RequestContext`, `ThreadState`, `wrapForHandoff`) | a context per thread | enter and exit of servlets, hand-off, adopt, detach | pooled threads, nested servlets, tasks that outlive their request or run in place |
| Event queue (`BoundedRingBuffer`) | circular array, `head`, `size`, lock, two counters | `offer` (tryLock), `drain` (lock) | wrap-around; every loss counted |
| Reporting (`Reporter`, `ReportingThread`, `Transport`, `Spool`, the hook in `AgentRuntime`) | buffer, spool files, `disabled`, backoff | `report`, `flushOnce`, `replaySpool`, `append`, `enforceCeiling`, `discard` | outages, refusals, crashes between two steps, disk errors, the shutdown hook beside the daemon |
| Ingest gateway (`IngestEvents` and its ports) | token buckets, dedup cache, requests in flight, stream | admission of a batch, publish, answer | cache and bucket change before the publish; agents time out and retry; restart forgets |
| Worker (`_run_loop`, `FileTailSource`, `FileCursor`, `ProcessRuntimeEvents`) | cursor file, in-memory offset, pending batch, database | poll, fold per tenant, retry, commit, shutdown | several transactions per batch, one cursor; crashes; lost commit answers |
| Findings (`domain/entities/findings.py`, `application/findings.py`) | one row per identity, comments, evidence | fold, triage of one or many, expiry, paging | whole rows written back by three writers; row locks; ties in the queue |
| Audit chain (`SqlAuditRepository`, `AuditRecorder`) | entries with sequence and hash | append, verify | concurrent and rolled back appends |
| Sessions (`application/auth.py`, `mfa.py`, `access.py`, `user.py`) | one user row, sessions, recovery codes | sign-in, MFA, refresh, sign-out, password, enrolment | rotation races, reuse detection, lockout counts |
| Members, roles, keys (`rbac.py`, `api_keys.py`) | memberships, roles, links, keys | invite, assign, remove, edit roles, create and revoke keys | permissions resolved in an earlier transaction; the last Owner |
| Agents, applications, licence (`agents.py`, `inventory.py`, `operations.py`) | applications, environments, agents | register, heartbeat, enable, sweep, protection mode | count-then-insert; rows written back whole; the soak |
| Rules and AI analyses (`rules.py`, `ai.py`) | settings row, bundles, analyses | publish, toggle, analyse, review | overlapping writers of one row |
| Resource governor | level, breach and calm counters | `observe`, `reset`, `disable` | nothing in the program feeds it |
| Export, SIEM, reports, dashboard, Python and Node agents | | | formatting, user interface, spikes |

What makes the components correct:

* while a context watches, every flow of its request is found at the sink, and
  evidence marks only characters of that request; a finding is reported for the
  request that caused it; a blocked attack is blocked each time;
* the queue is an atomic drop-oldest FIFO and every discarded event is counted;
* an event the agent took is delivered, on disk, counted, or lost for a reason
  the code documents (a refused batch, a dead disk, a killed process);
* the gateway never sheds a security signal, never publishes an event twice
  unless its bounded cache forgot it, and never tells an agent to let go of a
  signal that is not in the stream;
* the worker's cursor never passes a hit that is not in the database, and
  replays cost a bounded number of extra counts;
* a finding's row never counts a sighting that was not folded and is moved along
  the lifecycle by whoever decides on its current state; the audit chain has an
  entry for every request that decided, and the entry is true;
* a session that was ended stays ended, and nobody grants what they do not hold;
  where the code reads, decides and writes without a lock, it is off by no more
  than the requests that overlapped.

## 2. Modules

| Module | Models | State and actions |
|---|---|---|
| `Taint` | `TaintRange`, `TaintedValue` | operators only: clip, merge, normalise, collapse, concat, substring, replace, reverse, reshape, sanitise |
| `Instrumentation` | the transformers of `AegisAgent`, the tables of `AgentRuntime` | constant tables: which method is hooked as what |
| `RequestContexts` | `RequestContext`, `ThreadState`, servlet entry and exit, `wrapForHandoff` | a stack of frames and a context per thread |
| `RequestFlow` | the hooks of `AgentRuntime`, `TaintTracker`, `SinkDetector`, `AttackSignatures` | extends the three above; `values` are the application's strings, builders and objects with the true origin of each character, `memory` the tables, `reports` and `ran` the outcome |
| `DropOldestQueue` | what `BoundedRingBuffer` promises | abstract: `Put`, `PutDroppingOldest`, `Refuse`, `TakeOldest` |
| `RingBuffer` | `BoundedRingBuffer.java` | one action per critical-section boundary and per turn of `drain`'s copy loop; `arrived`, `handed` are history |
| `AgentDelivery` | `Reporter`, `ReportingThread`, `Transport`, `Spool`, the hook | `pc` per thread through `flushOnce`: drain, send, spool, trim, replay, resend, discard; the JVM's life; `received`, `counted`, `writtenOff` are history |
| `GatewayIngest` | `IngestEvents.execute`, `quota.py`, `limits.py`, `sinks.py`, the HTTP answers, the agent's reaction | requests in slots; admission is one step because the loop over the lines has no `await`; publishing is one step per event |
| `WorkerLoop` | `main.py`, `consumer.py`, `cursor.py`, `ProcessRuntimeEvents.execute` | `pc` of the loop; `folds` counts how often each record is in the database |
| `FindingRules` | `domain/entities/findings.py`, the fold of one hit, `list_all` | operators only: identity, score, lifecycle, fold, order of the queue |
| `FindingRecords` | the transactions of worker, triage, bulk triage and sweeper; the audit chain | per client a request in progress, the rows it wrote and locks, its comments, samples and entry |
| `Sessions` | `auth.py`, `mfa.py` and the entities and repositories behind them | per client a request, statement by statement |
| `TenantStore` | unit of work, repositories, constraints of one organization's tables | `db` maps a key to a row; read set, written rows, commit, cascade |
| `Members`, `Fleet`, `Governance` | `rbac.py` and `api_keys.py`; `agents.py` and `inventory.py`; `rules.py` and `ai.py` | one action per use case over `TenantStore` |
| `Tenant` | the routers that call them | composes the three on one database, with the history its properties need |
| `RingBufferProofs`, `AgentDeliveryProofs`, `GatewayProofs`, `WorkerLoopProofs`, `RequestFlowProofs` (with `Taint` and `RequestContexts`), `FindingRecordsProofs`, `SessionsProofs`, `TenantProofs` | | theorems, section 5 |
| `MC*` | | instances for TLC |

How they fit. `RequestFlow` runs the threads of `RequestContexts`: each of its
thread actions conjoins one of theirs with what the step does to the tables.
What it puts in `reports` is what `AgentDelivery` calls `Report`. `RingBuffer`
implements `DropOldestQueue` (`ImplementsQueue`), and `AgentDelivery` uses the
queue that specification describes in place of the array. `GatewayIngest` sees
an agent as an outbox that shrinks when a batch is answered 2xx or 413, which is
what `sendLines` makes of the status code. `WorkerLoop` reads the stream the
gateway's file sink appends to and folds batches as counts; `FindingRecords`
opens that fold up. `Members`, `Fleet` and `Governance` interleave on the
database of `TenantStore`, because a role edit, a key and an agent registration
really meet there.

Abstractions worth knowing:

* `RequestFlow` takes a hook as one step and the governor at FULL. A character
  carries who sent it, what it was cleared for, and whether it belongs to a
  payload; a signature "matches" when one such character is among the first
  `MaxInspected` of the argument (4096 in `AttackSignatures.java:42`). A
  conversion moves characters: a case mapping or an encoding may make two of
  one, a decoder may be given some of the bytes, a wrapped array or stream may
  be a part of the original, and `intern` may return a string of the program. What
  the hook makes of it are the ranges it had; the value is then `blurred`, unless
  no character moved. A byte array that the application overwrites in
  place is not modelled. A `+` compiled into a platform
  class, which the agent skips on purpose, is not an action. A finding's site is
  the advice that found it, in place of the fingerprint of the stack.
* `AgentDelivery` lets every line weigh one, so `SEGMENT_BYTES` and
  `spool_max_bytes` are counts of events. A segment is `[id, lines]`, and ids
  grow with the clock (a clock that steps back is not modelled). `Files.write`
  is one step: it happens or it fails. `enforceCeiling` is one step as well, and
  its reads and its listing may fail on their own (`SpoolTrimFault`).
* `GatewayIngest` counts tokens in halves (a signal costs 0.5, telemetry 1).
  Validation is a verdict carried by the event: `malformed` is a line that is
  rejected, `broken` one on which parsing raises something else than the
  validation error (bytes that are not UTF-8, nesting too deep), which ends the
  request with 500 after the lines before it were admitted. A sink that fails
  may or may not have stored the event it was sending.
* `WorkerLoop` measures offsets in complete lines. A record is a `hit`, `inert`
  (ignored, or rejected with `EventRejectedError`), `garbled` (not JSON) or
  `poison` (`_apply` raises something else). A database fault during a commit may
  leave the transaction committed.
* The database modules run at READ COMMITTED: a step is what happens between two
  awaits; an `UPDATE` sends the attributes that differ from the row as it was
  loaded; a written row is locked until the transaction ends; whatever fails is
  rolled back. Hashes in the audit chain stand for what they digest. In
  `FindingRecords` the worker's place in the stream moves with its commit in the
  database; that the cursor file follows later, and what a crash in between does,
  is what `WorkerLoop` is about. In `Fleet` the version an agent is pinned to is no
  column: a request that pins and enables is the step that enables.
* In `Tenant` an agenda says which handlers are called in one behaviour. It is a
  bound, named as such: all handlers together are beyond TLC.

Definitions marked "mutant" are variants of the definition that follows them,
each with one plausible defect. No specification uses them; they show that the
property named in `PROJECT.json` notices the defect.

## 3. Runs

Passing runs:

| Run | Shows | Bounds and why they suffice |
|---|---|---|
| `request_flow` | no lost flow, true evidence, findings at home, attacks stopped | ten agendas: concatenating, cutting and escaping; whole-value rewrites; assembling in a builder; truncating one; sinks and responses; bodies and objects; interning; two requests on two threads with nested servlets and two tasks; the same with an entry hook that fails and workers that help; two requests that share a builder, whose ranges drift at most `offset` characters. Values have up to 4 characters and 5 values exist; 2 ranges before a collapse, 4 tracked values, 1 report per request, 1 character inspected, 2 operands of a rewritten `+`: each limit is reached |
| `ring_buffer` | visible loss, refinement of the queue | 3 slots, 7 offers, batches of 2: the array fills, overflows and wraps twice, with a partial and a complete drain; 2 producers and 2 drainers meet at the lock |
| `agent_delivery` | nothing vanishes; spool ordered, bounded and emptied only when settled; one owner per event; the exit completes; everything settled in the end | four deployments: one that crashes, one whose endpoint refuses, one that exits with the hook beside the daemon, one that exits without a spool. Batches of 2, segments and ceiling of 3: two segments exist, one is evicted, replay is cut short; a disk fault meets a write, a read, a delete or a trim |
| `gateway_admission` | signals never shed, duplicates only after eviction or restart | a bucket of 2 halves, a cache of 2 ids and 4 lines (two signals, telemetry, one that breaks the parser) in up to 2 overlapping requests, with 2 faults of any kind: shedding, 429, 413, 500, 503, 401, eviction, the line limit, a timeout and a restart all occur |
| `gateway_delivery` | an acknowledged signal is in the stream or on its way, and arrives; every outbox drains | 2 agents of one tenant, 4 events with a malformed one, a bucket that an agent's batch can empty, a timeout or a 401; the sink answers |
| `worker_loop` | cursor safe, complete lines only, replays bounded, stream consumed | 5 records of 2 tenants and of three kinds, batches of 3 (so a second, shorter batch exists), a crash, 2 database faults, a disk fault, a shutdown |
| `finding_records` | counting, identity, lifecycle, audit chain, paging, lock order | two vulnerable lines, one reached from two environments and by two paths, a hit of an unknown agent; two analysts who accept or remediate one or both findings; an acceptance that expires; one aborted transaction; row deadlocks occur; the entry of a bulk request lists one finding of two |
| `sessions` | ended families, rotation, cap, lockout, recovery codes | one account, with and without a second factor; two overlapping requests of ten kinds out of three; a cap of one session, a lock after two failures, one recovery code, a password hash that the first sign-in upgrades; time passes every lifetime |
| `tenant` | owners, quotas, decisions, soak, grants | two of three requests overlap, in ten agendas; a licence for three members, two applications and two agents; two Owners, one of them invited; an application whose production was monitored and switched off |

`CHECK_DEADLOCK FALSE` stands in the gateway runs and in those of the database
and of `RequestFlow`: their workload is a fixed number of requests, and when it
is done nothing is left to do. The counters that bound the environment
(`MaxOutages`, `MaxCrashes`, `MaxFaults`, `MaxRequests`, `MaxClock`, the fields
of an agenda or deployment) are named and appear only in guards. Both gateway
runs are of the lenient default; strict mode is discussed below.

Runs that refute what a comment or document says, one finding each:

| Run | The code | The claim |
|---|---|---|
| `agent_exit_loss` | the hook does not wait for a batch in the daemon's hands | `AgentRuntime.java:102` "so the last request's findings are not lost at shutdown" |
| `gateway_sink_loss` | ids are remembered before the publish fails; the retry is a "duplicate" | `domain/errors.py:74` "so the agent keeps the events in its spool rather than treating them as delivered" |
| `worker_poison` | an unexpected exception repeats the batch for ever | `application/findings.py:155` "a malformed event retried forever would block the stream behind it" |

### Where the passing properties stop

Each of these is a condition under which a property is claimed.

Agent and gateway:

* `NothingVanishes`, `LossPerOutage` and `SpooledUntilSettled` distinguish
  deployments by `Kept`: a spool, and no orderly exit so far. Without a spool,
  the default, a failed batch is dropped uncounted, while `Transport.java:138`
  says "The batch stays queued and the agent tries again." With the hook beside
  the daemon one thread reads a segment, the other appends to it, and the first
  deletes it, although `Spool.java:31` says "Only the reporting thread ever
  touches it."
* `EventuallySettled` excepts segments of a disabled spool: one failed append
  stops replay as well for the rest of the process. An exception out of
  `enforceCeiling` is caught by the same handler (`Spool.java:80-84`), so a
  spool may be disabled although the batch is on the disk.
* In `NothingVanishes` a segment that is evicted while it cannot be read is written
  off: `read` answers an empty list and nothing is counted (`Spool.java:191`).
* `AckedIsDurableOrInFlight` needs more than a working sink. If a batch is
  refused after an earlier signal of it was remembered, with 429 for want of
  quota or with 500 for a broken line (`application/ingest.py:103-110` catches the
  validation error only), the retry drops that signal as a duplicate
  (`application/ingest.py:128` "security signal is
  never silently discarded"): hence at most one signal per agent, and no broken
  line, in `PacedOutbox`. If a batch exceeds `max_batch_events`, the unread lines are
  acknowledged with it. If two agents use one id, the second event is lost: the cache
  is keyed by `event_id` alone, and `docs/08-agent-conformance.md:72` asks only that ids
  be "unique per agent". The property is therefore about `OwnSignals`, whose id
  no other event bears.
* `OutboxDrains` holds in the lenient default and without broken lines. In strict
  mode a malformed line answers 422, which the agent retries for ever, while
  `interfaces/http/errors.py:4` says '4xx means "this batch is bad, drop it"'. A broken
  line answers 500 in either mode, and the batch or the spool segment it is in
  comes back for ever.

Taint engine. `FlowsAreCaught` and `ExploitIsStopped` hold for a value whose
every step one open context saw. They excuse:

* `blurred` values, whose making moved characters without telling the agent, so
  that a parameter can be missed or another character marked in its place:
  `trim` and `strip`, and case mappings that change the length, are hooked as if
  they kept offsets (`AegisAgent.java:184-195`); `new String(bytes, off, len)` and
  `ByteArrayInputStream(bytes, off, len)` get the ranges of the whole array
  (`AegisAgent.java:594-599, 825-830`), as does what is left of a stream read in
  part; bytes and characters are counted alike whatever the charset; encoders
  that lengthen; `Base64.decode`; bodies, marked with length 1; `setLength`,
  `delete` and `insert` of a builder, which no advice is installed on; a `+` of more
  than 128 operands, which is not rewritten (`AgentRuntime.java:590`); URL
  decoding of a value that was URL-encoded, which stays cleared;
* strings `intern` returned: it may be the program's own constant that the hook
  then marks, for as long as the request runs (`AegisAgent.java:195`);
* a builder that holds a request's characters and is edited under another context,
  or none: its ranges stay where they were, precise and stale (`Unwatched`);
* values made while no context watched: after a task that the submitter ran in
  place (`CallerRunsPolicy`) `detach` leaves the rest of the request unwatched,
  and a nested servlet then opens a second context for it;
* `raced` tables: `adopt` lets two threads write to one unsynchronised table;
* `overflowed` tables and contexts that have ended.

`ExploitIsStopped` is about attacks within the characters that are inspected. One
that stands behind the first 4096 of its argument is CONFIRMED, not EXPLOITED, and
the operation runs (`AttackSignatures.java:42-43`).

`ContextIsHome` says that a finding is not attributed to another request, with two
exceptions, which `strayed` collects. An `Error` out of `describe()` is caught after
`begin()`, and the servlet frame is told that it does not own the context
(`AgentRuntime.java:233-247`): the pooled thread keeps it for the requests that
follow. A worker of a `ForkJoinPool` that helps while it waits may run a task that
carries no context, under the one of the task it is in the middle of.

The other direction is not excused but worth knowing: a signature matches the
inspected part of the argument whoever wrote it, constants included, so a harmless
tainted value in a query that looks like an attack is EXPLOITED and blocked.
`ObjectInputStream.readObject` is hooked as a sink, but no advice
ever marks the stream it looks at.

Database. Where the code reads, decides and writes a row without a lock, a
property is claimed up to the requests that overlapped, which history variables
count (`races` in `Sessions`; `deposed`, `overrun`, `stale` and `blurred` in
`Tenant`; `fresh` in `FindingRecords`):

* a triage, a fold or a sweep writes back columns of a row it read earlier; a
  stale fold may reopen a suppressed finding and a stale triage may lower its
  counts. `FreshStepsAreLegal` is about decisions on a current row, and
  `NoInventedOccurrence` bounds counts from above only;
* `AuditTellsTheThread` claims of each entry what it can tell. The entry of a bulk
  triage has the new status, how many findings got it and the ids of the first 50
  (`findings.py:813-818`; a request may name 200): from which status, and which
  the others were, only the comments of the findings tell;
* two refreshes of one token leave two heads of a family; overlapping sign-ins
  hide failures from the lockout, may write back a password or an enrolment that
  changed meanwhile, and use a recovery code twice (`user.py:62`). A sign-in that
  upgrades the hash (`auth.py:350-352`) sends the old password's hash after a
  change of the password that was committed beside it;
* `FailuresAreCounted` counts every failure since the last success, as the code
  does. `policies.py:143-144` says of `decay_seconds`, which is 900, "Failures
  older than this no longer count toward the threshold.", but nothing reads it:
  five mistakes spread over a year lock an account like five in a row;
* `FamilyIsIntact` claims that a session is rotated just when it has a successor
  only while no requests overlapped. Of two refreshes of one token in the same
  instant the second finds the time of rotation already there and sends only its
  successor; if a sign-in that read the session earlier wrote it back in between
  (`_enforce_session_cap`), clearing both columns, the session is left with a
  successor and no time of rotation. A proof attempt found this, and three clients
  are needed for it; the
  rest of the property (family, expiry, successors) holds without exception;
* `count_owners` counts an invited Owner, so an organization may keep only an
  Owner who never accepted; two overlapping demotions can leave none;
* licence checks count and then insert; heartbeat, sweep and version pin write
  an agent's whole row back, and re-registration enables a disabled agent;
* the soak survives `OFF`: MONITOR, then OFF, then BLOCK passes once enough time
  has gone by since monitoring began, however short it was
  (`inventory.py:147`). `SoakBeforeBlock` claims the time, not the monitoring.

## 4. Fairness

* `AgentDelivery`: weak fairness of each thread's next step (the daemon loops
  for ever and catches every `Throwable`; the hook is a started thread), of the
  JVM halting once its hooks returned, and of the deployment starting again.
  That the endpoint recovers is not assumed: outages are bounded in number.
* `GatewayIngest`: weak fairness of serving each request (the event loop), of
  each agent posting while it holds events (the daemon), and of each bucket
  refilling (time).
* `WorkerLoop`: weak fairness of the worker's own steps, restart included (its
  supervisor), and of the gateway finishing a line it began.

No strong fairness is used. The database modules and `RequestFlow` state no
fairness and no liveness: a request or an application may stop anywhere.

## 5. Proofs

`RingBufferProofs` proves, for every capacity, batch size, number of offers and
set of threads, that `RBSpec` implies `[]TypeOK`, `[]LossIsVisible` and
`[]AcceptedCoversStored`. None of the three is inductive. `IInv` adds: a
producer is never at a drainer's label and vice versa (`PCByRole`); whoever is
inside a critical section holds the lock (`MutualExclusion`), which is why the
size a drainer fixed `count` from is still there when it subtracts it
(`CountFits`); and a producer about to store has an event (`StoringHasItem`).

`BufferImplementsQueue` is the refinement, `RBSpec => ImplementsQueue`: the array
read from `head` around its end is the queue of `DropOldestQueue`, a store is
`Put` or `PutDroppingOldest`, a turn of the copy loop is a stutter until the
drain that holds the lock hands its events out, and a contended offer is a
refusal. What makes it true of the circular array is arithmetic: two positions
that differ by less than the capacity never share a slot (`WrapTwice`).

`AgentDeliveryProofs` proves the five invariants and the action property that
`agent_delivery` checks, for every capacity, batch, segment and spool size and
every deployment: `NothingIsLostSilently`, `SpoolReplaysInOrder`,
`DiskIsBounded`, `EventHasOneOwner`, `LossIsAccounted` and
`DiskKeepsUntilSettled`. They share one inductive invariant (`Invariance`), each
part of which leans on the ones before it:

* `ControlOK` and `SizesOK`: what a thread has in hand at each label, and how much;
* `HeldOK`: queue and batches are sorted lists of events already reported, and no
  event is in two of them, which is what lets an event be followed by its number;
* `IdsOK` and `OrderOK`: segment names grow with their place; read in that order,
  and as long as no exit has put the hook beside the daemon, the segments hold
  ever later events, all of them before what is queued or in a batch;
* `ReplayOK`: a segment that is being replayed is in hand in full, and one that is
  about to be deleted holds settled events only.
  That the file may be gone by then, or have grown, is the case the hook brings
  about, and the reason why `DiskKeepsUntilSettled` is about `Kept` deployments;
* `BoundOK` and `LossOK`: what is over the ceiling is at most one batch for each
  append under way or cut short, and each loss has its own counted cause. A spool
  that disabled itself trims no more, but writes no more either: only the other
  thread, at an exit, can have an append under way then (`Slack`).

`GatewayProofs` first proves what the admission loop does to one batch. The loop
is a recursive function over the lines, so its result is described by an
invariant of the loop (`LoopOK`: what was remembered is what was in the cache or
is about to be published, nothing twice, and nothing shed is a signal), which
each line keeps. From it:

* `PressureSparesSignals`, `Spec => []SignalNeverShed`;
* `ReplaysAreAbsorbed`, `Spec => []DuplicateOnlyIfForgotten`. That an event is in
  the stream once is not inductive: while its first request still publishes, a
  retry must find it in the cache. `OnceOK` says of the stream and the requests
  together that an id is in one place, remembered or lost by the cache;
* `AnswersAreKept`: in lenient mode, where neither the sink nor the process fails
  (`Calm`), no batch is refused after a signal of it was remembered, for want of
  quota or for a broken line (`RefusalsSpareSignals`), and no batch is longer than
  the gateway reads (`EveryLineIsRead`), a signal answered 200 whose id no
  other event bears is in the stream or in a request still publishing it. The
  theorem takes the two last as conditions on the behaviour and assumes nothing of
  the length of batches or of ids. None is guaranteed by the code: `gateway_sink_loss`
  violates the property without the first, the batches of section 3 without the
  others;
* `PacedAnswersAreKept` proves `RefusalsSpareSignals` where an agent has one signal to
  deliver, whatever telemetry goes with it, and no line is broken. What remains as a
  condition is `EveryLineIsRead`. This is `gateway_delivery` for any number of
  agents and sizes.

`WorkerLoopProofs` proves, for every stream, batch size and bound:

* `TypeCorrect`, `LinesAreComplete` and `CursorIsSafe`. `IInv` adds that the two
  copies of the offset agree, that outside a batch nothing is pending, that an
  append in progress fits the stream, and, the heart of it, `BatchCovered`:
  while a batch is being folded each of its hits is in the database or its
  tenant is still to come. A commit of the cursor happens when no tenant is
  left, so every hit it passes is in the database; a retry re-establishes the
  invariant by taking every tenant of the batch again.
* `ReplaysAreBounded`, for streams without a poison record. `CountsByFault`
  strengthens the bound: a record beyond the cursor whose transaction is not
  part of the present attempt has been counted at most once per failure so far.

`RequestFlowProofs` is about three modules. Of `RequestContexts` it proves
`ContextStaysHome`, `LifeSpec => []ContextIsHome`, for every set of threads and any number of requests and tasks. The property
alone is not inductive, because a step may uncover what lies below: `IInv` adds
the types, that a thread which has a context has a frame on its stack that
will take it away (`Held`), and that the tasks waiting in executors carry the context of
their own request or none (`TasksAtHome`), each but for the contexts in `strayed`. The argument is one lemma per kind of
step: entering begins a context for the very request the thread works for, a
task restores request and context together, and popping the last frame leaves
neither.

Of `RequestFlow` it proves that it implements `RequestContexts` (`FlowRunsContexts`, `Spec => LifeSpec`: every hook is a stutter of the
threads), from which `FindingsStayHome`, `Spec => []ContextIsHome`, follows for
all bounds and agendas. Then it proves the three properties of the data, without a
hypothesis on the behaviour:

* `NoFlowIsLost`, `Spec => []FlowsAreCaught`, and `EvidenceIsTrue`, `Spec =>
  []OnlyRealFlows`, share the invariant `DataInv`. For each value, what its context
  has in its table warns of every character that threatens (`Caught`), unless the
  context is `Blind` to it; and what any table says precisely of a value that is not
  blurred is true of its characters (`Backed`), and was said by the context that saw
  the value made. The last part is what makes it inductive: a table that knows the
  operands knows the result. Below are lemmas on lists of ranges that say which
  positions a list marks, and with what (`Says`, `Warns`): sorting changes neither,
  merging keeps what is said, a collapse may say more and is imprecise, and so for
  each operation of `TaintedValue`. Above is one lemma for each hook;
* `AttacksAreStopped`, `Spec => []ExploitIsStopped`. A sink that a context watches finds
  the flow (`NoFlowIsLost`), finds the signature within `MaxInspected`, and throws
  whether or not the defect was reported before. `RanOK` adds that what was let
  through is a string, which cannot change afterwards.

Of `Taint` it also proves the arithmetic of ranges for all numbers: `ClipIsExact`
(a clipped range marks exactly the characters of the original inside the window,
rebased), `MergeIsExact` (mergeable ranges become one that marks exactly what
either marked) and `ReplaceKeepsTheRest` (outside the replaced window exactly
what was marked stays marked, moved by the change of length; nothing of the old
value is marked inside).

`SessionsProofs` proves, for any number of requests at once and any lifetimes,
cap, lock and grace, `FamilyStaysIntact` (`Spec => []FamilyIsIntact`) and
`EndedIsEnded` (`Spec => []EndedStaysEnded`). Both speak of committed rows only;
what makes them inductive is what the requests in progress hold. A request is
described by the rows it wrote, the statements it has still to send and the rows
a bulk UPDATE of it has picked, and `IInv` says of each client beside the table
(`Fine`), and of all of them together (`Apart`):

* every row it wrote or will write has the family and the expiry of the row it
  replaces (`Kin`), or roots a new one (`Rooted`), and its successor is there or
  is the insertion still to come (`Linked`), so that a merge of columns read at
  different moments stays in the family whatever is chosen of each;
* ids handed out and not committed are no one else's, and its insertion, bulk
  statement or cap is its last statement;
* as long as nothing overlapped, what it has read is what there is
  (`PairedFor`);
* a request that will end families has still to pick its rows, has picked all
  that match, or has revoked all of them (`EndingOK`), and no request in progress
  holds a row of an ended family (`Spares`): that is why a rotation that read the
  family before cannot bring it back.

`EnforceCap` picks the oldest sessions by rank with `CHOOSE`; `EveryRankIsTaken`
shows by counting that each rank has an element, so that what it revokes are
active sessions. TLC checked `IInv` with two and with three clients beforehand.

On top of `IInv` it proves the four properties that count overlaps. `races` counts
the pairs of a commit and a request in progress, and `beside` is a request's share
of them until it commits; each invariant says what a request will leave, in terms
of the rows it has read and written and of its `beside`:

* `FailuresAlwaysCount` (`[]FailuresAreCounted`): every version of the user's row
  that is committed, written or about to be written misses at most as many failures
  as commits overlapped (`RowCounts`), and a row read a second time beside nothing
  is the committed one. It assumes `Doubling`, that powers of two are positive
  integers: the prover has no facts about `^`;
* `CodesAlwaysWorkOnce` (`[]CodesWorkOnce`): a sign-in with a recovery code holds the
  row of the unused code, or the code was taken beside it (`Takes`); a code of a new
  enrolment is fresh, and no two requests offer the same (`Offers`);
* `OneBranchAlways` (`[]OneBranchPerRace`): a refresh is at one of three places
  (`Starting`, `Halfway`, `Written`), and what it read of its token is out of date
  only if something was committed beside it: one commit lets a second tab add a
  branch, and it takes two to bring the consumed token back, by a write whose read
  lies between them. Any other request leaves no more usable rows than its
  `beside` (`Sparing`): the stale write of `_enforce_session_cap` is the only one
  that leaves any;
* `CapAlwaysHolds` (`[]CapHolds`): a sign-in that has counted (`Capped`) holds the
  user's row, so no other sign-in can be between its count and its commit, and the
  sessions that may be usable when it commits (`Usable`: those it does not touch,
  the one it inserts, and the one a stale write may leave) are within the cap and
  the overlaps. Each commit beside it adds one such session at most for itself and
  for those committed beside it; `NoDoubtAdded` shows that a rotation beside which
  nothing was committed does not add two.

`TenantProofs` proves the five properties of the run `tenant` for any rows to begin
with, any licence, any agenda and any number of requests at once. One inductive
invariant (`AlwaysIInv`) carries the four state properties, and `GrantsAreCovered`
follows from it at each commit:

* `TablesOK`: rows are well formed, references hold, the Owner role is a system
  role; `StandingOK`, `SoakOK`, `QuotaOK` and the Owner say of the tables and the
  histories together what the properties say;
* `DecisionOK`: what a request in progress has decided is as good on the rows there
  are now as on those it read, except about rows in its `stale` set. There was room
  for what it creates; a mode follows its row's soak; it does not set an agent, a
  rule or an analysis back; when it takes the Owner role from someone, another
  Owner stays; what it hands out its caller held. Each commit of another request
  keeps that (`DecisionKeeps`), because the rows it changes are added to `stale`;
* `Wrote`: what was written and not committed is applicable, because the rows are
  locked: whoever commits in between touches none of the same rows, deletes nothing
  that was referred to and refers to nothing that was deleted (`Apart`).

A commit then turns a good decision into good tables (`CommitTables`, `CommitQuota`,
`CommitStanding`, `CommitSoak`, `CommitOwners`), or one of the histories notes the
overlap. TLC checked the invariant on the run's 362,662 states.

`FindingRecordsProofs` proves, for every stream, batch size, number of analysts,
requests and lost sessions:

* `AlwaysTyped`: rows, requests and pending writes, of which no two clients hold the
  same, have their types; what the worker has still to do is the rest of a batch
  of the stream (`Place` says how far it has come);
* `AlwaysChained`: the audit chain is intact and numbered from one without a gap, and
  an entry not yet committed is its next; and `LockIsAlwaysLast`, `[]AuditLockIsLast`;
* `OneRowAlways`: the rows the worker sees are exactly the identities of the usable
  hits before its place (`AlwaysKnown`), so their number is that of the vulnerable
  lines wherever identity tells lines apart. That is the hypothesis `Telling`, a
  statement about the hits alone and the one thing about them the proof takes from
  the agent: two hits have one identity just when they are of one line. It holds for
  the hits of the run (two paths and two environments reach one line), and its
  failure is the mutant of the property;
* `CountsAreNeverInvented`: a bound on the sum of the two counts is not inductive,
  since a stale triage may write a low count back and a merge may join the columns
  of two rows. `Counted` bounds the columns one by one: for each finding the hits
  before the cursor split into some that can have been counted as occurrences and
  some that can have been counted as suppressed, and neither column of a row in
  anybody's hands exceeds its part. A batch that is rolled back gives its part
  back;
* `FreshStepsAreAlwaysLegal`: `Based` says of each request that what it has written
  follows legally on the row it was decided on, wherever that row is still the
  committed one. Nobody else can write it between flush and commit, since it is
  locked, and the worker, which may fold two hits into one row, decides the second
  time on its own row. The lemmas about the rules (`FoldedAgain`, `TransitionEffect`,
  `MergeFresh`) say what a fold, two folds and a triage do to any row.

* `AuditAlwaysTells`, `[]AuditTellsTheThread`: entry after entry, the chain tells what
  the threads show of the analysts' decisions: of one finding the change, of a bulk
  request the status given, to how many, and to which first `MaxListed` of them. Each
  decision belongs to one entry, in order. `Told` says it of the committed
  tables and of a request in progress as well: the entry it will append and the notes it
  will leave are of one decision, of its own analyst, and a commit adds both or none. The
  sweeper, whose decisions have no entry, adds to the thread alone, and `Decided` passes
  over what it adds;
* `PagesAlwaysPartition`, `[]PagesPartitionQueue`: for any number of rows and any ties.
  `Queue` is the order of the query (by score, then by id); a cursor that is a row of
  the queue leaves exactly the rows behind it (`CursorOf`, `PageFacts`), so that along the
  walk what was shown and what is left stay complements (`Walked`), each page takes
  something from what is left, and after as many pages as there are rows nothing is.

Both are about recursive functions: a flattening, a filter, a walk. The library's
theorems of induction take an operator as a parameter and cannot be used here, so a
section of the module proves what is needed from sets: a set of numbers that is not
empty has a smallest (`SmallestNumber`), therefore a function over `0..n` that computes a
sequence of steps exists (`Recursion`) and is the only one (`OneComputation`). From that follow
`FlattenGrows` and `DecidedGrows`: what either gives for a longer list.

TLC checked each of these invariants on the run before its proof. `RejectHit`, the
record that is counted as rejected while its batch goes on, became an action of its
own in `FindingRecords` on the way: the worker's place in the stream could not be
followed otherwise.

The assumptions are the named `ASSUME`s of the modules: sizes are positive,
bounds are natural numbers, roles are disjoint, the stream is a sequence whose
usable hits have a known severity and a known level of confidence (the worker maps
whatever an agent says to one of them), no two findings have one id (it is the primary
key), a request names a finding once, and a
tenant begins with well-formed rows, within its licence, with an Owner.

Every safety property of the passing runs is proved. Only model-checked is liveness
under fairness, which is out of the prover's reach: `EventuallySettled`,
`ShutdownCompletes`, `SignalsArrive`, `OutboxDrains`, `StreamIsConsumed`.

## 6. Not modelled, and what could come next

* Agent: stack frames and fingerprints, redaction, HTTP metadata, `Writer.format`
  and `String.format` with its arguments told apart; `insert`, `trimmed` and
  `onSanitized`, which no hook calls; a hook that is interrupted between taking
  and releasing the re-entrancy guard; once-only announcements; an append torn by
  a crash; byte arrays that the application overwrites in place. The governor has no caller outside the tests, so its level is fixed.
* Gateway: bucket eviction past `max_tenants`, the credit header, what validation
  looks at. Worker: `KafkaSource`.
* Findings: `CommentOnFinding`, the stream to subscribers (an in-process queue
  that is told before the commit and promises nothing), the demo rows of an empty
  page. `ExpireAcceptedRisks` is modelled although no scheduler calls it.
* Sessions: `purge_expired_sessions`, throttling, token formats, `last_used_at` of an
  app's credential (nothing reads it).
* Tenant: `UpdateOrganization`, `UpdateApplication`, configuration versions, key
  expiry, suspended members, audit entries (they are in `FindingRecords`), the
  licence's `protection_enabled`.
* Export, SIEM, reports and the dashboard read and format. The Python and Node
  agents are spikes without spool or retry.

Next in order of importance: a composition of agent, gateway and worker against
one end-to-end statement; a walk over the pages of the queue as a state machine, so
that its partition becomes an invariant; `KafkaSource`.
