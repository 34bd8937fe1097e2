--------------------------- MODULE GatewayIngest ---------------------------
(***************************************************************************)
(* The ingest gateway: IngestEvents.execute with its quota, shedding and  *)
(* deduplication, the durable stream it publishes to, and the agents that *)
(* post batches and retry them.                                           *)
(*                                                                         *)
(* The gateway is one asyncio process: the loop over a batch's lines runs *)
(* to its end without an await, so admission is one step; publishing      *)
(* awaits the sink once per event (KafkaEventSink), so requests interleave*)
(* there.  A request lives on when its agent stops waiting for it.        *)
(* Tokens are counted in halves, a security signal costing one of them.   *)
(***************************************************************************)
EXTENDS Naturals, Sequences, FiniteSets, SequencesExt

CONSTANTS
    Agent,
    Slot,               \* requests in flight in the gateway
    None,               \* no request, no agent
    Tenant,             \* [Agent -> tenant]: the org claim of the agent's token
    Outbox,             \* [Agent -> Seq(Event)]: what each agent has to deliver
    Capacity,           \* burst of the token bucket, in half tokens
    DedupCapacity,      \* dedup_cache_size
    MaxBatchEvents,     \* max_batch_events
    MaxBatchBytes,      \* max_batch_bytes, in the units of an event's size
    MaxPost,            \* bound: most events an agent puts into one POST
    Strict,             \* reject_batch_on_invalid
    Faults,             \* what may go wrong: "sink", "timeout", "credential", "restart"
    MaxFaults           \* bound: how often, all kinds together

Events == UNION {Range(Outbox[a]) : a \in Agent}
Ids == {e.id : e \in Events}

\* An event is [src, id, kind, size]: its agent, its event_id, what it is, its weight.
\* A malformed line is one the schema refuses; parsing a broken one raises something
\* nobody expects there (bytes that are no text, a number or a nesting too large).
ASSUME OutboxAssumption ==
    /\ Outbox \in [Agent -> Seq(Events)]
    /\ \A e \in Events : e.src \in Agent /\ e.size \in Nat
                        /\ e.kind \in {"signal", "telemetry", "malformed", "broken"}
ASSUME NoneAssumption == None \notin Slot \cup Agent
ASSUME LimitsAssumption ==
    /\ {Capacity, DedupCapacity, MaxBatchEvents, MaxBatchBytes, MaxPost} \subseteq Nat \ {0}
    /\ Strict \in BOOLEAN
    /\ Faults \subseteq {"sink", "timeout", "credential", "restart"} /\ MaxFaults \in Nat

VARIABLES
    outbox,     \* the agent's buffer and spool: what it has not been told is done
    waiting,    \* the request each agent is waiting for
    req,        \* the requests in the gateway
    dedup,      \* LruDeduplicationCache, least recently used first
    tokens,     \* the tenants' buckets, in half tokens
    stream,     \* the durable topic or file
    \* History and the environment:
    acked,      \* events of batches answered 200
    dropped,    \* events of batches answered 413, which the agent discards
    shed,       \* events discarded under pressure
    forgotten,  \* ids the cache has lost, by eviction or restart
    faults

clientVars == <<outbox, waiting>>
serverVars == <<req, dedup, tokens>>
history == <<acked, dropped, shed, forgotten>>
vars == <<clientVars, serverVars, stream, history, faults>>

Free == [state |-> "free", agent |-> None, lines |-> << >>, todo |-> << >>,
         shed |-> {}, rejected |-> 0]

Tenants == {Tenant[a] : a \in Agent}

Init ==
    /\ outbox = Outbox
    /\ waiting = [a \in Agent |-> None]
    /\ req = [s \in Slot |-> Free]
    /\ dedup = << >>
    /\ tokens = [o \in Tenants |-> Capacity]
    /\ stream = << >>
    /\ acked = {} /\ dropped = {} /\ shed = {} /\ forgotten = {}
    /\ faults = 0

\* The environment spends one of its faults.
Fault(kind) == kind \in Faults /\ faults < MaxFaults /\ faults' = faults + 1

(***************************************************************************)
(* The agent: Transport.Http.sendLines posts what one flush or one spool   *)
(* segment holds: a run of the events it still has, a segment holding      *)
(* several batches.                                                        *)
(***************************************************************************)
Post(a, s) ==
    /\ waiting[a] = None /\ outbox[a] # << >>
    /\ req[s].state = "free"
    /\ \E i, j \in DOMAIN outbox[a] :
          /\ i <= j /\ j - i < MaxPost
          /\ req' = [req EXCEPT ![s] =
                        [Free EXCEPT !.state = "received", !.agent = a,
                                     !.lines = SubSeq(outbox[a], i, j)]]
    /\ waiting' = [waiting EXCEPT ![a] = s]
    /\ UNCHANGED <<outbox, dedup, tokens, stream, history, faults>>

\* sendLines returned true for `lines': the run it posted leaves the agent.
Forget(a, lines) ==
    \E i, j \in DOMAIN outbox[a] :
        /\ i <= j /\ lines = SubSeq(outbox[a], i, j)
        /\ outbox' = [outbox EXCEPT ![a] = SubSeq(@, 1, i - 1) \o SubSeq(@, j + 1, Len(@))]

TimeoutCancels(a) ==        \* mutant: a client that hangs up cancels its handler
    /\ waiting[a] # None /\ Fault("timeout")
    /\ req' = [req EXCEPT ![waiting[a]] = Free]
    /\ waiting' = [waiting EXCEPT ![a] = None]
    /\ UNCHANGED <<outbox, dedup, tokens, stream, history>>

\* The agent's read timeout: it will retry, the gateway is still at work.
ClientTimeout(a) ==
    /\ waiting[a] # None /\ Fault("timeout")
    /\ waiting' = [waiting EXCEPT ![a] = None]
    /\ UNCHANGED <<outbox, serverVars, stream, history>>

\* The request is over; its agent stops waiting, if it still was.
Release(s) ==
    /\ req' = [req EXCEPT ![s] = Free]
    /\ waiting' = [a \in Agent |-> IF waiting[a] = s THEN None ELSE waiting[a]]

StillWaiting(s) == \E a \in Agent : waiting[a] = s

(***************************************************************************)
(* execute: admission of one line                                          *)
(***************************************************************************)
Bytes(lines) == FoldLeft(LAMBDA n, e : n + e.size, 0, lines)

Cost(e) == IF e.kind = "signal" THEN 1 ELSE 2

\* SheddingPolicy.should_accept: at least half of the quota must remain.
ShouldAccept(e, left) == e.kind = "signal" \/ 2 * left >= Capacity

Seen(cache, id) == \E i \in DOMAIN cache : cache[i] = id
Without(cache, id) ==
    IF Seen(cache, id) THEN RemoveAt(cache, CHOOSE i \in DOMAIN cache : cache[i] = id)
    ELSE cache
Touch(cache, id) == Append(Without(cache, id), id)
\* LruDeduplicationCache.remember: newest at the end, oldest out.
Remember(cache, id) ==
    LET grown == Touch(cache, id)
    IN  SubSeq(grown, IF Len(grown) > DedupCapacity THEN Len(grown) - DedupCapacity + 1 ELSE 1,
               Len(grown))

\* Where the loop over the lines stands: `end' is "" while it goes on.
LoopStart(left) ==
    [end |-> "", seen |-> 0, cache |-> dedup, left |-> left, todo |-> << >>,
     shed |-> {}, rejected |-> 0, lost |-> {}]

Rejected(st) == [st EXCEPT !.seen = @ + 1, !.rejected = @ + 1]
Duplicate(st, e) == [st EXCEPT !.seen = @ + 1, !.cache = Touch(@, e.id)]
Shed(st, e) == [st EXCEPT !.seen = @ + 1, !.shed = @ \cup {e}]
Admitted(st, e) ==
    [st EXCEPT !.seen = @ + 1, !.left = @ - Cost(e), !.todo = Append(@, e),
               !.cache = Remember(@, e.id),
               !.lost = @ \cup (Range(st.cache) \ Range(Remember(st.cache, e.id)))]

AdmitRefusingNothing(st, e) ==      \* mutant: a signal over quota is shed
    IF st.end # "" THEN st
    ELSE IF st.seen >= MaxBatchEvents THEN [st EXCEPT !.end = "limit", !.rejected = @ + 1]
    ELSE IF e.kind = "broken" THEN [st EXCEPT !.seen = @ + 1, !.end = "error"]
    ELSE IF e.kind = "malformed" THEN Rejected(st)
    ELSE IF Seen(st.cache, e.id) THEN Duplicate(st, e)
    ELSE IF ~ShouldAccept(e, st.left) \/ st.left < Cost(e) THEN Shed(st, e)
    ELSE Admitted(st, e)

AdmitRememberingSignals(st, e) ==   \* mutant: only signals are remembered
    IF st.end # "" THEN st
    ELSE IF st.seen >= MaxBatchEvents THEN [st EXCEPT !.end = "limit", !.rejected = @ + 1]
    ELSE IF e.kind = "broken" THEN [st EXCEPT !.seen = @ + 1, !.end = "error"]
    ELSE IF e.kind = "malformed" THEN Rejected(st)
    ELSE IF Seen(st.cache, e.id) THEN Duplicate(st, e)
    ELSE IF ~ShouldAccept(e, st.left) THEN Shed(st, e)
    ELSE IF st.left < Cost(e)
         THEN IF e.kind = "signal" THEN [st EXCEPT !.end = "quota"] ELSE Shed(st, e)
    ELSE IF e.kind = "signal" THEN Admitted(st, e)
    ELSE [Admitted(st, e) EXCEPT !.cache = st.cache, !.lost = st.lost]

\* One line: limit, parsing, schema, duplicate, pressure, quota, and then admitted.
AdmitLine(st, e) ==
    IF st.end # "" THEN st
    ELSE IF st.seen >= MaxBatchEvents THEN [st EXCEPT !.end = "limit", !.rejected = @ + 1]
    ELSE IF e.kind = "broken" THEN [st EXCEPT !.seen = @ + 1, !.end = "error"]
    ELSE IF e.kind = "malformed" THEN Rejected(st)
    ELSE IF Seen(st.cache, e.id) THEN Duplicate(st, e)
    ELSE IF ~ShouldAccept(e, st.left) THEN Shed(st, e)
    ELSE IF st.left < Cost(e)
         THEN IF e.kind = "signal" THEN [st EXCEPT !.end = "quota"] ELSE Shed(st, e)
    ELSE Admitted(st, e)

\* Where the loop stands after each line.
Loop(lines, left) ==
    LET at[n \in 0..Len(lines)] ==
            IF n = 0 THEN LoopStart(left) ELSE AdmitLine(at[n - 1], lines[n])
    IN  at

Verdict(s) == Loop(req[s].lines, tokens[Tenant[req[s].agent]])[Len(req[s].lines)]

\* What the loop leaves behind whether or not the batch is then refused.
Charge(s) ==
    /\ dedup' = Verdict(s).cache
    /\ forgotten' = forgotten \cup Verdict(s).lost
    /\ tokens' = [tokens EXCEPT ![Tenant[req[s].agent]] = Verdict(s).left]

(***************************************************************************)
(* execute: the answers                                                    *)
(***************************************************************************)
\* 413: the agent treats the batch as delivered and lets it go.
RefuseTooLarge(s) ==
    /\ req[s].state = "received" /\ Bytes(req[s].lines) > MaxBatchBytes
    /\ IF StillWaiting(s)
       THEN /\ Forget(req[s].agent, req[s].lines)
            /\ dropped' = dropped \cup Range(req[s].lines)
       ELSE UNCHANGED <<outbox, dropped>>
    /\ Release(s)
    /\ UNCHANGED <<dedup, tokens, stream, acked, shed, forgotten, faults>>

\* 401: authentication fails before the body is read, and costs nothing.
RefuseCredential(s) ==
    /\ req[s].state = "received" /\ Fault("credential")
    /\ Release(s)
    /\ UNCHANGED <<outbox, dedup, tokens, stream, history>>

\* 429, 422 in strict mode, or 500 for a broken line: the agent keeps the batch.  What the loop has
\* remembered and charged stays remembered and charged.
RefuseBatch(s) ==
    /\ req[s].state = "received" /\ Bytes(req[s].lines) <= MaxBatchBytes
    /\ \/ Verdict(s).end \in {"quota", "error"}
       \/ Strict /\ Verdict(s).rejected > 0
    /\ Charge(s)
    /\ Release(s)
    /\ UNCHANGED <<outbox, stream, acked, dropped, shed, faults>>

Admit(s) ==
    /\ req[s].state = "received" /\ Bytes(req[s].lines) <= MaxBatchBytes
    /\ Verdict(s).end \notin {"quota", "error"} /\ ~(Strict /\ Verdict(s).rejected > 0)
    /\ Charge(s)
    /\ req' = [req EXCEPT ![s] = [@ EXCEPT !.state = "publishing", !.todo = Verdict(s).todo,
                                           !.shed = Verdict(s).shed,
                                           !.rejected = Verdict(s).rejected]]
    /\ UNCHANGED <<clientVars, stream, acked, dropped, shed, faults>>

PublishFirst(s) ==          \* mutant: publish returns after the first event
    /\ req[s].state = "publishing" /\ req[s].todo # << >>
    /\ stream' = Append(stream, Head(req[s].todo))
    /\ req' = [req EXCEPT ![s].todo = << >>]
    /\ UNCHANGED <<clientVars, dedup, tokens, history, faults>>

\* The events of the request that are not in the stream yet: send_and_wait
\* takes them one at a time, in order.
PublishNext(s) ==
    /\ req[s].state = "publishing" /\ req[s].todo # << >>
    /\ stream' = Append(stream, Head(req[s].todo))
    /\ req' = [req EXCEPT ![s].todo = Tail(@)]
    /\ UNCHANGED <<clientVars, dedup, tokens, history, faults>>

\* 503: the rest of the batch is not published; whether the event that was
\* being sent reached the stream is unknown.
PublishFails(s) ==
    /\ req[s].state = "publishing" /\ req[s].todo # << >>
    /\ Fault("sink")
    /\ stream' \in {stream, Append(stream, Head(req[s].todo))}
    /\ Release(s)
    /\ UNCHANGED <<outbox, dedup, tokens, history>>

\* 200: an agent that is still waiting advances past the batch.
Respond(s) ==
    /\ req[s].state = "publishing" /\ req[s].todo = << >>
    /\ shed' = shed \cup req[s].shed
    /\ IF StillWaiting(s)
       THEN /\ Forget(req[s].agent, req[s].lines)
            /\ acked' = acked \cup Range(req[s].lines)
       ELSE UNCHANGED <<outbox, acked>>
    /\ Release(s)
    /\ UNCHANGED <<dedup, tokens, stream, dropped, forgotten, faults>>

(***************************************************************************)
(* Time and the process                                                    *)
(***************************************************************************)
RefillNever(o) == FALSE /\ UNCHANGED vars    \* mutant: the bucket is never refilled

\* The bucket refills as time passes, up to its capacity.
Refill(o) ==
    /\ tokens[o] < Capacity
    /\ tokens' = [tokens EXCEPT ![o] = @ + 1]
    /\ UNCHANGED <<clientVars, req, dedup, stream, history, faults>>

\* The replica dies and comes back: requests fail, cache and buckets are new.
Restart ==
    /\ Fault("restart")
    /\ req' = [s \in Slot |-> Free]
    /\ waiting' = [a \in Agent |-> None]
    /\ dedup' = << >>
    /\ forgotten' = forgotten \cup Range(dedup)
    /\ tokens' = [o \in Tenants |-> Capacity]
    /\ UNCHANGED <<outbox, stream, acked, dropped, shed>>

Serve(s) ==
    \/ RefuseTooLarge(s) \/ RefuseCredential(s) \/ RefuseBatch(s) \/ Admit(s)
    \/ PublishNext(s) \/ PublishFails(s) \/ Respond(s)

Next ==
    \/ \E a \in Agent, s \in Slot : Post(a, s)
    \/ \E a \in Agent : ClientTimeout(a)
    \/ \E s \in Slot : Serve(s)
    \/ \E o \in Tenants : Refill(o)
    \/ Restart

Spec == Init /\ [][Next]_vars

(***************************************************************************)
(* Fairness: the event loop serves every request, the agent's daemon keeps *)
(* posting what it holds and time refills the buckets.                     *)
(***************************************************************************)
FairSpec ==
    /\ Spec
    /\ \A s \in Slot : WF_vars(Serve(s))
    /\ \A a \in Agent : WF_vars(\E s \in Slot : Post(a, s))
    /\ \A o \in Tenants : WF_vars(Refill(o))

(***************************************************************************)
(* Properties                                                              *)
(***************************************************************************)
Signals == {e \in Events : e.kind = "signal"}
InFlight == UNION {Range(req[s].todo) : s \in Slot}
Copies(id) == Cardinality({i \in DOMAIN stream : stream[i].id = id})

\* "security signal is never shed": whatever the pressure and however batches
\* of several agents drain one bucket, only telemetry is discarded.
SignalNeverShed == shed \cap Signals = {}

\* Replays are absorbed: an id is published twice only if the cache lost it,
\* also when an agent retries a batch the gateway is still publishing.
DuplicateOnlyIfForgotten == \A id \in Ids \ forgotten : Copies(id) <= 1

\* Signals whose event_id no other event bears: the gateway cannot tell others apart.
OwnSignals == {e \in Signals : \A f \in Events : f.id = e.id => f = e}

\* When the sink and the process hold, a signal the agent was told is done is
\* in the stream or in a request that is still publishing it: an agent that
\* gave up waiting does not take the events of its first try with it.
AckedIsDurableOrInFlight ==
    acked \cap OwnSignals \subseteq Range(stream) \cup InFlight

\* Every agent eventually gets rid of what it holds: refusals, timeouts and an
\* empty bucket delay a batch but never block the spool behind it for ever.
OutboxDrains == <>(\A a \in Agent : outbox[a] = << >>)

\* Every signal reaches the stream, or was too large to be taken at all: what
\* is acknowledged early, as a duplicate, is published in the end.
SignalsArrive == <>(Signals \subseteq Range(stream) \cup dropped)
=============================================================================
