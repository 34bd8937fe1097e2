--------------------------- MODULE AgentDelivery ---------------------------
(***************************************************************************)
(* How the Java agent gets events out of the process: Reporter,           *)
(* ReportingThread.flushOnce, Transport and the on-disk Spool, run by the *)
(* daemon thread and, once the JVM is shutting down, also by the hook     *)
(* AgentRuntime.bootstrap registers.                                      *)
(*                                                                         *)
(* The buffer is the drop-oldest queue of DropOldestQueue (RingBuffer     *)
(* shows the array implements it).  A byte is abstracted to an event: all *)
(* lines weigh 1, so SEGMENT_BYTES and maxBytes are counts of events.     *)
(* The segment files, sorted by name, are a sequence of [id, lines].      *)
(***************************************************************************)
EXTENDS Naturals, Sequences, FiniteSets, SequencesExt

CONSTANTS
    Daemon, Hook,       \* the two threads that run flushOnce
    Capacity,           \* of the buffer
    BatchSize,          \* BATCH_SIZE
    SegmentSize,        \* SEGMENT_BYTES
    MaxSpool,           \* spool_max_bytes
    ReplayPerCycle,     \* REPLAY_SEGMENTS_PER_CYCLE
    MaxBackoff,         \* MAX_BACKOFF_MULTIPLIER
    \* The deployments considered.  Each says whether spool_dir is set, the
    \* spool being opt-in, and bounds what the environment does to the agent.
    Deployments

ASSUME SizesAssumption ==
    /\ {Capacity, BatchSize, SegmentSize, ReplayPerCycle, MaxBackoff} \subseteq Nat \ {0}
    /\ MaxSpool \in Nat /\ MaxSpool >= SegmentSize     \* Spool's constructor
ASSUME ThreadsAssumption == Daemon # Hook
ASSUME DeploymentAssumption ==
    Deployments \subseteq
        [spool : BOOLEAN, events : Nat, outages : Nat, refusals : Nat, diskFaults : Nat,
         crashes : Nat, shutdowns : Nat]

VARIABLES
    deployment,         \* the one this behaviour is about: never changes
    queue,          \* BoundedRingBuffer, oldest first
    spool,          \* the segment files, oldest first: survives the process
    disabled,       \* Spool.disabled
    pc, batch, healthy, toReplay, replayed, lines,   \* locals of flushOnce, per thread
    backoff,        \* backoffMultiplier
    mode,           \* the JVM: "up", "stopping" (hooks run), "down"
    nextSegment,    \* the clock in a segment's name: grows, even across restarts
    \* The environment and history:
    reported,       \* events the application has reported so far
    beforeExit,     \* how many it had reported when the last shutdown began
    received,       \* events the gateway has taken
    counted,        \* events dropped or evicted with a counter to show for it
    writtenOff,     \* lost in a way the code documents: refused (400/413), disk, crash
    outages, refusals, faults, crashes, shutdowns

flushVars == <<pc, batch, healthy, toReplay, replayed, lines>>
envVars == <<outages, refusals, faults, crashes, shutdowns, beforeExit, deployment>>
vars == <<queue, spool, disabled, flushVars, backoff, mode, nextSegment, reported,
          received, counted, writtenOff, envVars>>

Thread == {Daemon, Hook}
Event == UNION {1..d.events : d \in Deployments}

Weight(segment) == Len(segment.lines)
\* Every line of the segments, as <<segment, line>>.
LinesOn(segments) ==
    UNION {{i} \X DOMAIN segments[i].lines : i \in DOMAIN segments}
SpoolWeight == Cardinality(LinesOn(spool))
InSpool == UNION {Range(spool[i].lines) : i \in DOMAIN spool}
InHands == UNION {Range(batch[t]) : t \in Thread}

Init ==
    /\ deployment \in Deployments
    /\ queue = << >> /\ spool = << >> /\ disabled = FALSE
    /\ pc = [t \in Thread |-> "idle"]
    /\ batch = [t \in Thread |-> << >>]
    /\ healthy = [t \in Thread |-> TRUE]
    /\ toReplay = [t \in Thread |-> << >>]
    /\ replayed = [t \in Thread |-> 0]
    /\ lines = [t \in Thread |-> << >>]
    /\ backoff = 1 /\ mode = "up" /\ nextSegment = 1
    /\ reported = 0 /\ received = {} /\ counted = {} /\ writtenOff = {}
    /\ outages = 0 /\ refusals = 0 /\ faults = 0 /\ crashes = 0 /\ shutdowns = 0
    /\ beforeExit = 0

(***************************************************************************)
(* Application threads: Reporter.report                                    *)
(***************************************************************************)
Report ==
    /\ mode # "down" /\ reported < deployment.events
    /\ reported' = reported + 1
    /\ \/ /\ Len(queue) < Capacity
          /\ queue' = Append(queue, reported + 1)
          /\ UNCHANGED counted
       \/ /\ Len(queue) = Capacity                  \* the oldest makes way
          /\ queue' = Append(Tail(queue), reported + 1)
          /\ counted' = counted \cup {Head(queue)}
       \/ /\ UNCHANGED queue                        \* tryLock failed
          /\ counted' = counted \cup {reported + 1}
    /\ UNCHANGED <<spool, disabled, flushVars, backoff, mode, nextSegment,
                   received, writtenOff, envVars>>

(***************************************************************************)
(* flushOnce, a thread at a time                                           *)
(***************************************************************************)
Goto(t, label) == pc' = [pc EXCEPT ![t] = label]

Running(t) == mode # "down" /\ (t = Hook => mode = "stopping")

RestAlways(t) == "idle"     \* mutant: the hook loops like the daemon

\* The daemon loops for ever (stop() has no caller); the hook runs once.
Rest(t) == IF t = Hook THEN "done" ELSE "idle"

FlushStartAsBefore(t) ==    \* mutant: healthy is a field and is never reset
    /\ Running(t) /\ pc[t] = "idle"
    /\ Goto(t, "drain")
    /\ UNCHANGED <<queue, spool, disabled, batch, healthy, toReplay, replayed, lines,
                   backoff, mode, nextSegment, reported, received, counted, writtenOff,
                   envVars>>

FlushStart(t) ==
    /\ Running(t) /\ pc[t] = "idle"
    /\ healthy' = [healthy EXCEPT ![t] = TRUE]
    /\ Goto(t, "drain")
    /\ UNCHANGED <<queue, spool, disabled, batch, toReplay, replayed, lines, backoff,
                   mode, nextSegment, reported, received, counted, writtenOff, envVars>>

DrainCopying(t) ==          \* mutant: drain leaves what it took in the buffer
    /\ Running(t) /\ pc[t] = "drain" /\ queue # << >>
    /\ LET n == IF BatchSize < Len(queue) THEN BatchSize ELSE Len(queue)
       IN  batch' = [batch EXCEPT ![t] = SubSeq(queue, 1, n)]
    /\ Goto(t, "send")
    /\ UNCHANGED <<queue, spool, disabled, healthy, toReplay, replayed, lines, backoff,
                   mode, nextSegment, reported, received, counted, writtenOff, envVars>>

DrainSkipping(t) ==         \* mutant: drain removes one event more than it returns
    /\ Running(t) /\ pc[t] = "drain" /\ queue # << >>
    /\ LET n == IF BatchSize < Len(queue) THEN BatchSize ELSE Len(queue)
       IN  /\ batch' = [batch EXCEPT ![t] = SubSeq(queue, 1, n - 1)]
           /\ queue' = SubSeq(queue, n + 1, Len(queue))
    /\ Goto(t, "send")
    /\ UNCHANGED <<spool, disabled, healthy, toReplay, replayed, lines, backoff,
                   mode, nextSegment, reported, received, counted, writtenOff, envVars>>

DrainBatch(t) ==
    /\ Running(t) /\ pc[t] = "drain" /\ queue # << >>
    /\ LET n == IF BatchSize < Len(queue) THEN BatchSize ELSE Len(queue)
       IN  /\ batch' = [batch EXCEPT ![t] = SubSeq(queue, 1, n)]
           /\ queue' = SubSeq(queue, n + 1, Len(queue))
    /\ Goto(t, "send")
    /\ UNCHANGED <<spool, disabled, healthy, toReplay, replayed, lines, backoff,
                   mode, nextSegment, reported, received, counted, writtenOff, envVars>>

\* The ways a POST can end.  sendLines answers TRUE for 2xx, and for 400 and
\* 413 because "retrying them cannot succeed"; everything else is FALSE, also
\* a timeout after the gateway took the events.
PostAccepted(events) ==
    /\ received' = received \cup events
    /\ UNCHANGED <<writtenOff, envVars>>

PostRefused(events) ==
    /\ refusals < deployment.refusals
    /\ refusals' = refusals + 1
    /\ writtenOff' = writtenOff \cup events
    /\ UNCHANGED <<received, outages, faults, crashes, shutdowns, beforeExit, deployment>>

PostFailed(events) ==
    /\ outages < deployment.outages
    /\ outages' = outages + 1
    /\ received' \in {received, received \cup events}
    /\ UNCHANGED <<writtenOff, refusals, faults, crashes, shutdowns, beforeExit, deployment>>

SendTaken(t) ==
    /\ Running(t) /\ pc[t] = "send"
    /\ PostAccepted(Range(batch[t])) \/ PostRefused(Range(batch[t]))
    /\ batch' = [batch EXCEPT ![t] = << >>]
    /\ Goto(t, "drain")
    /\ UNCHANGED <<queue, spool, disabled, healthy, toReplay, replayed, lines, backoff,
                   mode, nextSegment, reported, counted>>

SendFailedForgetting(t) ==  \* mutant: a failed batch is not spooled
    /\ Running(t) /\ pc[t] = "send"
    /\ PostFailed(Range(batch[t]))
    /\ healthy' = [healthy EXCEPT ![t] = FALSE]
    /\ batch' = [batch EXCEPT ![t] = << >>]
    /\ Goto(t, "drain")
    /\ UNCHANGED <<queue, spool, disabled, toReplay, replayed, lines, backoff,
                   mode, nextSegment, reported, counted>>

SendFailed(t) ==
    /\ Running(t) /\ pc[t] = "send"
    /\ PostFailed(Range(batch[t]))
    /\ healthy' = [healthy EXCEPT ![t] = FALSE]
    /\ Goto(t, "spool")
    /\ UNCHANGED <<queue, spool, disabled, batch, toReplay, replayed, lines, backoff,
                   mode, nextSegment, reported, counted>>

(***************************************************************************)
(* Spool.append: write, then trim.  A crash can fall between the two.      *)
(***************************************************************************)
FitsNewest(events) ==
    spool # << >> /\ Weight(Last(spool)) + Len(events) <= SegmentSize

SpoolWriteFront(t) ==       \* mutant: a new segment sorts before the old ones
    /\ Running(t) /\ pc[t] = "spool"
    /\ deployment.spool /\ ~disabled
    /\ \/ /\ FitsNewest(batch[t])
          /\ spool' = [spool EXCEPT ![Len(spool)].lines = @ \o batch[t]]
          /\ UNCHANGED nextSegment
       \/ /\ ~FitsNewest(batch[t])
          /\ spool' = << [id |-> nextSegment, lines |-> batch[t]] >> \o spool
          /\ nextSegment' = nextSegment + 1
    /\ batch' = [batch EXCEPT ![t] = << >>]
    /\ Goto(t, "trim")
    /\ UNCHANGED <<queue, disabled, healthy, toReplay, replayed, lines, backoff, mode,
                   reported, received, counted, writtenOff, envVars>>

SpoolWrite(t) ==
    /\ Running(t) /\ pc[t] = "spool"
    /\ deployment.spool /\ ~disabled
    /\ \/ /\ FitsNewest(batch[t])
          /\ spool' = [spool EXCEPT ![Len(spool)].lines = @ \o batch[t]]
          /\ UNCHANGED nextSegment
       \/ /\ ~FitsNewest(batch[t])
          /\ spool' = Append(spool, [id |-> nextSegment, lines |-> batch[t]])
          /\ nextSegment' = nextSegment + 1
    /\ batch' = [batch EXCEPT ![t] = << >>]
    /\ Goto(t, "trim")
    /\ UNCHANGED <<queue, disabled, healthy, toReplay, replayed, lines, backoff, mode,
                   reported, received, counted, writtenOff, envVars>>

\* spool == null: the batch is let go, and no counter says so.
SpoolAbsent(t) ==
    /\ Running(t) /\ pc[t] = "spool"
    /\ ~deployment.spool
    /\ batch' = [batch EXCEPT ![t] = << >>]
    /\ Goto(t, "drain")
    /\ UNCHANGED <<queue, spool, disabled, healthy, toReplay, replayed, lines, backoff,
                   mode, nextSegment, reported, received, counted, writtenOff, envVars>>

\* An IOException in append, now or on an earlier batch: the spool goes quiet.
SpoolGivesUp(t) ==
    /\ Running(t) /\ pc[t] = "spool"
    /\ deployment.spool
    /\ \/ disabled /\ UNCHANGED faults
       \/ ~disabled /\ faults < deployment.diskFaults /\ faults' = faults + 1
    /\ disabled' = TRUE
    /\ writtenOff' = writtenOff \cup Range(batch[t])
    /\ batch' = [batch EXCEPT ![t] = << >>]
    /\ Goto(t, "drain")
    /\ UNCHANGED <<queue, spool, healthy, toReplay, replayed, lines, backoff, mode,
                   nextSegment, reported, received, counted,
                   outages, refusals, crashes, shutdowns, beforeExit, deployment>>

\* The suffixes of the spool that fit under the ceiling; the longest is kept.
SuffixWeight(i) == Cardinality(LinesOn(SubSeq(spool, i, Len(spool))))

Trimmed == CHOOSE i \in 1..(Len(spool) + 1) :
               /\ SuffixWeight(i) <= MaxSpool
               /\ \A j \in 1..(i - 1) : SuffixWeight(j) > MaxSpool

TrimNothing(t) ==           \* mutant: the ceiling is not enforced
    /\ Running(t) /\ pc[t] = "trim"
    /\ Goto(t, "drain")
    /\ UNCHANGED <<queue, spool, disabled, batch, healthy, toReplay, replayed, lines,
                   backoff, mode, nextSegment, reported, received, counted, writtenOff,
                   envVars>>

\* enforceCeiling: discard the oldest segments until the rest fits.  A disabled
\* spool lists no segments; a delete that fails leaves the file, counted.
SpoolTrim(t) ==
    /\ Running(t) /\ pc[t] = "trim"
    /\ LET first == IF disabled THEN 1 ELSE Trimmed
       IN  /\ counted' = counted \cup UNION {Range(spool[i].lines) : i \in 1..(first - 1)}
           /\ \/ /\ spool' = SubSeq(spool, first, Len(spool))
                 /\ UNCHANGED faults
              \/ /\ first > 1 /\ faults < deployment.diskFaults
                 /\ faults' = faults + 1
                 /\ UNCHANGED spool
    /\ Goto(t, "drain")
    /\ UNCHANGED <<queue, disabled, batch, healthy, toReplay, replayed, lines, backoff,
                   mode, nextSegment, reported, received, writtenOff,
                   outages, refusals, crashes, shutdowns, beforeExit, deployment>>

\* One of enforceCeiling's own reads fails: the lines of an evicted segment go
\* uncounted; or the listing fails, nothing is trimmed and, if the exception is
\* unchecked, append's catch disables the spool with the batch already on disk.
SpoolTrimFault(t) ==
    /\ Running(t) /\ pc[t] = "trim" /\ ~disabled
    /\ faults < deployment.diskFaults /\ faults' = faults + 1
    /\ \/ /\ \E i \in 1..(Trimmed - 1) :
                /\ counted' = counted \cup
                       UNION {Range(spool[k].lines) : k \in (1..(Trimmed - 1)) \ {i}}
                /\ writtenOff' = writtenOff \cup Range(spool[i].lines)
          /\ spool' = SubSeq(spool, Trimmed, Len(spool))
          /\ UNCHANGED disabled
       \/ /\ disabled' \in BOOLEAN
          /\ UNCHANGED <<spool, counted, writtenOff>>
    /\ Goto(t, "drain")
    /\ UNCHANGED <<queue, batch, healthy, toReplay, replayed, lines, backoff, mode,
                   nextSegment, reported, received,
                   outages, refusals, crashes, shutdowns, beforeExit, deployment>>

(***************************************************************************)
(* replaySpool                                                             *)
(***************************************************************************)
Pending == IF disabled \/ ~deployment.spool THEN << >>
           ELSE [i \in DOMAIN spool |-> spool[i].id]

\* adjustBackoff(false): double the interval, up to the ceiling.
BackOff == backoff' = IF backoff * 2 < MaxBackoff THEN backoff * 2 ELSE MaxBackoff

\* The buffer is empty and a send failed: no replay this time.
DrainedUnhealthy(t) ==
    /\ Running(t) /\ pc[t] = "drain" /\ queue = << >> /\ ~healthy[t]
    /\ BackOff
    /\ Goto(t, Rest(t))
    /\ UNCHANGED <<queue, spool, disabled, batch, healthy, toReplay, replayed, lines,
                   mode, nextSegment, reported, received, counted, writtenOff, envVars>>

DrainedHealthy(t) ==
    /\ Running(t) /\ pc[t] = "drain" /\ queue = << >> /\ healthy[t]
    /\ toReplay' = [toReplay EXCEPT ![t] = Pending]
    /\ replayed' = [replayed EXCEPT ![t] = 0]
    /\ Goto(t, "replay")
    /\ UNCHANGED <<queue, spool, disabled, batch, healthy, lines, backoff, mode,
                   nextSegment, reported, received, counted, writtenOff, envVars>>

ReplayExhausted(t) == toReplay[t] = << >> \/ replayed[t] >= ReplayPerCycle

ReplayFinish(t) ==
    /\ Running(t) /\ pc[t] = "replay" /\ ReplayExhausted(t)
    /\ backoff' = 1
    /\ toReplay' = [toReplay EXCEPT ![t] = << >>]
    /\ replayed' = [replayed EXCEPT ![t] = 0]
    /\ Goto(t, Rest(t))
    /\ UNCHANGED <<queue, spool, disabled, batch, healthy, lines, mode, nextSegment,
                   reported, received, counted, writtenOff, envVars>>

OnDisk(id) == \E i \in DOMAIN spool : spool[i].id = id
Position(id) == CHOOSE i \in DOMAIN spool : spool[i].id = id

\* A file that is gone, or cannot be read, reads as no lines.
LinesOf(id) == IF OnDisk(id) THEN spool[Position(id)].lines ELSE << >>

ReplayRead(t) ==
    /\ Running(t) /\ pc[t] = "replay" /\ ~ReplayExhausted(t)
    /\ lines' = [lines EXCEPT ![t] = LinesOf(Head(toReplay[t]))]
    /\ Goto(t, IF LinesOf(Head(toReplay[t])) = << >> THEN "discard" ELSE "resend")
    /\ UNCHANGED <<queue, spool, disabled, batch, healthy, toReplay, replayed, backoff,
                   mode, nextSegment, reported, received, counted, writtenOff, envVars>>

ReplayReadFault(t) ==
    /\ Running(t) /\ pc[t] = "replay" /\ ~ReplayExhausted(t)
    /\ faults < deployment.diskFaults /\ faults' = faults + 1
    /\ lines' = [lines EXCEPT ![t] = << >>]
    /\ writtenOff' = writtenOff \cup Range(LinesOf(Head(toReplay[t])))
    /\ Goto(t, "discard")
    /\ UNCHANGED <<queue, spool, disabled, batch, healthy, toReplay, replayed, backoff,
                   mode, nextSegment, reported, received, counted,
                   outages, refusals, crashes, shutdowns, beforeExit, deployment>>

ResendTaken(t) ==
    /\ Running(t) /\ pc[t] = "resend"
    /\ PostAccepted(Range(lines[t])) \/ PostRefused(Range(lines[t]))
    /\ Goto(t, "discard")
    /\ UNCHANGED <<queue, spool, disabled, batch, healthy, toReplay, replayed, lines,
                   backoff, mode, nextSegment, reported, counted>>

ResendDiscarding(t) ==      \* mutant: a refused segment is discarded all the same
    /\ Running(t) /\ pc[t] = "resend"
    /\ PostFailed(Range(lines[t]))
    /\ Goto(t, "discard")
    /\ UNCHANGED <<queue, spool, disabled, batch, healthy, toReplay, replayed, lines,
                   backoff, mode, nextSegment, reported, counted>>

ResendFailed(t) ==
    /\ Running(t) /\ pc[t] = "resend"
    /\ PostFailed(Range(lines[t]))
    /\ BackOff
    /\ lines' = [lines EXCEPT ![t] = << >>]
    /\ toReplay' = [toReplay EXCEPT ![t] = << >>]
    /\ replayed' = [replayed EXCEPT ![t] = 0]
    /\ Goto(t, Rest(t))
    /\ UNCHANGED <<queue, spool, disabled, batch, healthy, mode, nextSegment, reported,
                   counted>>

\* Files.deleteIfExists; a delete that fails leaves the segment for next time.
Discard(t) ==
    /\ Running(t) /\ pc[t] = "discard"
    /\ \/ /\ LET id == Head(toReplay[t])
             IN  spool' = IF OnDisk(id) THEN RemoveAt(spool, Position(id)) ELSE spool
          /\ UNCHANGED faults
       \/ /\ faults < deployment.diskFaults /\ faults' = faults + 1
          /\ UNCHANGED spool
    /\ toReplay' = [toReplay EXCEPT ![t] = Tail(@)]
    /\ replayed' = [replayed EXCEPT ![t] = @ + 1]
    /\ lines' = [lines EXCEPT ![t] = << >>]
    /\ Goto(t, "replay")
    /\ UNCHANGED <<queue, disabled, batch, healthy, backoff, mode, nextSegment, reported,
                   received, counted, writtenOff,
                   outages, refusals, crashes, shutdowns, beforeExit, deployment>>

(***************************************************************************)
(* The JVM                                                                 *)
(***************************************************************************)
\* Everything in memory goes; only the spool's files remain.
Vanish ==
    /\ queue' = << >>
    /\ disabled' = FALSE
    /\ pc' = [t \in Thread |-> "idle"]
    /\ batch' = [t \in Thread |-> << >>]
    /\ healthy' = [t \in Thread |-> TRUE]
    /\ toReplay' = [t \in Thread |-> << >>]
    /\ replayed' = [t \in Thread |-> 0]
    /\ lines' = [t \in Thread |-> << >>]
    /\ backoff' = 1
    /\ mode' = "down"

\* Killed: nothing runs on the way out, and what memory held is gone.
Crash ==
    /\ mode # "down" /\ crashes < deployment.crashes
    /\ crashes' = crashes + 1
    /\ Vanish
    /\ writtenOff' = writtenOff \cup Range(queue) \cup InHands
    /\ UNCHANGED <<spool, nextSegment, reported, received, counted,
                   outages, refusals, faults, shutdowns, beforeExit, deployment>>

\* An orderly exit begins: the hook starts, the daemon keeps running.
Shutdown ==
    /\ mode = "up" /\ shutdowns < deployment.shutdowns
    /\ shutdowns' = shutdowns + 1
    /\ beforeExit' = reported
    /\ mode' = "stopping"
    /\ UNCHANGED <<queue, spool, disabled, flushVars, backoff, nextSegment, reported,
                   received, counted, writtenOff, outages, refusals, faults, crashes,
                   deployment>>

\* The hook has returned: the JVM halts, whatever the daemon is doing.
Halt ==
    /\ mode = "stopping" /\ pc[Hook] = "done"
    /\ Vanish
    /\ UNCHANGED <<spool, nextSegment, reported, received, counted, writtenOff, envVars>>

Restart ==
    /\ mode = "down"
    /\ mode' = "up"
    /\ UNCHANGED <<queue, spool, disabled, flushVars, backoff, nextSegment, reported,
                   received, counted, writtenOff, envVars>>

FlushStep(t) ==
    \/ FlushStart(t) \/ DrainBatch(t) \/ SendTaken(t) \/ SendFailed(t)
    \/ SpoolWrite(t) \/ SpoolAbsent(t) \/ SpoolGivesUp(t) \/ SpoolTrim(t)
    \/ SpoolTrimFault(t)
    \/ DrainedUnhealthy(t) \/ DrainedHealthy(t)
    \/ ReplayFinish(t) \/ ReplayRead(t) \/ ReplayReadFault(t)
    \/ ResendTaken(t) \/ ResendFailed(t) \/ Discard(t)

Next ==
    \/ Report \/ Crash \/ Shutdown \/ Halt \/ Restart
    \/ \E t \in Thread : FlushStep(t)

(***************************************************************************)
(* Fairness: the scheduler keeps running both threads, the JVM halts once *)
(* its hooks are done and the service is started again.  That the      *)
(* endpoint comes back is the bound on outages, not an assumption here.   *)
(***************************************************************************)
Spec == Init /\ [][Next]_vars

FairSpec ==
    /\ Spec
    /\ \A t \in Thread : WF_vars(FlushStep(t))
    /\ WF_vars(Halt) /\ WF_vars(Restart)

(***************************************************************************)
(* Properties                                                              *)
(***************************************************************************)
\* An event whose fate is known to someone: the gateway took it, a counter
\* the heartbeat carries shows it, or the code says it lets such events go.
Settled == received \cup counted \cup writtenOff

\* A deployment with a spool, before any orderly exit: the one in which the
\* code promises to lose nothing silently.
Kept == deployment.spool /\ shutdowns = 0

\* "batches go to the Spool instead of being dropped": no reported event is
\* ever nowhere, across failed sends, replays, trims, disk faults and crashes.
NothingVanishes ==
    Kept => \A e \in 1..reported : e \in Settled \cup Range(queue) \cup InHands \cup InSpool

\* "Discarded only after acknowledgement": an event leaves the disk only once
\* the gateway has answered for it, or the ceiling or a disk fault took it.
\* Two threads flushing at exit may discard a segment the other just wrote to.
SpooledUntilSettled ==
    [][Kept' => \A e \in InSpool : e \in InSpool' \cup Settled']_vars

\* "replayed oldest-first": the segments, read in order, hold the events in
\* the order they were reported, also after evictions, crashes and restarts.
\* The hook and the daemon may append out of turn, so not after an exit.
SpoolInOrder ==
    Kept => \A x, y \in LinesOn(spool) :
                (x[1] < y[1] \/ (x[1] = y[1] /\ x[2] < y[2]))
                    => spool[x[1]].lines[x[2]] < spool[y[1]].lines[y[2]]

\* The disk is bounded: outside append the spool fits its ceiling, and every
\* append whose trim failed or never ran can have left one batch over.
SpoolBounded ==
    SpoolWeight <= MaxSpool
        + BatchSize * (crashes + shutdowns + faults
                       + Cardinality({t \in Thread : pc[t] = "trim"}))

\* The daemon and the hook never hold the same event, and neither holds one
\* that is still in the buffer: drain hands each event to one thread.
OneOwner ==
    LET held == queue \o batch[Daemon] \o batch[Hook]
    IN  \A i, j \in DOMAIN held : i # j => held[i] # held[j]

\* Without a spool a failed send costs the batch it carried and never more, and
\* an orderly exit the daemon's batch and what is reported too late to flush: no
\* other path loses an event without a counter.
LossPerOutage ==
    ~deployment.spool =>
        Cardinality({e \in 1..reported : e \notin Settled \cup Range(queue) \cup InHands})
            <= BatchSize * outages + (BatchSize + Capacity) * shutdowns

\* Once the endpoint stays reachable every reported event is settled; the one
\* exception is a segment kept from replay because append disabled the spool.
EventuallySettled ==
    \A e \in Event :
        (Kept /\ reported >= e)
            ~> (e \in Settled \/ (disabled /\ e \in InSpool) \/ ~Kept)

\* The hook ends, so the agent cannot keep a JVM from exiting.
ShutdownCompletes == (mode = "stopping") ~> (mode = "down")

\* AgentRuntime: the hook is there "so the last request's findings are not
\* lost at shutdown".  Claim: what was reported before an orderly exit began
\* is settled or on disk when the JVM is gone.
OrderlyExitLosesNothing ==
    mode = "down" => \A e \in 1..beforeExit : e \in Settled \cup InSpool
=============================================================================
