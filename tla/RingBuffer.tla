----------------------------- MODULE RingBuffer -----------------------------
(***************************************************************************)
(* BoundedRingBuffer.java: a circular array guarded by one ReentrantLock. *)
(* Application threads offer with tryLock; the reporting thread, and at   *)
(* JVM shutdown the hook that also runs flushOnce, drain with lock.       *)
(*                                                                         *)
(* A step is one critical-section boundary or one iteration of drain's    *)
(* copy loop.  `dropped' and `accepted' are the AtomicLongs; `arrived'    *)
(* and `handed' are history: how many offers have been decided, and what  *)
(* the drainers were given.                                               *)
(***************************************************************************)
EXTENDS Integers, Sequences

CONSTANTS
    Producer,       \* application threads: Reporter.report and friends
    Drainer,        \* threads inside ReportingThread.flushOnce
    NoThread,       \* the lock is free
    NoItem,         \* a null slot
    Capacity,
    MaxBatch,       \* drain's argument, BATCH_SIZE in ReportingThread
    MaxOffers       \* bound: how many events the application produces

ASSUME CapacityAssumption == Capacity \in Nat \ {0}
ASSUME MaxBatchAssumption == MaxBatch \in Nat \ {0}
ASSUME MaxOffersAssumption == MaxOffers \in Nat
ASSUME ThreadAssumption ==
    /\ Producer \cap Drainer = {}
    /\ NoThread \notin Producer \cup Drainer
ASSUME NoItemAssumption == NoItem \notin Nat

VARIABLES slots, head, size, dropped, accepted, lock, pc, item, batch, count,
          offered, arrived, handed

vars == <<slots, head, size, dropped, accepted, lock, pc, item, batch, count,
          offered, arrived, handed>>

Thread == Producer \cup Drainer
Index == 0..(Capacity - 1)
Item == 1..MaxOffers        \* the n-th event an application thread reports
Cell == Item \cup {NoItem}   \* what a slot, or a reference to an event, can hold

RBInit ==
    /\ slots = [i \in Index |-> NoItem]
    /\ head = 0
    /\ size = 0
    /\ dropped = 0
    /\ accepted = 0
    /\ lock = NoThread
    /\ pc = [t \in Thread |-> "idle"]
    /\ item = [p \in Producer |-> NoItem]
    /\ batch = [d \in Drainer |-> << >>]
    /\ count = [d \in Drainer |-> 0]
    /\ offered = 0
    /\ arrived = 0
    /\ handed = << >>

(***************************************************************************)
(* offer                                                                   *)
(***************************************************************************)
\* tryLock succeeded.
OfferLocked(p) ==
    /\ pc[p] = "idle" /\ offered < MaxOffers
    /\ lock = NoThread
    /\ lock' = p
    /\ item' = [item EXCEPT ![p] = offered + 1]
    /\ offered' = offered + 1
    /\ pc' = [pc EXCEPT ![p] = "store"]
    /\ UNCHANGED <<slots, head, size, dropped, accepted, batch, count,
                   arrived, handed>>

OfferUncounted(p) ==        \* mutant: a contended offer returns without counting
    /\ pc[p] = "idle" /\ offered < MaxOffers
    /\ lock # NoThread
    /\ offered' = offered + 1
    /\ arrived' = arrived + 1
    /\ UNCHANGED <<slots, head, size, dropped, accepted, lock, pc, item,
                   batch, count, handed>>

\* tryLock failed: the event is dropped and counted, the thread goes on.
OfferContended(p) ==
    /\ pc[p] = "idle" /\ offered < MaxOffers
    /\ lock # NoThread
    /\ offered' = offered + 1
    /\ arrived' = arrived + 1
    /\ dropped' = dropped + 1
    /\ UNCHANGED <<slots, head, size, accepted, lock, pc, item, batch, count,
                   handed>>

OverwriteNewest(p) ==       \* mutant: a full buffer gives up its newest event
    /\ pc[p] = "store" /\ size = Capacity
    /\ slots' = [slots EXCEPT ![(head + size - 1) % Capacity] = item[p]]
    /\ dropped' = dropped + 1
    /\ accepted' = accepted + 1
    /\ arrived' = arrived + 1
    /\ pc' = [pc EXCEPT ![p] = "unlock"]
    /\ UNCHANGED <<head, size, lock, item, batch, count, offered, handed>>

\* The buffer is full: the newcomer replaces the oldest event.
StoreOverOldest(p) ==
    /\ pc[p] = "store" /\ size = Capacity
    /\ slots' = [slots EXCEPT ![head] = item[p]]
    /\ head' = (head + 1) % Capacity
    /\ dropped' = dropped + 1
    /\ accepted' = accepted + 1
    /\ arrived' = arrived + 1
    /\ pc' = [pc EXCEPT ![p] = "unlock"]
    /\ UNCHANGED <<size, lock, item, batch, count, offered, handed>>

\* There is room: the newcomer goes behind the newest event.
Store(p) ==
    /\ pc[p] = "store" /\ size # Capacity
    /\ slots' = [slots EXCEPT ![(head + size) % Capacity] = item[p]]
    /\ size' = size + 1
    /\ accepted' = accepted + 1
    /\ arrived' = arrived + 1
    /\ pc' = [pc EXCEPT ![p] = "unlock"]
    /\ UNCHANGED <<head, dropped, lock, item, batch, count, offered, handed>>

(***************************************************************************)
(* drain                                                                   *)
(***************************************************************************)
\* lock() waits for its turn; count is fixed once, inside the lock.
DrainLock(d) ==
    /\ pc[d] = "idle"
    /\ lock = NoThread
    /\ lock' = d
    /\ count' = [count EXCEPT ![d] = IF MaxBatch < size THEN MaxBatch ELSE size]
    /\ batch' = [batch EXCEPT ![d] = << >>]
    /\ pc' = [pc EXCEPT ![d] = "copy"]
    /\ UNCHANGED <<slots, head, size, dropped, accepted, item, offered,
                   arrived, handed>>

\* One turn of the copy loop: take slots[(head + i) % capacity], null it.
DrainCopy(d) ==
    /\ pc[d] = "copy" /\ Len(batch[d]) < count[d]
    /\ LET index == (head + Len(batch[d])) % Capacity
       IN  /\ batch' = [batch EXCEPT ![d] = Append(@, slots[index])]
           /\ slots' = [slots EXCEPT ![index] = NoItem]
    /\ UNCHANGED <<head, size, dropped, accepted, lock, pc, item, count,
                   offered, arrived, handed>>

\* The loop is done: advance head, shrink size, give the batch to the caller.
DrainFinish(d) ==
    /\ pc[d] = "copy" /\ Len(batch[d]) = count[d]
    /\ head' = (head + count[d]) % Capacity
    /\ size' = size - count[d]
    /\ handed' = handed \o batch[d]
    /\ pc' = [pc EXCEPT ![d] = "unlock"]
    /\ UNCHANGED <<slots, dropped, accepted, lock, item, batch, count,
                   offered, arrived>>

\* finally { lock.unlock() } of both operations.
Unlock(t) ==
    /\ pc[t] = "unlock"
    /\ lock' = NoThread
    /\ pc' = [pc EXCEPT ![t] = "idle"]
    /\ UNCHANGED <<slots, head, size, dropped, accepted, item, batch, count,
                   offered, arrived, handed>>

ProducerStep(p) ==
    OfferLocked(p) \/ OfferContended(p) \/ StoreOverOldest(p) \/ Store(p) \/ Unlock(p)

DrainerStep(d) ==
    DrainLock(d) \/ DrainCopy(d) \/ DrainFinish(d) \/ Unlock(d)

RBNext ==
    \/ \E p \in Producer : ProducerStep(p)
    \/ \E d \in Drainer : DrainerStep(d)

RBSpec == RBInit /\ [][RBNext]_vars

(***************************************************************************)
(* Properties                                                              *)
(***************************************************************************)
ProducerPC == {"idle", "store", "unlock"}
DrainerPC == {"idle", "copy", "unlock"}

\* Every variable keeps the type the Java declarations give it; size stays
\* within 0..capacity, the "never grows" of the class comment.
TypeOK ==
    /\ slots \in [Index -> Cell]
    /\ head \in Index
    /\ size \in 0..Capacity
    /\ dropped \in Nat /\ accepted \in Nat
    /\ lock \in Thread \cup {NoThread}
    /\ pc \in [Thread -> ProducerPC \cup DrainerPC]
    /\ item \in [Producer -> Cell]
    /\ batch \in [Drainer -> Seq(Cell)]
    /\ count \in [Drainer -> 0..Capacity]
    /\ offered \in 0..MaxOffers /\ arrived \in Nat
    /\ handed \in Seq(Cell)

\* "the loss is visible rather than silent": every decided offer is still in
\* the buffer, was handed to a drainer, or is counted in droppedCount().
LossIsVisible == arrived = size + Len(handed) + dropped

\* acceptedCount() counts the offers that got past tryLock: no event can leave
\* or sit in the buffer that was not accepted first.
AcceptedCoversStored == size + Len(handed) <= accepted /\ accepted <= arrived

\* The slot at distance i from head.
SlotAt(i) == slots[(head + i) % Capacity]

\* The abstract queue.  While a drainer is copying, the events it has copied
\* still count as queued: they are the front of the queue.
Copied(d) == IF pc[d] = "copy" THEN Len(batch[d]) ELSE 0

WindowItem(i) ==
    IF \E d \in Drainer : i < Copied(d)
    THEN batch[CHOOSE d \in Drainer : i < Copied(d)][i + 1]
    ELSE SlotAt(i)

Window == [k \in 1..size |-> WindowItem(k - 1)]

Queue == INSTANCE DropOldestQueue
            WITH queue <- Window, lost <- dropped, out <- handed

\* The locked circular array implements the drop-oldest queue: order, overflow
\* and batches are those of one atomic FIFO, however the threads interleave.
ImplementsQueue == Queue!QSpec
=============================================================================
