-------------------------- MODULE RingBufferProofs --------------------------
(***************************************************************************)
(* The ring buffer's invariants for every number of threads, capacity,    *)
(* batch size and number of offers.                                       *)
(***************************************************************************)
EXTENDS RingBuffer, SequenceTheorems, TLAPS

(***************************************************************************)
(* The inductive invariant.  The accounting alone is not inductive: a     *)
(* drainer subtracts the count it fixed at lock time, so size must not    *)
(* have moved since, which is what mutual exclusion is for.               *)
(***************************************************************************)
PCByRole ==
    /\ \A p \in Producer : pc[p] \in ProducerPC
    /\ \A d \in Drainer : pc[d] \in DrainerPC

MutualExclusion == \A t \in Thread : pc[t] # "idle" <=> lock = t

StoringHasItem == \A p \in Producer : pc[p] = "store" => item[p] \in Item

CountFits ==
    \A d \in Drainer :
        pc[d] = "copy" => count[d] <= size /\ Len(batch[d]) <= count[d]

IInv ==
    /\ TypeOK
    /\ PCByRole
    /\ MutualExclusion
    /\ StoringHasItem
    /\ CountFits
    /\ LossIsVisible
    /\ AcceptedCoversStored

\* Index arithmetic of the circular array: the remainder is always an index.
LEMMA WrapIsIndex ==
    ASSUME NEW n \in Nat
    PROVE  n % Capacity \in Index
  BY CapacityAssumption DEF Index

\* In the second lap the remainder only has to lose one capacity.
Wrapped(n) == IF n < Capacity THEN n ELSE n - Capacity

LEMMA WrapOnce ==
    ASSUME NEW n \in 0..(2 * Capacity - 1)
    PROVE  n % Capacity = Wrapped(n)
  BY CapacityAssumption, SMTT(60) DEF Wrapped

(***************************************************************************)
(* Initial states and steps                                                *)
(***************************************************************************)
\* The freshly constructed buffer satisfies the inductive invariant.
LEMMA InitEstablishesIInv == RBInit => IInv
  BY CapacityAssumption, ThreadAssumption, MaxOffersAssumption
  DEF RBInit, IInv, TypeOK, PCByRole, MutualExclusion, StoringHasItem, CountFits,
      LossIsVisible, AcceptedCoversStored, ProducerPC, DrainerPC, Index, Thread, Cell

\* The index expressions of offer and drain are indices of the array.
LEMMA IndicesInRange ==
    ASSUME TypeOK, NEW n \in Nat
    PROVE  (head + n) % Capacity \in Index
  <1>1. head + n \in Nat
    BY CapacityAssumption DEF TypeOK, Index
  <1> QED  BY <1>1, WrapIsIndex

\* A step of an application thread inside offer preserves the invariant.
LEMMA ProducerStepPreserves ==
    ASSUME IInv, NEW p \in Producer, ProducerStep(p)
    PROVE  IInv'
  <1> USE CapacityAssumption, ThreadAssumption, NoItemAssumption, MaxOffersAssumption
  <1> USE DEF IInv, TypeOK, PCByRole, MutualExclusion, StoringHasItem, CountFits,
              LossIsVisible, AcceptedCoversStored, ProducerPC, DrainerPC, Thread, Cell
  <1>1. CASE OfferLocked(p)
    <2>1. TypeOK'
      BY <1>1 DEF OfferLocked, Item
    <2>2. (PCByRole /\ MutualExclusion)'
      BY <1>1 DEF OfferLocked
    <2>3. (StoringHasItem /\ CountFits)'
      BY <1>1 DEF OfferLocked, Item
    <2>4. (LossIsVisible /\ AcceptedCoversStored)'
      BY <1>1 DEF OfferLocked
    <2> QED  BY <2>1, <2>2, <2>3, <2>4
  <1>2. CASE OfferContended(p)
    BY <1>2 DEF OfferContended
  <1>3. CASE StoreOverOldest(p)
    <2>1. (head + 1) % Capacity \in Index
      BY IndicesInRange
    <2>2. head' \in Index /\ slots' \in [Index -> Cell]
      BY <1>3, <2>1 DEF StoreOverOldest
    <2>3. (LossIsVisible /\ AcceptedCoversStored)'
      BY <1>3 DEF StoreOverOldest
    <2>4. TypeOK'
      <3>1. dropped' \in Nat /\ accepted' \in Nat /\ arrived' \in Nat
        BY <1>3 DEF StoreOverOldest
      <3>2. pc' \in [Thread -> ProducerPC \cup DrainerPC]
        BY <1>3 DEF StoreOverOldest
      <3>3. UNCHANGED <<size, lock, item, batch, count, offered, handed>>
        BY <1>3 DEF StoreOverOldest
      <3> QED  BY <2>2, <3>1, <3>2, <3>3
    <2>5. (PCByRole /\ MutualExclusion /\ StoringHasItem /\ CountFits)'
      BY <1>3 DEF StoreOverOldest
    <2> QED  BY <2>3, <2>4, <2>5
  <1>4. CASE Store(p)
    <2>1. (head + size) % Capacity \in Index
      BY IndicesInRange
    <2>2. slots' \in [Index -> Cell]
      BY <1>4, <2>1 DEF Store
    <2>3. size' \in 0..Capacity /\ size' = size + 1
      BY <1>4 DEF Store
    <2>4. (LossIsVisible /\ AcceptedCoversStored)'
      BY <1>4 DEF Store
    <2>5. TypeOK'
      <3>1. accepted' \in Nat /\ arrived' \in Nat
        BY <1>4 DEF Store
      <3>2. pc' \in [Thread -> ProducerPC \cup DrainerPC]
        BY <1>4 DEF Store
      <3>3. UNCHANGED <<head, dropped, lock, item, batch, count, offered, handed>>
        BY <1>4 DEF Store
      <3> QED  BY <2>2, <2>3, <3>1, <3>2, <3>3
    <2>6. (PCByRole /\ MutualExclusion /\ StoringHasItem)'
      BY <1>4 DEF Store
    <2>7. CountFits'
      BY <1>4, <2>3 DEF Store
    <2> QED  BY <2>4, <2>5, <2>6, <2>7
  <1>5. CASE Unlock(p)
    BY <1>5 DEF Unlock
  <1> QED  BY <1>1, <1>2, <1>3, <1>4, <1>5 DEF ProducerStep

\* A step of a thread inside drain preserves the invariant.
LEMMA DrainerStepPreserves ==
    ASSUME IInv, NEW d \in Drainer, DrainerStep(d)
    PROVE  IInv'
  <1> USE CapacityAssumption, ThreadAssumption, NoItemAssumption, MaxBatchAssumption
  <1> USE DEF IInv, TypeOK, PCByRole, MutualExclusion, StoringHasItem, CountFits,
              LossIsVisible, AcceptedCoversStored, ProducerPC, DrainerPC, Thread
  <1>1. CASE DrainLock(d)
    BY <1>1 DEF DrainLock
  <1>2. CASE DrainCopy(d)
    <2> DEFINE i == (head + Len(batch[d])) % Capacity
    <2>1. i \in Index
      BY IndicesInRange
    <2>2. slots[i] \in Cell /\ slots' \in [Index -> Cell]
      BY <1>2, <2>1 DEF DrainCopy, Cell
    <2>3. batch' = [batch EXCEPT ![d] = Append(@, slots[i])]
      BY <1>2 DEF DrainCopy
    <2>4. batch' \in [Drainer -> Seq(Cell)]
      BY <2>2, <2>3
    <2>5. /\ Len(batch'[d]) = Len(batch[d]) + 1
          /\ \A e \in Drainer \ {d} : batch'[e] = batch[e]
      BY <2>2, <2>3
    <2>6. CountFits'
      BY <1>2, <2>5 DEF DrainCopy
    <2> QED  BY <1>2, <2>2, <2>4, <2>6 DEF DrainCopy
  <1>3. CASE DrainFinish(d)
    <2>1. (head + count[d]) % Capacity \in Index
      BY IndicesInRange
    <2>2. head' \in Index
      BY <1>3, <2>1 DEF DrainFinish
    <2>3. /\ handed' = handed \o batch[d] /\ Len(batch[d]) = count[d]
          /\ handed \in Seq(Cell)
          /\ batch[d] \in Seq(Cell)
      BY <1>3 DEF DrainFinish
    <2>4. /\ handed' \in Seq(Cell)
          /\ Len(handed') = Len(handed) + count[d]
      <3>1. /\ handed \o batch[d] \in Seq(Cell)
            /\ Len(handed \o batch[d]) = Len(handed) + Len(batch[d])
        BY <2>3, ConcatProperties
      <3> QED  BY <2>3, <3>1
    <2>5. size' \in 0..Capacity /\ size' = size - count[d]
      BY <1>3 DEF DrainFinish
    <2>6. (LossIsVisible /\ AcceptedCoversStored)'
      <3>1. size' + Len(handed') = size + Len(handed)
        <4>1. size \in Nat /\ count[d] \in Nat /\ Len(handed) \in Nat
          BY <2>3, LenProperties
        <4> QED  BY <2>4, <2>5, <4>1
      <3> QED  BY <1>3, <3>1, <2>4, <2>5 DEF DrainFinish
    <2>7. (PCByRole /\ MutualExclusion /\ StoringHasItem /\ CountFits)'
      BY <1>3 DEF DrainFinish
    <2>8. TypeOK'
      BY <1>3, <2>2, <2>4, <2>5 DEF DrainFinish
    <2> QED  BY <2>6, <2>7, <2>8
  <1>4. CASE Unlock(d)
    BY <1>4 DEF Unlock
  <1> QED  BY <1>1, <1>2, <1>3, <1>4 DEF DrainerStep

\* Every reachable state of the buffer satisfies the inductive invariant.
THEOREM Invariance == RBSpec => []IInv
  <1>1. IInv /\ [RBNext]_vars => IInv'
    <2> SUFFICES ASSUME IInv, [RBNext]_vars PROVE IInv'
      OBVIOUS
    <2>1. CASE RBNext
      BY <2>1, ProducerStepPreserves, DrainerStepPreserves DEF RBNext
    <2>2. CASE UNCHANGED vars
      BY <2>2 DEF vars, IInv, TypeOK, PCByRole, MutualExclusion, StoringHasItem,
         CountFits, LossIsVisible, AcceptedCoversStored
    <2> QED  BY <2>1, <2>2
  <1> QED  BY <1>1, InitEstablishesIInv, PTL DEF RBSpec

\* The Java types hold in every reachable state; in particular the buffer never
\* holds more than its capacity, whatever offer and drain calls interleave.
THEOREM TypeCorrect == RBSpec => []TypeOK
  BY Invariance, PTL DEF IInv

\* The heartbeat's drop count accounts for every event that is neither waiting
\* in the buffer nor handed to a drainer, for any number of threads.
THEOREM LossAlwaysVisible == RBSpec => []LossIsVisible
  BY Invariance, PTL DEF IInv

\* acceptedCount() bounds what was stored or handed out, and is itself bounded
\* by the offers that were decided.
THEOREM AcceptedAlwaysCovers == RBSpec => []AcceptedCoversStored
  BY Invariance, PTL DEF IInv

(***************************************************************************)
(* Refinement: the locked array implements the drop-oldest queue           *)
(***************************************************************************)
\* Two wrapped steps land where one wrapped step of their sum does.
LEMMA WrapTwice ==
    ASSUME NEW a \in Index, NEW m \in 0..Capacity, NEW n \in 0..Capacity,
           m + n <= Capacity
    PROVE  (((a + m) % Capacity) + n) % Capacity = (a + (m + n)) % Capacity
  <1>1. a + m \in 0..(2 * Capacity - 1) /\ a + (m + n) \in 0..(2 * Capacity - 1)
    BY CapacityAssumption DEF Index
  <1>2. (a + m) % Capacity = Wrapped(a + m)
    BY <1>1, WrapOnce
  <1>3. (a + (m + n)) % Capacity = Wrapped(a + (m + n))
    BY <1>1, WrapOnce
  <1>4. Wrapped(a + m) + n \in 0..(2 * Capacity - 1)
    BY CapacityAssumption DEF Index, Wrapped
  <1>5. (Wrapped(a + m) + n) % Capacity = Wrapped(Wrapped(a + m) + n)
    BY <1>4, WrapOnce
  <1>6. Wrapped(Wrapped(a + m) + n) = Wrapped(a + (m + n))
    BY CapacityAssumption DEF Index, Wrapped
  <1> QED  BY <1>2, <1>3, <1>5, <1>6

\* Different distances from the head are different cells of the array.
LEMMA WrapDistinct ==
    ASSUME NEW a \in Index, NEW i \in Index, NEW j \in Index, i # j
    PROVE  (a + i) % Capacity # (a + j) % Capacity
  <1>1. a + i \in 0..(2 * Capacity - 1) /\ a + j \in 0..(2 * Capacity - 1)
    BY CapacityAssumption DEF Index
  <1>2. (a + i) % Capacity = Wrapped(a + i) /\ (a + j) % Capacity = Wrapped(a + j)
    BY <1>1, WrapOnce
  <1>3. Wrapped(a + i) # Wrapped(a + j)
    BY CapacityAssumption DEF Index, Wrapped
  <1> QED  BY <1>2, <1>3

\* Nobody is inside drain's copy loop.
NoCopier == \A d \in Drainer : pc[d] # "copy"

\* What the abstract queue is, outside the copy loop and inside it: there, what
\* the one copier has already taken is still the front.
WindowFacts ==
    /\ Window = [k \in 1..size |-> WindowItem(k - 1)]
    /\ NoCopier => \A i \in Nat : WindowItem(i) = SlotAt(i)
    /\ \A d \in Drainer : pc[d] = "copy" =>
          \A i \in Nat : WindowItem(i) = IF i < Len(batch[d])
                                         THEN batch[d][i + 1]
                                         ELSE SlotAt(i)

LEMMA WindowIsFrontAndRest == IInv => WindowFacts
  <1> SUFFICES ASSUME IInv PROVE WindowFacts
    OBVIOUS
  <1>1. NoCopier => \A i \in Nat : WindowItem(i) = SlotAt(i)
    BY DEF NoCopier, WindowItem, Copied
  <1>2. ASSUME NEW d \in Drainer, pc[d] = "copy", NEW i \in Nat
        PROVE  WindowItem(i) = IF i < Len(batch[d]) THEN batch[d][i + 1] ELSE SlotAt(i)
    <2>1. \A e \in Drainer : e # d => Copied(e) = 0
      BY <1>2 DEF Copied, IInv, MutualExclusion, Thread
    <2>2. Copied(d) = Len(batch[d])
      BY <1>2 DEF Copied
    <2>3. CASE i < Len(batch[d])
      <3>1. \A e \in Drainer : i < Copied(e) <=> e = d
        BY <2>1, <2>2, <2>3
      <3>2. (CHOOSE e \in Drainer : i < Copied(e)) = d
        BY <3>1
      <3> QED  BY <2>3, <3>1, <3>2 DEF WindowItem
    <2>4. CASE ~ (i < Len(batch[d]))
      <3>1. ASSUME NEW e \in Drainer, i < Copied(e) PROVE FALSE
        <4>1. CASE e = d  BY <3>1, <4>1, <2>2, <2>4
        <4>2. CASE e # d  BY <3>1, <4>2, <2>1, <1>2
        <4> QED  BY <4>1, <4>2
      <3> QED  BY <2>4, <3>1 DEF WindowItem
    <2> QED  BY <2>3, <2>4
  <1>3. Window = [k \in 1..size |-> WindowItem(k - 1)]
    BY DEF Window
  <1> QED  BY <1>1, <1>2, <1>3 DEF WindowFacts

\* A thread that stores holds the lock, so no drainer is copying.
LEMMA StoringExcludesCopying ==
    ASSUME IInv, NEW t \in Thread, pc[t] # "idle", pc[t] # "copy"
    PROVE  NoCopier
  BY DEF IInv, MutualExclusion, NoCopier, Thread

\* The abstract queue is a sequence of cells, as long as the buffer's size says.
WindowTyped ==
    /\ Window \in Seq(Cell)
    /\ Len(Window) = size
    /\ \A k \in 1..size : Window[k] = WindowItem(k - 1)

LEMMA WindowIsSequence == IInv => WindowTyped
  <1> SUFFICES ASSUME IInv PROVE WindowTyped
    OBVIOUS
  <1>1. Window = [k \in 1..size |-> WindowItem(k - 1)] /\ size \in Nat
    BY CapacityAssumption DEF Window, IInv, TypeOK
  <1>2. ASSUME NEW k \in 1..size PROVE WindowItem(k - 1) \in Cell
    <2>1. k - 1 \in Nat
      BY <1>1, <1>2
    <2>2. SlotAt(k - 1) \in Cell
      BY <2>1, IndicesInRange DEF SlotAt, IInv, TypeOK
    <2>3. CASE NoCopier
      BY <2>1, <2>2, <2>3, WindowIsFrontAndRest DEF WindowFacts
    <2>4. ASSUME NEW d \in Drainer, pc[d] = "copy"
          PROVE  WindowItem(k - 1) \in Cell
      <3>1. WindowItem(k - 1) = IF k - 1 < Len(batch[d])
                                THEN batch[d][(k - 1) + 1]
                                ELSE SlotAt(k - 1)
        BY <2>1, <2>4, WindowIsFrontAndRest DEF WindowFacts
      <3>2. k - 1 < Len(batch[d]) => batch[d][(k - 1) + 1] \in Cell
        BY <2>1, ElementOfSeq DEF IInv, TypeOK
      <3> QED  BY <2>2, <3>1, <3>2
    <2> QED  BY <2>3, <2>4 DEF NoCopier
  <1>3. Window \in [1..size -> Cell]
    BY <1>1, <1>2
  <1>4. Window \in Seq(Cell) /\ Len(Window) = size
    BY <1>1, <1>3
  <1> QED  BY <1>1, <1>4 DEF WindowTyped

\* When the array, the head, the size and the copied front all stay, so does the
\* abstract queue: taking and giving back the lock are stutters.
LEMMA LockStutters ==
    ASSUME IInv, IInv', NoCopier, NoCopier', UNCHANGED <<slots, head, size>>
    PROVE  Window' = Window
  <1>1. WindowFacts /\ WindowFacts'
    BY WindowIsFrontAndRest, PTL
  <1>2. \A i \in Nat : WindowItem(i)' = WindowItem(i)
    BY <1>1 DEF WindowFacts, SlotAt
  <1>3. \A k \in 1..size : WindowItem(k - 1)' = WindowItem(k - 1)
    BY <1>2 DEF IInv, TypeOK
  <1> QED  BY <1>1, <1>3 DEF WindowFacts

\* The store in a full array: the newcomer takes the oldest event's cell.
LEMMA OverwriteMaps ==
    ASSUME IInv, IInv', NEW p \in Producer, StoreOverOldest(p)
    PROVE  Queue!PutDroppingOldest(item[p])
  <1>1. WindowFacts /\ WindowFacts' /\ WindowTyped /\ WindowTyped'
    BY WindowIsFrontAndRest, WindowIsSequence, PTL
  <1>2. NoCopier /\ NoCopier'
    BY StoringExcludesCopying, ThreadAssumption DEF StoreOverOldest, NoCopier, Thread
  <1>3. /\ head \in Index /\ size = Capacity /\ size' = Capacity
        /\ slots \in [Index -> Cell] /\ item[p] \in Cell
        /\ slots' = [slots EXCEPT ![head] = item[p]]
        /\ head' = (head + 1) % Capacity
    BY DEF StoreOverOldest, IInv, TypeOK
  <1>4. (head + 0) % Capacity = head
    <2>1. /\ head \in 0..(2 * Capacity - 1) /\ Wrapped(head) = head
          /\ head + 0 = head
      BY <1>3, CapacityAssumption DEF Index, Wrapped
    <2> QED  BY <2>1, WrapOnce
  <1>5. ASSUME NEW k \in 1..(Capacity - 1)
        PROVE  WindowItem(k - 1)' = WindowItem(k)
    <2>1. (head' + (k - 1)) % Capacity = (head + (1 + (k - 1))) % Capacity
      BY <1>3, WrapTwice, CapacityAssumption
    <2>2. k \in Index /\ 0 \in Index /\ k # 0 /\ k \in Nat
      BY CapacityAssumption DEF Index
    <2>3. (head + k) % Capacity # head
      BY <1>3, <1>4, <2>2, WrapDistinct
    <2>4. slots'[(head + k) % Capacity] = slots[(head + k) % Capacity]
      BY <1>3, <2>2, <2>3, IndicesInRange DEF IInv
    <2>5. 1 + (k - 1) = k /\ k - 1 \in Nat
      BY CapacityAssumption
    <2> QED  BY <1>1, <1>2, <2>1, <2>2, <2>4, <2>5 DEF WindowFacts, SlotAt
  <1>6. WindowItem(Capacity - 1)' = item[p]
    <2>1. (head' + (Capacity - 1)) % Capacity = (head + (1 + (Capacity - 1))) % Capacity
      BY <1>3, WrapTwice, CapacityAssumption
    <2>2. 1 + (Capacity - 1) = Capacity /\ Capacity - 1 \in Nat
      BY CapacityAssumption
    <2>3. (head + Capacity) % Capacity = head
      <3>1. head + Capacity \in 0..(2 * Capacity - 1) /\ Wrapped(head + Capacity) = head
        BY <1>3, CapacityAssumption DEF Index, Wrapped
      <3> QED  BY <3>1, WrapOnce
    <2> QED  BY <1>1, <1>2, <1>3, <2>1, <2>2, <2>3 DEF WindowFacts, SlotAt
  <1>7. Window' = Append(Tail(Window), item[p])
    <2>1. /\ Window # << >>
          /\ Tail(Window) \in Seq(Cell)
          /\ Len(Tail(Window)) = Capacity - 1
          /\ \A i \in 1..(Capacity - 1) : Tail(Window)[i] = WindowItem(i)
      <3>1. Window # << >>
        BY <1>1, <1>3, CapacityAssumption DEF WindowTyped
      <3>2. /\ Tail(Window) \in Seq(Cell)
            /\ Len(Tail(Window)) = Capacity - 1
            /\ \A i \in 1..(Capacity - 1) : Tail(Window)[i] = Window[i + 1]
        BY <1>1, <1>3, <3>1, HeadTailProperties DEF WindowTyped
      <3>3. \A i \in 1..(Capacity - 1) : Window[i + 1] = WindowItem(i)
        <4>1. \A i \in 1..(Capacity - 1) : i + 1 \in 1..Capacity /\ (i + 1) - 1 = i
          BY CapacityAssumption
        <4>2. \A k \in 1..Capacity : Window[k] = WindowItem(k - 1)
          BY <1>1, <1>3 DEF WindowTyped
        <4>3. \A i \in 1..(Capacity - 1) : Window[i + 1] = WindowItem((i + 1) - 1)
          BY <4>1, <4>2
        <4> QED  BY <4>1, <4>3
      <3> QED  BY <3>1, <3>2, <3>3
    <2> DEFINE after == Append(Tail(Window), item[p])
    <2>2. /\ after \in Seq(Cell)
          /\ Len(after) = Capacity
          /\ \A i \in 1..(Capacity - 1) : after[i] = WindowItem(i)
          /\ after[Capacity] = item[p]
      <3>1. /\ after \in Seq(Cell)
            /\ Len(after) = (Capacity - 1) + 1
            /\ \A i \in 1..(Capacity - 1) : after[i] = Tail(Window)[i]
            /\ after[(Capacity - 1) + 1] = item[p]
        BY <2>1, <1>3, AppendProperties
      <3> QED  BY <2>1, <3>1, CapacityAssumption
    <2>3. /\ Window' \in Seq(Cell)
          /\ Len(Window') = Capacity
          /\ \A k \in 1..Capacity : Window'[k] = WindowItem(k - 1)'
      BY <1>1, <1>3 DEF WindowTyped, Cell, Item
    <2>4. \A k \in 1..Capacity : Window'[k] = after[k]
      <3> SUFFICES ASSUME NEW k \in 1..Capacity PROVE Window'[k] = after[k]
        OBVIOUS
      <3>1. CASE k = Capacity
        BY <2>2, <2>3, <1>6, <3>1
      <3>2. CASE k # Capacity
        <4>1. k \in 1..(Capacity - 1)
          BY <3>2, CapacityAssumption
        <4> QED  BY <2>2, <2>3, <1>5, <4>1
      <3> QED  BY <3>1, <3>2
    <2> HIDE DEF after
    <2>5. Window' = after
      BY <2>2, <2>3, <2>4, SeqEqual
    <2> QED  BY <2>5 DEF after
  <1>8. Len(Window) = Capacity
    BY <1>1, <1>3 DEF WindowTyped
  <1> QED  BY <1>7, <1>8 DEF StoreOverOldest, Queue!PutDroppingOldest

\* The store with room left: the newcomer joins the end.
LEMMA StoreMaps ==
    ASSUME IInv, IInv', NEW p \in Producer, Store(p)
    PROVE  Queue!Put(item[p])
  <1>1. WindowFacts /\ WindowFacts' /\ WindowTyped /\ WindowTyped'
    BY WindowIsFrontAndRest, WindowIsSequence, PTL
  <1>2. NoCopier /\ NoCopier'
    BY StoringExcludesCopying, ThreadAssumption DEF Store, NoCopier, Thread
  <1>3. /\ head \in Index /\ size \in 0..(Capacity - 1) /\ size' = size + 1
        /\ slots \in [Index -> Cell] /\ item[p] \in Cell
        /\ slots' = [slots EXCEPT ![(head + size) % Capacity] = item[p]]
        /\ head' = head
    BY CapacityAssumption DEF Store, IInv, TypeOK
  <1>4. ASSUME NEW k \in 1..size
        PROVE  WindowItem(k - 1)' = WindowItem(k - 1)
    <2>1. /\ k - 1 \in Index /\ size \in Index /\ k - 1 # size
          /\ k - 1 \in Nat
      BY <1>3, CapacityAssumption DEF Index
    <2>2. (head + (k - 1)) % Capacity # (head + size) % Capacity
      BY <1>3, <2>1, WrapDistinct
    <2>3. slots'[(head + (k - 1)) % Capacity] = slots[(head + (k - 1)) % Capacity]
      BY <1>3, <2>1, <2>2, IndicesInRange DEF IInv
    <2> QED  BY <1>1, <1>2, <1>3, <2>1, <2>3 DEF WindowFacts, SlotAt
  <1>5. ASSUME NEW k \in Nat, k = size
        PROVE  WindowItem(k)' = item[p]
    <2>1. WindowItem(k)' = SlotAt(k)'
      BY <1>1, <1>2 DEF WindowFacts
    <2>2. (head + k) % Capacity \in Index
      BY <1>3, IndicesInRange DEF IInv
    <2> QED  BY <1>3, <1>5, <2>1, <2>2 DEF SlotAt
  <1>6. Window' = Append(Window, item[p])
    <2> DEFINE after == Append(Window, item[p])
    <2>1. /\ after \in Seq(Cell)
          /\ Len(after) = size + 1
          /\ \A k \in 1..size : after[k] = WindowItem(k - 1)
          /\ after[size + 1] = item[p]
      BY <1>1, <1>3, AppendProperties DEF WindowTyped
    <2>2. /\ Window' \in Seq(Cell)
          /\ Len(Window') = size + 1
          /\ \A k \in 1..(size + 1) : Window'[k] = WindowItem(k - 1)'
      BY <1>1, <1>3 DEF WindowTyped, Cell, Item
    <2>3. \A k \in 1..(size + 1) : Window'[k] = after[k]
      <3> SUFFICES ASSUME NEW k \in 1..(size + 1) PROVE Window'[k] = after[k]
        OBVIOUS
      <3>1. CASE k = size + 1
        <4>1. k - 1 \in Nat /\ k - 1 = size
          BY <1>3, <3>1, CapacityAssumption
        <4>2. WindowItem(k - 1)' = item[p]
          BY <4>1, <1>5
        <4> QED  BY <2>1, <2>2, <3>1, <4>2
      <3>2. CASE k # size + 1
        <4>1. k \in 1..size
          BY <3>2, <1>3, CapacityAssumption
        <4> QED  BY <2>1, <2>2, <1>4, <4>1
      <3> QED  BY <3>1, <3>2
    <2> HIDE DEF after
    <2>4. Window' = after
      BY <2>1, <2>2, <2>3, SeqEqual
    <2> QED  BY <2>4 DEF after
  <1>7. Len(Window) < Capacity
    BY <1>1, <1>3, CapacityAssumption DEF WindowTyped
  <1> QED  BY <1>6, <1>7 DEF Store, Queue!Put

\* The steps of offer, seen as steps of the queue: the store puts the event in,
\* at the cost of the oldest one when the array is full, a contended offer is
\* refused, and the rest is invisible.
LEMMA OfferMaps ==
    ASSUME IInv, IInv', NEW p \in Producer, ProducerStep(p)
    PROVE  [Queue!QNext]_(Queue!qvars)
  <1>1. WindowFacts /\ WindowFacts'
    BY WindowIsFrontAndRest, PTL
  <1>2. CASE OfferLocked(p)
    <2>1. NoCopier /\ NoCopier'
      BY <1>2, ThreadAssumption
      DEF OfferLocked, NoCopier, IInv, TypeOK, MutualExclusion, Thread
    <2>2. Window' = Window
      BY <1>2, <2>1, LockStutters DEF OfferLocked
    <2> QED  BY <1>2, <2>2 DEF OfferLocked, Queue!qvars
  <1>3. CASE OfferContended(p)
    <2>1. \A i \in Nat : WindowItem(i)' = WindowItem(i)
      BY <1>3 DEF OfferContended, WindowItem, SlotAt, Copied
    <2>2. Window' = Window
      <3>1. \A k \in 1..size : WindowItem(k - 1)' = WindowItem(k - 1)
        BY <2>1 DEF IInv, TypeOK
      <3> QED  BY <1>1, <1>3, <3>1 DEF WindowFacts, OfferContended
    <2>3. Queue!Refuse
      BY <1>3, <2>2 DEF OfferContended, Queue!Refuse
    <2> QED  BY <2>3 DEF Queue!QNext
  <1>4. CASE StoreOverOldest(p)
    <2>1. item[p] \in Item
      BY <1>4 DEF StoreOverOldest, IInv, StoringHasItem
    <2>2. Queue!PutDroppingOldest(item[p])
      BY <1>4, OverwriteMaps
    <2> QED  BY <2>1, <2>2 DEF Queue!QNext
  <1>5. CASE Store(p)
    <2>1. item[p] \in Item
      BY <1>5 DEF Store, IInv, StoringHasItem
    <2>2. Queue!Put(item[p])
      BY <1>5, StoreMaps
    <2> QED  BY <2>1, <2>2 DEF Queue!QNext
  <1>6. CASE Unlock(p)
    <2>1. NoCopier /\ NoCopier'
      BY <1>6, StoringExcludesCopying DEF Unlock, NoCopier, Thread, IInv, TypeOK
    <2>2. Window' = Window
      BY <1>6, <2>1, LockStutters DEF Unlock
    <2> QED  BY <1>6, <2>2 DEF Unlock, Queue!qvars
  <1> QED  BY <1>2, <1>3, <1>4, <1>5, <1>6 DEF ProducerStep

\* One turn of the copy loop moves an event from the array to the batch and
\* leaves the abstract queue as it was.
LEMMA CopyStutters ==
    ASSUME IInv, IInv', NEW d \in Drainer, DrainCopy(d)
    PROVE  Window' = Window
  <1> DEFINE n == Len(batch[d])
             index == (head + n) % Capacity
  <1>1. WindowFacts /\ WindowFacts'
    BY WindowIsFrontAndRest, PTL
  <1>2. /\ head \in Index /\ size \in 0..Capacity /\ slots \in [Index -> Cell]
        /\ batch \in [Drainer -> Seq(Cell)]
        /\ n \in Nat /\ n < size
        /\ pc[d] = "copy" /\ pc'[d] = "copy"
        /\ UNCHANGED <<head, size>>
        /\ batch' = [batch EXCEPT ![d] = Append(@, slots[index])]
        /\ slots' = [slots EXCEPT ![index] = NoItem]
    <2>1. batch[d] \in Seq(Cell)
      BY DEF IInv, TypeOK
    <2>2. n \in Nat
      BY <2>1, LenProperties
    <2>3. n < count[d] /\ count[d] <= size /\ count[d] \in Nat /\ size \in 0..Capacity
      BY CapacityAssumption DEF DrainCopy, IInv, TypeOK, CountFits
    <2> QED  BY <2>2, <2>3, CapacityAssumption DEF DrainCopy, IInv, TypeOK
  <1>3. index \in Index
    BY <1>2, IndicesInRange DEF IInv
  <1>4. /\ Len(batch'[d]) = n + 1
        /\ \A i \in 1..n : batch'[d][i] = batch[d][i]
        /\ batch'[d][n + 1] = slots[index]
    <2>1. slots[index] \in Cell /\ batch[d] \in Seq(Cell)
      BY <1>2, <1>3
    <2>2. batch'[d] = Append(batch[d], slots[index])
      BY <1>2
    <2> HIDE DEF index
    <2> QED  BY <2>1, <2>2, AppendProperties
  <1>5. ASSUME NEW k \in 1..size
        PROVE  WindowItem(k - 1)' = WindowItem(k - 1)
    <2>1. k - 1 \in Nat /\ k - 1 \in Index /\ n \in Index
      BY <1>2, CapacityAssumption DEF Index
    <2>2. /\ WindowItem(k - 1) = IF k - 1 < n THEN batch[d][(k - 1) + 1]
                                              ELSE SlotAt(k - 1)
          /\ WindowItem(k - 1)' = IF k - 1 < n + 1 THEN batch'[d][(k - 1) + 1]
                                                   ELSE SlotAt(k - 1)'
      BY <1>1, <1>2, <1>4, <2>1 DEF WindowFacts
    <2>3. CASE k - 1 < n
      <3>1. (k - 1) + 1 \in 1..n /\ k - 1 < n + 1
        BY <2>3, <1>2
      <3> QED  BY <2>2, <2>3, <3>1, <1>4
    <2>4. CASE k - 1 = n
      <3>1. (k - 1) + 1 = n + 1 /\ k - 1 < n + 1 /\ ~ (k - 1 < n)
        BY <2>4, <1>2
      <3>2. SlotAt(k - 1) = slots[index]
        BY <2>4 DEF SlotAt
      <3> QED  BY <2>2, <3>1, <3>2, <1>4
    <2>5. CASE k - 1 > n
      <3>1. ~ (k - 1 < n) /\ ~ (k - 1 < n + 1) /\ k - 1 # n
        BY <2>5, <1>2
      <3>2. (head + (k - 1)) % Capacity # index
        BY <1>2, <2>1, <3>1, WrapDistinct
      <3>3. (head + (k - 1)) % Capacity \in Index
        BY <2>1, IndicesInRange DEF IInv
      <3>4. SlotAt(k - 1)' = SlotAt(k - 1)
        BY <1>2, <3>2, <3>3 DEF SlotAt
      <3> QED  BY <2>2, <3>1, <3>4
    <2> QED  BY <1>2, <2>3, <2>4, <2>5
  <1> QED  BY <1>1, <1>2, <1>5 DEF WindowFacts

\* The end of the loop: the batch is the front of the abstract queue, and what
\* the array still holds is the rest.
LEMMA FinishTakesOldest ==
    ASSUME IInv, IInv', NEW d \in Drainer, DrainFinish(d)
    PROVE  count[d] \in 0..size /\ Len(Window) = size /\ Queue!TakeOldest(count[d])
  <1> DEFINE n == count[d]
  <1>1. WindowFacts /\ WindowFacts' /\ WindowTyped /\ WindowTyped'
    BY WindowIsFrontAndRest, WindowIsSequence, PTL
  <1>2. /\ head \in Index /\ size \in 0..Capacity /\ slots \in [Index -> Cell]
        /\ batch[d] \in Seq(Cell) /\ handed \in Seq(Cell)
        /\ n \in 0..size /\ Len(batch[d]) = n
        /\ pc[d] = "copy" /\ slots' = slots
        /\ head' = (head + n) % Capacity /\ size' = size - n
        /\ handed' = handed \o batch[d]
    BY CapacityAssumption DEF DrainFinish, IInv, TypeOK, CountFits
  <1>3. NoCopier'
    BY DEF DrainFinish, NoCopier, IInv, TypeOK, MutualExclusion, Thread
  <1>4. batch[d] = SubSeq(Window, 1, n)
    <2>1. /\ SubSeq(Window, 1, n) \in Seq(Cell)
          /\ Len(SubSeq(Window, 1, n)) = n
          /\ \A i \in 1..n : SubSeq(Window, 1, n)[i] = Window[i]
      <3>1. \A i \in 1..n : Window[i] \in Cell
        BY <1>1, <1>2, ElementOfSeq DEF WindowTyped
      <3>2. /\ SubSeq(Window, 1, n) \in Seq(Cell)
            /\ Len(SubSeq(Window, 1, n)) = IF 1 <= n THEN n - 1 + 1 ELSE 0
            /\ \A i \in 1..(n - 1 + 1) : SubSeq(Window, 1, n)[i] = Window[1 + i - 1]
        BY <1>2, <3>1, SubSeqProperties
      <3> QED  BY <1>2, <3>2
    <2>2. \A i \in 1..n : Window[i] = batch[d][i]
      <3> SUFFICES ASSUME NEW i \in 1..n PROVE Window[i] = batch[d][i]
        OBVIOUS
      <3>1. i \in 1..size /\ i - 1 \in Nat /\ i - 1 < n /\ (i - 1) + 1 = i
        BY <1>2
      <3> QED  BY <1>1, <1>2, <3>1 DEF WindowFacts, WindowTyped
    <2> QED  BY <1>2, <2>1, <2>2, SeqEqual
  <1>5. Window' = SubSeq(Window, n + 1, size)
    <2> DEFINE rest == SubSeq(Window, n + 1, size)
    <2>1. /\ rest \in Seq(Cell)
          /\ Len(rest) = size - n
          /\ \A i \in 1..(size - n) : rest[i] = Window[n + i]
      <3>1. \A i \in (n + 1)..size : Window[i] \in Cell
        <4>1. \A i \in (n + 1)..size : i \in 1..size
          BY <1>2
        <4> QED  BY <1>1, <4>1, ElementOfSeq DEF WindowTyped
      <3>2. n + 1 \in Int /\ size \in Int
        BY <1>2
      <3> HIDE DEF n
      <3>3. /\ rest \in Seq(Cell)
            /\ Len(rest) = IF n + 1 <= size THEN size - (n + 1) + 1 ELSE 0
            /\ \A i \in 1..(size - (n + 1) + 1) : rest[i] = Window[(n + 1) + i - 1]
        BY <3>1, <3>2, SubSeqProperties
      <3>4. /\ size - (n + 1) + 1 = size - n
            /\ IF n + 1 <= size THEN size - (n + 1) + 1 = size - n ELSE size - n = 0
        BY <1>2
      <3>5. \A i \in 1..(size - n) : (n + 1) + i - 1 = n + i
        BY <1>2
      <3> QED  BY <3>3, <3>4, <3>5
    <2>2. /\ Window' \in Seq(Cell)
          /\ Len(Window') = size - n
          /\ \A k \in 1..(size - n) : Window'[k] = WindowItem(k - 1)'
      BY <1>1, <1>2 DEF WindowTyped, Cell, Item
    <2>3. ASSUME NEW k \in 1..(size - n)
          PROVE  Window'[k] = Window[n + k]
      <3>1. /\ k - 1 \in Nat /\ n + k \in 1..size /\ (n + k) - 1 \in Nat
            /\ ~ ((n + k) - 1 < n)
            /\ n + (k - 1) = (n + k) - 1
            /\ n \in 0..Capacity /\ k - 1 \in 0..Capacity
            /\ n + (k - 1) <= Capacity
        <4>1. n \in Nat /\ k \in Nat /\ size \in Nat /\ k >= 1 /\ k <= size - n
              /\ size <= Capacity
          BY <1>2, CapacityAssumption
        <4> HIDE DEF n
        <4> QED  BY <4>1, CapacityAssumption
      <3>2. WindowItem(k - 1)' = SlotAt(k - 1)'
        BY <1>1, <1>3, <3>1 DEF WindowFacts
      <3>3. (head' + (k - 1)) % Capacity = (head + ((n + k) - 1)) % Capacity
        BY <1>2, <3>1, WrapTwice
      <3>4. SlotAt(k - 1)' = SlotAt((n + k) - 1)
        BY <1>2, <3>3 DEF SlotAt
      <3>5. WindowItem((n + k) - 1) = SlotAt((n + k) - 1)
        BY <1>1, <1>2, <3>1 DEF WindowFacts
      <3> QED  BY <1>1, <2>2, <3>1, <3>2, <3>4, <3>5 DEF WindowTyped
    <2>4. \A k \in 1..(size - n) : Window'[k] = rest[k]
      BY <2>1, <2>3
    <2> HIDE DEF rest
    <2>5. Window' = rest
      BY <1>2, <2>1, <2>2, <2>4, SeqEqual
    <2> QED  BY <2>5 DEF rest
  <1>6. Len(Window) = size
    BY <1>1 DEF WindowTyped
  <1> QED  BY <1>2, <1>4, <1>5, <1>6 DEF DrainFinish, Queue!TakeOldest

\* The steps of drain, seen as steps of the queue: only the end of the copy loop
\* is visible, and there the caller takes the oldest events in one go.
LEMMA DrainMaps ==
    ASSUME IInv, IInv', NEW d \in Drainer, DrainerStep(d)
    PROVE  [Queue!QNext]_(Queue!qvars)
  <1>1. CASE DrainLock(d)
    <2>1. WindowFacts /\ WindowFacts'
      BY WindowIsFrontAndRest, PTL
    <2>2. NoCopier
      BY <1>1, ThreadAssumption
      DEF DrainLock, NoCopier, IInv, TypeOK, MutualExclusion, Thread
    <2>3. pc'[d] = "copy" /\ Len(batch'[d]) = 0
      BY <1>1 DEF DrainLock, IInv, TypeOK, Thread
    <2>4. \A i \in Nat : WindowItem(i)' = SlotAt(i)' /\ SlotAt(i)' = SlotAt(i)
      BY <1>1, <2>1, <2>3 DEF WindowFacts, DrainLock, SlotAt
    <2>5. \A k \in 1..size : WindowItem(k - 1)' = WindowItem(k - 1)
      BY <2>1, <2>2, <2>4 DEF WindowFacts, IInv, TypeOK
    <2>6. Window' = Window
      BY <1>1, <2>1, <2>5 DEF WindowFacts, DrainLock
    <2> QED  BY <1>1, <2>6 DEF DrainLock, Queue!qvars
  <1>2. CASE DrainCopy(d)
    BY <1>2, CopyStutters DEF DrainCopy, Queue!qvars
  <1>3. CASE DrainFinish(d)
    <2>1. count[d] \in 0..size /\ Len(Window) = size /\ Queue!TakeOldest(count[d])
      BY <1>3, FinishTakesOldest
    <2>2. CASE count[d] = 0
      <3>1. Window \in Seq(Cell) /\ handed \in Seq(Cell)
        BY WindowIsSequence DEF WindowTyped, IInv, TypeOK
      <3>2. SubSeq(Window, 1, 0) = << >> /\ SubSeq(Window, 1, Len(Window)) = Window
        BY <3>1, SubSeqEmpty, SubSeqFull
      <3>3. Window' = Window
        BY <2>1, <2>2, <3>2 DEF Queue!TakeOldest
      <3>4. handed' = handed
        BY <2>1, <2>2, <3>1, <3>2, ConcatEmptySeq DEF Queue!TakeOldest
      <3> QED  BY <2>1, <3>3, <3>4 DEF Queue!TakeOldest, Queue!qvars
    <2>3. CASE count[d] # 0
      <3>1. count[d] \in 1..Len(Window)
        BY <2>1, <2>3 DEF IInv, TypeOK
      <3> QED  BY <2>1, <3>1 DEF Queue!QNext
    <2> QED  BY <2>2, <2>3
  <1>4. CASE Unlock(d)
    <2>1. NoCopier /\ NoCopier'
      BY <1>4, StoringExcludesCopying DEF Unlock, NoCopier, Thread, IInv, TypeOK
    <2>2. Window' = Window
      BY <1>4, <2>1, LockStutters DEF Unlock
    <2> QED  BY <1>4, <2>2 DEF Unlock, Queue!qvars
  <1> QED  BY <1>1, <1>2, <1>3, <1>4 DEF DrainerStep

\* The empty array is the empty queue, and every step of the buffer is a step of
\* the queue or invisible to it: for any number of threads, any capacity and any
\* batch size, offer and drain are the atomic operations of a drop-oldest FIFO.
THEOREM BufferImplementsQueue == RBSpec => ImplementsQueue
  <1>1. RBInit => Queue!QInit
    <2> SUFFICES ASSUME RBInit PROVE Queue!QInit
      OBVIOUS
    <2>1. Window = << >>
      BY DEF RBInit, Window
    <2> QED  BY <2>1 DEF RBInit, Queue!QInit
  <1>2. IInv /\ IInv' /\ [RBNext]_vars => [Queue!QNext]_(Queue!qvars)
    <2> SUFFICES ASSUME IInv, IInv', [RBNext]_vars
                 PROVE  [Queue!QNext]_(Queue!qvars)
      OBVIOUS
    <2>1. CASE RBNext
      BY <2>1, OfferMaps, DrainMaps DEF RBNext
    <2>2. CASE UNCHANGED vars
      <3>1. Window' = Window
        BY <2>2 DEF vars, Window, WindowItem, SlotAt, Copied
      <3> QED  BY <2>2, <3>1 DEF vars, Queue!qvars
    <2> QED  BY <2>1, <2>2
  <1> QED  BY <1>1, <1>2, Invariance, PTL DEF RBSpec, ImplementsQueue, Queue!QSpec
=============================================================================
