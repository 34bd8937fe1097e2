-------------------------- MODULE DropOldestQueue --------------------------
(***************************************************************************)
(* What the queue between the application threads and the reporting       *)
(* thread promises (BoundedRingBuffer.java): a FIFO of at most Capacity   *)
(* events whose producers never wait.  When it is full the OLDEST event   *)
(* goes; when a producer cannot get in at once its own event goes.  Both  *)
(* losses are counted, nothing else is ever lost, and what is taken is a  *)
(* prefix of the queue, oldest first.                                     *)
(***************************************************************************)
EXTENDS Naturals, Sequences

CONSTANTS Item, Capacity

VARIABLES
    queue,      \* what is waiting, oldest first
    lost,       \* how many events were discarded, the count a heartbeat shows
    out         \* everything ever taken, in the order it was taken

qvars == <<queue, lost, out>>

QInit ==
    /\ queue = << >>
    /\ lost = 0
    /\ out = << >>

\* Room for one more: the event joins the end of the queue.
Put(x) ==
    /\ Len(queue) < Capacity
    /\ queue' = Append(queue, x)
    /\ UNCHANGED <<lost, out>>

\* No room: the oldest event makes way, and the loss is counted.
PutDroppingOldest(x) ==
    /\ Len(queue) = Capacity
    /\ queue' = Append(Tail(queue), x)
    /\ lost' = lost + 1
    /\ UNCHANGED out

\* The producer could not get in without waiting: its own event is the loss.
Refuse ==
    /\ lost' = lost + 1
    /\ UNCHANGED <<queue, out>>

\* The consumer takes the n oldest events in one go.
TakeOldest(n) ==
    /\ out' = out \o SubSeq(queue, 1, n)
    /\ queue' = SubSeq(queue, n + 1, Len(queue))
    /\ UNCHANGED lost

QNext ==
    \/ \E x \in Item : Put(x) \/ PutDroppingOldest(x)
    \/ Refuse
    \/ \E n \in 1..Len(queue) : TakeOldest(n)

QSpec == QInit /\ [][QNext]_qvars
============================================================================
