-------------------------- MODULE WorkerLoopProofs --------------------------
(***************************************************************************)
(* The worker's at-least-once guarantee, for every stream, batch size and *)
(* number of faults: the cursor never passes a hit that is not in the     *)
(* database, and a hit is counted at most once more than things failed.   *)
(***************************************************************************)
EXTENDS WorkerLoop, TLAPS

\* A line being appended is a line of the stream.
AppendFits == torn => written < Len(Stream)

\* The two copies of the offset agree between steps.
OffsetsAgree == cursor = committed

\* Outside a batch there is nothing in hand.
AtRest == pc \in {"poll", "down"} => pending = committed

\* While a batch is folded, each of its hits is in the database or its
\* tenant's transaction is still to come.
BatchCovered ==
    pc = "fold" =>
        \A i \in Batch : Stream[i].kind = "hit" => Stream[i].org \in todo \/ folds[i] >= 1

IInv ==
    /\ TypeOK
    /\ AppendFits
    /\ OnlyCompleteLines
    /\ OffsetsAgree
    /\ AtRest
    /\ BatchCovered
    /\ CursorNeverPassesUnfolded

USE StreamAssumption, BatchAssumption, FoldsAssumption, BoundAssumption

-----------------------------------------------------------------------------
\* The stream has a length, and its lines are its indices.
LEMMA StreamLength == Len(Stream) \in Nat
  OBVIOUS

\* An offset lies in the range a batch that starts at it may cover.
LEMMA OwnRange ==
  ASSUME NEW n \in Nat, NEW m \in Nat
  PROVE  n \in n..(n + m)
  OBVIOUS

\* The tenants of some lines of the stream are tenants of the stream.
LEMMA TenantsAreKnown ==
  ASSUME NEW lines \in SUBSET Line
  PROVE  TenantsOf(lines) \subseteq {Stream[i].org : i \in Line}
  BY DEF TenantsOf

\* A transaction only adds to the counts, by at most one, and only to hits of
\* its own tenant in the batch; it leaves each of them counted.
LEMMA FoldedCounts ==
  ASSUME TypeOK, NEW o
  PROVE  /\ Folded(o) \in [Line -> 0..MaxFolds]
         /\ \A i \in Line :
              /\ folds[i] <= Folded(o)[i]
              /\ Folded(o)[i] <= folds[i] + 1
              /\ i \notin RecordsOf(o) => Folded(o)[i] = folds[i]
              /\ i \in RecordsOf(o) /\ Stream[i].kind = "hit" => Folded(o)[i] >= 1
  <1> SUFFICES ASSUME NEW i \in Line
               PROVE  /\ Folded(o)[i] \in 0..MaxFolds
                      /\ folds[i] <= Folded(o)[i]
                      /\ Folded(o)[i] <= folds[i] + 1
                      /\ i \notin RecordsOf(o) => Folded(o)[i] = folds[i]
                      /\ i \in RecordsOf(o) /\ Stream[i].kind = "hit" => Folded(o)[i] >= 1
    BY DEF Folded
  <1>1. folds[i] \in 0..MaxFolds
    BY DEF TypeOK
  <1>2. Folded(o)[i] = IF i \in RecordsOf(o) /\ Stream[i].kind = "hit"
                       THEN Saturated(folds[i] + 1) ELSE folds[i]
    BY DEF Folded
  <1>3. /\ Saturated(folds[i] + 1) \in 1..MaxFolds
        /\ folds[i] <= Saturated(folds[i] + 1)
        /\ Saturated(folds[i] + 1) <= folds[i] + 1
    BY <1>1 DEF Saturated
  <1> QED
    BY <1>1, <1>2, <1>3

\* The lines of a batch are lines of the stream.
LEMMA BatchIsOfStream ==
  ASSUME TypeOK
  PROVE  Batch \subseteq Line
  BY StreamLength DEF TypeOK, Batch, Line

-----------------------------------------------------------------------------
\* An empty file, an empty database and a fresh worker.
LEMMA InitEstablishesIInv == WInit => IInv
  <1> SUFFICES ASSUME WInit PROVE IInv
    OBVIOUS
  <1>1. TypeOK
    <2>1. folds \in [Line -> 0..MaxFolds]
      BY DEF WInit
    <2>2. torn \in BOOLEAN /\ shutdown \in BOOLEAN
      BY DEF WInit
    <2>3. todo \subseteq {Stream[i].org : i \in Line}
      BY DEF WInit
    <2>4. /\ written \in 0..Len(Stream) /\ cursor \in 0..Len(Stream)
          /\ committed \in 0..Len(Stream)
          /\ pending \in committed..(committed + BatchSize) /\ pending <= Len(Stream)
          /\ crashes \in Nat /\ dbFaults \in Nat /\ diskFaults \in Nat /\ shutdowns \in Nat
      BY StreamLength DEF WInit
    <2>5. pc \in {"poll", "fold", "backoff", "down"}
      BY DEF WInit
    <2> QED
      BY <2>1, <2>2, <2>3, <2>4, <2>5 DEF TypeOK
  <1>2. AppendFits /\ OnlyCompleteLines /\ OffsetsAgree /\ AtRest
    BY DEF WInit, AppendFits, OnlyCompleteLines, OffsetsAgree, AtRest
  <1>3. BatchCovered
    BY DEF WInit, BatchCovered
  <1>4. CursorNeverPassesUnfolded
    BY StreamLength DEF WInit, CursorNeverPassesUnfolded, Line
  <1> QED
    BY <1>1, <1>2, <1>3, <1>4 DEF IInv

\* The gateway's appends only move the end of the file.
LEMMA AppendPreserves ==
  ASSUME IInv, AppendBegins \/ AppendEnds
  PROVE  IInv'
  <1>1. /\ UNCHANGED <<cursor, committed, pending, pc, todo, shutdown, folds, envVars>>
        /\ torn' \in BOOLEAN
    BY DEF AppendBegins, AppendEnds
  <1>2. /\ written' \in 0..Len(Stream)
        /\ written <= written'
        /\ torn' => written' < Len(Stream)
    <2>1. CASE AppendBegins
      BY <2>1, StreamLength DEF IInv, TypeOK, AppendBegins
    <2>2. CASE AppendEnds
      <3>1. written < Len(Stream) /\ written' = written + 1 /\ ~torn'
        BY <2>2 DEF IInv, AppendFits, AppendEnds
      <3> QED
        BY <3>1, StreamLength DEF IInv, TypeOK
    <2> QED
      BY <2>1, <2>2
  <1>3. TypeOK'
    BY <1>1, <1>2 DEF IInv, TypeOK, envVars
  <1>4. AppendFits' /\ OnlyCompleteLines' /\ OffsetsAgree' /\ AtRest'
    BY <1>1, <1>2, StreamLength
       DEF IInv, TypeOK, AppendFits, OnlyCompleteLines, OffsetsAgree, AtRest
  <1>5. BatchCovered' /\ CursorNeverPassesUnfolded'
    BY <1>1 DEF IInv, BatchCovered, Batch, CursorNeverPassesUnfolded
  <1> QED
    BY <1>3, <1>4, <1>5 DEF IInv

\* A poll takes lines that are complete, and every tenant of them is due.
LEMMA PollPreserves ==
  ASSUME IInv, Poll
  PROVE  IInv'
  <1>1. /\ pending' \in Nat
        /\ committed <= pending' /\ pending' <= committed + BatchSize
        /\ pending' <= written
    BY StreamLength DEF IInv, TypeOK, Poll
  <1>2. (committed + 1)..pending' \subseteq Line
    BY <1>1, StreamLength DEF IInv, TypeOK, Line
  <1>3. TypeOK'
    <2>1. todo' \subseteq {Stream[i].org : i \in Line}
      BY <1>2, TenantsAreKnown DEF Poll
    <2>2. pending' \in committed..(committed + BatchSize) /\ pending' <= Len(Stream)
      BY <1>1, StreamLength DEF IInv, TypeOK
    <2> QED
      BY <2>1, <2>2 DEF IInv, TypeOK, Poll, envVars
  <1>4. AppendFits' /\ OnlyCompleteLines' /\ OffsetsAgree' /\ AtRest'
    BY <1>1 DEF IInv, AppendFits, OnlyCompleteLines, OffsetsAgree, AtRest, Poll
  <1>5. BatchCovered'
    BY DEF Poll, BatchCovered, Batch, TenantsOf
  <1>6. CursorNeverPassesUnfolded'
    BY DEF IInv, CursorNeverPassesUnfolded, Poll
  <1> QED
    BY <1>3, <1>4, <1>5, <1>6 DEF IInv

\* A transaction that commits takes its tenant's hits off the list of those
\* still to come by putting them into the database.
LEMMA FoldPreserves ==
  ASSUME IInv, NEW o \in todo, FoldTenant(o)
  PROVE  IInv'
  <1>1. /\ folds' \in [Line -> 0..MaxFolds]
        /\ \A i \in Line :
             /\ folds[i] \in Nat /\ folds'[i] \in Nat
             /\ folds[i] <= folds'[i]
             /\ i \in RecordsOf(o) /\ Stream[i].kind = "hit" => folds'[i] >= 1
    BY FoldedCounts DEF IInv, TypeOK, FoldTenant
  <1>2. TypeOK'
    BY <1>1 DEF IInv, TypeOK, FoldTenant, envVars
  <1>3. AppendFits' /\ OnlyCompleteLines' /\ OffsetsAgree' /\ AtRest'
    BY DEF IInv, AppendFits, OnlyCompleteLines, OffsetsAgree, AtRest, FoldTenant
  <1>4. BatchCovered'
    <2> SUFFICES ASSUME NEW i \in Batch, Stream[i].kind = "hit", Stream[i].org \notin todo'
                 PROVE  folds'[i] >= 1
      BY DEF BatchCovered, Batch, FoldTenant
    <2>1. i \in Line
      BY BatchIsOfStream DEF IInv
    <2>2. CASE Stream[i].org = o
      BY <1>1, <2>1, <2>2 DEF RecordsOf
    <2>3. CASE Stream[i].org # o
      <3>1. folds[i] >= 1
        BY <2>3 DEF IInv, BatchCovered, FoldTenant
      <3> QED
        BY <3>1, <1>1, <2>1
    <2> QED
      BY <2>2, <2>3
  <1>5. CursorNeverPassesUnfolded'
    <2> SUFFICES ASSUME NEW i \in Line, i <= cursor, Stream[i].kind = "hit"
                 PROVE  folds'[i] >= 1
      BY DEF CursorNeverPassesUnfolded, FoldTenant
    <2>1. folds[i] >= 1
      BY DEF IInv, CursorNeverPassesUnfolded
    <2> QED
      BY <2>1, <1>1
  <1> QED
    BY <1>2, <1>3, <1>4, <1>5 DEF IInv

\* A transaction that raises leaves the batch to be retried; if the database
\* committed it all the same, that only adds counts.
LEMMA RaisePreserves ==
  ASSUME IInv, NEW o \in todo, FoldRaises(o)
  PROVE  IInv'
  <1>1. /\ folds' \in [Line -> 0..MaxFolds]
        /\ \A i \in Line : folds[i] \in Nat /\ folds'[i] \in Nat /\ folds[i] <= folds'[i]
    <2>1. folds' = folds \/ folds' = Folded(o)
      BY DEF FoldRaises
    <2>2. folds \in [Line -> 0..MaxFolds]
      BY DEF IInv, TypeOK
    <2>3. CASE folds' = folds
      BY <2>2, <2>3
    <2>4. CASE folds' = Folded(o)
      <3>1. TypeOK
        BY DEF IInv
      <3> QED
        BY <2>2, <2>4, <3>1, FoldedCounts
    <2> QED
      BY <2>1, <2>3, <2>4
  <1>2. dbFaults' \in Nat
    <2>1. dbFaults \in Nat
      BY DEF IInv, TypeOK
    <2>2. dbFaults' = dbFaults \/ dbFaults' = dbFaults + 1
      BY DEF FoldRaises
    <2> QED
      BY <2>1, <2>2
  <1>3. UNCHANGED <<written, torn, cursor, committed, pending, todo, shutdown,
                    crashes, diskFaults, shutdowns>> /\ pc' = "backoff"
    BY DEF FoldRaises
  <1>4. TypeOK'
    BY <1>1, <1>2, <1>3 DEF IInv, TypeOK
  <1>5. AppendFits' /\ OnlyCompleteLines' /\ OffsetsAgree' /\ AtRest' /\ BatchCovered'
    BY <1>3 DEF IInv, AppendFits, OnlyCompleteLines, OffsetsAgree, AtRest, BatchCovered
  <1>6. CursorNeverPassesUnfolded'
    <2> SUFFICES ASSUME NEW i \in Line, i <= cursor, Stream[i].kind = "hit"
                 PROVE  folds'[i] >= 1
      BY <1>3 DEF CursorNeverPassesUnfolded
    <2>1. folds[i] >= 1
      BY DEF IInv, CursorNeverPassesUnfolded
    <2> QED
      BY <2>1, <1>1
  <1> QED
    BY <1>4, <1>5, <1>6 DEF IInv

\* A retry takes up every tenant of the batch again.
LEMMA RetryPreserves ==
  ASSUME IInv, Retry
  PROVE  IInv'
  <1>1. todo' \subseteq {Stream[i].org : i \in Line}
    BY BatchIsOfStream, TenantsAreKnown DEF IInv, Retry
  <1>2. TypeOK'
    BY <1>1 DEF IInv, TypeOK, Retry, envVars
  <1>3. AppendFits' /\ OnlyCompleteLines' /\ OffsetsAgree' /\ AtRest'
    BY DEF IInv, AppendFits, OnlyCompleteLines, OffsetsAgree, AtRest, Retry
  <1>4. BatchCovered'
    BY DEF Retry, BatchCovered, Batch, TenantsOf
  <1>5. CursorNeverPassesUnfolded'
    BY DEF IInv, CursorNeverPassesUnfolded, Retry
  <1> QED
    BY <1>2, <1>3, <1>4, <1>5 DEF IInv

\* The cursor moves over a batch none of whose tenants is still to come.
LEMMA CommitPreserves ==
  ASSUME IInv, Commit
  PROVE  IInv'
  <1>1. TypeOK'
    <2>1. pending' \in committed'..(committed' + BatchSize) /\ pending' <= Len(Stream)
      BY StreamLength DEF IInv, TypeOK, Commit
    <2>2. cursor' \in 0..Len(Stream) /\ committed' \in 0..Len(Stream)
      BY StreamLength DEF IInv, TypeOK, Commit
    <2> QED
      BY <2>1, <2>2 DEF IInv, TypeOK, Commit, envVars
  <1>2. AppendFits' /\ OnlyCompleteLines' /\ OffsetsAgree' /\ AtRest' /\ BatchCovered'
    BY DEF IInv, AppendFits, OnlyCompleteLines, OffsetsAgree, AtRest, BatchCovered, Commit
  <1>3. CursorNeverPassesUnfolded'
    <2> SUFFICES ASSUME NEW i \in Line, i <= pending, Stream[i].kind = "hit"
                 PROVE  folds[i] >= 1
      BY DEF CursorNeverPassesUnfolded, Commit
    <2>1. CASE i <= cursor
      BY <2>1 DEF IInv, CursorNeverPassesUnfolded
    <2>2. CASE ~(i <= cursor)
      <3>1. i \in Batch
        BY <2>2, StreamLength DEF IInv, OffsetsAgree, TypeOK, Batch, Line
      <3> QED
        BY <3>1 DEF IInv, BatchCovered, Commit
    <2> QED
      BY <2>1, <2>2
  <1> QED
    BY <1>1, <1>2, <1>3 DEF IInv

\* A process that ends, however it ends, forgets only the batch in hand.
LEMMA EndPreserves ==
  ASSUME IInv, CommitFails \/ Stop \/ Crash
  PROVE  IInv'
  <1>1. Gone
    BY DEF CommitFails, Stop, Crash
  <1>2. crashes' \in Nat /\ dbFaults' \in Nat /\ diskFaults' \in Nat /\ shutdowns' \in Nat
    <2>1. crashes \in Nat /\ dbFaults \in Nat /\ diskFaults \in Nat /\ shutdowns \in Nat
      BY DEF IInv, TypeOK
    <2>2. /\ UNCHANGED <<dbFaults, shutdowns>>
          /\ crashes' = crashes \/ crashes' = crashes + 1
          /\ diskFaults' = diskFaults \/ diskFaults' = diskFaults + 1
      BY DEF CommitFails, Stop, Crash, envVars
    <2> QED
      BY <2>1, <2>2
  <1>3. TypeOK'
    <2>1. pending' \in committed'..(committed' + BatchSize) /\ pending' <= Len(Stream)
      BY <1>1, StreamLength DEF IInv, TypeOK, Gone
    <2>2. todo' \subseteq {Stream[i].org : i \in Line}
      BY <1>1 DEF Gone
    <2> QED
      BY <1>1, <1>2, <2>1, <2>2 DEF IInv, TypeOK, Gone
  <1>4. OnlyCompleteLines'
    BY <1>1, StreamLength DEF IInv, TypeOK, OnlyCompleteLines, Gone
  <1>5. AppendFits' /\ OffsetsAgree' /\ AtRest' /\ BatchCovered' /\ CursorNeverPassesUnfolded'
    BY <1>1 DEF IInv, AppendFits, OffsetsAgree, AtRest, BatchCovered,
       CursorNeverPassesUnfolded, Gone
  <1> QED
    BY <1>3, <1>4, <1>5 DEF IInv

\* A signal only raises the flag.
LEMMA SignalPreserves ==
  ASSUME IInv, RequestShutdown
  PROVE  IInv'
  <1>1. UNCHANGED <<written, torn, cursor, committed, pending, pc, todo, folds,
                    crashes, dbFaults, diskFaults>> /\ shutdown' = TRUE
    BY DEF RequestShutdown
  <1>2. shutdowns' \in Nat
    BY DEF IInv, TypeOK, RequestShutdown
  <1>3. TypeOK'
    BY <1>1, <1>2 DEF IInv, TypeOK
  <1>4. AppendFits' /\ OnlyCompleteLines' /\ OffsetsAgree' /\ AtRest'
    BY <1>1 DEF IInv, AppendFits, OnlyCompleteLines, OffsetsAgree, AtRest
  <1>5. BatchCovered' /\ CursorNeverPassesUnfolded'
    BY <1>1 DEF IInv, BatchCovered, Batch, CursorNeverPassesUnfolded
  <1> QED
    BY <1>3, <1>4, <1>5 DEF IInv

\* A new process resumes at the cursor, or from the beginning.
LEMMA StartPreserves ==
  ASSUME IInv, Start
  PROVE  IInv'
  <1>1. /\ UNCHANGED <<written, torn, todo, folds, crashes, dbFaults, shutdowns>>
        /\ pc' = "poll" /\ shutdown' = FALSE /\ pending' = committed' /\ committed' = cursor'
        /\ cursor' = cursor \/ cursor' = 0
        /\ diskFaults' = diskFaults \/ diskFaults' = diskFaults + 1
    BY DEF Start
  <1>2. cursor' \in 0..Len(Stream) /\ cursor' <= cursor
    BY <1>1, StreamLength DEF IInv, TypeOK
  <1>3. TypeOK'
    <2>0. pending' = cursor' /\ committed' = cursor'
      BY <1>1
    <2>1. pending' \in committed'..(committed' + BatchSize) /\ pending' <= Len(Stream)
      <3>1. cursor' \in Nat /\ cursor' <= Len(Stream) /\ BatchSize \in Nat
        BY <1>2, StreamLength
      <3>2. cursor' \in cursor'..(cursor' + BatchSize)
        BY <3>1, OwnRange
      <3> QED
        BY <2>0, <3>1, <3>2
    <2>2. diskFaults' \in Nat
      BY <1>1 DEF IInv, TypeOK
    <2>3. committed' \in 0..Len(Stream)
      BY <1>1, <1>2
    <2> QED
      BY <1>1, <1>2, <2>1, <2>2, <2>3 DEF IInv, TypeOK
  <1>4. OnlyCompleteLines'
    <2>1. cursor <= written
      BY StreamLength DEF IInv, TypeOK, OnlyCompleteLines, OffsetsAgree
    <2> QED
      BY <1>1, <1>2, <2>1, StreamLength DEF IInv, TypeOK, OnlyCompleteLines
  <1>5. AppendFits' /\ OffsetsAgree' /\ AtRest' /\ BatchCovered'
    BY <1>1 DEF IInv, AppendFits, OffsetsAgree, AtRest, BatchCovered
  <1>6. CursorNeverPassesUnfolded'
    <2> SUFFICES ASSUME NEW i \in Line, i <= cursor', Stream[i].kind = "hit"
                 PROVE  folds[i] >= 1
      BY <1>1 DEF CursorNeverPassesUnfolded
    <2>1. i <= cursor
      BY <1>2, StreamLength DEF IInv, TypeOK, Line
    <2> QED
      BY <2>1 DEF IInv, CursorNeverPassesUnfolded
  <1> QED
    BY <1>3, <1>4, <1>5, <1>6 DEF IInv

-----------------------------------------------------------------------------
\* The inductive invariant holds in every reachable state of the worker.
THEOREM Invariance == WSpec => []IInv
  <1>1. IInv /\ [WNext]_vars => IInv'
    <2> SUFFICES ASSUME IInv, [WNext]_vars PROVE IInv'
      OBVIOUS
    <2>1. CASE AppendBegins \/ AppendEnds
      BY <2>1, AppendPreserves
    <2>2. CASE Poll
      BY <2>2, PollPreserves
    <2>3. ASSUME NEW o \in todo, FoldTenant(o) PROVE IInv'
      BY <2>3, FoldPreserves
    <2>4. ASSUME NEW o \in todo, FoldRaises(o) PROVE IInv'
      BY <2>4, RaisePreserves
    <2>5. CASE Retry
      BY <2>5, RetryPreserves
    <2>6. CASE Commit
      BY <2>6, CommitPreserves
    <2>7. CASE CommitFails \/ Stop \/ Crash
      BY <2>7, EndPreserves
    <2>8. CASE RequestShutdown
      BY <2>8, SignalPreserves
    <2>9. CASE Start
      BY <2>9, StartPreserves
    <2>10. CASE PollNothing \/ UNCHANGED vars
      <3>1. UNCHANGED vars
        BY <2>10 DEF PollNothing
      <3> QED
        BY <3>1 DEF vars, envVars, IInv, TypeOK, AppendFits, OnlyCompleteLines, OffsetsAgree,
           AtRest, BatchCovered, Batch, CursorNeverPassesUnfolded
    <2> QED
      BY <2>1, <2>2, <2>3, <2>4, <2>5, <2>6, <2>7, <2>8, <2>9, <2>10 DEF WNext, Work
  <1> QED
    BY <1>1, InitEstablishesIInv, PTL DEF WSpec

\* The worker's variables keep their types, and a batch never exceeds
\* batch_size complete lines.
THEOREM TypeCorrect == WSpec => []TypeOK
  BY Invariance, PTL DEF IInv

\* commit() is safe where _run_loop calls it: whatever crashed, raised or was
\* replayed, no hit below the persisted cursor is missing from the database.
THEOREM CursorIsSafe == WSpec => []CursorNeverPassesUnfolded
  BY Invariance, PTL DEF IInv

\* _read_batch never hands out a line the gateway has not finished.
THEOREM LinesAreComplete == WSpec => []OnlyCompleteLines
  BY Invariance, PTL DEF IInv

-----------------------------------------------------------------------------
(***************************************************************************)
(* How often a hit is counted.  A record beyond the cursor whose           *)
(* transaction is not part of the present attempt has been counted at most *)
(* once per failure; the attempt itself adds one.                          *)
(***************************************************************************)
Faults == crashes + dbFaults + diskFaults

Untouched(i) == i > cursor /\ (pc = "fold" => i > pending \/ Stream[i].org \in todo)

CountsByFault ==
    \A i \in Line : folds[i] <= 1 + Faults /\ (Untouched(i) => folds[i] <= Faults)

\* No record of the stream makes _apply raise anything but EventRejectedError.
PoisonFree == \A i \in Line : Stream[i].kind # "poison"

\* Every quantity the bound is about is a number.
LEMMA Numbers ==
  ASSUME TypeOK
  PROVE  /\ Faults \in Nat /\ cursor \in Nat /\ committed \in Nat /\ pending \in Nat
         /\ crashes \in Nat /\ dbFaults \in Nat /\ diskFaults \in Nat
         /\ committed <= pending
         /\ \A i \in Line : i \in Nat /\ i > 0 /\ folds[i] \in Nat
  BY StreamLength DEF TypeOK, Faults, Line

\* One more failure pays for one more count of every record.
LEMMA FaultPays ==
  ASSUME TypeOK, TypeOK', CountsByFault, Faults' = Faults + 1, folds' = folds
  PROVE  CountsByFault'
  BY Numbers DEF CountsByFault

\* A commit of tenant o's transaction, whether or not its answer arrives.
LEMMA AttemptCounts ==
  ASSUME IInv, CountsByFault, NEW o \in todo, pc = "fold", NEW i \in Line
  PROVE  /\ Folded(o)[i] <= 1 + Faults
         /\ i \notin RecordsOf(o) => Folded(o)[i] = folds[i]
  <1>1. TypeOK /\ cursor = committed
    BY DEF IInv, OffsetsAgree
  <1>2. Folded(o)[i] <= folds[i] + 1 /\ (i \notin RecordsOf(o) => Folded(o)[i] = folds[i])
    BY <1>1, FoldedCounts
  <1>3. Folded(o)[i] \in Nat
    BY <1>1, FoldedCounts
  <1>4. CASE i \notin RecordsOf(o)
    BY <1>2, <1>4 DEF CountsByFault
  <1>5. CASE i \in RecordsOf(o)
    <2>1. Untouched(i)
      BY <1>1, <1>5, Numbers DEF RecordsOf, Batch, Untouched
    <2>2. folds[i] <= Faults
      BY <2>1 DEF CountsByFault
    <2> QED
      BY <1>1, <1>2, <1>3, <2>2, Numbers
  <1> QED
    BY <1>2, <1>4, <1>5

\* Each step of the worker keeps the count within what has failed so far.
LEMMA StepCounts ==
  ASSUME PoisonFree, IInv, IInv', CountsByFault, [WNext]_vars
  PROVE  CountsByFault'
  <1>0. TypeOK /\ TypeOK' /\ cursor = committed
    BY DEF IInv, OffsetsAgree
  <1>1. CASE AppendBegins \/ AppendEnds \/ RequestShutdown \/ PollNothing \/ UNCHANGED vars
    <2>1. UNCHANGED <<cursor, pending, pc, todo, folds, crashes, dbFaults, diskFaults>>
      BY <1>1 DEF AppendBegins, AppendEnds, RequestShutdown, PollNothing, vars, envVars
    <2> QED
      BY <2>1 DEF CountsByFault, Untouched, Faults
  <1>2. CASE Poll
    <2>1. UNCHANGED <<cursor, folds, crashes, dbFaults, diskFaults>> /\ pc = "poll"
      BY <1>2 DEF Poll, envVars
    <2> QED
      BY <2>1 DEF CountsByFault, Untouched, Faults
  <1>3. ASSUME NEW o \in todo, FoldTenant(o) PROVE CountsByFault'
    <2>1. /\ UNCHANGED <<cursor, pending, pc, crashes, dbFaults, diskFaults>>
          /\ pc = "fold" /\ folds' = Folded(o) /\ todo' = todo \ {o}
      BY <1>3 DEF FoldTenant, envVars
    <2> SUFFICES ASSUME NEW i \in Line
                 PROVE  folds'[i] <= 1 + Faults /\ (Untouched(i)' => folds'[i] <= Faults)
      BY <2>1 DEF CountsByFault, Faults
    <2>2. folds'[i] <= 1 + Faults /\ (i \notin RecordsOf(o) => folds'[i] = folds[i])
      BY <2>1, AttemptCounts
    <2>3. ASSUME Untouched(i)' PROVE folds'[i] <= Faults
      <3>1. i > cursor /\ (i > pending \/ Stream[i].org \in todo \ {o})
        BY <2>1, <2>3 DEF Untouched
      <3>2. i \notin RecordsOf(o)
        BY <1>0, <3>1, Numbers DEF RecordsOf, Batch
      <3>3. Untouched(i)
        BY <3>1 DEF Untouched
      <3> QED
        BY <2>2, <3>2, <3>3 DEF CountsByFault
    <2> QED
      BY <2>2, <2>3
  <1>4. ASSUME NEW o \in todo, FoldRaises(o) PROVE CountsByFault'
    <2>1. Takes(o)
      BY BatchIsOfStream, <1>0 DEF PoisonFree, Takes, RecordsOf
    <2>2. /\ UNCHANGED <<cursor, pending, todo, crashes, diskFaults>>
          /\ pc = "fold" /\ pc' = "backoff" /\ dbFaults' = dbFaults + 1
          /\ folds' = folds \/ folds' = Folded(o)
      BY <1>4, <2>1 DEF FoldRaises
    <2>3. Faults' = Faults + 1
      BY <1>0, <2>2, Numbers DEF Faults
    <2>4. CASE folds' = folds
      BY <1>0, <2>3, <2>4, FaultPays
    <2>5. CASE folds' = Folded(o)
      <3>1. \A i \in Line : folds'[i] <= Faults'
        BY <1>0, <2>2, <2>3, <2>5, AttemptCounts, Numbers
      <3>2. \A i \in Line : folds'[i] \in Nat
        BY <1>0 DEF TypeOK
      <3> QED
        BY <1>0, <2>3, <3>1, <3>2, Numbers DEF CountsByFault
    <2> QED
      BY <2>2, <2>4, <2>5
  <1>5. CASE Retry \/ Stop
    <2>1. /\ UNCHANGED <<cursor, folds, crashes, dbFaults, diskFaults>>
          /\ pc # "fold"
      BY <1>5 DEF Retry, Stop, Gone, envVars
    <2> QED
      BY <2>1 DEF CountsByFault, Untouched, Faults
  <1>6. CASE Commit
    <2>1. /\ UNCHANGED <<folds, crashes, dbFaults, diskFaults>>
          /\ cursor' = pending /\ pc' = "poll"
      BY <1>6 DEF Commit, envVars
    <2>2. \A i \in Line : i > pending => Untouched(i)
      BY <1>0, Numbers DEF Untouched
    <2> QED
      BY <2>1, <2>2 DEF CountsByFault, Untouched, Faults
  <1>7. CASE CommitFails \/ Crash
    <2>1. Faults' = Faults + 1 /\ folds' = folds
      BY <1>0, <1>7, Numbers DEF CommitFails, Crash, Gone, Faults
    <2> QED
      BY <1>0, <2>1, FaultPays
  <1>8. CASE Start
    <2>1. CASE cursor' = cursor /\ diskFaults' = diskFaults
      <3>1. UNCHANGED <<cursor, folds, crashes, dbFaults, diskFaults>> /\ pc # "fold"
        BY <1>8, <2>1 DEF Start
      <3> QED
        BY <3>1 DEF CountsByFault, Untouched, Faults
    <2>2. CASE diskFaults' = diskFaults + 1
      <3>1. Faults' = Faults + 1 /\ folds' = folds
        BY <1>0, <1>8, <2>2, Numbers DEF Start, Faults
      <3> QED
        BY <1>0, <3>1, FaultPays
    <2> QED
      BY <1>8, <2>1, <2>2 DEF Start
  <1> QED
    BY <1>1, <1>2, <1>3, <1>4, <1>5, <1>6, <1>7, <1>8 DEF WNext, Work

\* A stream without a poison record is folded at least once and at most once
\* more than crashes, database faults and cursor faults together: an orderly
\* shutdown never causes a hit to be counted again.
THEOREM ReplaysAreBounded == WSpec => [](PoisonFree => ReplaysBounded)
  <1>1. WInit => (PoisonFree => CountsByFault)
    BY DEF WInit, CountsByFault, Untouched, Faults
  <1>2. IInv /\ IInv' /\ (PoisonFree => CountsByFault) /\ [WNext]_vars
          => (PoisonFree => CountsByFault)'
    BY StepCounts DEF PoisonFree, Line
  <1>3. IInv /\ (PoisonFree => CountsByFault) => (PoisonFree => ReplaysBounded)
    <2>1. ASSUME IInv, CountsByFault PROVE ReplaysBounded
      <3>1. TypeOK
        BY <2>1 DEF IInv
      <3> QED
        BY <2>1, <3>1, Numbers DEF CountsByFault, ReplaysBounded, Faults
    <2> QED
      BY <2>1
  <1> QED
    BY <1>1, <1>2, <1>3, Invariance, PTL DEF WSpec
=============================================================================
