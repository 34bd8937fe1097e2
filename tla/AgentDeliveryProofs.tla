------------------------ MODULE AgentDeliveryProofs ------------------------
(***************************************************************************)
(* The delivery path's promises for every capacity, batch size, segment   *)
(* size and ceiling, and for every deployment: however many failed sends, *)
(* refusals, disk faults, crashes and exits it meets.                      *)
(***************************************************************************)
EXTENDS AgentDelivery, SequenceTheorems, FiniteSetTheorems, WellFoundedInduction, TLAPS

-----------------------------------------------------------------------------
(* What the variables hold                                                  *)

Label == {"idle", "drain", "send", "spool", "trim", "replay", "resend", "discard", "done"}
Segment == [id : Nat, lines : Seq(Nat)]

\* The fields of the Java classes, and the environment's counters.
TypeOK ==
    /\ deployment \in Deployments
    /\ queue \in Seq(Nat)
    /\ spool \in Seq(Segment)
    /\ disabled \in BOOLEAN
    /\ pc \in [Thread -> Label]
    /\ batch \in [Thread -> Seq(Nat)]
    /\ healthy \in [Thread -> BOOLEAN]
    /\ toReplay \in [Thread -> Seq(Nat)]
    /\ replayed \in [Thread -> Nat]
    /\ lines \in [Thread -> Seq(Nat)]
    /\ mode \in {"up", "stopping", "down"}
    /\ nextSegment \in Nat /\ reported \in Nat
    /\ outages \in Nat /\ refusals \in Nat /\ faults \in Nat /\ crashes \in Nat
    /\ shutdowns \in Nat

\* Where a thread can be: the daemon never ends, the hook runs only in an exit,
\* a batch is in hand between drain and spool, a segment only in the replay.
ControlOK ==
    /\ pc[Daemon] # "done"
    /\ mode # "stopping" => pc[Hook] = "idle"
    /\ mode = "stopping" => shutdowns > 0
    /\ \A t \in Thread : pc[t] \notin {"send", "spool"} => batch[t] = << >>
    /\ \A t \in Thread : pc[t] \in {"resend", "discard"} => toReplay[t] # << >>

\* Sizes: the queue and a batch never exceed what they are configured to.
SizesOK ==
    /\ Len(queue) <= Capacity
    /\ \A t \in Thread : Len(batch[t]) <= BatchSize

\* The first n of a queue and the rest of it.
LEMMA SplitSeq ==
    ASSUME NEW S, NEW s \in Seq(S), NEW n \in 0..Len(s)
    PROVE  /\ SubSeq(s, 1, n) \in Seq(S) /\ Len(SubSeq(s, 1, n)) = n
           /\ \A i \in 1..n : SubSeq(s, 1, n)[i] = s[i]
           /\ SubSeq(s, n + 1, Len(s)) \in Seq(S)
           /\ Len(SubSeq(s, n + 1, Len(s))) = Len(s) - n
           /\ \A i \in 1..(Len(s) - n) : SubSeq(s, n + 1, Len(s))[i] = s[n + i]
  <1>1. Len(s) \in Nat /\ \A i \in 1..Len(s) : s[i] \in S
    BY ElementOfSeq, LenProperties
  <1>2. /\ SubSeq(s, 1, n) \in Seq(S)
        /\ Len(SubSeq(s, 1, n)) = IF 1 <= n THEN n - 1 + 1 ELSE 0
        /\ \A i \in 1..(n - 1 + 1) : SubSeq(s, 1, n)[i] = s[1 + i - 1]
    <2>1. \A i \in 1..n : s[i] \in S
      BY <1>1
    <2> QED  BY <1>1, <2>1, SubSeqProperties
  <1>3. /\ SubSeq(s, n + 1, Len(s)) \in Seq(S)
        /\ Len(SubSeq(s, n + 1, Len(s)))
               = IF n + 1 <= Len(s) THEN Len(s) - (n + 1) + 1 ELSE 0
        /\ \A i \in 1..(Len(s) - (n + 1) + 1) :
               SubSeq(s, n + 1, Len(s))[i] = s[(n + 1) + i - 1]
    <2>1. n + 1 \in Int /\ Len(s) \in Int /\ \A i \in (n + 1)..Len(s) : s[i] \in S
      BY <1>1
    <2> HIDE <1>1
    <2> QED  BY <2>1, SubSeqProperties
  <1>4. Len(SubSeq(s, 1, n)) = n /\ \A i \in 1..n : SubSeq(s, 1, n)[i] = s[i]
    <2>1. \A i \in 1..n : i \in 1..(n - 1 + 1) /\ 1 + i - 1 = i
      BY <1>1
    <2>2. IF 1 <= n THEN n - 1 + 1 = n ELSE n = 0
      BY <1>1
    <2> QED  BY <1>2, <2>1, <2>2
  <1>5. /\ Len(SubSeq(s, n + 1, Len(s))) = Len(s) - n
        /\ \A i \in 1..(Len(s) - n) : SubSeq(s, n + 1, Len(s))[i] = s[n + i]
    <2>1. \A i \in 1..(Len(s) - n) : i \in 1..(Len(s) - (n + 1) + 1) /\ (n + 1) + i - 1 = n + i
      BY <1>1
    <2>2. IF n + 1 <= Len(s) THEN Len(s) - (n + 1) + 1 = Len(s) - n ELSE Len(s) - n = 0
      BY <1>1
    <2> QED  BY <1>3, <2>1, <2>2
  <1> QED  BY <1>2, <1>3, <1>4, <1>5

\* What a file holds is a list of lines, whether or not it is there.
LEMMA LinesOfTyped ==
    ASSUME spool \in Seq(Segment), NEW id
    PROVE  LinesOf(id) \in Seq(Nat)
  <1>1. CASE OnDisk(id)
    <2>1. Position(id) \in DOMAIN spool
      BY <1>1 DEF OnDisk, Position
    <2>2. spool[Position(id)] \in Segment
      BY <2>1
    <2> QED  BY <1>1, <2>2 DEF LinesOf, Segment
  <1>2. CASE ~ OnDisk(id)
    BY <1>2 DEF LinesOf
  <1> QED  BY <1>1, <1>2

\* Deleting one file leaves the others as they were, in their order.
LEMMA RemoveAtProperties ==
    ASSUME NEW S, NEW s \in Seq(S), NEW k \in DOMAIN s
    PROVE  /\ RemoveAt(s, k) \in Seq(S)
           /\ Len(RemoveAt(s, k)) = Len(s) - 1
           /\ \A i \in 1..(Len(s) - 1) :
                  RemoveAt(s, k)[i] = IF i < k THEN s[i] ELSE s[i + 1]
  <1> DEFINE left == SubSeq(s, 1, k - 1)
             right == SubSeq(s, k + 1, Len(s))
  <1>1. /\ Len(s) \in Nat /\ k \in 1..Len(s)
        /\ k - 1 \in 0..Len(s) /\ k \in 0..Len(s)
    BY LenProperties
  <1>2. /\ left \in Seq(S) /\ Len(left) = k - 1
        /\ \A i \in 1..(k - 1) : left[i] = s[i]
    BY <1>1, SplitSeq
  <1>3. /\ right \in Seq(S) /\ Len(right) = Len(s) - k
        /\ \A i \in 1..(Len(s) - k) : right[i] = s[k + i]
    BY <1>1, SplitSeq
  <1> HIDE DEF left, right
  <1>4. /\ left \o right \in Seq(S)
        /\ Len(left \o right) = Len(left) + Len(right)
        /\ \A i \in 1..(Len(left) + Len(right)) :
               (left \o right)[i] = IF i <= Len(left) THEN left[i] ELSE right[i - Len(left)]
    BY <1>2, <1>3, ConcatProperties
  <1>5. Len(left) + Len(right) = Len(s) - 1
    BY <1>1, <1>2, <1>3
  <1>6. ASSUME NEW i \in 1..(Len(s) - 1)
        PROVE  (left \o right)[i] = IF i < k THEN s[i] ELSE s[i + 1]
    <2>1. (left \o right)[i] = IF i <= Len(left) THEN left[i] ELSE right[i - Len(left)]
      BY <1>4, <1>5
    <2>2. CASE i < k
      <3>1. i \in 1..(k - 1) /\ i <= Len(left)
        BY <1>1, <1>2, <2>2
      <3> QED  BY <1>2, <2>1, <2>2, <3>1
    <2>3. CASE ~ (i < k)
      <3>1. /\ ~ (i <= Len(left)) /\ ~ (i < k)
            /\ i - Len(left) \in 1..(Len(s) - k) /\ k + (i - Len(left)) = i + 1
        BY <1>1, <1>2, <2>3
      <3> QED  BY <1>3, <2>1, <3>1
    <2> QED  BY <2>2, <2>3
  <1>7. RemoveAt(s, k) = left \o right
    BY DEF RemoveAt, left, right
  <1> QED  BY <1>4, <1>5, <1>6, <1>7

\* A POST, however it ends, touches the environment's books only.
Posting(t) ==
    \/ PostAccepted(Range(batch[t])) \/ PostRefused(Range(batch[t]))
    \/ PostAccepted(Range(lines[t])) \/ PostRefused(Range(lines[t]))
    \/ PostFailed(Range(batch[t])) \/ PostFailed(Range(lines[t]))

LEMMA PostingTyped ==
    ASSUME TypeOK, NEW t \in Thread, Posting(t)
    PROVE  /\ outages' \in Nat /\ refusals' \in Nat
           /\ UNCHANGED <<faults, crashes, shutdowns, deployment>>
  <1>1. CASE PostAccepted(Range(batch[t])) \/ PostAccepted(Range(lines[t]))
    BY <1>1 DEF TypeOK, PostAccepted, envVars
  <1>2. CASE PostRefused(Range(batch[t])) \/ PostRefused(Range(lines[t]))
    BY <1>2 DEF TypeOK, PostRefused, envVars
  <1>3. CASE PostFailed(Range(batch[t])) \/ PostFailed(Range(lines[t]))
    BY <1>3 DEF TypeOK, PostFailed, envVars
  <1> QED  BY <1>1, <1>2, <1>3 DEF Posting

\* A set of numbers that is not empty has a smallest one.
LEMMA SmallestNumber ==
    ASSUME NEW T \in SUBSET Nat, T # {}
    PROVE  \E m \in T : \A n \in T : m <= n
  <1>1. PICK m \in T : \A n \in T : ~ (<<n, m>> \in OpToRel(<, Nat))
    BY NatLessThanWellFounded, WFMin
  <1>2. \A n \in T : ~ (n < m)
    BY <1>1 DEF OpToRel
  <1> QED  BY <1>2

\* A segment file has finitely many lines, and so has the spool.
LEMMA LinesOnFinite ==
    ASSUME NEW s \in Seq(Segment)
    PROVE  IsFiniteSet(LinesOn(s)) /\ Cardinality(LinesOn(s)) \in Nat
  <1> DEFINE f == [i \in 1..Len(s) |-> {i} \X DOMAIN s[i].lines]
             T == {{i} \X DOMAIN s[i].lines : i \in 1..Len(s)}
  <1>1. Len(s) \in Nat /\ DOMAIN s = 1..Len(s)
    BY LenProperties
  <1>2. f \in Surjection(1..Len(s), T)
    BY DEF Surjection
  <1>3. IsFiniteSet(T)
    <2> HIDE DEF f, T
    <2>1. IsFiniteSet(1..Len(s))
      BY <1>1, FS_Interval
    <2> QED  BY <1>2, <2>1, FS_Surjection
  <1>4. \A U \in T : IsFiniteSet(U)
    <2> SUFFICES ASSUME NEW i \in 1..Len(s)
                 PROVE  IsFiniteSet({i} \X DOMAIN s[i].lines)
      OBVIOUS
    <2>1. s[i].lines \in Seq(Nat)
      <3>1. s[i] \in Segment
        BY ElementOfSeq
      <3> QED  BY <3>1 DEF Segment
    <2>2. IsFiniteSet(DOMAIN s[i].lines)
      <3> DEFINE n == Len(s[i].lines)
      <3>1. DOMAIN s[i].lines = 1..n /\ n \in Nat
        BY <2>1, LenProperties
      <3> HIDE DEF n
      <3>2. IsFiniteSet(1..n)
        BY <3>1, FS_Interval
      <3> QED  BY <3>1, <3>2
    <2>3. IsFiniteSet({i})
      BY FS_Singleton
    <2> QED  BY <2>2, <2>3, FS_Product
  <1>5. LinesOn(s) = UNION T
    BY <1>1 DEF LinesOn
  <1> HIDE DEF T
  <1>6. IsFiniteSet(LinesOn(s))
    BY <1>3, <1>4, <1>5, FS_UNION
  <1> QED  BY <1>6, FS_CardinalityType

\* Dropping every segment fits any ceiling, so enforceCeiling has a place to cut:
\* what is left of it on is under the ceiling.
LEMMA TrimmedIsCut ==
    ASSUME spool \in Seq(Segment)
    PROVE  /\ Trimmed \in 1..(Len(spool) + 1)
           /\ SuffixWeight(Trimmed) <= MaxSpool
  <1> DEFINE cuts == {i \in 1..(Len(spool) + 1) : SuffixWeight(i) <= MaxSpool}
  <1>1. Len(spool) \in Nat
    BY LenProperties
  <1>2. \A i \in 1..(Len(spool) + 1) : SuffixWeight(i) \in Nat
    <2> SUFFICES ASSUME NEW i \in 1..(Len(spool) + 1) PROVE SuffixWeight(i) \in Nat
      OBVIOUS
    <2>1. i - 1 \in 0..Len(spool) /\ (i - 1) + 1 = i
      BY <1>1
    <2>2. SubSeq(spool, i, Len(spool)) \in Seq(Segment)
      BY <2>1, SplitSeq
    <2> QED  BY <2>2, LinesOnFinite DEF SuffixWeight
  <1>3. Len(spool) + 1 \in cuts
    <2>1. SubSeq(spool, Len(spool) + 1, Len(spool)) = << >>
      BY <1>1, SubSeqEmpty
    <2>2. LinesOn(<< >>) = {}
      BY DEF LinesOn
    <2>3. SuffixWeight(Len(spool) + 1) = 0
      BY <2>1, <2>2, FS_EmptySet DEF SuffixWeight
    <2>4. Len(spool) + 1 \in 1..(Len(spool) + 1) /\ 0 <= MaxSpool
      BY <1>1, SizesAssumption
    <2> QED  BY <2>3, <2>4, Zenon
  <1>4. PICK m \in cuts : \A n \in cuts : m <= n
    <2>1. cuts \in SUBSET Nat /\ cuts # {}
      BY <1>1, <1>3
    <2> HIDE DEF cuts
    <2> QED  BY <2>1, SmallestNumber
  <1>5. \A j \in 1..(m - 1) : SuffixWeight(j) > MaxSpool
    BY <1>1, <1>2, <1>4, SizesAssumption
  <1> QED  BY <1>4, <1>5 DEF Trimmed

\* The place of a file that is there.
LEMMA PositionIsThere ==
    ASSUME NEW id, OnDisk(id)
    PROVE  Position(id) \in DOMAIN spool /\ spool[Position(id)].id = id
  BY DEF OnDisk, Position

LEMMA TypeInit == Init => TypeOK
  <1> SUFFICES ASSUME Init PROVE TypeOK
    OBVIOUS
  <1>1. \A S : << >> \in Seq(S)
    BY EmptySeq
  <1>2. /\ pc \in [Thread -> Label] /\ healthy \in [Thread -> BOOLEAN]
        /\ disabled \in BOOLEAN
    BY Zenon DEF Init, Label
  <1>3. /\ batch \in [Thread -> Seq(Nat)] /\ toReplay \in [Thread -> Seq(Nat)]
        /\ lines \in [Thread -> Seq(Nat)]
    BY <1>1 DEF Init
  <1>4. replayed \in [Thread -> Nat]
    BY DEF Init
  <1> QED  BY <1>1, <1>2, <1>3, <1>4 DEF Init, TypeOK

LEMMA TypeStep ==
    ASSUME TypeOK, ControlOK, [Next]_vars
    PROVE  TypeOK'
  <1> USE DEF TypeOK
  <1> DEFINE none == [t \in Thread |-> << >>]
  <1>0. << >> \in Seq(Nat) /\ none \in [Thread -> Seq(Nat)]
    BY EmptySeq
  <1> HIDE DEF none
  <1>1. CASE Report
    <2>1. queue' \in Seq(Nat)
      <3>1. reported + 1 \in Nat
        OBVIOUS
      <3>2. \A q \in Seq(Nat) : Append(q, reported + 1) \in Seq(Nat)
        BY <3>1, AppendProperties
      <3>3. Len(queue) = Capacity => Tail(queue) \in Seq(Nat)
        <4>1. Len(queue) = Capacity => queue # << >>
          BY SizesAssumption
        <4> QED  BY <4>1, HeadTailProperties
      <3> QED  BY <1>1, <3>2, <3>3 DEF Report
    <2> QED  BY <1>1, <2>1 DEF Report, flushVars, envVars
  <1>2. CASE Crash
    <2>1. /\ queue' = << >> /\ batch' = none /\ toReplay' = none /\ lines' = none
          /\ pc' = [t \in Thread |-> "idle"]
          /\ healthy' = [t \in Thread |-> TRUE] /\ replayed' = [t \in Thread |-> 0]
          /\ disabled' = FALSE /\ mode' = "down"
      BY <1>2 DEF Crash, Vanish, none
    <2>2. /\ pc' \in [Thread -> Label] /\ healthy' \in [Thread -> BOOLEAN]
          /\ disabled' \in BOOLEAN
      BY <2>1, Zenon DEF Label
    <2> QED  BY <1>0, <1>2, <2>1, <2>2 DEF Crash
  <1>3. CASE Shutdown
    BY <1>3 DEF Shutdown, flushVars
  <1>4. CASE Halt
    <2>1. /\ queue' = << >> /\ batch' = none /\ toReplay' = none /\ lines' = none
          /\ pc' = [t \in Thread |-> "idle"]
          /\ healthy' = [t \in Thread |-> TRUE] /\ replayed' = [t \in Thread |-> 0]
          /\ disabled' = FALSE /\ mode' = "down"
      BY <1>4 DEF Halt, Vanish, none
    <2>2. /\ pc' \in [Thread -> Label] /\ healthy' \in [Thread -> BOOLEAN]
          /\ disabled' \in BOOLEAN
      BY <2>1, Zenon DEF Label
    <2> QED  BY <1>0, <1>4, <2>1, <2>2 DEF Halt, envVars
  <1>5. CASE Restart
    BY <1>5 DEF Restart, flushVars, envVars
  <1>6. ASSUME NEW t \in Thread, FlushStep(t) PROVE TypeOK'
    <2>1. CASE FlushStart(t)
      BY <2>1 DEF FlushStart, Goto, Label, envVars
    <2>2. CASE DrainBatch(t)
      <3> DEFINE n == IF BatchSize < Len(queue) THEN BatchSize ELSE Len(queue)
      <3>1. n \in 0..Len(queue)
        BY SizesAssumption, LenProperties
      <3>2. SubSeq(queue, 1, n) \in Seq(Nat) /\ SubSeq(queue, n + 1, Len(queue)) \in Seq(Nat)
        BY <3>1, SplitSeq
      <3>3. batch' \in [Thread -> Seq(Nat)] /\ queue' \in Seq(Nat)
        BY <2>2, <3>2 DEF DrainBatch
      <3> QED  BY <2>2, <3>3 DEF DrainBatch, Goto, Label, envVars
    <2>3. CASE SendTaken(t)
      <3>1. Posting(t)
        BY <2>3 DEF SendTaken, Posting
      <3>2. /\ outages' \in Nat /\ refusals' \in Nat
            /\ UNCHANGED <<faults, crashes, shutdowns, deployment>>
        BY <3>1, PostingTyped
      <3>3. pc' \in [Thread -> Label]
        BY <2>3 DEF SendTaken, Goto, Label
      <3>4. batch' \in [Thread -> Seq(Nat)]
        BY <2>3 DEF SendTaken
      <3>5. UNCHANGED <<queue, spool, disabled, healthy, toReplay, replayed, lines, mode,
                       nextSegment, reported>>
        BY <2>3 DEF SendTaken
      <3> QED  BY <3>2, <3>3, <3>4, <3>5
    <2>4. CASE SendFailed(t)
      <3>1. Posting(t)
        BY <2>4 DEF SendFailed, Posting
      <3>2. /\ outages' \in Nat /\ refusals' \in Nat
            /\ UNCHANGED <<faults, crashes, shutdowns, deployment>>
        BY <3>1, PostingTyped
      <3>3. pc' \in [Thread -> Label]
        BY <2>4 DEF SendFailed, Goto, Label
      <3>4. healthy' \in [Thread -> BOOLEAN]
        BY <2>4 DEF SendFailed
      <3>5. UNCHANGED <<queue, spool, disabled, batch, toReplay, replayed, lines, mode,
                       nextSegment, reported>>
        BY <2>4 DEF SendFailed
      <3> QED  BY <3>2, <3>3, <3>4, <3>5
    <2>5. CASE SpoolWrite(t)
      <3>1. spool' \in Seq(Segment) /\ nextSegment' \in Nat
        <4>1. CASE FitsNewest(batch[t]) /\ spool' = [spool EXCEPT ![Len(spool)].lines = @ \o batch[t]]
          <5>1. Len(spool) \in 1..Len(spool)
            BY <4>1, EmptySeq DEF FitsNewest
          <5>2. spool[Len(spool)] \in Segment
            BY <5>1, ElementOfSeq
          <5>3. spool[Len(spool)].lines \o batch[t] \in Seq(Nat)
            BY <5>2, ConcatProperties DEF Segment
          <5>4. [spool[Len(spool)] EXCEPT !.lines = @ \o batch[t]] \in Segment
            BY <5>2, <5>3 DEF Segment
          <5>5. spool' = [spool EXCEPT ![Len(spool)] = [spool[Len(spool)] EXCEPT !.lines = @ \o batch[t]]]
            BY <4>1, <5>1
          <5>6. spool' \in Seq(Segment)
            BY <5>1, <5>4, <5>5, ExceptSeq
          <5> QED  BY <2>5, <4>1, <5>6 DEF SpoolWrite
        <4>2. CASE /\ spool' = Append(spool, [id |-> nextSegment, lines |-> batch[t]])
                   /\ nextSegment' = nextSegment + 1
          <5>1. [id |-> nextSegment, lines |-> batch[t]] \in Segment
            BY DEF Segment
          <5> QED  BY <4>2, <5>1, AppendProperties
        <4> QED  BY <2>5, <4>1, <4>2 DEF SpoolWrite
      <3>2. batch' \in [Thread -> Seq(Nat)]
        BY <2>5, <1>0 DEF SpoolWrite
      <3> QED  BY <2>5, <3>1, <3>2 DEF SpoolWrite, Goto, Label, envVars
    <2>6. CASE SpoolAbsent(t)
      BY <2>6 DEF SpoolAbsent, Goto, Label, envVars
    <2>7. CASE SpoolGivesUp(t)
      BY <2>7 DEF SpoolGivesUp, Goto, Label
    <2>8. CASE SpoolTrim(t)
      <3>1. spool' \in Seq(Segment)
        <4>1. CASE disabled
          BY <2>8, <4>1, SubSeqFull DEF SpoolTrim
        <4>2. CASE ~ disabled
          <5>1. Trimmed - 1 \in 0..Len(spool) /\ (Trimmed - 1) + 1 = Trimmed
            BY TrimmedIsCut, LenProperties
          <5>2. SubSeq(spool, Trimmed, Len(spool)) \in Seq(Segment)
            BY <5>1, SplitSeq
          <5> QED  BY <2>8, <4>2, <5>2 DEF SpoolTrim
        <4> QED  BY <4>1, <4>2
      <3> QED  BY <2>8, <3>1 DEF SpoolTrim, Goto, Label
    <2>17. CASE SpoolTrimFault(t)
      <3>1. spool' \in Seq(Segment) /\ disabled' \in BOOLEAN
        <4>1. CASE spool' = SubSeq(spool, Trimmed, Len(spool)) /\ UNCHANGED disabled
          <5>1. Trimmed - 1 \in 0..Len(spool) /\ (Trimmed - 1) + 1 = Trimmed
            BY TrimmedIsCut, LenProperties
          <5>2. SubSeq(spool, Trimmed, Len(spool)) \in Seq(Segment)
            BY <5>1, SplitSeq
          <5> QED  BY <4>1, <5>2
        <4>2. CASE disabled' \in BOOLEAN /\ UNCHANGED spool
          BY <4>2
        <4> QED  BY <2>17, <4>1, <4>2 DEF SpoolTrimFault
      <3>2. pc' \in [Thread -> Label] /\ faults' \in Nat
        BY <2>17 DEF SpoolTrimFault, Goto, Label
      <3>3. UNCHANGED <<queue, batch, healthy, toReplay, replayed, lines, mode, nextSegment,
                       reported, outages, refusals, crashes, shutdowns, deployment>>
        BY <2>17 DEF SpoolTrimFault
      <3> QED  BY <3>1, <3>2, <3>3
    <2>9. CASE DrainedUnhealthy(t)
      BY <2>9 DEF DrainedUnhealthy, Goto, Rest, Label, envVars
    <2>10. CASE DrainedHealthy(t)
      <3>1. Pending \in Seq(Nat)
        <4>1. \A i \in DOMAIN spool : spool[i].id \in Nat
          <5>1. \A i \in DOMAIN spool : spool[i] \in Segment
            BY ElementOfSeq, LenProperties
          <5> QED  BY <5>1 DEF Segment
        <4>2. DOMAIN spool = 1..Len(spool) /\ Len(spool) \in Nat
          BY LenProperties
        <4>3. [i \in DOMAIN spool |-> spool[i].id] \in [1..Len(spool) -> Nat]
          BY <4>1, <4>2
        <4>4. [i \in DOMAIN spool |-> spool[i].id] \in Seq(Nat)
          BY <4>2, <4>3
        <4> QED  BY <1>0, <4>4 DEF Pending
      <3> QED  BY <2>10, <3>1 DEF DrainedHealthy, Goto, Label, envVars
    <2>11. CASE ReplayFinish(t)
      BY <2>11 DEF ReplayFinish, Goto, Rest, Label, envVars
    <2>12. CASE ReplayRead(t)
      BY <2>12, LinesOfTyped DEF ReplayRead, Goto, Label, envVars
    <2>13. CASE ReplayReadFault(t)
      BY <2>13 DEF ReplayReadFault, Goto, Label
    <2>14. CASE ResendTaken(t)
      <3>1. Posting(t)
        BY <2>14 DEF ResendTaken, Posting
      <3>2. /\ outages' \in Nat /\ refusals' \in Nat
            /\ UNCHANGED <<faults, crashes, shutdowns, deployment>>
        BY <3>1, PostingTyped
      <3>3. pc' \in [Thread -> Label]
        BY <2>14 DEF ResendTaken, Goto, Label
      <3>4. healthy' = healthy
        BY <2>14 DEF ResendTaken
      <3>5. UNCHANGED <<queue, spool, disabled, batch, toReplay, replayed, lines, mode,
                       nextSegment, reported>>
        BY <2>14 DEF ResendTaken
      <3> QED  BY <3>2, <3>3, <3>4, <3>5
    <2>15. CASE ResendFailed(t)
      <3>1. Posting(t)
        BY <2>15 DEF ResendFailed, Posting
      <3>2. /\ outages' \in Nat /\ refusals' \in Nat
            /\ UNCHANGED <<faults, crashes, shutdowns, deployment>>
        BY <3>1, PostingTyped
      <3>3. pc' \in [Thread -> Label]
        BY <2>15 DEF ResendFailed, Goto, Label, Rest
      <3>4. /\ lines' \in [Thread -> Seq(Nat)] /\ toReplay' \in [Thread -> Seq(Nat)]
            /\ replayed' \in [Thread -> Nat]
        BY <2>15 DEF ResendFailed
      <3>5. UNCHANGED <<queue, spool, disabled, batch, healthy, mode, nextSegment, reported>>
        BY <2>15 DEF ResendFailed
      <3> QED  BY <3>2, <3>3, <3>4, <3>5
    <2>16. CASE Discard(t)
      <3>1. spool' \in Seq(Segment)
        <4>1. \/ spool' = spool
              \/ /\ OnDisk(Head(toReplay[t]))
                 /\ spool' = RemoveAt(spool, Position(Head(toReplay[t])))
          BY <2>16 DEF Discard
        <4>2. OnDisk(Head(toReplay[t])) => Position(Head(toReplay[t])) \in DOMAIN spool
          BY PositionIsThere
        <4> QED  BY <4>1, <4>2, RemoveAtProperties
      <3>2. toReplay[t] # << >>
        BY <2>16 DEF Discard, ControlOK
      <3>3. toReplay' \in [Thread -> Seq(Nat)]
        BY <2>16, <3>2, HeadTailProperties DEF Discard
      <3>4. replayed' \in [Thread -> Nat] /\ lines' \in [Thread -> Seq(Nat)]
        BY <2>16 DEF Discard
      <3>5. /\ UNCHANGED <<deployment, queue, disabled, batch, healthy, mode, nextSegment,
                          reported, outages, refusals, crashes, shutdowns>>
            /\ faults' \in Nat
        BY <2>16 DEF Discard
      <3>6. pc' \in [Thread -> Label]
        BY <2>16 DEF Discard, Goto, Label
      <3> QED  BY <3>1, <3>3, <3>4, <3>5, <3>6
    <2> QED
      BY <1>6, <2>1, <2>2, <2>3, <2>4, <2>5, <2>6, <2>7, <2>8, <2>9, <2>10, <2>11,
         <2>12, <2>13, <2>14, <2>15, <2>16, <2>17 DEF FlushStep
  <1>7. CASE UNCHANGED vars
    BY <1>7 DEF vars, flushVars, envVars
  <1> QED  BY <1>1, <1>2, <1>3, <1>4, <1>5, <1>6, <1>7 DEF Next

-----------------------------------------------------------------------------
(* Where the threads are                                                    *)

\* A step of flushOnce moves its own thread only, and neither thread starts,
\* ends or counts the exits of the JVM.
LEMMA FlushFrame ==
    ASSUME TypeOK, NEW t \in Thread, FlushStep(t)
    PROVE  /\ Running(t)
           /\ UNCHANGED <<mode, crashes, shutdowns, deployment, reported, beforeExit>>
           /\ \E label \in Label : pc' = [pc EXCEPT ![t] = label]
           /\ \A u \in Thread \ {t} : UNCHANGED <<batch[u], toReplay[u], lines[u], replayed[u]>>
  <1>1. CASE FlushStart(t)
    BY <1>1 DEF FlushStart, TypeOK, Goto, Label, envVars
  <1>2. CASE DrainBatch(t)
    BY <1>2 DEF DrainBatch, TypeOK, Goto, Label, envVars
  <1>3. CASE SendTaken(t)
    BY <1>3 DEF SendTaken, TypeOK, Goto, Label, envVars, PostAccepted, PostRefused
  <1>4. CASE SendFailed(t)
    BY <1>4 DEF SendFailed, TypeOK, Goto, Label, envVars, PostFailed
  <1>5. CASE SpoolWrite(t)
    BY <1>5 DEF SpoolWrite, TypeOK, Goto, Label, envVars
  <1>6. CASE SpoolAbsent(t)
    BY <1>6 DEF SpoolAbsent, TypeOK, Goto, Label, envVars
  <1>7. CASE SpoolGivesUp(t)
    BY <1>7 DEF SpoolGivesUp, TypeOK, Goto, Label, envVars
  <1>8. CASE SpoolTrim(t)
    BY <1>8 DEF SpoolTrim, TypeOK, Goto, Label, envVars
  <1>17. CASE SpoolTrimFault(t)
    BY <1>17 DEF SpoolTrimFault, TypeOK, Goto, Label, envVars
  <1>9. CASE DrainedUnhealthy(t)
    BY <1>9 DEF DrainedUnhealthy, TypeOK, Goto, Label, Rest, envVars
  <1>10. CASE DrainedHealthy(t)
    BY <1>10 DEF DrainedHealthy, TypeOK, Goto, Label, envVars
  <1>11. CASE ReplayFinish(t)
    BY <1>11 DEF ReplayFinish, TypeOK, Goto, Label, Rest, envVars
  <1>12. CASE ReplayRead(t)
    BY <1>12 DEF ReplayRead, TypeOK, Goto, Label, envVars
  <1>13. CASE ReplayReadFault(t)
    BY <1>13 DEF ReplayReadFault, TypeOK, Goto, Label, envVars
  <1>14. CASE ResendTaken(t)
    BY <1>14 DEF ResendTaken, TypeOK, Goto, Label, envVars, PostAccepted, PostRefused
  <1>15. CASE ResendFailed(t)
    BY <1>15 DEF ResendFailed, TypeOK, Goto, Label, Rest, envVars, PostFailed
  <1>16. CASE Discard(t)
    BY <1>16 DEF Discard, TypeOK, Goto, Label, envVars
  <1> QED
    BY <1>1, <1>2, <1>3, <1>4, <1>5, <1>6, <1>7, <1>8, <1>9, <1>10, <1>11, <1>12, <1>13, <1>14, <1>15, <1>16, <1>17
    DEF FlushStep

\* The freshly started process.
LEMMA ControlInit == Init => ControlOK /\ SizesOK
  <1>1. Len(<< >>) = 0
    BY EmptySeq
  <1> QED
    BY <1>1, SizesAssumption, ThreadsAssumption DEF Init, ControlOK, SizesOK, Thread

\* Every step keeps the threads where they can be.
LEMMA ControlStep ==
    ASSUME TypeOK, ControlOK, [Next]_vars
    PROVE  ControlOK'
  <1> USE ThreadsAssumption DEF ControlOK, Thread
  <1>1. CASE Report
    BY <1>1 DEF Report, flushVars, envVars
  <1>2. CASE Crash
    BY <1>2 DEF Crash, Vanish
  <1>3. CASE Shutdown
    BY <1>3 DEF Shutdown, flushVars, TypeOK
  <1>4. CASE Halt
    BY <1>4 DEF Halt, Vanish, envVars
  <1>5. CASE Restart
    BY <1>5 DEF Restart, flushVars, envVars
  <1>6. ASSUME NEW t \in Thread, FlushStep(t) PROVE ControlOK'
    <2> USE FlushFrame, <1>6 DEF Running, Goto, TypeOK
    <2>1. CASE FlushStart(t)
      BY <2>1 DEF FlushStart
    <2>2. CASE DrainBatch(t)
      BY <2>2 DEF DrainBatch
    <2>3. CASE SendTaken(t)
      BY <2>3 DEF SendTaken
    <2>4. CASE SendFailed(t)
      BY <2>4 DEF SendFailed
    <2>5. CASE SpoolWrite(t)
      BY <2>5 DEF SpoolWrite
    <2>6. CASE SpoolAbsent(t)
      BY <2>6 DEF SpoolAbsent
    <2>7. CASE SpoolGivesUp(t)
      BY <2>7 DEF SpoolGivesUp
    <2>8. CASE SpoolTrim(t)
      BY <2>8 DEF SpoolTrim
    <2>17. CASE SpoolTrimFault(t)
      BY <2>17 DEF SpoolTrimFault
    <2>9. CASE DrainedUnhealthy(t)
      BY <2>9 DEF DrainedUnhealthy, Rest
    <2>10. CASE DrainedHealthy(t)
      BY <2>10 DEF DrainedHealthy
    <2>11. CASE ReplayFinish(t)
      BY <2>11 DEF ReplayFinish, Rest
    <2>12. CASE ReplayRead(t)
      BY <2>12 DEF ReplayRead, ReplayExhausted
    <2>13. CASE ReplayReadFault(t)
      BY <2>13 DEF ReplayReadFault, ReplayExhausted
    <2>14. CASE ResendTaken(t)
      BY <2>14 DEF ResendTaken
    <2>15. CASE ResendFailed(t)
      BY <2>15 DEF ResendFailed, Rest
    <2>16. CASE Discard(t)
      BY <2>16 DEF Discard
    <2> QED
      BY <2>1, <2>2, <2>3, <2>4, <2>5, <2>6, <2>7, <2>8, <2>9, <2>10, <2>11, <2>12, <2>13, <2>14, <2>15, <2>16, <2>17
      DEF FlushStep
  <1>7. CASE UNCHANGED vars
    BY <1>7 DEF vars, flushVars, envVars
  <1> QED  BY <1>1, <1>2, <1>3, <1>4, <1>5, <1>6, <1>7 DEF Next

-----------------------------------------------------------------------------
(* Who holds which event                                                    *)

Sorted(s) == \A i, j \in 1..Len(s) : i < j => s[i] < s[j]
Known(s) == \A i \in 1..Len(s) : s[i] \in 1..reported
Older(s, r) == \A i \in 1..Len(s), j \in 1..Len(r) : s[i] < r[j]

\* The buffer and the batches hold reported events in the order they were
\* reported; what a thread drained is older than what still waits, and no event
\* is in two batches.
HeldOK ==
    /\ Sorted(queue) /\ Known(queue)
    /\ \A t \in Thread : Sorted(batch[t]) /\ Known(batch[t]) /\ Older(batch[t], queue)
    /\ \A t, u \in Thread : t # u =>
           \A i \in 1..Len(batch[t]), j \in 1..Len(batch[u]) : batch[t][i] # batch[u][j]

\* What a step can do to the buffer and the batches.
MemoryStep ==
    \/ Report
    \/ \E t \in Thread : DrainBatch(t)
    \/ /\ UNCHANGED reported
       /\ \/ UNCHANGED <<queue, batch>>
          \/ queue' = queue /\ \E t \in Thread : batch' = [batch EXCEPT ![t] = << >>]
          \/ queue' = << >> /\ batch' = [t \in Thread |-> << >>]

LEMMA MemoryEffect ==
    ASSUME [Next]_vars
    PROVE  MemoryStep
  <1> USE DEF MemoryStep
  <1>1. CASE Report
    BY <1>1
  <1>2. CASE Crash
    BY <1>2 DEF Crash, Vanish
  <1>3. CASE Shutdown
    BY <1>3 DEF Shutdown, flushVars
  <1>4. CASE Halt
    BY <1>4 DEF Halt, Vanish
  <1>5. CASE Restart
    BY <1>5 DEF Restart, flushVars
  <1>6. ASSUME NEW t \in Thread, FlushStep(t) PROVE MemoryStep
    <2>1. CASE FlushStart(t)
      BY <2>1 DEF FlushStart
    <2>2. CASE DrainBatch(t)
      BY <2>2 DEF DrainBatch
    <2>3. CASE SendTaken(t)
      BY <2>3 DEF SendTaken
    <2>4. CASE SendFailed(t)
      BY <2>4 DEF SendFailed
    <2>5. CASE SpoolWrite(t)
      BY <2>5 DEF SpoolWrite
    <2>6. CASE SpoolAbsent(t)
      BY <2>6 DEF SpoolAbsent
    <2>7. CASE SpoolGivesUp(t)
      BY <2>7 DEF SpoolGivesUp
    <2>8. CASE SpoolTrim(t)
      BY <2>8 DEF SpoolTrim
    <2>17. CASE SpoolTrimFault(t)
      BY <2>17 DEF SpoolTrimFault
    <2>9. CASE DrainedUnhealthy(t)
      BY <2>9 DEF DrainedUnhealthy
    <2>10. CASE DrainedHealthy(t)
      BY <2>10 DEF DrainedHealthy
    <2>11. CASE ReplayFinish(t)
      BY <2>11 DEF ReplayFinish
    <2>12. CASE ReplayRead(t)
      BY <2>12 DEF ReplayRead
    <2>13. CASE ReplayReadFault(t)
      BY <2>13 DEF ReplayReadFault
    <2>14. CASE ResendTaken(t)
      BY <2>14 DEF ResendTaken
    <2>15. CASE ResendFailed(t)
      BY <2>15 DEF ResendFailed
    <2>16. CASE Discard(t)
      BY <2>16 DEF Discard
    <2> QED
      BY <1>6, <2>1, <2>2, <2>3, <2>4, <2>5, <2>6, <2>7, <2>8, <2>9, <2>10, <2>11, <2>12, <2>13, <2>14, <2>15, <2>16, <2>17
      DEF FlushStep
  <1>7. CASE UNCHANGED vars
    BY <1>7 DEF vars, flushVars
  <1> QED  BY <1>1, <1>2, <1>3, <1>4, <1>5, <1>6, <1>7 DEF Next

\* Report puts the newest event of all at the end.
LEMMA ReportHeld ==
    ASSUME TypeOK, HeldOK, SizesOK, Report
    PROVE  (HeldOK /\ SizesOK)'
  <1>1. /\ reported \in Nat /\ reported' = reported + 1 /\ batch' = batch
        /\ queue \in Seq(Nat) /\ Len(queue) \in Nat /\ reported + 1 \in Nat
    BY LenProperties DEF Report, TypeOK, flushVars
  <1>2. ASSUME NEW r \in Seq(Nat), queue' = Append(r, reported + 1),
               Sorted(r), Known(r), \A t \in Thread : Older(batch[t], r),
               Len(r) < Capacity
        PROVE  (HeldOK /\ SizesOK)'
    <2>1. /\ Len(r) \in Nat /\ Len(queue') = Len(r) + 1
          /\ \A i \in 1..Len(r) : queue'[i] = r[i]
          /\ queue'[Len(r) + 1] = reported + 1
      BY <1>1, <1>2, AppendProperties, LenProperties
    <2>2. Sorted(queue')
      <3> SUFFICES ASSUME NEW i \in 1..(Len(r) + 1), NEW j \in 1..(Len(r) + 1), i < j
                   PROVE  queue'[i] < queue'[j]
        BY <2>1 DEF Sorted
      <3>1. i \in 1..Len(r)
        BY <2>1
      <3>2. CASE j = Len(r) + 1
        BY <1>1, <1>2, <2>1, <3>1, <3>2 DEF Known
      <3>3. CASE j # Len(r) + 1
        <4>1. j \in 1..Len(r)
          BY <2>1, <3>3
        <4> QED  BY <1>2, <2>1, <3>1, <4>1 DEF Sorted
      <3> QED  BY <3>2, <3>3
    <2>3. Known(queue)'
      BY <1>1, <1>2, <2>1 DEF Known
    <2>4. \A t \in Thread : Known(batch[t])'
      BY <1>1 DEF HeldOK, Known
    <2>5. \A t \in Thread : Older(batch[t], queue)'
      BY <1>1, <1>2, <2>1 DEF HeldOK, Known, Older
    <2>6. SizesOK'
      BY <1>1, <1>2, <2>1, SizesAssumption DEF SizesOK
    <2> QED  BY <1>1, <2>2, <2>3, <2>4, <2>5, <2>6 DEF HeldOK
  <1>3. CASE Len(queue) < Capacity /\ queue' = Append(queue, reported + 1)
    BY <1>1, <1>2, <1>3 DEF HeldOK
  <1>4. CASE Len(queue) = Capacity /\ queue' = Append(Tail(queue), reported + 1)
    <2>1. queue # << >>
      BY <1>4, SizesAssumption, EmptySeq
    <2>2. /\ Tail(queue) \in Seq(Nat) /\ Len(Tail(queue)) = Len(queue) - 1
          /\ \A i \in 1..Len(Tail(queue)) : Tail(queue)[i] = queue[i + 1]
      BY <1>1, <2>1, HeadTailProperties
    <2>3. Sorted(Tail(queue)) /\ Known(Tail(queue)) /\ Len(Tail(queue)) < Capacity
      BY <1>1, <1>4, <2>2, SizesAssumption DEF HeldOK, Sorted, Known
    <2>4. \A t \in Thread : Older(batch[t], Tail(queue))
      BY <1>1, <2>2 DEF HeldOK, Older
    <2> QED  BY <1>2, <1>4, <2>2, <2>3, <2>4
  <1>5. CASE queue' = queue
    BY <1>1, <1>5 DEF HeldOK, SizesOK, Known
  <1> QED  BY <1>3, <1>4, <1>5 DEF Report

\* A drain takes the oldest events, at most a batch of them.
LEMMA DrainHeld ==
    ASSUME TypeOK, ControlOK, HeldOK, SizesOK, NEW t \in Thread, DrainBatch(t)
    PROVE  (HeldOK /\ SizesOK)'
  <1> DEFINE n == IF BatchSize < Len(queue) THEN BatchSize ELSE Len(queue)
             m == Len(queue) - n
  <1>1. /\ reported' = reported /\ queue \in Seq(Nat) /\ Len(queue) \in Nat
        /\ n \in 0..Len(queue) /\ m \in Nat /\ n <= BatchSize /\ m <= Len(queue)
    <2>1. queue \in Seq(Nat) /\ Len(queue) \in Nat /\ BatchSize \in Nat
      BY SizesAssumption, LenProperties DEF TypeOK
    <2>2. n \in 0..Len(queue) /\ n <= BatchSize
      BY <2>1
    <2> HIDE DEF n
    <2> QED  BY <2>1, <2>2 DEF DrainBatch
  <1>2. /\ batch' = [batch EXCEPT ![t] = SubSeq(queue, 1, n)]
        /\ queue' = SubSeq(queue, n + 1, Len(queue))
    BY DEF DrainBatch
  <1>3. /\ batch'[t] = SubSeq(queue, 1, n)
        /\ \A u \in Thread \ {t} : batch'[u] = batch[u]
    BY <1>2 DEF TypeOK
  <1> HIDE DEF n
  <1>4. /\ Len(batch'[t]) = n /\ \A i \in 1..n : batch'[t][i] = queue[i]
        /\ Len(queue') = m /\ \A i \in 1..m : queue'[i] = queue[n + i]
    BY <1>1, <1>2, <1>3, SplitSeq
  <1> HIDE DEF m
  <1>5. m = Len(queue) - n
    BY DEF m
  <1>a. /\ \A i \in 1..m : n + i \in 1..Len(queue)
        /\ \A i \in 1..n : i \in 1..Len(queue)
    BY <1>1, <1>5
  <1>b. /\ \A i, j \in 1..Len(queue) : i < j => queue[i] < queue[j]
        /\ \A i \in 1..Len(queue) : queue[i] \in 1..reported
    BY DEF HeldOK, Sorted, Known
  <1>6. Sorted(queue') /\ Known(queue)'
    <2>1. ASSUME NEW i \in 1..m, NEW j \in 1..m, i < j
          PROVE  queue[n + i] < queue[n + j]
      <3>1. n + i \in 1..Len(queue) /\ n + j \in 1..Len(queue) /\ n + i < n + j
        BY <1>1, <1>5, <2>1
      <3> QED  BY <1>b, <3>1, Zenon
    <2>2. ASSUME NEW i \in 1..m PROVE queue[n + i] \in 1..reported
      <3>1. n + i \in 1..Len(queue)
        BY <1>a
      <3> QED  BY <1>b, <3>1, Zenon
    <2>3. Sorted(queue')
      BY <1>4, <2>1 DEF Sorted
    <2>4. Known(queue)'
      BY <1>1, <1>4, <2>2 DEF Known
    <2> QED  BY <2>3, <2>4
  <1>7. Sorted(batch'[t]) /\ Known(batch[t])' /\ Older(batch[t], queue)'
    <2>1. ASSUME NEW i \in 1..n, NEW j \in 1..m
          PROVE  queue[i] < queue[n + j]
      <3>1. i \in 1..Len(queue) /\ n + j \in 1..Len(queue) /\ i < n + j
        BY <1>1, <1>5
      <3> QED  BY <1>b, <3>1, Zenon
    <2>2. Sorted(batch'[t])
      BY <1>1, <1>4, <1>a, <1>b DEF Sorted
    <2>3. Known(batch[t])'
      BY <1>1, <1>4, <1>a, <1>b DEF Known
    <2>4. Older(batch[t], queue)'
      BY <1>4, <2>1 DEF Older
    <2> QED  BY <2>2, <2>3, <2>4
  <1>8. ASSUME NEW u \in Thread \ {t}
        PROVE  /\ Sorted(batch'[u]) /\ Known(batch[u])' /\ Older(batch[u], queue)'
               /\ \A i \in 1..Len(batch'[u]), j \in 1..Len(batch'[t]) :
                      batch'[u][i] # batch'[t][j]
    <2>1. batch'[u] = batch[u] /\ batch[u] \in Seq(Nat) /\ Len(batch[u]) \in Nat
      BY <1>3, LenProperties DEF TypeOK
    <2>2. Sorted(batch[u]) /\ Known(batch[u]) /\ Older(batch[u], queue)
      BY DEF HeldOK
    <2>3. Sorted(batch'[u]) /\ Known(batch[u])'
      BY <1>1, <2>1, <2>2 DEF Known
    <2>4. Older(batch[u], queue)'
      <3>1. \A i \in 1..Len(batch[u]), j \in 1..m : batch[u][i] < queue[n + j]
        BY <1>1, <1>a, <2>1, <2>2 DEF Older
      <3> QED  BY <1>4, <2>1, <3>1 DEF Older
    <2>5. \A i \in 1..Len(batch[u]), j \in 1..n : batch[u][i] < queue[j]
      BY <1>1, <1>a, <2>1, <2>2 DEF Older
    <2>6. \A i \in 1..Len(batch[u]), j \in 1..n : batch[u][i] \in Nat /\ queue[j] \in Nat
      <3>1. \A i \in 1..Len(batch[u]) : batch[u][i] \in Nat
        BY <2>1, ElementOfSeq
      <3>2. \A j \in 1..n : queue[j] \in Nat
        BY <1>1, <1>a, ElementOfSeq
      <3> QED  BY <3>1, <3>2
    <2>7. \A i \in 1..Len(batch'[u]), j \in 1..Len(batch'[t]) :
              batch'[u][i] # batch'[t][j]
      BY <1>4, <2>1, <2>5, <2>6
    <2> QED  BY <2>3, <2>4, <2>7
  <1>9. \A u, v \in Thread : u # v =>
            \A i \in 1..Len(batch'[u]), j \in 1..Len(batch'[v]) : batch'[u][i] # batch'[v][j]
    BY <1>8, ThreadsAssumption DEF Thread
  <1>10. HeldOK'
    BY <1>6, <1>7, <1>8, <1>9 DEF HeldOK
  <1>11. SizesOK'
    <2>1. Len(queue') <= Capacity
      BY <1>1, <1>4, SizesAssumption DEF SizesOK
    <2>2. \A u \in Thread : Len(batch'[u]) <= BatchSize
      BY <1>1, <1>3, <1>4 DEF SizesOK
    <2> QED  BY <2>1, <2>2 DEF SizesOK
  <1> QED  BY <1>10, <1>11

\* No step puts an event in two hands or out of order.
LEMMA HeldStep ==
    ASSUME TypeOK, ControlOK, HeldOK, SizesOK, [Next]_vars
    PROVE  (HeldOK /\ SizesOK)'
  <1>1. MemoryStep
    BY MemoryEffect
  <1>2. CASE Report
    BY <1>2, ReportHeld
  <1>3. CASE \E t \in Thread : DrainBatch(t)
    BY <1>3, DrainHeld
  <1>4. CASE UNCHANGED reported /\ UNCHANGED <<queue, batch>>
    BY <1>4 DEF HeldOK, SizesOK, Known
  <1>5. ASSUME UNCHANGED reported, queue' = queue, NEW t \in Thread,
               batch' = [batch EXCEPT ![t] = << >>]
        PROVE  (HeldOK /\ SizesOK)'
    <2>1. /\ batch'[t] = << >> /\ Len(<< >>) = 0
          /\ \A u \in Thread \ {t} : batch'[u] = batch[u]
      BY <1>5 DEF TypeOK
    <2> QED  BY <1>5, <2>1, SizesAssumption DEF HeldOK, SizesOK, Sorted, Known, Older
  <1>6. CASE UNCHANGED reported /\ queue' = << >> /\ batch' = [t \in Thread |-> << >>]
    <2>1. Len(<< >>) = 0
      OBVIOUS
    <2> QED  BY <1>6, <2>1, SizesAssumption DEF HeldOK, SizesOK, Sorted, Known, Older
  <1> QED  BY <1>1, <1>2, <1>3, <1>4, <1>5, <1>6 DEF MemoryStep

Distinct(s) == \A i, j \in 1..Len(s) : i # j => s[i] # s[j]
Apart(s, r) == \A i \in 1..Len(s), j \in 1..Len(r) : s[i] # r[j]

\* Two lists without repetitions and without common elements, one after the other.
LEMMA ConcatDistinct ==
    ASSUME NEW s \in Seq(Nat), NEW r \in Seq(Nat), Distinct(s), Distinct(r), Apart(s, r)
    PROVE  Distinct(s \o r)
  <1>1. /\ Len(s) \in Nat /\ Len(r) \in Nat /\ s \o r \in Seq(Nat)
        /\ Len(s \o r) = Len(s) + Len(r)
        /\ \A i \in 1..(Len(s) + Len(r)) :
               (s \o r)[i] = IF i <= Len(s) THEN s[i] ELSE r[i - Len(s)]
    BY ConcatProperties, LenProperties
  <1> SUFFICES ASSUME NEW i \in 1..(Len(s) + Len(r)), NEW j \in 1..(Len(s) + Len(r)), i # j
               PROVE  (s \o r)[i] # (s \o r)[j]
    BY <1>1 DEF Distinct
  <1>2. CASE i <= Len(s) /\ j <= Len(s)
    BY <1>1, <1>2 DEF Distinct
  <1>3. CASE i <= Len(s) /\ ~ (j <= Len(s))
    <2>1. i \in 1..Len(s) /\ j - Len(s) \in 1..Len(r)
      BY <1>1, <1>3
    <2>2. s[i] # r[j - Len(s)]
      BY <2>1, Zenon DEF Apart
    <2> QED  BY <1>1, <1>3, <2>2
  <1>4. CASE ~ (i <= Len(s)) /\ j <= Len(s)
    <2>1. j \in 1..Len(s) /\ i - Len(s) \in 1..Len(r)
      BY <1>1, <1>4
    <2>2. s[j] # r[i - Len(s)]
      BY <2>1, Zenon DEF Apart
    <2> QED  BY <1>1, <1>4, <2>2
  <1>5. CASE ~ (i <= Len(s)) /\ ~ (j <= Len(s))
    <2>1. /\ i - Len(s) \in 1..Len(r) /\ j - Len(s) \in 1..Len(r)
          /\ i - Len(s) # j - Len(s)
      BY <1>1, <1>5
    <2>2. r[i - Len(s)] # r[j - Len(s)]
      BY <2>1, Zenon DEF Distinct
    <2> QED  BY <1>1, <1>5, <2>2
  <1> QED  BY <1>2, <1>3, <1>4, <1>5

LEMMA ConcatApart ==
    ASSUME NEW s \in Seq(Nat), NEW r \in Seq(Nat), NEW q \in Seq(Nat), Apart(s, q), Apart(r, q)
    PROVE  Apart(s \o r, q)
  <1>1. /\ Len(s) \in Nat /\ Len(r) \in Nat
        /\ Len(s \o r) = Len(s) + Len(r)
        /\ \A i \in 1..(Len(s) + Len(r)) :
               (s \o r)[i] = IF i <= Len(s) THEN s[i] ELSE r[i - Len(s)]
    BY ConcatProperties, LenProperties
  <1> SUFFICES ASSUME NEW i \in 1..(Len(s) + Len(r)), NEW j \in 1..Len(q)
               PROVE  (s \o r)[i] # q[j]
    BY <1>1 DEF Apart
  <1>2. CASE i <= Len(s)
    BY <1>1, <1>2 DEF Apart
  <1>3. CASE ~ (i <= Len(s))
    <2>1. i - Len(s) \in 1..Len(r)
      BY <1>1, <1>3
    <2>2. r[i - Len(s)] # q[j]
      BY <2>1, Zenon DEF Apart
    <2> QED  BY <1>1, <1>3, <2>2
  <1> QED  BY <1>2, <1>3

\* Nobody holds an event twice.
LEMMA HeldIsDistinct == TypeOK /\ HeldOK => OneOwner
  <1> SUFFICES ASSUME TypeOK, HeldOK PROVE OneOwner
    OBVIOUS
  <1>1. /\ queue \in Seq(Nat) /\ batch[Daemon] \in Seq(Nat) /\ batch[Hook] \in Seq(Nat)
        /\ Daemon \in Thread /\ Hook \in Thread
    BY DEF TypeOK, Thread
  <1>2. \A s \in Seq(Nat) : Sorted(s) => Distinct(s)
    <2> SUFFICES ASSUME NEW s \in Seq(Nat), Sorted(s),
                        NEW i \in 1..Len(s), NEW j \in 1..Len(s), i # j
                 PROVE  s[i] # s[j]
      BY DEF Distinct
    <2>1. s[i] \in Nat /\ s[j] \in Nat /\ Len(s) \in Nat
      BY ElementOfSeq, LenProperties
    <2> QED  BY <2>1 DEF Sorted
  <1>3. \A t \in Thread : Apart(queue, batch[t])
    <2> SUFFICES ASSUME NEW t \in Thread, NEW i \in 1..Len(queue), NEW j \in 1..Len(batch[t])
                 PROVE  queue[i] # batch[t][j]
      BY DEF Apart
    <2>1. batch[t] \in Seq(Nat)
      BY DEF TypeOK
    <2>2. queue[i] \in Nat /\ batch[t][j] \in Nat /\ batch[t][j] < queue[i]
      BY <1>1, <2>1, ElementOfSeq DEF HeldOK, Older
    <2> QED  BY <2>2
  <1>4. Apart(batch[Daemon], batch[Hook])
    BY <1>1, ThreadsAssumption DEF HeldOK, Apart
  <1>5. Distinct(queue) /\ Distinct(batch[Daemon]) /\ Distinct(batch[Hook])
    BY <1>1, <1>2 DEF HeldOK
  <1>6. Distinct(queue \o batch[Daemon]) /\ Apart(queue \o batch[Daemon], batch[Hook])
    BY <1>1, <1>3, <1>4, <1>5, ConcatDistinct, ConcatApart
  <1>7. queue \o batch[Daemon] \in Seq(Nat)
    BY <1>1, ConcatProperties
  <1>8. Distinct(queue \o batch[Daemon] \o batch[Hook])
    BY <1>1, <1>5, <1>6, <1>7, ConcatDistinct
  <1>9. queue \o batch[Daemon] \o batch[Hook] \in Seq(Nat)
    BY <1>1, <1>7, ConcatProperties
  <1>10. DOMAIN (queue \o batch[Daemon] \o batch[Hook])
           = 1..Len(queue \o batch[Daemon] \o batch[Hook])
    BY <1>9, LenProperties
  <1> QED  BY <1>8, <1>10, Zenon DEF OneOwner, Distinct

-----------------------------------------------------------------------------
(* The segment files                                                        *)

\* What is left of the segments after some of them are gone.
Thins ==
    \E g \in [1..Len(spool') -> 1..Len(spool)] :
        /\ \A i, j \in 1..Len(spool') : i < j => g[i] < g[j]
        /\ \A i \in 1..Len(spool') : spool'[i] = spool[g[i]]

LEMMA SameThins ==
    ASSUME TypeOK, spool' = spool
    PROVE  Thins
  <1> DEFINE g == [i \in 1..Len(spool) |-> i]
  <1>1. g \in [1..Len(spool') -> 1..Len(spool)]
    OBVIOUS
  <1>2. \A i \in 1..Len(spool') : g[i] = i
    OBVIOUS
  <1> HIDE DEF g
  <1> QED  BY <1>1, <1>2 DEF Thins

\* enforceCeiling keeps the newest segments.
LEMMA TrimThins ==
    ASSUME TypeOK, NEW t \in Thread, SpoolTrim(t) \/ SpoolTrimFault(t)
    PROVE  Thins
  <1>1. CASE spool' = spool
    BY <1>1, SameThins
  <1>2. CASE disabled
    <2>1. SubSeq(spool, 1, Len(spool)) = spool
      BY SubSeqFull DEF TypeOK
    <2> QED  BY <1>2, <2>1, SameThins DEF SpoolTrim, SpoolTrimFault
  <1>3. CASE ~ disabled /\ spool' = SubSeq(spool, Trimmed, Len(spool))
    <2> DEFINE n == Trimmed - 1
               g == [i \in 1..(Len(spool) - n) |-> n + i]
    <2>1. spool \in Seq(Segment) /\ Len(spool) \in Nat
      BY LenProperties DEF TypeOK
    <2>2. n \in 0..Len(spool) /\ Trimmed = n + 1
      BY <2>1, TrimmedIsCut
    <2> HIDE DEF n
    <2>3. /\ Len(spool') = Len(spool) - n
          /\ \A i \in 1..(Len(spool) - n) : spool'[i] = spool[n + i]
      BY <1>3, <2>1, <2>2, SplitSeq
    <2>4. g \in [1..Len(spool') -> 1..Len(spool)]
      BY <2>1, <2>2, <2>3
    <2>5. \A i, j \in 1..Len(spool') : i < j => g[i] < g[j]
      BY <2>1, <2>2, <2>3
    <2>6. \A i \in 1..Len(spool') : spool'[i] = spool[g[i]]
      BY <2>3
    <2> HIDE DEF g
    <2> QED  BY <2>4, <2>5, <2>6, Zenon DEF Thins
  <1> QED  BY <1>1, <1>2, <1>3 DEF SpoolTrim, SpoolTrimFault

\* discard deletes one file, or finds it gone already.
LEMMA DiscardThins ==
    ASSUME TypeOK, NEW t \in Thread, Discard(t)
    PROVE  Thins
  <1>1. CASE spool' = spool
    BY <1>1, SameThins
  <1>2. CASE OnDisk(Head(toReplay[t])) /\ spool' = RemoveAt(spool, Position(Head(toReplay[t])))
    <2> DEFINE k == Position(Head(toReplay[t]))
               g == [i \in 1..(Len(spool) - 1) |-> IF i < k THEN i ELSE i + 1]
    <2>1. spool \in Seq(Segment) /\ Len(spool) \in Nat /\ DOMAIN spool = 1..Len(spool)
      BY LenProperties DEF TypeOK
    <2>2. k \in 1..Len(spool)
      <3>1. k \in DOMAIN spool
        BY <1>2, PositionIsThere, Zenon
      <3> QED  BY <2>1, <3>1
    <2> HIDE DEF k
    <2>3. /\ Len(spool') = Len(spool) - 1
          /\ \A i \in 1..(Len(spool) - 1) : spool'[i] = IF i < k THEN spool[i] ELSE spool[i + 1]
      BY <1>2, <2>1, <2>2, RemoveAtProperties, Zenon DEF k
    <2>4. g \in [1..Len(spool') -> 1..Len(spool)]
      BY <2>1, <2>2, <2>3
    <2>5. \A i, j \in 1..Len(spool') : i < j => g[i] < g[j]
      BY <2>1, <2>2, <2>3
    <2>6. \A i \in 1..Len(spool') : spool'[i] = spool[g[i]]
      BY <2>1, <2>2, <2>3
    <2> HIDE DEF g
    <2> QED  BY <2>4, <2>5, <2>6, Zenon DEF Thins
  <1> QED  BY <1>1, <1>2 DEF Discard

\* The segments only ever lose members, but for append.
SpoolStep ==
    \/ Thins /\ UNCHANGED nextSegment
    \/ \E t \in Thread : SpoolWrite(t)

LEMMA SpoolEffect ==
    ASSUME TypeOK, [Next]_vars
    PROVE  SpoolStep
  <1>0. UNCHANGED <<spool, nextSegment>> => SpoolStep
    BY SameThins DEF SpoolStep
  <1>1. CASE Report
    BY <1>0, <1>1 DEF Report
  <1>2. CASE Crash
    BY <1>0, <1>2 DEF Crash
  <1>3. CASE Shutdown
    BY <1>0, <1>3 DEF Shutdown
  <1>4. CASE Halt
    BY <1>0, <1>4 DEF Halt
  <1>5. CASE Restart
    BY <1>0, <1>5 DEF Restart
  <1>6. ASSUME NEW t \in Thread, FlushStep(t) PROVE SpoolStep
    <2>1. CASE FlushStart(t)
      BY <1>0, <2>1 DEF FlushStart
    <2>2. CASE DrainBatch(t)
      BY <1>0, <2>2 DEF DrainBatch
    <2>3. CASE SendTaken(t)
      BY <1>0, <2>3 DEF SendTaken
    <2>4. CASE SendFailed(t)
      BY <1>0, <2>4 DEF SendFailed
    <2>5. CASE SpoolWrite(t)
      BY <2>5 DEF SpoolStep
    <2>6. CASE SpoolAbsent(t)
      BY <1>0, <2>6 DEF SpoolAbsent
    <2>7. CASE SpoolGivesUp(t)
      BY <1>0, <2>7 DEF SpoolGivesUp
    <2>8. CASE SpoolTrim(t)
      BY <2>8, TrimThins DEF SpoolTrim, SpoolStep
    <2>17. CASE SpoolTrimFault(t)
      BY <2>17, TrimThins DEF SpoolTrimFault, SpoolStep
    <2>9. CASE DrainedUnhealthy(t)
      BY <1>0, <2>9 DEF DrainedUnhealthy
    <2>10. CASE DrainedHealthy(t)
      BY <1>0, <2>10 DEF DrainedHealthy
    <2>11. CASE ReplayFinish(t)
      BY <1>0, <2>11 DEF ReplayFinish
    <2>12. CASE ReplayRead(t)
      BY <1>0, <2>12 DEF ReplayRead
    <2>13. CASE ReplayReadFault(t)
      BY <1>0, <2>13 DEF ReplayReadFault
    <2>14. CASE ResendTaken(t)
      BY <1>0, <2>14 DEF ResendTaken
    <2>15. CASE ResendFailed(t)
      BY <1>0, <2>15 DEF ResendFailed
    <2>16. CASE Discard(t)
      BY <2>16, DiscardThins DEF Discard, SpoolStep
    <2> QED
      BY <1>6, <2>1, <2>2, <2>3, <2>4, <2>5, <2>6, <2>7, <2>8, <2>9, <2>10, <2>11, <2>12, <2>13, <2>14, <2>15, <2>16, <2>17
      DEF FlushStep
  <1>7. CASE UNCHANGED vars
    BY <1>0, <1>7 DEF vars
  <1> QED  BY <1>1, <1>2, <1>3, <1>4, <1>5, <1>6, <1>7 DEF Next

\* append: the batch goes behind the lines of the newest segment, or begins a
\* segment of its own behind it.
LEMMA WriteEffect ==
    ASSUME TypeOK, NEW t \in Thread, SpoolWrite(t)
    PROVE  \E k \in 1..(Len(spool) + 1) :
               LET old == IF k <= Len(spool) THEN spool[k].lines ELSE << >>
               IN  /\ k >= Len(spool) /\ Len(spool') = k /\ old \in Seq(Nat)
                   /\ \A i \in 1..(k - 1) : spool'[i] = spool[i]
                   /\ spool'[k].lines = old \o batch[t]
                   /\ spool'[k].id = IF k <= Len(spool) THEN spool[k].id ELSE nextSegment
                   /\ nextSegment' = IF k <= Len(spool) THEN nextSegment ELSE nextSegment + 1
                   /\ batch' = [batch EXCEPT ![t] = << >>]
                   /\ UNCHANGED <<queue, reported>>
  <1> DEFINE n == Len(spool)
  <1>1. spool \in Seq(Segment) /\ n \in Nat /\ DOMAIN spool = 1..n /\ batch[t] \in Seq(Nat)
    BY LenProperties DEF TypeOK
  <1>2. batch' = [batch EXCEPT ![t] = << >>] /\ UNCHANGED <<queue, reported>>
    BY DEF SpoolWrite
  <1>3. CASE /\ FitsNewest(batch[t]) /\ spool' = [spool EXCEPT ![n].lines = @ \o batch[t]]
             /\ UNCHANGED nextSegment
    <2>1. n \in 1..n /\ n \in 1..(n + 1)
      BY <1>1, <1>3, EmptySeq DEF FitsNewest
    <2>2. spool[n] \in Segment
      BY <1>1, <2>1, ElementOfSeq
    <2>3. spool[n].lines \in Seq(Nat) /\ spool[n].id \in Nat
      BY <2>2 DEF Segment
    <2> DEFINE newest == [spool[n] EXCEPT !.lines = @ \o batch[t]]
    <2>4. newest.lines = spool[n].lines \o batch[t] /\ newest.id = spool[n].id
      BY <2>2 DEF Segment
    <2>5. spool' = [spool EXCEPT ![n] = newest]
      BY <1>3
    <2> HIDE DEF newest
    <2>6. /\ Len(spool') = n /\ spool'[n] = newest
          /\ \A i \in 1..(n - 1) : spool'[i] = spool[i]
      <3>1. newest \in Segment
        BY <2>2, <2>3, ConcatProperties, <1>1 DEF newest, Segment
      <3>2. spool' = [spool EXCEPT ![n] = newest] /\ n \in 1..Len(spool)
        BY <2>1, <2>5
      <3>3. /\ Len(spool') = n
            /\ \A i \in 1..n : spool'[i] = IF i = n THEN newest ELSE spool[i]
        BY <1>1, <3>1, <3>2, ExceptSeq
      <3> HIDE DEF n
      <3>4. n \in Nat
        BY <1>1
      <3> HIDE <1>1
      <3>5. \A i \in 1..(n - 1) : i \in 1..n /\ i # n
        BY <3>4
      <3> QED  BY <2>1, <3>3, <3>5
    <2>7. n <= n /\ n >= n
      BY <1>1
    <2> QED  BY <1>2, <1>3, <2>1, <2>3, <2>4, <2>6, <2>7
  <1>4. CASE /\ spool' = Append(spool, [id |-> nextSegment, lines |-> batch[t]])
             /\ nextSegment' = nextSegment + 1
    <2> DEFINE newest == [id |-> nextSegment, lines |-> batch[t]]
    <2>1. newest \in Segment /\ newest.id = nextSegment /\ newest.lines = batch[t]
      BY <1>1 DEF Segment, TypeOK
    <2>2. << >> \in Seq(Nat) /\ newest.lines = << >> \o batch[t]
      BY <1>1, <2>1, EmptySeq, ConcatEmptySeq
    <2> HIDE DEF newest
    <2>3. spool' = Append(spool, newest)
      BY <1>4 DEF newest
    <2>4. /\ Len(spool') = n + 1 /\ spool'[n + 1] = newest
          /\ \A i \in 1..n : spool'[i] = spool[i]
      BY <1>1, <2>1, <2>3, AppendProperties
    <2>5. n + 1 \in 1..(n + 1) /\ (n + 1) - 1 = n /\ ~ (n + 1 <= n) /\ n + 1 >= n
      BY <1>1
    <2> QED  BY <1>2, <1>4, <2>1, <2>2, <2>4, <2>5
  <1> QED  BY <1>3, <1>4 DEF SpoolWrite

\* Segments are named in the order they were begun.
IdsOK ==
    /\ \A i, j \in 1..Len(spool) : i < j => spool[i].id < spool[j].id
    /\ \A i \in 1..Len(spool) : spool[i].id < nextSegment

LEMMA IdsStep ==
    ASSUME TypeOK, TypeOK', IdsOK, [Next]_vars
    PROVE  IdsOK'
  <1>1. /\ Len(spool) \in Nat /\ Len(spool') \in Nat /\ nextSegment \in Nat
        /\ \A i \in 1..Len(spool) : spool[i].id \in Nat
    <2>1. \A i \in 1..Len(spool) : spool[i] \in Segment
      BY ElementOfSeq DEF TypeOK
    <2> QED  BY <2>1, LenProperties DEF TypeOK, Segment
  <1>2. CASE Thins /\ UNCHANGED nextSegment
    <2>1. PICK g \in [1..Len(spool') -> 1..Len(spool)] :
                 /\ \A i, j \in 1..Len(spool') : i < j => g[i] < g[j]
                 /\ \A i \in 1..Len(spool') : spool'[i] = spool[g[i]]
      BY <1>2 DEF Thins
    <2>2. \A i \in 1..Len(spool') : g[i] \in 1..Len(spool)
      BY <2>1
    <2>3. ASSUME NEW i \in 1..Len(spool'), NEW j \in 1..Len(spool'), i < j
          PROVE  spool'[i].id < spool'[j].id
      BY <2>1, <2>2, <2>3, Zenon DEF IdsOK
    <2>4. ASSUME NEW i \in 1..Len(spool') PROVE spool'[i].id < nextSegment'
      BY <1>2, <2>1, <2>2, Zenon DEF IdsOK
    <2> QED  BY <2>3, <2>4 DEF IdsOK
  <1>3. ASSUME NEW t \in Thread, SpoolWrite(t) PROVE IdsOK'
    <2>1. PICK k \in 1..(Len(spool) + 1) :
              /\ k >= Len(spool) /\ Len(spool') = k
              /\ \A i \in 1..(k - 1) : spool'[i] = spool[i]
              /\ spool'[k].id = IF k <= Len(spool) THEN spool[k].id ELSE nextSegment
              /\ nextSegment' = IF k <= Len(spool) THEN nextSegment ELSE nextSegment + 1
      BY <1>3, WriteEffect
    <2>2. ASSUME NEW i \in 1..(k - 1) PROVE i \in 1..Len(spool)
      BY <1>1, <2>1
    <2>3. \A i \in 1..(k - 1) : spool'[i].id < spool'[k].id
      <3> SUFFICES ASSUME NEW i \in 1..(k - 1) PROVE spool[i].id < spool'[k].id
        BY <2>1
      <3>1. CASE k <= Len(spool)
        <4>1. k \in 1..Len(spool) /\ i < k
          BY <1>1, <3>1
        <4> QED  BY <2>1, <2>2, <3>1, <4>1 DEF IdsOK
      <3>2. CASE ~ (k <= Len(spool))
        BY <2>1, <2>2, <3>2 DEF IdsOK
      <3> QED  BY <3>1, <3>2
    <2>4. ASSUME NEW i \in 1..k, NEW j \in 1..k, i < j
          PROVE  spool'[i].id < spool'[j].id
      <3>1. CASE j = k
        <4>1. i \in 1..(k - 1)
          BY <1>1, <2>4, <3>1
        <4> QED  BY <2>3, <3>1, <4>1
      <3>2. CASE j # k
        <4>1. i \in 1..(k - 1) /\ j \in 1..(k - 1)
          BY <1>1, <2>4, <3>2
        <4> QED  BY <2>1, <2>2, <2>4, <4>1 DEF IdsOK
      <3> QED  BY <3>1, <3>2
    <2>5. spool'[k].id < nextSegment'
      <3>1. CASE k <= Len(spool)
        <4>1. k \in 1..Len(spool)
          BY <1>1, <3>1
        <4> QED  BY <2>1, <3>1, <4>1 DEF IdsOK
      <3>2. CASE ~ (k <= Len(spool))
        BY <1>1, <2>1, <3>2
      <3> QED  BY <3>1, <3>2
    <2>6. spool'[k].id \in Nat /\ nextSegment' \in Nat /\ k \in 1..k
      BY <1>1, <2>1
    <2>7. ASSUME NEW i \in 1..k PROVE spool'[i].id < nextSegment'
      <3>1. CASE i = k
        BY <2>5, <3>1
      <3>2. CASE i # k
        <4>1. i \in 1..(k - 1) /\ i < k
          BY <1>1, <2>7, <3>2
        <4>2. spool'[i].id < spool'[k].id /\ spool'[i].id \in Nat
          BY <1>1, <2>1, <2>2, <2>3, <4>1
        <4> QED  BY <2>5, <2>6, <4>2
      <3> QED  BY <3>1, <3>2
    <2> QED  BY <2>1, <2>4, <2>7 DEF IdsOK
  <1> QED  BY <1>2, <1>3, SpoolEffect DEF SpoolStep

-----------------------------------------------------------------------------
(* Where an event is                                                        *)

\* The events in memory: in the buffer or in a thread's batch.
Waiting == Range(queue) \cup InHands

\* The segments, read in order, hold the events in order: SpoolInOrder, line by line.
Ordered ==
    \A i1, i2 \in 1..Len(spool) :
        \A j1 \in 1..Len(spool[i1].lines), j2 \in 1..Len(spool[i2].lines) :
            (i1 < i2 \/ (i1 = i2 /\ j1 < j2))
                => spool[i1].lines[j1] < spool[i2].lines[j2]

\* And every event on disk has been reported, before whatever is still in memory.
OrderOK ==
    Kept => /\ Ordered
            /\ \A i \in 1..Len(spool) : \A j \in 1..Len(spool[i].lines) :
                   /\ spool[i].lines[j] \in 1..reported
                   /\ \A e \in Waiting : spool[i].lines[j] < e

\* Of the segment being replayed, the daemon holds every line while it resends
\* them, and someone has answered for every line once it is about to be discarded.
ReplayOK ==
    Kept => \A i \in 1..Len(spool) :
        /\ pc[Daemon] = "resend" /\ spool[i].id = Head(toReplay[Daemon])
               => Range(spool[i].lines) \subseteq Range(lines[Daemon])
        /\ pc[Daemon] = "discard" /\ spool[i].id = Head(toReplay[Daemon])
               => Range(spool[i].lines) \subseteq Settled

\* How many threads are where, as a number.
At(t, label) == IF pc[t] = label THEN 1 ELSE 0
Stopping == IF mode = "stopping" THEN 1 ELSE 0

\* What may lie above the ceiling: a batch for every crash or exit that cut an
\* append short, for every delete that failed, and for every append in progress.  A spool
\* that has disabled itself no longer grows, but no longer trims either: the other
\* thread's append, which only an exit can have under way, then stays untrimmed.
Overhang == crashes + (shutdowns - Stopping) + faults
Trims == At(Daemon, "trim") + At(Hook, "trim")
Allowed(n) == MaxSpool + BatchSize * n
Slack == Overhang + (IF disabled THEN Stopping ELSE Trims)
BoundOK == SpoolWeight <= Allowed(Slack)

\* What LossPerOutage counts; a failed send has paid for the batch it is about to lose.
Lost == {e \in 1..reported : e \notin Settled \cup Range(queue) \cup InHands}
Failing == At(Daemon, "spool") + At(Hook, "spool")
Balance(lost, failing, failed, exits) ==
    lost + BatchSize * failing <= BatchSize * failed + (BatchSize + Capacity) * exits
LossOK ==
    ~ deployment.spool => Balance(Cardinality(Lost), Failing, outages, shutdowns - Stopping)

\* The inductive invariant.
IInv ==
    /\ TypeOK /\ ControlOK /\ SizesOK /\ HeldOK /\ IdsOK /\ OrderOK /\ ReplayOK
    /\ NothingVanishes /\ BoundOK /\ LossOK

\* The elements of a list, of a list with one more, of a list in two parts.
LEMMA RangeFacts ==
    ASSUME NEW S, NEW s \in Seq(S)
    PROVE  /\ Range(<< >>) = {}
           /\ Range(s) = {s[i] : i \in 1..Len(s)} /\ Range(s) \subseteq S
           /\ \A e \in S : Range(Append(s, e)) = Range(s) \cup {e}
           /\ \A r \in Seq(S) : Range(s \o r) = Range(s) \cup Range(r)
           /\ \A n \in 0..Len(s) :
                  Range(s) = Range(SubSeq(s, 1, n)) \cup Range(SubSeq(s, n + 1, Len(s)))
           /\ s # << >> => Range(s) = {Head(s)} \cup Range(Tail(s))
  <1>1. /\ \A r \in Seq(S) : /\ Len(r) \in Nat /\ DOMAIN r = 1..Len(r)
                             /\ \A i \in 1..Len(r) : r[i] \in S
    BY LenProperties, ElementOfSeq
  <1>2. \A r \in Seq(S) : Range(r) = {r[i] : i \in 1..Len(r)}
    BY <1>1 DEF Range
  <1>3. Range(<< >>) = {}
    BY DEF Range
  <1>4. ASSUME NEW e \in S PROVE Range(Append(s, e)) = Range(s) \cup {e}
    <2>1. /\ Append(s, e) \in Seq(S) /\ Len(Append(s, e)) = Len(s) + 1
          /\ \A i \in 1..Len(s) : Append(s, e)[i] = s[i]
          /\ Append(s, e)[Len(s) + 1] = e
      BY AppendProperties
    <2>2. 1..(Len(s) + 1) = 1..Len(s) \cup {Len(s) + 1}
      BY <1>1
    <2>3. Range(Append(s, e)) = {Append(s, e)[i] : i \in 1..(Len(s) + 1)}
      BY <1>2, <2>1
    <2> QED  BY <1>2, <2>1, <2>2, <2>3
  <1>5. ASSUME NEW r \in Seq(S) PROVE Range(s \o r) = Range(s) \cup Range(r)
    <2>1. /\ s \o r \in Seq(S) /\ Len(s \o r) = Len(s) + Len(r)
          /\ \A i \in 1..(Len(s) + Len(r)) :
                 (s \o r)[i] = IF i <= Len(s) THEN s[i] ELSE r[i - Len(s)]
      BY ConcatProperties
    <2>2. \A i \in 1..(Len(s) + Len(r)) : (s \o r)[i] \in Range(s) \cup Range(r)
      <3> SUFFICES ASSUME NEW i \in 1..(Len(s) + Len(r))
                   PROVE  (s \o r)[i] \in Range(s) \cup Range(r)
        OBVIOUS
      <3>1. CASE i <= Len(s)
        BY <1>1, <1>2, <2>1, <3>1
      <3>2. CASE ~ (i <= Len(s))
        <4>1. i - Len(s) \in 1..Len(r)
          BY <1>1, <3>2
        <4> QED  BY <1>2, <2>1, <3>2, <4>1
      <3> QED  BY <3>1, <3>2
    <2>3. \A i \in 1..Len(s) : s[i] \in Range(s \o r)
      <3> SUFFICES ASSUME NEW i \in 1..Len(s) PROVE s[i] \in Range(s \o r)
        OBVIOUS
      <3>1. i \in 1..(Len(s) + Len(r)) /\ i <= Len(s)
        BY <1>1
      <3> QED  BY <1>2, <2>1, <3>1
    <2>4. \A i \in 1..Len(r) : r[i] \in Range(s \o r)
      <3> SUFFICES ASSUME NEW i \in 1..Len(r) PROVE r[i] \in Range(s \o r)
        OBVIOUS
      <3>1. /\ Len(s) + i \in 1..(Len(s) + Len(r)) /\ ~ (Len(s) + i <= Len(s))
            /\ (Len(s) + i) - Len(s) = i
        BY <1>1
      <3>2. (s \o r)[Len(s) + i] = r[i]
        BY <2>1, <3>1
      <3> QED  BY <1>2, <2>1, <3>1, <3>2
    <2>5. Range(s \o r) = {(s \o r)[i] : i \in 1..(Len(s) + Len(r))}
      BY <1>2, <2>1
    <2>6. Range(s \o r) \subseteq Range(s) \cup Range(r)
      BY <2>2, <2>5
    <2>7. Range(s) \subseteq Range(s \o r)
      BY <1>2, <2>3
    <2>8. Range(r) \subseteq Range(s \o r)
      BY <1>2, <2>4
    <2> QED  BY <2>6, <2>7, <2>8
  <1>6. ASSUME NEW n \in 0..Len(s)
        PROVE  Range(s) = Range(SubSeq(s, 1, n)) \cup Range(SubSeq(s, n + 1, Len(s)))
    <2> DEFINE left == SubSeq(s, 1, n)
               right == SubSeq(s, n + 1, Len(s))
    <2>1. /\ left \in Seq(S) /\ Len(left) = n /\ \A i \in 1..n : left[i] = s[i]
          /\ right \in Seq(S) /\ Len(right) = Len(s) - n
          /\ \A i \in 1..(Len(s) - n) : right[i] = s[n + i]
      BY SplitSeq
    <2> HIDE DEF left, right
    <2>2. \A i \in 1..Len(s) : s[i] \in Range(left) \cup Range(right)
      <3> SUFFICES ASSUME NEW i \in 1..Len(s) PROVE s[i] \in Range(left) \cup Range(right)
        OBVIOUS
      <3>1. CASE i <= n
        <4>1. i \in 1..n
          BY <1>1, <3>1
        <4> QED  BY <1>2, <2>1, <4>1
      <3>2. CASE ~ (i <= n)
        <4>1. i - n \in 1..(Len(s) - n) /\ n + (i - n) = i
          BY <1>1, <3>2
        <4>2. right[i - n] = s[i]
          BY <2>1, <4>1
        <4> QED  BY <1>2, <2>1, <4>1, <4>2
      <3> QED  BY <3>1, <3>2
    <2>3. \A i \in 1..n : left[i] \in Range(s)
      <3>1. \A i \in 1..n : i \in 1..Len(s)
        BY <1>1
      <3> QED  BY <1>2, <2>1, <3>1
    <2>4. \A i \in 1..(Len(s) - n) : right[i] \in Range(s)
      <3>1. \A i \in 1..(Len(s) - n) : n + i \in 1..Len(s)
        BY <1>1
      <3> QED  BY <1>2, <2>1, <3>1
    <2>5. Range(left) = {left[i] : i \in 1..n} /\ Range(right) = {right[i] : i \in 1..(Len(s) - n)}
      BY <1>2, <2>1
    <2>6. Range(s) \subseteq Range(left) \cup Range(right)
      BY <1>2, <2>2
    <2>7. Range(left) \subseteq Range(s)
      BY <2>3, <2>5
    <2>8. Range(right) \subseteq Range(s)
      BY <2>4, <2>5
    <2>9. Range(s) = Range(left) \cup Range(right)
      BY <2>6, <2>7, <2>8
    <2> QED  BY <2>9 DEF left, right
  <1>7. ASSUME s # << >> PROVE Range(s) = {Head(s)} \cup Range(Tail(s))
    <2>1. /\ Head(s) = s[1] /\ Tail(s) \in Seq(S) /\ Len(Tail(s)) = Len(s) - 1
          /\ \A i \in 1..Len(Tail(s)) : Tail(s)[i] = s[i + 1]
      BY <1>7, HeadTailProperties
    <2>2. Len(s) >= 1
      BY <1>1, <1>7, EmptySeq
    <2>3. \A i \in 1..Len(s) : s[i] \in {Head(s)} \cup Range(Tail(s))
      <3> SUFFICES ASSUME NEW i \in 1..Len(s), i # 1 PROVE s[i] \in Range(Tail(s))
        BY <2>1
      <3>1. i - 1 \in 1..Len(Tail(s)) /\ (i - 1) + 1 = i
        BY <1>1, <2>1
      <3>2. Tail(s)[i - 1] = s[i]
        BY <2>1, <3>1
      <3> QED  BY <1>2, <2>1, <3>1, <3>2
    <2>4. \A i \in 1..(Len(s) - 1) : Tail(s)[i] \in Range(s)
      <3>1. \A i \in 1..(Len(s) - 1) : i + 1 \in 1..Len(s)
        BY <1>1
      <3> QED  BY <1>2, <2>1, <3>1
    <2>5. Head(s) \in Range(s)
      <3>1. 1 \in 1..Len(s)
        BY <1>1, <2>2
      <3> QED  BY <1>2, <2>1, <3>1
    <2>6. Range(Tail(s)) = {Tail(s)[i] : i \in 1..(Len(s) - 1)}
      BY <1>2, <2>1
    <2> QED  BY <1>2, <2>3, <2>4, <2>5, <2>6
  <1> QED  BY <1>1, <1>2, <1>3, <1>4, <1>5, <1>6, <1>7

LEMMA RangeOfAppend ==
    \A s \in Seq(Nat) : \A e \in Nat : Range(Append(s, e)) = Range(s) \cup {e}
  <1> SUFFICES ASSUME NEW s \in Seq(Nat), NEW e \in Nat
               PROVE  Range(Append(s, e)) = Range(s) \cup {e}
    OBVIOUS
  <1> QED  BY RangeFacts

LEMMA RangeIsListed ==
    ASSUME NEW s \in Seq(Nat), NEW e
    PROVE  (e \in Range(s)) <=> (\E i \in 1..Len(s) : e = s[i])
  BY LenProperties DEF Range

\* One thread's batch replaced: the other's stays.
LEMMA HandsEffect ==
    ASSUME TypeOK, NEW t \in Thread, NEW s, batch' = [batch EXCEPT ![t] = s]
    PROVE  /\ InHands \subseteq InHands' \cup Range(batch[t])
           /\ InHands' \subseteq InHands \cup Range(s)
           /\ Range(s) \subseteq InHands'
  <1>1. batch'[t] = s /\ \A u \in Thread \ {t} : batch'[u] = batch[u]
    BY DEF TypeOK
  <1> QED  BY <1>1 DEF InHands

\* Events enter memory by Report only.
LEMMA WaitingGrows ==
    ASSUME TypeOK, ControlOK, [Next]_vars
    PROVE  \/ reported' = reported /\ Waiting' \subseteq Waiting
           \/ /\ Report /\ reported' = reported + 1
              /\ Waiting' \subseteq Waiting \cup {reported + 1}
  <1>0. queue \in Seq(Nat) /\ reported + 1 \in Nat /\ \A t \in Thread : batch[t] \in Seq(Nat)
    BY DEF TypeOK
  <1>1. CASE Report
    <2>1. reported' = reported + 1 /\ UNCHANGED batch
      BY <1>1 DEF Report, flushVars
    <2>2. Range(queue') \subseteq Range(queue) \cup {reported + 1}
      <3>1. CASE queue' = Append(queue, reported + 1)
        BY <1>0, <3>1, RangeFacts
      <3>2. CASE Len(queue) = Capacity /\ queue' = Append(Tail(queue), reported + 1)
        <4>1. queue # << >>
          BY <3>2, SizesAssumption, EmptySeq
        <4>2. Tail(queue) \in Seq(Nat)
          BY <1>0, <4>1, HeadTailProperties
        <4>a. \A e \in Nat : Range(Append(Tail(queue), e)) = Range(Tail(queue)) \cup {e}
          BY <4>2, RangeOfAppend
        <4>3. Range(queue') = Range(Tail(queue)) \cup {reported + 1}
          BY <1>0, <3>2, <4>a
        <4>4. Range(queue) = {Head(queue)} \cup Range(Tail(queue))
          BY <1>0, <4>1, RangeFacts
        <4> QED  BY <4>3, <4>4
      <3>3. CASE queue' = queue
        BY <3>3
      <3> QED  BY <1>1, <3>1, <3>2, <3>3 DEF Report
    <2> QED  BY <1>1, <2>1, <2>2 DEF Waiting, InHands
  <1>2. ASSUME NEW t \in Thread, DrainBatch(t) PROVE reported' = reported /\ Waiting' \subseteq Waiting
    <2> DEFINE n == IF BatchSize < Len(queue) THEN BatchSize ELSE Len(queue)
    <2>1. n \in 0..Len(queue)
      BY <1>0, SizesAssumption, LenProperties
    <2>2. /\ batch' = [batch EXCEPT ![t] = SubSeq(queue, 1, n)]
          /\ queue' = SubSeq(queue, n + 1, Len(queue)) /\ reported' = reported
      BY <1>2 DEF DrainBatch
    <2> HIDE DEF n
    <2>3. Range(queue) = Range(SubSeq(queue, 1, n)) \cup Range(queue')
      BY <1>0, <2>1, <2>2, RangeFacts
    <2>4. InHands' \subseteq InHands \cup Range(SubSeq(queue, 1, n))
      BY <2>2, HandsEffect
    <2> QED  BY <2>2, <2>3, <2>4 DEF Waiting
  <1>3. CASE UNCHANGED <<reported, queue, batch>>
    BY <1>3 DEF Waiting, InHands
  <1>4. ASSUME UNCHANGED <<reported, queue>>, NEW t \in Thread, batch' = [batch EXCEPT ![t] = << >>]
        PROVE  reported' = reported /\ Waiting' \subseteq Waiting
    BY <1>0, <1>4, HandsEffect, RangeFacts DEF Waiting
  <1>5. CASE UNCHANGED reported /\ queue' = << >> /\ batch' = [t \in Thread |-> << >>]
    <2>1. Range(<< >>) = {}
      BY <1>0, RangeFacts
    <2> QED  BY <1>5, <2>1 DEF Waiting, InHands
  <1> QED  BY <1>1, <1>2, <1>3, <1>4, <1>5, MemoryEffect DEF MemoryStep

\* What is settled stays settled.
LEMMA SettledGrows ==
    ASSUME TypeOK, [Next]_vars
    PROVE  Settled \subseteq Settled'
  <1> USE DEF Settled
  <1>1. CASE Report
    BY <1>1 DEF Report
  <1>2. CASE Crash
    BY <1>2 DEF Crash
  <1>3. CASE Shutdown
    BY <1>3 DEF Shutdown
  <1>4. CASE Halt
    BY <1>4 DEF Halt
  <1>5. CASE Restart
    BY <1>5 DEF Restart
  <1>6. ASSUME NEW t \in Thread, FlushStep(t) PROVE Settled \subseteq Settled'
    <2>1. CASE FlushStart(t)
      BY <2>1 DEF FlushStart
    <2>2. CASE DrainBatch(t)
      BY <2>2 DEF DrainBatch
    <2>3. CASE SendTaken(t)
      BY <2>3 DEF SendTaken, PostAccepted, PostRefused
    <2>4. CASE SendFailed(t)
      BY <2>4 DEF SendFailed, PostFailed
    <2>5. CASE SpoolWrite(t)
      BY <2>5 DEF SpoolWrite
    <2>6. CASE SpoolAbsent(t)
      BY <2>6 DEF SpoolAbsent
    <2>7. CASE SpoolGivesUp(t)
      BY <2>7 DEF SpoolGivesUp
    <2>8. CASE SpoolTrim(t)
      BY <2>8 DEF SpoolTrim
    <2>17. CASE SpoolTrimFault(t)
      BY <2>17 DEF SpoolTrimFault
    <2>9. CASE DrainedUnhealthy(t)
      BY <2>9 DEF DrainedUnhealthy
    <2>10. CASE DrainedHealthy(t)
      BY <2>10 DEF DrainedHealthy
    <2>11. CASE ReplayFinish(t)
      BY <2>11 DEF ReplayFinish
    <2>12. CASE ReplayRead(t)
      BY <2>12 DEF ReplayRead
    <2>13. CASE ReplayReadFault(t)
      BY <2>13 DEF ReplayReadFault
    <2>14. CASE ResendTaken(t)
      BY <2>14 DEF ResendTaken, PostAccepted, PostRefused
    <2>15. CASE ResendFailed(t)
      BY <2>15 DEF ResendFailed, PostFailed
    <2>16. CASE Discard(t)
      BY <2>16 DEF Discard
    <2> QED
      BY <1>6, <2>1, <2>2, <2>3, <2>4, <2>5, <2>6, <2>7, <2>8, <2>9, <2>10, <2>11, <2>12, <2>13, <2>14, <2>15, <2>16, <2>17
      DEF FlushStep
  <1>7. CASE UNCHANGED vars
    BY <1>7 DEF vars
  <1> QED  BY <1>1, <1>2, <1>3, <1>4, <1>5, <1>6, <1>7 DEF Next

\* Where an event in memory goes: it is settled, or it goes into SpoolWrite or is
\* let go by SpoolAbsent, or the process halts with it.
LEMMA WaitingShrinks ==
    ASSUME TypeOK, ControlOK, [Next]_vars
    PROVE  \/ Waiting \subseteq Waiting' \cup Settled'
           \/ Halt
           \/ \E t \in Thread : /\ SpoolWrite(t) \/ SpoolAbsent(t)
                                /\ Waiting \subseteq Waiting' \cup Range(batch[t])
  <1>0. queue \in Seq(Nat) /\ reported + 1 \in Nat /\ \A t \in Thread : batch[t] \in Seq(Nat)
    BY DEF TypeOK
  <1>a. UNCHANGED <<queue, batch>> => Waiting \subseteq Waiting' \cup Settled'
    BY DEF Waiting, InHands
  <1>1. CASE Report
    <2>1. UNCHANGED batch
      BY <1>1 DEF Report, flushVars
    <2>2. Range(queue) \subseteq Range(queue') \cup counted'
      <3>1. CASE queue' = Append(queue, reported + 1)
        BY <1>0, <3>1, RangeFacts
      <3>2. CASE /\ Len(queue) = Capacity /\ queue' = Append(Tail(queue), reported + 1)
                 /\ counted' = counted \cup {Head(queue)}
        <4>1. queue # << >>
          BY <3>2, SizesAssumption, EmptySeq
        <4>2. Tail(queue) \in Seq(Nat)
          BY <1>0, <4>1, HeadTailProperties
        <4>3. \A e \in Nat : Range(Append(Tail(queue), e)) = Range(Tail(queue)) \cup {e}
          BY <4>2, RangeOfAppend
        <4>4. Range(queue) = {Head(queue)} \cup Range(Tail(queue))
          BY <1>0, <4>1, RangeFacts
        <4> QED  BY <1>0, <3>2, <4>3, <4>4
      <3>3. CASE queue' = queue
        BY <3>3
      <3> QED  BY <1>1, <3>1, <3>2, <3>3 DEF Report
    <2> QED  BY <2>1, <2>2 DEF Waiting, InHands, Settled
  <1>2. CASE Crash
    BY <1>2 DEF Crash, Waiting, Settled
  <1>3. CASE Shutdown
    BY <1>a, <1>3 DEF Shutdown, flushVars
  <1>4. CASE Halt
    BY <1>4
  <1>5. CASE Restart
    BY <1>a, <1>5 DEF Restart, flushVars
  <1>6. ASSUME NEW t \in Thread, FlushStep(t)
        PROVE  \/ Waiting \subseteq Waiting' \cup Settled'
               \/ /\ SpoolWrite(t) \/ SpoolAbsent(t)
                  /\ Waiting \subseteq Waiting' \cup Range(batch[t])
    <2>a. ASSUME UNCHANGED queue, batch' = [batch EXCEPT ![t] = << >>]
          PROVE  Waiting \subseteq Waiting' \cup Range(batch[t])
      BY <2>a, HandsEffect DEF Waiting
    <2>1. CASE FlushStart(t)
      BY <1>a, <2>1 DEF FlushStart
    <2>2. CASE DrainBatch(t)
      <3> DEFINE n == IF BatchSize < Len(queue) THEN BatchSize ELSE Len(queue)
      <3>1. n \in 0..Len(queue)
        BY <1>0, SizesAssumption, LenProperties
      <3>2. /\ batch' = [batch EXCEPT ![t] = SubSeq(queue, 1, n)]
            /\ queue' = SubSeq(queue, n + 1, Len(queue)) /\ pc[t] = "drain"
        BY <2>2 DEF DrainBatch
      <3> HIDE DEF n
      <3>3. Range(queue) = Range(SubSeq(queue, 1, n)) \cup Range(queue')
        BY <1>0, <3>1, <3>2, RangeFacts
      <3>4. /\ InHands \subseteq InHands' \cup Range(batch[t])
            /\ Range(SubSeq(queue, 1, n)) \subseteq InHands'
        BY <3>2, HandsEffect
      <3>5. batch[t] = << >> /\ Range(<< >>) = {}
        BY <1>0, <3>2, RangeFacts DEF ControlOK
      <3> QED  BY <3>3, <3>4, <3>5 DEF Waiting
    <2>3. CASE SendTaken(t)
      <3>1. Range(batch[t]) \subseteq Settled'
        BY <2>3 DEF SendTaken, PostAccepted, PostRefused, Settled
      <3> QED  BY <2>3, <2>a, <3>1 DEF SendTaken
    <2>4. CASE SendFailed(t)
      BY <1>a, <2>4 DEF SendFailed
    <2>5. CASE SpoolWrite(t)
      BY <2>5, <2>a DEF SpoolWrite
    <2>6. CASE SpoolAbsent(t)
      BY <2>6, <2>a DEF SpoolAbsent
    <2>7. CASE SpoolGivesUp(t)
      BY <2>7, <2>a DEF SpoolGivesUp, Settled
    <2>8. CASE SpoolTrim(t)
      BY <1>a, <2>8 DEF SpoolTrim
    <2>17. CASE SpoolTrimFault(t)
      BY <1>a, <2>17 DEF SpoolTrimFault
    <2>9. CASE DrainedUnhealthy(t)
      BY <1>a, <2>9 DEF DrainedUnhealthy
    <2>10. CASE DrainedHealthy(t)
      BY <1>a, <2>10 DEF DrainedHealthy
    <2>11. CASE ReplayFinish(t)
      BY <1>a, <2>11 DEF ReplayFinish
    <2>12. CASE ReplayRead(t)
      BY <1>a, <2>12 DEF ReplayRead
    <2>13. CASE ReplayReadFault(t)
      BY <1>a, <2>13 DEF ReplayReadFault
    <2>14. CASE ResendTaken(t)
      BY <1>a, <2>14 DEF ResendTaken
    <2>15. CASE ResendFailed(t)
      BY <1>a, <2>15 DEF ResendFailed
    <2>16. CASE Discard(t)
      BY <1>a, <2>16 DEF Discard
    <2> QED
      BY <1>6, <2>1, <2>2, <2>3, <2>4, <2>5, <2>6, <2>7, <2>8, <2>9, <2>10, <2>11, <2>12, <2>13, <2>14, <2>15, <2>16, <2>17
      DEF FlushStep
  <1>7. CASE UNCHANGED vars
    BY <1>a, <1>7 DEF vars, flushVars
  <1> QED  BY <1>1, <1>2, <1>3, <1>4, <1>5, <1>6, <1>7 DEF Next

\* An event just reported is in the buffer, or counted.
LEMMA ReportPlaces ==
    ASSUME TypeOK, Report
    PROVE  reported + 1 \in Waiting' \cup Settled'
  <1>0. queue \in Seq(Nat) /\ reported + 1 \in Nat
    BY DEF TypeOK
  <1>1. CASE queue' = Append(queue, reported + 1)
    BY <1>0, <1>1, RangeFacts DEF Waiting
  <1>2. CASE Len(queue) = Capacity /\ queue' = Append(Tail(queue), reported + 1)
    <2>1. queue # << >>
      BY <1>2, SizesAssumption, EmptySeq
    <2>2. Tail(queue) \in Seq(Nat)
      BY <1>0, <2>1, HeadTailProperties
    <2>3. \A e \in Nat : Range(Append(Tail(queue), e)) = Range(Tail(queue)) \cup {e}
      BY <2>2, RangeOfAppend
    <2> QED  BY <1>0, <1>2, <2>3 DEF Waiting
  <1>3. CASE counted' = counted \cup {reported + 1}
    BY <1>3 DEF Settled
  <1> QED  BY <1>1, <1>2, <1>3 DEF Report

\* Before any exit there is one thread, the daemon.
LEMMA KeptIsBefore ==
    ASSUME TypeOK, ControlOK, [Next]_vars, Kept'
    PROVE  /\ Kept /\ ~ Halt /\ ~ Shutdown
           /\ pc[Hook] = "idle" /\ batch[Hook] = << >>
           /\ \A t \in Thread : FlushStep(t) => t = Daemon
           /\ \A t \in Thread : ~ SpoolAbsent(t)
  <1> USE DEF Kept
  <1>1. shutdowns = 0 /\ deployment' = deployment
    <2>1. CASE Report
      BY <2>1 DEF Report, envVars
    <2>2. CASE Crash
      BY <2>2 DEF Crash
    <2>3. CASE Shutdown
      BY <2>3 DEF Shutdown, TypeOK
    <2>4. CASE Halt
      BY <2>4 DEF Halt, envVars
    <2>5. CASE Restart
      BY <2>5 DEF Restart, envVars
    <2>6. CASE \E t \in Thread : FlushStep(t)
      BY <2>6, FlushFrame
    <2>7. CASE UNCHANGED vars
      BY <2>7 DEF vars, envVars
    <2> QED  BY <2>1, <2>2, <2>3, <2>4, <2>5, <2>6, <2>7 DEF Next
  <1>2. mode # "stopping"
    BY <1>1 DEF ControlOK, TypeOK
  <1>3. ~ Halt
    BY <1>2 DEF Halt
  <1>4. ~ Shutdown
    BY DEF Shutdown, TypeOK
  <1>5. \A t \in Thread : FlushStep(t) => t = Daemon
    BY <1>2, FlushFrame DEF Running, Thread
  <1>6. pc[Hook] = "idle" /\ batch[Hook] = << >>
    BY <1>2 DEF ControlOK, Thread
  <1>7. \A t \in Thread : ~ SpoolAbsent(t)
    BY <1>1 DEF SpoolAbsent
  <1> QED  BY <1>1, <1>3, <1>4, <1>5, <1>6, <1>7

\* append, line by line: m lines stand in the segment it writes to, and the
\* batch follows them.
LEMMA WrittenLines ==
    ASSUME TypeOK, NEW t \in Thread, SpoolWrite(t)
    PROVE  \E k \in 1..(Len(spool) + 1), m \in Nat :
               /\ k >= Len(spool) /\ Len(spool') = k
               /\ k <= Len(spool) => m = Len(spool[k].lines)
               /\ k > Len(spool) => m = 0
               /\ \A i \in 1..(k - 1) : spool'[i] = spool[i]
               /\ Len(spool'[k].lines) = m + Len(batch[t])
               /\ \A j \in 1..m : spool'[k].lines[j] = spool[k].lines[j]
               /\ \A n \in 1..Len(batch[t]) : spool'[k].lines[m + n] = batch[t][n]
  <1>1. PICK k \in 1..(Len(spool) + 1) :
               LET old == IF k <= Len(spool) THEN spool[k].lines ELSE << >>
               IN  /\ k >= Len(spool) /\ Len(spool') = k /\ old \in Seq(Nat)
                   /\ \A i \in 1..(k - 1) : spool'[i] = spool[i]
                   /\ spool'[k].lines = old \o batch[t]
    BY WriteEffect
  <1> DEFINE old == IF k <= Len(spool) THEN spool[k].lines ELSE << >>
             m == Len(old)
  <1>2. Len(spool) \in Nat /\ Len(<< >>) = 0 /\ batch[t] \in Seq(Nat)
    BY LenProperties DEF TypeOK
  <1>3. old \in Seq(Nat) /\ spool'[k].lines = old \o batch[t] /\ m \in Nat
    BY <1>1, LenProperties
  <1>4. /\ k <= Len(spool) => old = spool[k].lines
        /\ k > Len(spool) => old = << >> /\ m = 0
    BY <1>1, <1>2
  <1> HIDE DEF old
  <1>5. /\ Len(old \o batch[t]) = m + Len(batch[t])
        /\ \A j \in 1..(m + Len(batch[t])) :
               (old \o batch[t])[j] = IF j <= m THEN old[j] ELSE batch[t][j - m]
    BY <1>2, <1>3, ConcatProperties
  <1>6. m \in Nat /\ Len(batch[t]) \in Nat
    BY <1>2, <1>3, LenProperties
  <1> HIDE DEF m
  <1>7. ASSUME NEW j \in 1..m PROVE spool'[k].lines[j] = spool[k].lines[j]
    <2>1. j \in 1..(m + Len(batch[t])) /\ j <= m
      BY <1>6
    <2>2. k <= Len(spool)
      <3>1. ~ (k > Len(spool))
        BY <1>4, <1>6
      <3> QED  BY <1>2, <3>1
    <2> QED  BY <1>3, <1>4, <1>5, <2>1, <2>2
  <1>8. ASSUME NEW n \in 1..Len(batch[t]) PROVE spool'[k].lines[m + n] = batch[t][n]
    <2>1. m + n \in 1..(m + Len(batch[t])) /\ ~ (m + n <= m) /\ (m + n) - m = n
      BY <1>6
    <2> QED  BY <1>3, <1>5, <2>1
  <1>9. k <= Len(spool) => m = Len(spool[k].lines)
    BY <1>4 DEF m
  <1>10. /\ k >= Len(spool) /\ Len(spool') = k
         /\ \A i \in 1..(k - 1) : spool'[i] = spool[i]
    BY <1>1
  <1>11. Len(spool'[k].lines) = m + Len(batch[t]) /\ (k > Len(spool) => m = 0)
    BY <1>3, <1>4, <1>5
  <1> QED  BY <1>6, <1>7, <1>8, <1>9, <1>10, <1>11

\* A segment is a list of lines, and so is a batch.
LEMMA LengthsTyped ==
    ASSUME TypeOK
    PROVE  /\ spool \in Seq(Segment) /\ Len(spool) \in Nat /\ DOMAIN spool = 1..Len(spool)
           /\ \A i \in 1..Len(spool) :
                  /\ spool[i].lines \in Seq(Nat) /\ Len(spool[i].lines) \in Nat
                  /\ DOMAIN spool[i].lines = 1..Len(spool[i].lines)
                  /\ spool[i].id \in Nat
           /\ \A t \in Thread : batch[t] \in Seq(Nat) /\ Len(batch[t]) \in Nat
           /\ queue \in Seq(Nat) /\ Len(queue) \in Nat
  <1>1. \A i \in 1..Len(spool) : spool[i] \in Segment
    BY ElementOfSeq DEF TypeOK
  <1>2. \A i \in 1..Len(spool) : spool[i].lines \in Seq(Nat) /\ spool[i].id \in Nat
    BY <1>1 DEF Segment
  <1> QED  BY <1>2, LenProperties DEF TypeOK

\* append keeps the order: the batch is newer than every line on disk, and
\* older than what still waits.
LEMMA WriteOrder ==
    ASSUME TypeOK, ControlOK, HeldOK, OrderOK, Kept, SpoolWrite(Daemon),
           batch[Hook] = << >>
    PROVE  OrderOK'
  <1> DEFINE s == batch[Daemon]
  <1>1. PICK k \in 1..(Len(spool) + 1), m \in Nat :
               /\ k >= Len(spool) /\ Len(spool') = k
               /\ k <= Len(spool) => m = Len(spool[k].lines)
               /\ k > Len(spool) => m = 0
               /\ \A i \in 1..(k - 1) : spool'[i] = spool[i]
               /\ Len(spool'[k].lines) = m + Len(s)
               /\ \A j \in 1..m : spool'[k].lines[j] = spool[k].lines[j]
               /\ \A n \in 1..Len(s) : spool'[k].lines[m + n] = s[n]
    BY WrittenLines DEF Thread
  <1>2. /\ Len(spool) \in Nat /\ Len(s) \in Nat /\ s \in Seq(Nat) /\ k \in Nat
        /\ \A i \in 1..Len(spool) : Len(spool[i].lines) \in Nat
    BY LengthsTyped DEF Thread
  <1>3. /\ \A n \in 1..Len(s) : s[n] \in Waiting /\ s[n] \in 1..reported
        /\ \A n1, n2 \in 1..Len(s) : n1 < n2 => s[n1] < s[n2]
    <2>1. Range(s) = {s[n] : n \in 1..Len(s)} /\ Range(s) \subseteq Waiting
      BY <1>2, RangeFacts DEF Waiting, InHands, Thread
    <2>2. Sorted(s) /\ Known(s)
      BY DEF HeldOK, Thread
    <2> QED  BY <2>1, <2>2 DEF Sorted, Known
  <1>4. reported' = reported /\ Waiting' = Range(queue)
    <2>1. /\ reported' = reported /\ queue' = queue
          /\ batch' = [batch EXCEPT ![Daemon] = << >>]
      BY DEF SpoolWrite
    <2>2. batch'[Daemon] = << >> /\ batch'[Hook] = << >> /\ Range(<< >>) = {}
      BY <2>1, ThreadsAssumption, RangeFacts, LengthsTyped DEF TypeOK, Thread
    <2> QED  BY <2>1, <2>2 DEF Waiting, InHands, Thread
  <1>5. \A n \in 1..Len(s), e \in Range(queue) : s[n] < e
    <2>1. Range(queue) = {queue[j] : j \in 1..Len(queue)}
      BY LengthsTyped, RangeFacts
    <2>2. Older(s, queue)
      BY DEF HeldOK, Thread
    <2> QED  BY <2>1, <2>2 DEF Older
  <1> HIDE DEF s
  <1> DEFINE Old(i, j) == /\ i \in 1..Len(spool) /\ j \in 1..Len(spool[i].lines)
                          /\ spool'[i].lines[j] = spool[i].lines[j]
                          /\ i = k => j <= m
             New(i, j) == /\ i = k /\ j > m /\ j - m \in 1..Len(s)
                          /\ spool'[i].lines[j] = s[j - m]
  <1>6. ASSUME NEW i \in 1..k, NEW j \in 1..Len(spool'[i].lines)
        PROVE  (Old(i, j) \/ New(i, j)) /\ j \in Nat
    <2>1. CASE i # k
      <3>1. i \in 1..(k - 1) /\ i \in 1..Len(spool)
        BY <1>2, <2>1
      <3>2. spool'[i] = spool[i]
        BY <1>1, <3>1
      <3>3. j \in 1..Len(spool[i].lines)
        BY <3>2
      <3> QED  BY <1>2, <2>1, <3>1, <3>2, <3>3
    <2>2. CASE i = k
      <3>1. j \in 1..(m + Len(s)) /\ j \in Nat
        BY <1>1, <1>2, <2>2
      <3>2. CASE j <= m
        <4>1. j \in 1..m /\ m > 0
          BY <1>2, <3>1, <3>2
        <4>2. k \in 1..Len(spool) /\ m = Len(spool[k].lines)
          BY <1>1, <1>2, <4>1
        <4> QED  BY <1>1, <2>2, <3>1, <3>2, <4>1, <4>2
      <3>3. CASE ~ (j <= m)
        <4>1. j - m \in 1..Len(s) /\ m + (j - m) = j /\ j > m
          BY <1>2, <3>1, <3>3
        <4>2. spool'[k].lines[m + (j - m)] = s[j - m]
          BY <1>1, <4>1
        <4> QED  BY <2>2, <3>1, <4>1, <4>2
      <3> QED  BY <3>2, <3>3
    <2> QED  BY <2>1, <2>2
  <1>7. \A i \in 1..Len(spool) : \A j \in 1..Len(spool[i].lines) :
            /\ spool[i].lines[j] \in 1..reported
            /\ \A e \in Waiting : spool[i].lines[j] < e
    BY DEF OrderOK
  <1>8. Range(queue) \subseteq Waiting
    BY DEF Waiting
  <1>9. ASSUME NEW i \in 1..k, NEW j \in 1..Len(spool'[i].lines)
        PROVE  /\ spool'[i].lines[j] \in 1..reported
               /\ \A e \in Range(queue) : spool'[i].lines[j] < e
    <2>1. CASE Old(i, j)
      BY <1>7, <1>8, <2>1
    <2>2. CASE New(i, j)
      BY <1>3, <1>5, <2>2
    <2> QED  BY <1>6, <2>1, <2>2
  <1>10. ASSUME NEW i1 \in 1..k, NEW i2 \in 1..k,
                NEW j1 \in 1..Len(spool'[i1].lines), NEW j2 \in 1..Len(spool'[i2].lines),
                i1 < i2 \/ (i1 = i2 /\ j1 < j2)
         PROVE  spool'[i1].lines[j1] < spool'[i2].lines[j2]
    <2>1. CASE Old(i1, j1) /\ Old(i2, j2)
      BY <1>10, <2>1 DEF OrderOK, Ordered
    <2>2. CASE Old(i1, j1) /\ New(i2, j2)
      BY <1>3, <1>7, <2>2
    <2>3. CASE New(i1, j1) /\ Old(i2, j2)
      <3>1. j1 \in Nat /\ j2 \in Nat
        BY <1>6
      <3> QED  BY <1>2, <1>10, <2>3, <3>1
    <2>4. CASE New(i1, j1) /\ New(i2, j2)
      <3>1. j1 \in Nat /\ j2 \in Nat
        BY <1>6
      <3>a. i1 = k /\ i2 = k
        BY <2>4
      <3>b. j1 < j2
        BY <1>2, <1>10, <3>a
      <3>2. j1 - m < j2 - m
        BY <1>2, <3>1, <3>b
      <3> QED  BY <1>3, <2>4, <3>2
    <2> QED  BY <1>6, <2>1, <2>2, <2>3, <2>4
  <1>11. Ordered'
    BY <1>1, <1>10 DEF Ordered
  <1> QED  BY <1>1, <1>4, <1>9, <1>11 DEF OrderOK

\* No step puts the lines on disk out of order.
LEMMA OrderStep ==
    ASSUME TypeOK, TypeOK', ControlOK, HeldOK, OrderOK, [Next]_vars
    PROVE  OrderOK'
  <1> SUFFICES ASSUME Kept' PROVE OrderOK'
    BY DEF OrderOK
  <1>1. /\ Kept /\ batch[Hook] = << >> /\ \A t \in Thread : FlushStep(t) => t = Daemon
    BY KeptIsBefore
  <1>2. ASSUME NEW t \in Thread, SpoolWrite(t) PROVE OrderOK'
    <2>1. t = Daemon
      BY <1>1, <1>2 DEF FlushStep
    <2> QED  BY <1>1, <1>2, <2>1, WriteOrder
  <1>3. CASE Thins
    <2>1. PICK g \in [1..Len(spool') -> 1..Len(spool)] :
                 /\ \A i, j \in 1..Len(spool') : i < j => g[i] < g[j]
                 /\ \A i \in 1..Len(spool') : spool'[i] = spool[g[i]]
      BY <1>3 DEF Thins
    <2>2. \A i \in 1..Len(spool') : g[i] \in 1..Len(spool)
      BY <2>1
    <2>3. Ordered'
      <3> SUFFICES ASSUME NEW i1 \in 1..Len(spool'), NEW i2 \in 1..Len(spool'),
                          NEW j1 \in 1..Len(spool'[i1].lines),
                          NEW j2 \in 1..Len(spool'[i2].lines),
                          i1 < i2 \/ (i1 = i2 /\ j1 < j2)
                   PROVE  spool'[i1].lines[j1] < spool'[i2].lines[j2]
        BY DEF Ordered
      <3>1. g[i1] < g[i2] \/ (g[i1] = g[i2] /\ j1 < j2)
        BY <2>1
      <3>2. /\ j1 \in 1..Len(spool[g[i1]].lines) /\ j2 \in 1..Len(spool[g[i2]].lines)
            /\ g[i1] \in 1..Len(spool) /\ g[i2] \in 1..Len(spool)
        BY <2>1, <2>2
      <3>3. spool[g[i1]].lines[j1] < spool[g[i2]].lines[j2]
        BY <1>1, <3>1, <3>2 DEF OrderOK, Ordered
      <3> QED  BY <2>1, <3>3
    <2>4. ASSUME NEW i \in 1..Len(spool'), NEW j \in 1..Len(spool'[i].lines)
          PROVE  /\ spool'[i].lines[j] \in 1..reported'
                 /\ \A e \in Waiting' : spool'[i].lines[j] < e
      <3>1. g[i] \in 1..Len(spool) /\ spool'[i] = spool[g[i]] /\ j \in 1..Len(spool[g[i]].lines)
        BY <2>1, <2>2
      <3> DEFINE line == spool[g[i]].lines[j]
      <3>2. line \in 1..reported /\ \A e \in Waiting : line < e
        BY <1>1, <3>1 DEF OrderOK
      <3> HIDE DEF line
      <3>3. reported \in Nat
        BY DEF TypeOK
      <3>4. ASSUME reported' = reported, Waiting' \subseteq Waiting
            PROVE  line \in 1..reported' /\ \A e \in Waiting' : line < e
        BY <3>2, <3>4
      <3>5. ASSUME reported' = reported + 1, Waiting' \subseteq Waiting \cup {reported + 1}
            PROVE  line \in 1..reported' /\ \A e \in Waiting' : line < e
        <4>1. line \in 1..(reported + 1) /\ line < reported + 1
          BY <3>2, <3>3
        <4>2. ASSUME NEW e \in Waiting' PROVE line < e
          BY <3>2, <3>5, <4>1, <4>2
        <4> QED  BY <3>5, <4>1, <4>2
      <3>6. line \in 1..reported' /\ \A e \in Waiting' : line < e
        BY <3>4, <3>5, WaitingGrows
      <3> QED  BY <3>1, <3>6 DEF line
    <2> QED  BY <2>3, <2>4 DEF OrderOK
  <1> QED  BY <1>2, <1>3, SpoolEffect DEF SpoolStep

\* The lines as LinesOn lists them.
LEMMA OrderedIsInOrder == TypeOK /\ OrderOK => SpoolInOrder
  <1> SUFFICES ASSUME TypeOK, OrderOK, Kept,
                      NEW x \in LinesOn(spool), NEW y \in LinesOn(spool),
                      x[1] < y[1] \/ (x[1] = y[1] /\ x[2] < y[2])
               PROVE  spool[x[1]].lines[x[2]] < spool[y[1]].lines[y[2]]
    BY DEF SpoolInOrder
  <1>1. ASSUME NEW z \in LinesOn(spool)
        PROVE  z[1] \in 1..Len(spool) /\ z[2] \in 1..Len(spool[z[1]].lines)
    <2>1. PICK i \in DOMAIN spool : z \in {i} \X DOMAIN spool[i].lines
      BY DEF LinesOn
    <2>2. z[1] = i /\ z[2] \in DOMAIN spool[i].lines
      BY <2>1
    <2> QED  BY <2>2, LengthsTyped
  <1> QED  BY <1>1 DEF OrderOK, Ordered

\* A name is that of one segment.
LEMMA PositionIs ==
    ASSUME TypeOK, IdsOK, NEW i \in 1..Len(spool)
    PROVE  /\ OnDisk(spool[i].id) /\ Position(spool[i].id) = i
           /\ LinesOf(spool[i].id) = spool[i].lines
  <1>1. DOMAIN spool = 1..Len(spool) /\ \A j \in 1..Len(spool) : spool[j].id \in Nat
    BY LengthsTyped
  <1>2. \A j \in 1..Len(spool) : spool[j].id = spool[i].id => j = i
    <2> SUFFICES ASSUME NEW j \in 1..Len(spool), j # i PROVE spool[j].id # spool[i].id
      OBVIOUS
    <2>1. CASE j < i
      BY <1>1, <2>1 DEF IdsOK
    <2>2. CASE i < j
      BY <1>1, <2>2 DEF IdsOK
    <2>3. j < i \/ i < j
      OBVIOUS
    <2> QED  BY <2>1, <2>2, <2>3
  <1>3. OnDisk(spool[i].id)
    BY <1>1 DEF OnDisk
  <1>4. Position(spool[i].id) = i
    BY <1>1, <1>2 DEF Position
  <1> QED  BY <1>3, <1>4 DEF LinesOf

\* The daemon never resends or discards a segment but with its lines in hand,
\* or answered for.
LEMMA ReplayStep ==
    ASSUME TypeOK, ControlOK, IdsOK, ReplayOK, [Next]_vars
    PROVE  ReplayOK'
  <1> SUFFICES ASSUME Kept' PROVE ReplayOK'
    BY DEF ReplayOK
  <1>1. Kept /\ ~ Halt /\ ~ Shutdown /\ \A t \in Thread : FlushStep(t) => t = Daemon
    BY KeptIsBefore
  <1>2. Settled \subseteq Settled'
    BY SettledGrows
  <1>3. ASSUME pc'[Daemon] \notin {"resend", "discard"} PROVE ReplayOK'
    BY <1>3 DEF ReplayOK
  <1>4. ASSUME UNCHANGED <<spool, toReplay, lines, pc>> PROVE ReplayOK'
    BY <1>1, <1>2, <1>4 DEF ReplayOK
  <1>5. \A s \in Seq(Nat) : Range(<< >>) = {}
    BY RangeFacts
  <1>6. Daemon \in Thread /\ DOMAIN pc = Thread /\ << >> \in Seq(Nat)
    BY EmptySeq DEF Thread, TypeOK
  <1>7. CASE Report
    BY <1>4, <1>7 DEF Report, flushVars
  <1>8. CASE Crash
    BY <1>3, <1>6, <1>8 DEF Crash, Vanish
  <1>9. CASE Restart
    BY <1>4, <1>9 DEF Restart, flushVars
  <1>10. CASE FlushStep(Daemon)
    <2> USE <1>3, <1>6 DEF Goto
    <2>1. CASE FlushStart(Daemon)
      BY <2>1 DEF FlushStart
    <2>2. CASE DrainBatch(Daemon)
      BY <2>2 DEF DrainBatch
    <2>3. CASE SendTaken(Daemon)
      BY <2>3 DEF SendTaken
    <2>4. CASE SendFailed(Daemon)
      BY <2>4 DEF SendFailed
    <2>5. CASE SpoolWrite(Daemon)
      BY <2>5 DEF SpoolWrite
    <2>6. CASE SpoolAbsent(Daemon)
      BY <2>6 DEF SpoolAbsent
    <2>7. CASE SpoolGivesUp(Daemon)
      BY <2>7 DEF SpoolGivesUp
    <2>8. CASE SpoolTrim(Daemon)
      BY <2>8 DEF SpoolTrim
    <2>17. CASE SpoolTrimFault(Daemon)
      BY <2>17 DEF SpoolTrimFault
    <2>9. CASE DrainedUnhealthy(Daemon)
      BY <2>9, ThreadsAssumption DEF DrainedUnhealthy, Rest
    <2>10. CASE DrainedHealthy(Daemon)
      BY <2>10 DEF DrainedHealthy
    <2>11. CASE ReplayFinish(Daemon)
      BY <2>11, ThreadsAssumption DEF ReplayFinish, Rest
    <2>12. CASE ReplayRead(Daemon)
      <3>1. /\ UNCHANGED <<spool, toReplay>>
            /\ lines'[Daemon] = LinesOf(Head(toReplay[Daemon]))
            /\ pc'[Daemon] = IF LinesOf(Head(toReplay[Daemon])) = << >> THEN "discard" ELSE "resend"
        BY <2>12 DEF ReplayRead, TypeOK
      <3>2. ASSUME NEW i \in 1..Len(spool), spool[i].id = Head(toReplay[Daemon])
            PROVE  LinesOf(Head(toReplay[Daemon])) = spool[i].lines
        BY <3>2, PositionIs
      <3>3. Range(<< >>) = {}
        BY <1>5
      <3> QED  BY <3>1, <3>2, <3>3 DEF ReplayOK
    <2>13. CASE ReplayReadFault(Daemon)
      <3>1. /\ UNCHANGED <<spool, toReplay>> /\ pc'[Daemon] = "discard"
            /\ Range(LinesOf(Head(toReplay[Daemon]))) \subseteq Settled'
        BY <2>13 DEF ReplayReadFault, Settled
      <3>2. ASSUME NEW i \in 1..Len(spool), spool[i].id = Head(toReplay[Daemon])
            PROVE  LinesOf(Head(toReplay[Daemon])) = spool[i].lines
        BY <3>2, PositionIs
      <3> QED  BY <3>1, <3>2 DEF ReplayOK
    <2>14. CASE ResendTaken(Daemon)
      <3>1. /\ UNCHANGED <<spool, toReplay>> /\ pc'[Daemon] = "discard"
            /\ pc[Daemon] = "resend" /\ Range(lines[Daemon]) \subseteq Settled'
        BY <2>14 DEF ResendTaken, PostAccepted, PostRefused, Settled
      <3> QED  BY <1>1, <3>1 DEF ReplayOK
    <2>15. CASE ResendFailed(Daemon)
      BY <2>15, ThreadsAssumption DEF ResendFailed, Rest
    <2>16. CASE Discard(Daemon)
      BY <2>16 DEF Discard
    <2> QED
      BY <1>10, <2>1, <2>2, <2>3, <2>4, <2>5, <2>6, <2>7, <2>8, <2>9, <2>10, <2>11, <2>12, <2>13, <2>14, <2>15, <2>16, <2>17
      DEF FlushStep
  <1>11. CASE UNCHANGED vars
    BY <1>4, <1>11 DEF vars, flushVars
  <1> QED  BY <1>1, <1>7, <1>8, <1>9, <1>10, <1>11 DEF Next

\* An event on disk is a line of a segment.
DiskEvents ==
    \A e : e \in InSpool <=> \E i \in 1..Len(spool) : \E j \in 1..Len(spool[i].lines) :
                                 e = spool[i].lines[j]

LEMMA SpoolMember == TypeOK => DiskEvents
  <1> SUFFICES ASSUME TypeOK PROVE DiskEvents
    OBVIOUS
  <1>2. DOMAIN spool = 1..Len(spool)
    BY LengthsTyped
  <1>3. ASSUME NEW e
        PROVE  e \in InSpool <=> \E i \in 1..Len(spool) : e \in Range(spool[i].lines)
    BY <1>2 DEF InSpool
  <1>4. ASSUME NEW e, NEW i \in 1..Len(spool)
        PROVE  e \in Range(spool[i].lines)
                   <=> \E j \in 1..Len(spool[i].lines) : e = spool[i].lines[j]
    <2> DEFINE s == spool[i].lines
    <2>1. s \in Seq(Nat)
      BY LengthsTyped
    <2> HIDE DEF s
    <2>2. (e \in Range(s)) <=> (\E j \in 1..Len(s) : e = s[j])
      BY <2>1, RangeIsListed
    <2> QED  BY <2>2 DEF s
  <1>5. ASSUME NEW e
        PROVE  (e \in InSpool) <=> (\E i \in 1..Len(spool) : \E j \in 1..Len(spool[i].lines) :
                                       e = spool[i].lines[j])
    <2>1. ASSUME NEW i \in 1..Len(spool)
          PROVE  (e \in Range(spool[i].lines))
                     <=> (\E j \in 1..Len(spool[i].lines) : e = spool[i].lines[j])
      BY <1>4
    <2>2. (e \in InSpool) <=> (\E i \in 1..Len(spool) : e \in Range(spool[i].lines))
      BY <1>3
    <2> QED  BY <2>1, <2>2, Zenon
  <1> QED  BY <1>5 DEF DiskEvents

\* Before any exit, a line leaves the disk only when its event is settled.
LEMMA SpoolShrinks ==
    ASSUME TypeOK, TypeOK', ControlOK, IdsOK, ReplayOK, Kept', [Next]_vars
    PROVE  InSpool \subseteq InSpool' \cup Settled'
  <1>1. Kept /\ \A t \in Thread : FlushStep(t) => t = Daemon
    BY KeptIsBefore
  <1>2. DiskEvents /\ DiskEvents'
    BY SpoolMember, PTL
  <1>3. ASSUME UNCHANGED spool PROVE InSpool \subseteq InSpool' \cup Settled'
    BY <1>3 DEF InSpool
  <1> DEFINE Stays(i) == \E h \in 1..Len(spool') : spool'[h] = spool[i]
             Leaves(i) == Range(spool[i].lines) \subseteq Settled'
  <1>4. ASSUME \A i \in 1..Len(spool) : Stays(i) \/ Leaves(i)
        PROVE  InSpool \subseteq InSpool' \cup Settled'
    <2> SUFFICES ASSUME NEW i \in 1..Len(spool), NEW j \in 1..Len(spool[i].lines)
                 PROVE  spool[i].lines[j] \in InSpool' \cup Settled'
      BY <1>2 DEF DiskEvents
    <2>1. CASE Stays(i)
      BY <1>2, <2>1 DEF DiskEvents
    <2>2. CASE Leaves(i)
      <3>1. Range(spool[i].lines) = {spool[i].lines[n] : n \in 1..Len(spool[i].lines)}
        BY LengthsTyped, RangeFacts
      <3> QED  BY <2>2, <3>1
    <2> QED  BY <1>4, <2>1, <2>2
  <1>5. ASSUME NEW t \in Thread, SpoolWrite(t) PROVE InSpool \subseteq InSpool' \cup Settled'
    <2>1. PICK k \in 1..(Len(spool) + 1), m \in Nat :
               /\ k >= Len(spool) /\ Len(spool') = k
               /\ k <= Len(spool) => m = Len(spool[k].lines)
               /\ k > Len(spool) => m = 0
               /\ \A i \in 1..(k - 1) : spool'[i] = spool[i]
               /\ Len(spool'[k].lines) = m + Len(batch[t])
               /\ \A j \in 1..m : spool'[k].lines[j] = spool[k].lines[j]
               /\ \A n \in 1..Len(batch[t]) : spool'[k].lines[m + n] = batch[t][n]
      BY <1>5, WrittenLines
    <2>2. Len(spool) \in Nat /\ Len(batch[t]) \in Nat
      BY LengthsTyped
    <2> SUFFICES ASSUME NEW i \in 1..Len(spool), NEW j \in 1..Len(spool[i].lines)
                 PROVE  spool[i].lines[j] \in InSpool'
      BY <1>2 DEF DiskEvents
    <2>3. CASE i = k
      <3>1. j \in 1..m /\ j \in 1..(m + Len(batch[t])) /\ k \in 1..Len(spool')
        BY <2>1, <2>2, <2>3
      <3> QED  BY <1>2, <2>1, <2>3, <3>1 DEF DiskEvents
    <2>4. CASE i # k
      <3>1. i \in 1..(k - 1) /\ i \in 1..Len(spool')
        BY <2>1, <2>2, <2>4
      <3>2. spool'[i] = spool[i]
        BY <2>1, <3>1
      <3> QED  BY <1>2, <3>1, <3>2 DEF DiskEvents
    <2> QED  BY <2>3, <2>4
  <1>6. ASSUME NEW t \in Thread, SpoolTrim(t) \/ SpoolTrimFault(t)
        PROVE  InSpool \subseteq InSpool' \cup Settled'
    <2>1. CASE UNCHANGED spool
      BY <1>3, <2>1
    <2>2. CASE disabled
      <3>1. SubSeq(spool, 1, Len(spool)) = spool
        BY SubSeqFull DEF TypeOK
      <3> QED  BY <1>3, <1>6, <2>2, <3>1 DEF SpoolTrim, SpoolTrimFault
    <2>3. CASE ~ disabled /\ spool' = SubSeq(spool, Trimmed, Len(spool)) /\ spool' # spool
      <3> DEFINE n == Trimmed - 1
      <3>1. spool \in Seq(Segment) /\ Len(spool) \in Nat
        BY LengthsTyped
      <3>2. n \in 0..Len(spool) /\ Trimmed = n + 1
        BY <3>1, TrimmedIsCut
      <3>3. \A i \in 1..n : Range(spool[i].lines) \subseteq Settled'
        <4>1. CASE SpoolTrim(t)
          BY <2>3, <4>1 DEF SpoolTrim, Settled
        <4>2. CASE SpoolTrimFault(t)
          <5>1. PICK k \in 1..n :
                     /\ counted' = counted \cup UNION {Range(spool[j].lines) : j \in (1..n) \ {k}}
                     /\ writtenOff' = writtenOff \cup Range(spool[k].lines)
            BY <2>3, <4>2, Zenon DEF SpoolTrimFault
          <5>2. ASSUME NEW i \in 1..n PROVE Range(spool[i].lines) \subseteq Settled'
            <6>1. CASE i = k
              BY <5>1, <6>1 DEF Settled
            <6>2. CASE i # k
              BY <5>1, <6>2 DEF Settled
            <6> QED  BY <6>1, <6>2
          <5> QED  BY <5>2
        <4> QED  BY <1>6, <4>1, <4>2
      <3> HIDE DEF n
      <3>4. /\ Len(spool') = Len(spool) - n
            /\ \A i \in 1..(Len(spool) - n) : spool'[i] = spool[n + i]
        BY <2>3, <3>1, <3>2, SplitSeq
      <3>5. ASSUME NEW i \in 1..Len(spool) PROVE Stays(i) \/ Leaves(i)
        <4>1. CASE i <= n
          <5>1. i \in 1..n
            BY <3>2, <4>1
          <5> QED  BY <3>3, <5>1
        <4>2. CASE ~ (i <= n)
          <5>1. i - n \in 1..(Len(spool) - n) /\ n + (i - n) = i
            BY <3>1, <3>2, <4>2
          <5>2. spool'[i - n] = spool[i] /\ i - n \in 1..Len(spool')
            BY <3>4, <5>1
          <5> QED  BY <5>2
        <4> QED  BY <4>1, <4>2
      <3> QED  BY <1>4, <3>5
    <2> QED  BY <1>6, <2>1, <2>2, <2>3 DEF SpoolTrim, SpoolTrimFault
  <1>7. ASSUME Discard(Daemon) PROVE InSpool \subseteq InSpool' \cup Settled'
    <2> DEFINE id == Head(toReplay[Daemon])
               k == Position(id)
    <2>1. CASE UNCHANGED spool
      BY <1>3, <2>1
    <2>2. CASE OnDisk(id) /\ spool' = RemoveAt(spool, k)
      <3>1. spool \in Seq(Segment) /\ Len(spool) \in Nat /\ DOMAIN spool = 1..Len(spool)
        BY LengthsTyped
      <3>2. k \in 1..Len(spool) /\ spool[k].id = id
        <4>1. k \in DOMAIN spool /\ spool[k].id = id
          BY <2>2, PositionIsThere, Zenon
        <4> QED  BY <3>1, <4>1
      <3>3. Range(spool[k].lines) \subseteq Settled'
        <4>1. pc[Daemon] = "discard"
          BY <1>7 DEF Discard
        <4>2. \A i \in 1..Len(spool) :
                  spool[i].id = id => Range(spool[i].lines) \subseteq Settled
          BY <1>1, <4>1 DEF ReplayOK
        <4> HIDE DEF k, id
        <4>3. Range(spool[k].lines) \subseteq Settled
          BY <3>2, <4>2
        <4> QED  BY <4>3, SettledGrows
      <3> HIDE DEF k
      <3>4. /\ Len(spool') = Len(spool) - 1
            /\ \A i \in 1..(Len(spool) - 1) :
                   spool'[i] = IF i < k THEN spool[i] ELSE spool[i + 1]
        BY <2>2, <3>1, <3>2, RemoveAtProperties, Zenon
      <3>5. ASSUME NEW i \in 1..Len(spool) PROVE Stays(i) \/ Leaves(i)
        <4>1. CASE i < k
          <5>1. i \in 1..Len(spool')
            BY <3>1, <3>2, <3>4, <4>1
          <5> QED  BY <3>4, <4>1, <5>1
        <4>2. CASE i = k
          BY <3>3, <4>2
        <4>3. CASE i > k
          <5>1. i - 1 \in 1..(Len(spool) - 1) /\ ~ (i - 1 < k) /\ (i - 1) + 1 = i
            BY <3>1, <3>2, <4>3
          <5>2. spool'[i - 1] = spool[i]
            BY <3>4, <5>1
          <5> QED  BY <3>4, <5>1, <5>2
        <4> QED  BY <3>2, <4>1, <4>2, <4>3
      <3> QED  BY <1>4, <3>5
    <2> QED  BY <1>7, <2>1, <2>2 DEF Discard
  <1>8. ASSUME NEW t \in Thread, FlushStep(t) PROVE InSpool \subseteq InSpool' \cup Settled'
    <2>0. t = Daemon
      BY <1>1, <1>8
    <2>1. CASE SpoolWrite(t)
      BY <1>5, <2>1
    <2>2. CASE SpoolTrim(t) \/ SpoolTrimFault(t)
      BY <1>6, <2>2
    <2>3. CASE Discard(t)
      BY <1>7, <2>0, <2>3
    <2>4. CASE UNCHANGED spool
      BY <1>3, <2>4
    <2> QED
      BY <1>8, <2>1, <2>2, <2>3, <2>4
      DEF FlushStep, FlushStart, DrainBatch, SendTaken, SendFailed, SpoolAbsent, SpoolGivesUp,
          DrainedUnhealthy, DrainedHealthy, ReplayFinish, ReplayRead, ReplayReadFault,
          ResendTaken, ResendFailed
  <1>9. CASE Report \/ Crash \/ Shutdown \/ Halt \/ Restart \/ UNCHANGED vars
    BY <1>3, <1>9 DEF Report, Crash, Shutdown, Halt, Restart, vars
  <1> QED  BY <1>8, <1>9 DEF Next

\* Nothing the application reported is ever nowhere.
LEMMA VanishStep ==
    ASSUME TypeOK, TypeOK', ControlOK, IdsOK, ReplayOK, NothingVanishes, [Next]_vars
    PROVE  NothingVanishes'
  <1> SUFFICES ASSUME Kept', NEW e \in 1..reported'
               PROVE  e \in Settled' \cup Waiting' \cup InSpool'
    BY DEF NothingVanishes, Waiting
  <1>1. /\ Kept /\ ~ Halt /\ \A t \in Thread : ~ SpoolAbsent(t)
    BY KeptIsBefore
  <1>2. Settled \subseteq Settled' /\ InSpool \subseteq InSpool' \cup Settled'
    BY SettledGrows, SpoolShrinks
  <1>3. Waiting \subseteq Settled' \cup Waiting' \cup InSpool'
    <2>1. ASSUME NEW t \in Thread, SpoolWrite(t) PROVE Range(batch[t]) \subseteq InSpool'
      <3>1. PICK k \in 1..(Len(spool) + 1), m \in Nat :
                 /\ Len(spool') = k
                 /\ Len(spool'[k].lines) = m + Len(batch[t])
                 /\ \A n \in 1..Len(batch[t]) : spool'[k].lines[m + n] = batch[t][n]
        BY <2>1, WrittenLines
      <3>2. Len(spool) \in Nat /\ Len(batch[t]) \in Nat
        BY LengthsTyped
      <3>3. DiskEvents'
        BY SpoolMember, PTL
      <3>4. ASSUME NEW n \in 1..Len(batch[t]) PROVE batch[t][n] \in InSpool'
        <4>1. k \in 1..Len(spool') /\ m + n \in 1..(m + Len(batch[t]))
          BY <3>1, <3>2
        <4> QED  BY <3>1, <3>3, <4>1 DEF DiskEvents
      <3>5. ASSUME NEW e1 \in Range(batch[t])
            PROVE  \E n \in 1..Len(batch[t]) : e1 = batch[t][n]
        <4>1. batch[t] \in Seq(Nat)
          BY LengthsTyped
        <4> QED  BY <4>1, RangeIsListed
      <3> QED  BY <3>4, <3>5
    <2> QED  BY <1>1, <2>1, WaitingShrinks
  <1>4. CASE reported' = reported
    BY <1>1, <1>2, <1>3, <1>4 DEF NothingVanishes, Waiting
  <1>5. CASE Report /\ reported' = reported + 1
    <2>1. CASE e = reported + 1
      BY <1>5, <2>1, ReportPlaces
    <2>2. CASE e # reported + 1
      <3>1. e \in 1..reported
        BY <1>5, <2>2 DEF TypeOK
      <3> QED  BY <1>1, <1>2, <1>3, <3>1 DEF NothingVanishes, Waiting
    <2> QED  BY <2>1, <2>2
  <1> QED  BY <1>4, <1>5, WaitingGrows

-----------------------------------------------------------------------------
(* How much is on disk                                                      *)

\* What the sums below need of multiplication.
LEMMA Scaled ==
    ASSUME NEW b \in Nat
    PROVE  /\ \A n \in Nat : b * n \in Nat /\ b * (n + 1) = b * n + b
           /\ \A m, n \in Nat : m <= n => b * m <= b * n
  <1>1. \A n \in Nat : b * n \in Nat /\ b * (n + 1) = b * n + b
    OBVIOUS
  <1>2. ASSUME NEW m \in Nat, NEW n \in Nat, m <= n PROVE b * m <= b * n
    <2>1. n - m \in Nat /\ n = m + (n - m)
      BY <1>2
    <2>2. b * n = b * m + b * (n - m)
      BY <2>1
    <2>3. b * (n - m) \in Nat /\ b * m \in Nat /\ b * n \in Nat
      BY <2>1
    <2> HIDE <2>1
    <2> QED  BY <2>2, <2>3
  <1> QED  BY <1>1, <1>2

\* What they need of addition.
LEMMA Adding ==
    /\ \A a, b \in Nat : a + b \in Nat
    /\ \A a, b, c, d \in Nat : a >= c /\ b >= d => a + b >= c + d
    /\ \A a, b \in Nat : b = 0 => a + b = a
    /\ \A a, b, c, d \in Nat : d >= c /\ b = a + (d - c) => b >= a
    /\ \A c, d \in Nat : d = c + 1 => d - c = 1
  OBVIOUS

LEMMA AllowedGrows ==
    /\ \A n \in Nat : /\ Allowed(n) \in Nat /\ Allowed(n) >= MaxSpool
                      /\ Allowed(n + 1) = Allowed(n) + BatchSize
    /\ \A m, n \in Nat : m <= n => Allowed(m) <= Allowed(n)
  <1>1. BatchSize \in Nat /\ MaxSpool \in Nat
    BY SizesAssumption
  <1>2. ASSUME NEW n \in Nat
        PROVE  /\ Allowed(n) \in Nat /\ Allowed(n) >= MaxSpool
               /\ Allowed(n + 1) = Allowed(n) + BatchSize
    <2>1. BatchSize * n \in Nat /\ BatchSize * (n + 1) = BatchSize * n + BatchSize
      BY <1>1, Scaled
    <2> DEFINE x == BatchSize * n
               y == BatchSize * (n + 1)
    <2> HIDE DEF x, y
    <2>2. MaxSpool + x \in Nat /\ MaxSpool + x >= MaxSpool /\ MaxSpool + y = (MaxSpool + x) + BatchSize
      <3>1. x \in Nat /\ y = x + BatchSize
        BY <2>1 DEF x, y
      <3> QED  BY <1>1, <3>1
    <2> QED  BY <2>2 DEF Allowed, x, y
  <1>3. ASSUME NEW m \in Nat, NEW n \in Nat, m <= n PROVE Allowed(m) <= Allowed(n)
    <2> DEFINE x == BatchSize * m
               y == BatchSize * n
    <2>1. x \in Nat /\ y \in Nat /\ x <= y
      BY <1>1, <1>3, Scaled
    <2> HIDE DEF x, y
    <2>2. MaxSpool + x <= MaxSpool + y
      BY <1>1, <2>1
    <2> QED  BY <2>2 DEF Allowed, x, y
  <1> QED  BY <1>2, <1>3

\* A line of a segment list, as LinesOn lists it.
LEMMA LinesOnMember ==
    ASSUME NEW s \in Seq(Segment)
    PROVE  /\ \A i \in 1..Len(s) : \A j \in 1..Len(s[i].lines) : <<i, j>> \in LinesOn(s)
           /\ \A x \in LinesOn(s) : \E i \in 1..Len(s) : \E j \in 1..Len(s[i].lines) : x = <<i, j>>
  <1>1. DOMAIN s = 1..Len(s)
    BY LenProperties
  <1>2. ASSUME NEW i \in 1..Len(s) PROVE DOMAIN s[i].lines = 1..Len(s[i].lines)
    <2>1. s[i] \in Segment
      BY ElementOfSeq
    <2>2. s[i].lines \in Seq(Nat)
      BY <2>1 DEF Segment
    <2> QED  BY <2>2, LenProperties
  <1> QED  BY <1>1, <1>2 DEF LinesOn

\* Losing segments makes the spool lighter.
LEMMA ThinWeight ==
    ASSUME TypeOK, TypeOK', Thins
    PROVE  SpoolWeight' <= SpoolWeight
  <1>0. spool \in Seq(Segment) /\ spool' \in Seq(Segment)
    BY DEF TypeOK
  <1>1. PICK g \in [1..Len(spool') -> 1..Len(spool)] :
               /\ \A i, j \in 1..Len(spool') : i < j => g[i] < g[j]
               /\ \A i \in 1..Len(spool') : spool'[i] = spool[g[i]]
    BY DEF Thins
  <1> DEFINE S == LinesOn(spool')
             T == LinesOn(spool)
             f == [x \in S |-> <<g[x[1]], x[2]>>]
  <1>2. ASSUME NEW x \in S
        PROVE  /\ x = <<x[1], x[2]>> /\ x[1] \in 1..Len(spool') /\ f[x] \in T
               /\ f[x] = <<g[x[1]], x[2]>>
    <2>0. PICK i \in 1..Len(spool') : \E j \in 1..Len(spool'[i].lines) : x = <<i, j>>
      BY <1>0, LinesOnMember
    <2>1. PICK j \in 1..Len(spool'[i].lines) : x = <<i, j>>
      BY <2>0
    <2>2. g[i] \in 1..Len(spool) /\ j \in 1..Len(spool[g[i]].lines)
      BY <1>1, <2>1
    <2>3. <<g[i], j>> \in T
      BY <1>0, <2>2, LinesOnMember
    <2> QED  BY <2>1, <2>3
  <1>3. ASSUME NEW i \in 1..Len(spool'), NEW j \in 1..Len(spool'), g[i] = g[j]
        PROVE  i = j
    <2>1. g[i] \in 1..Len(spool) /\ g[j] \in 1..Len(spool)
      BY <1>1
    <2>2. ~ (i < j) /\ ~ (j < i)
      BY <1>1, <1>3, <2>1
    <2> QED  BY <2>2
  <1>4. ASSUME NEW x \in S, NEW y \in S, f[x] = f[y] PROVE x = y
    <2>1. g[x[1]] = g[y[1]] /\ x[2] = y[2]
      BY <1>2, <1>4
    <2>2. x[1] = y[1]
      BY <1>2, <1>3, <2>1
    <2> QED  BY <1>2, <2>1, <2>2
  <1>5. f \in Injection(S, T)
    BY <1>2, <1>4 DEF Injection, IsInjective
  <1>6. IsFiniteSet(T)
    BY <1>0, LinesOnFinite
  <1> HIDE DEF f, S, T
  <1>7. Cardinality(S) <= Cardinality(T)
    BY <1>5, <1>6, FS_Injection
  <1> QED  BY <1>7 DEF S, T, SpoolWeight

\* append adds the lines of one batch.
LEMMA WriteWeight ==
    ASSUME TypeOK, TypeOK', NEW t \in Thread, SpoolWrite(t)
    PROVE  SpoolWeight' <= SpoolWeight + Len(batch[t])
  <1>0. /\ spool \in Seq(Segment) /\ spool' \in Seq(Segment)
        /\ Len(spool) \in Nat /\ Len(batch[t]) \in Nat
    BY LengthsTyped DEF TypeOK
  <1>1. PICK k \in 1..(Len(spool) + 1), m \in Nat :
               /\ k >= Len(spool) /\ Len(spool') = k
               /\ k <= Len(spool) => m = Len(spool[k].lines)
               /\ k > Len(spool) => m = 0
               /\ \A i \in 1..(k - 1) : spool'[i] = spool[i]
               /\ Len(spool'[k].lines) = m + Len(batch[t])
               /\ \A j \in 1..m : spool'[k].lines[j] = spool[k].lines[j]
               /\ \A n \in 1..Len(batch[t]) : spool'[k].lines[m + n] = batch[t][n]
    BY WrittenLines
  <1> DEFINE new == {k} \X ((m + 1)..(m + Len(batch[t])))
  <1>2. LinesOn(spool') \subseteq LinesOn(spool) \cup new
    <2> SUFFICES ASSUME NEW x \in LinesOn(spool') PROVE x \in LinesOn(spool) \cup new
      OBVIOUS
    <2>0. PICK i \in 1..k : \E j \in 1..Len(spool'[i].lines) : x = <<i, j>>
      BY <1>0, <1>1, LinesOnMember
    <2>1. PICK j \in 1..Len(spool'[i].lines) : x = <<i, j>>
      BY <2>0
    <2>2. CASE i # k
      <3>1. i \in 1..(k - 1) /\ i \in 1..Len(spool)
        BY <1>0, <2>2
      <3>2. j \in 1..Len(spool[i].lines)
        BY <1>1, <3>1
      <3> QED  BY <1>0, <2>1, <3>1, <3>2, LinesOnMember
    <2>3. CASE i = k
      <3>1. j \in 1..(m + Len(batch[t]))
        BY <1>1, <2>3
      <3>2. CASE j <= m
        <4>1. k <= Len(spool) /\ k \in 1..Len(spool) /\ j \in 1..Len(spool[k].lines)
          BY <1>0, <1>1, <3>1, <3>2
        <4> QED  BY <1>0, <2>1, <2>3, <4>1, LinesOnMember
      <3>3. CASE ~ (j <= m)
        <4>1. j \in (m + 1)..(m + Len(batch[t]))
          BY <1>0, <3>1, <3>3
        <4> QED  BY <2>1, <2>3, <4>1
      <3> QED  BY <3>2, <3>3
    <2> QED  BY <2>2, <2>3
  <1>3. IsFiniteSet(new) /\ Cardinality(new) = Len(batch[t])
    <2> DEFINE places == (m + 1)..(m + Len(batch[t]))
    <2>1. IsFiniteSet(places) /\ Cardinality(places) = Len(batch[t])
      <3> DEFINE a == m + 1
                 b == m + Len(batch[t])
      <3>1. a \in Int /\ b \in Int /\ (IF a > b THEN 0 ELSE b - a + 1) = Len(batch[t])
        BY <1>0
      <3> HIDE DEF a, b
      <3>2. IsFiniteSet(a..b) /\ Cardinality(a..b) = IF a > b THEN 0 ELSE b - a + 1
        BY <3>1, FS_Interval
      <3>3. IsFiniteSet(a..b) /\ Cardinality(a..b) = Len(batch[t])
        BY <3>1, <3>2
      <3> QED  BY <3>3 DEF a, b
    <2>2. IsFiniteSet({k}) /\ Cardinality({k}) = 1
      BY FS_Singleton
    <2> HIDE DEF places
    <2>3. IsFiniteSet({k} \X places) /\ Cardinality({k} \X places) = 1 * Cardinality(places)
      BY <2>1, <2>2, FS_Product
    <2> QED  BY <1>0, <2>1, <2>3 DEF places
  <1> HIDE DEF new
  <1> DEFINE T == LinesOn(spool)
  <1>4. IsFiniteSet(T) /\ Cardinality(T) \in Nat
    BY <1>0, LinesOnFinite
  <1> HIDE DEF T
  <1>5. /\ IsFiniteSet(T \cup new)
        /\ Cardinality(T \cup new) = Cardinality(T) + Cardinality(new) - Cardinality(T \cap new)
    BY <1>3, <1>4, FS_Union
  <1>6. Cardinality(T \cap new) \in Nat
    <2>1. IsFiniteSet(T \cap new)
      BY <1>4, FS_Subset
    <2> QED  BY <2>1, FS_CardinalityType
  <1>7. Cardinality(LinesOn(spool')) <= Cardinality(T \cup new)
    BY <1>2, <1>5, FS_Subset DEF T
  <1>8. Cardinality(LinesOn(spool')) \in Nat
    BY <1>0, LinesOnFinite
  <1> QED  BY <1>0, <1>3, <1>4, <1>5, <1>6, <1>7, <1>8 DEF T, SpoolWeight

\* A trim leaves the spool under its ceiling, unless a delete fails or the spool
\* has disabled itself.
LEMMA TrimWeight ==
    ASSUME TypeOK, NEW t \in Thread, SpoolTrim(t)
    PROVE  \/ disabled /\ UNCHANGED <<spool, faults>>
           \/ ~ disabled /\ SpoolWeight' <= MaxSpool /\ UNCHANGED faults
           \/ ~ disabled /\ UNCHANGED spool /\ faults' = faults + 1
  <1>1. CASE disabled
    <2>1. SubSeq(spool, 1, Len(spool)) = spool
      BY SubSeqFull DEF TypeOK
    <2> QED  BY <1>1, <2>1 DEF SpoolTrim
  <1>2. CASE ~ disabled /\ spool' = SubSeq(spool, Trimmed, Len(spool)) /\ UNCHANGED faults
    <2>1. SuffixWeight(Trimmed) <= MaxSpool
      BY TrimmedIsCut DEF TypeOK
    <2> QED  BY <1>2, <2>1 DEF SuffixWeight, SpoolWeight
  <1>3. CASE ~ disabled /\ UNCHANGED spool /\ faults' = faults + 1
    BY <1>3
  <1> QED  BY <1>1, <1>2, <1>3 DEF SpoolTrim

\* So does one whose reads fail, unless the listing fails or disables the spool.
LEMMA TrimFaultWeight ==
    ASSUME TypeOK, NEW t \in Thread, SpoolTrimFault(t)
    PROVE  \/ SpoolWeight' <= MaxSpool
           \/ UNCHANGED spool
  <1>1. CASE spool' = SubSeq(spool, Trimmed, Len(spool))
    <2>1. SuffixWeight(Trimmed) <= MaxSpool
      BY TrimmedIsCut DEF TypeOK
    <2> QED  BY <1>1, <2>1 DEF SuffixWeight, SpoolWeight
  <1> QED  BY <1>1 DEF SpoolTrimFault

\* The sums are numbers; the hook is in an append only during an exit.
Sums ==
    /\ SpoolWeight \in Nat /\ Overhang \in Nat /\ Trims \in Nat /\ Failing \in Nat
    /\ Stopping \in {0, 1} /\ Stopping <= shutdowns
    /\ shutdowns - Stopping \in Nat
    /\ Trims <= 1 + Stopping /\ Failing <= 1 + Stopping
    /\ Slack \in Nat

LEMMA SumsTyped == TypeOK /\ ControlOK => Sums
  <1> SUFFICES ASSUME TypeOK, ControlOK PROVE Sums
    OBVIOUS
  <1>1. SpoolWeight \in Nat
    BY LinesOnFinite DEF TypeOK, SpoolWeight
  <1>2. Stopping \in {0, 1} /\ Stopping <= shutdowns /\ shutdowns - Stopping \in Nat
    BY DEF Stopping, ControlOK, TypeOK
  <1>3. Overhang \in Nat
    BY <1>2 DEF Overhang, TypeOK
  <1>4. /\ Trims \in Nat /\ Trims <= 1 + Stopping
        /\ Failing \in Nat /\ Failing <= 1 + Stopping
    BY DEF Trims, Failing, At, Stopping, ControlOK
  <1>5. Slack \in Nat
    BY <1>2, <1>3, <1>4 DEF Slack
  <1> QED  BY <1>1, <1>2, <1>3, <1>4, <1>5 DEF Sums

\* A thread that moves counts where it arrives and no longer where it left.
LEMMA MoveCounts ==
    ASSUME TypeOK, NEW t \in Thread, NEW label, Goto(t, label)
    PROVE  /\ Trims' = Trims - At(t, "trim") + (IF label = "trim" THEN 1 ELSE 0)
           /\ Failing' = Failing - At(t, "spool") + (IF label = "spool" THEN 1 ELSE 0)
  <1>1. t = Daemon \/ t = Hook
    BY DEF Thread
  <1>2. CASE t = Daemon
    <2>1. pc'[Daemon] = label /\ pc'[Hook] = pc[Hook]
      BY <1>2, ThreadsAssumption DEF TypeOK, Thread, Goto
    <2> QED  BY <1>2, <2>1 DEF Trims, Failing, At
  <1>3. CASE t = Hook
    <2>1. pc'[Hook] = label /\ pc'[Daemon] = pc[Daemon]
      BY <1>3, ThreadsAssumption DEF TypeOK, Thread, Goto
    <2> QED  BY <1>3, <2>1 DEF Trims, Failing, At
  <1> QED  BY <1>1, <1>2, <1>3

\* The allowance of a spool that is quiet, and of one that is not.
LEMMA SlackIs ==
    /\ disabled => Slack = Overhang + Stopping
    /\ ~ disabled => Slack = Overhang + Trims
    /\ disabled' => Slack' = Overhang' + Stopping'
    /\ ~ disabled' => Slack' = Overhang' + Trims'
  BY Zenon DEF Slack

\* A step that adds nothing to the spool and takes nothing from the allowance.
LEMMA KeepsBound ==
    ASSUME BoundOK, Sums, Sums', SpoolWeight' <= SpoolWeight, Slack' >= Slack
    PROVE  BoundOK'
  <1>1. SpoolWeight \in Nat /\ SpoolWeight' \in Nat /\ Slack \in Nat /\ Slack' \in Nat
    BY DEF Sums
  <1> DEFINE a == Allowed(Slack)
             a2 == Allowed(Slack')
  <1>2. a \in Nat /\ a2 \in Nat /\ a <= a2
    <2>1. Slack <= Slack'
      BY <1>1
    <2> QED  BY <1>1, <2>1, AllowedGrows
  <1>3. SpoolWeight <= a
    BY DEF BoundOK
  <1> HIDE DEF a, a2
  <1>4. SpoolWeight' <= a2
    BY <1>1, <1>2, <1>3
  <1>5. (Allowed(Slack))' = a2
    BY DEF a2, Allowed
  <1> QED  BY <1>4, <1>5 DEF BoundOK

\* So is a step that leaves the spool under its ceiling.
LEMMA TrimmedBound ==
    ASSUME Sums', SpoolWeight' <= MaxSpool
    PROVE  BoundOK'
  <1>1. SpoolWeight' \in Nat /\ Slack' \in Nat
    BY DEF Sums
  <1>2. Allowed(Slack') >= MaxSpool /\ Allowed(Slack') \in Nat
    BY <1>1, AllowedGrows
  <1>3. SpoolWeight' <= Allowed(Slack')
    BY <1>1, <1>2, SizesAssumption
  <1>4. (Allowed(Slack))' = Allowed(Slack')
    BY DEF Allowed
  <1> QED  BY <1>3, <1>4 DEF BoundOK

\* No step of flushOnce takes the disk beyond its allowance.
LEMMA BoundFlush ==
    ASSUME TypeOK, TypeOK', ControlOK, ControlOK', SizesOK, BoundOK,
           NEW t \in Thread, FlushStep(t)
    PROVE  BoundOK'
  <1>a. Sums /\ Sums'
    BY SumsTyped, PTL
  <1>1. /\ SpoolWeight \in Nat /\ Overhang \in Nat /\ Trims \in Nat
        /\ SpoolWeight' \in Nat /\ Overhang' \in Nat /\ Trims' \in Nat
        /\ Overhang + Trims \in Nat
    BY <1>a DEF Sums
  <1>b. At(t, "trim") = IF pc[t] = "trim" THEN 1 ELSE 0
    BY DEF At
  <1>2. /\ UNCHANGED <<mode, crashes, shutdowns>> /\ Stopping' = Stopping
        /\ faults \in Nat /\ faults' \in Nat /\ crashes \in Nat /\ shutdowns \in Nat
    BY FlushFrame DEF Stopping, TypeOK
  <1>3. Overhang' = Overhang + (faults' - faults)
    <2>1. Stopping \in Nat
      BY <1>a DEF Sums
    <2> QED  BY <1>2, <2>1 DEF Overhang
  <1>4. Thins => SpoolWeight' <= SpoolWeight
    BY ThinWeight
  <1>5. UNCHANGED spool => SpoolWeight' = SpoolWeight
    BY DEF SpoolWeight
  <1>c. ASSUME NEW label, Goto(t, label)
        PROVE  Trims' = Trims - At(t, "trim") + (IF label = "trim" THEN 1 ELSE 0)
    BY <1>c, MoveCounts
  <1>d. Stopping \in Nat /\ Stopping' \in Nat /\ Trims <= 1 + Stopping
    BY <1>a DEF Sums
  <1>6. ASSUME pc[t] # "trim", NEW label, label # "trim", Goto(t, label), faults' >= faults,
               SpoolWeight' <= SpoolWeight, disabled' = disabled
        PROVE  BoundOK'
    <2>1. Trims' = Trims
      <3>1. Trims' = Trims - At(t, "trim") + (IF label = "trim" THEN 1 ELSE 0)
        BY <1>6, <1>c
      <3> QED  BY <1>1, <1>b, <1>6, <3>1
    <2>2. Overhang' >= Overhang
      BY <1>1, <1>2, <1>3, <1>6, Adding, Zenon
    <2>3. Slack' >= Slack
      <3>1. CASE disabled
        <4>1. Slack = Overhang + Stopping /\ Slack' = Overhang' + Stopping'
          BY <1>6, <3>1, SlackIs, Zenon
        <4>2. Stopping' >= Stopping
          BY <1>2, <1>d
        <4> QED  BY <1>1, <1>d, <2>2, <4>1, <4>2, Adding, Zenon
      <3>2. CASE ~ disabled
        <4>1. Slack = Overhang + Trims /\ Slack' = Overhang' + Trims'
          BY <1>6, <3>2, SlackIs, Zenon
        <4>2. Trims' >= Trims
          BY <1>1, <2>1
        <4> QED  BY <1>1, <2>2, <4>1, <4>2, Adding, Zenon
      <3> QED  BY <3>1, <3>2
    <2> QED  BY <1>a, <1>6, <2>3, KeepsBound
  <1>7. ASSUME pc[t] # "trim", NEW label, label # "trim", Goto(t, label),
               UNCHANGED <<spool, disabled, faults>>
        PROVE  BoundOK'
    <2>1. SpoolWeight' <= SpoolWeight /\ faults' >= faults
      BY <1>1, <1>2, <1>5, <1>7
    <2> QED  BY <1>6, <1>7, <2>1
  <1>8. CASE FlushStart(t)
    BY <1>7, <1>8 DEF FlushStart, envVars
  <1>9. CASE DrainBatch(t)
    BY <1>7, <1>9 DEF DrainBatch, envVars
  <1>10. CASE SendTaken(t)
    BY <1>7, <1>10 DEF SendTaken, envVars, PostAccepted, PostRefused
  <1>11. CASE SendFailed(t)
    BY <1>7, <1>11 DEF SendFailed, envVars, PostFailed
  <1>12. CASE SpoolWrite(t)
    <2>1. /\ Goto(t, "trim") /\ pc[t] = "spool" /\ ~ disabled /\ ~ disabled'
          /\ faults' = faults
      BY <1>12 DEF SpoolWrite, envVars
    <2>2. Trims' = Trims + 1
      <3>1. Trims' = Trims - At(t, "trim") + 1
        BY <2>1, <1>c
      <3> QED  BY <1>1, <1>b, <2>1, <3>1
    <2>3. SpoolWeight' <= SpoolWeight + Len(batch[t]) /\ Len(batch[t]) <= BatchSize
      BY <1>12, WriteWeight DEF SizesOK
    <2>4. Overhang' = Overhang
      BY <1>1, <1>2, <1>3, <2>1
    <2>5. Slack' = Slack + 1 /\ Slack \in Nat /\ Len(batch[t]) \in Nat
      <3>1. Len(batch[t]) \in Nat
        BY LengthsTyped
      <3> QED  BY <1>1, <2>1, <2>2, <2>4, <3>1 DEF Slack
    <2> DEFINE a == Allowed(Slack)
    <2>6. SpoolWeight <= a /\ a \in Nat /\ Allowed(Slack + 1) = a + BatchSize
      BY <2>5, AllowedGrows DEF BoundOK
    <2> HIDE DEF a
    <2>7. SpoolWeight' <= a + BatchSize
      BY <1>1, <2>3, <2>5, <2>6, SizesAssumption
    <2>8. (Allowed(Slack))' = Allowed(Slack')
      BY DEF Allowed
    <2> QED  BY <2>5, <2>6, <2>7, <2>8 DEF BoundOK
  <1>13. CASE SpoolAbsent(t)
    BY <1>7, <1>13 DEF SpoolAbsent, envVars
  <1>14. CASE SpoolGivesUp(t)
    <2>1. /\ Goto(t, "drain") /\ pc[t] = "spool" /\ spool' = spool
          /\ disabled \/ (~ disabled /\ faults' = faults + 1)
          /\ disabled => faults' = faults
      BY <1>14 DEF SpoolGivesUp
    <2>2. Trims' = Trims /\ SpoolWeight' = SpoolWeight
      <3>1. Trims' = Trims - At(t, "trim") + 0
        BY <2>1, <1>c
      <3> QED  BY <1>1, <1>b, <1>5, <2>1, <3>1
    <2>3. Slack' >= Slack
      <3>1. CASE disabled
        <4>1. disabled' /\ Overhang' = Overhang
          BY <1>1, <1>2, <1>3, <1>14, <2>1, <3>1 DEF SpoolGivesUp
        <4> QED  BY <1>1, <1>2, <1>d, <3>1, <4>1 DEF Slack
      <3>2. CASE ~ disabled
        <4>1. Overhang' = Overhang + 1
          <5>1. faults' = faults + 1
            BY <2>1, <3>2, Zenon
          <5>2. faults' - faults = 1
            BY <1>2, <5>1, Adding, Zenon
          <5> QED  BY <1>3, <5>2
        <4>2. Trims <= 1
          <5>1. CASE t = Daemon
            BY <2>1, <5>1 DEF Trims, At
          <5>2. CASE t = Hook
            BY <2>1, <5>2 DEF Trims, At
          <5> QED  BY <5>1, <5>2 DEF Thread
        <4>3. disabled'
          BY <1>14 DEF SpoolGivesUp
        <4>4. Slack = Overhang + Trims /\ Slack' = Overhang' + Stopping'
          BY <3>2, <4>3, SlackIs, Zenon
        <4>5. Overhang' >= Overhang + Trims /\ Overhang + Trims \in Nat
          BY <1>1, <4>1, <4>2
        <4>6. Overhang' + Stopping' >= Overhang + Trims
          <5>1. \A a, b, c \in Nat : a >= c => a + b >= c
            OBVIOUS
          <5> QED  BY <1>1, <1>d, <4>5, <5>1, Zenon
        <4> QED  BY <4>4, <4>6, Zenon
      <3> QED  BY <3>1, <3>2
    <2>4. SpoolWeight' <= SpoolWeight
      BY <1>1, <2>2
    <2> QED  BY <1>a, <2>3, <2>4, KeepsBound
  <1>15. CASE SpoolTrim(t)
    <2>1. Goto(t, "drain") /\ pc[t] = "trim" /\ disabled' = disabled
      BY <1>15 DEF SpoolTrim
    <2>2. Trims' = Trims - 1
      <3>1. Trims' = Trims - At(t, "trim") + 0
        BY <2>1, <1>c
      <3> QED  BY <1>1, <1>b, <2>1, <3>1
    <2>3. CASE disabled /\ UNCHANGED <<spool, faults>>
      <3>1. Overhang' = Overhang /\ SpoolWeight' <= SpoolWeight
        BY <1>1, <1>2, <1>3, <1>5, <2>3
      <3>2. Slack' >= Slack
        BY <1>1, <1>2, <1>d, <2>1, <2>3, <3>1 DEF Slack
      <3> QED  BY <1>a, <3>1, <3>2, KeepsBound
    <2>4. CASE SpoolWeight' <= MaxSpool
      BY <1>a, <2>4, TrimmedBound
    <2>5. CASE ~ disabled /\ UNCHANGED spool /\ faults' = faults + 1
      <3>1. SpoolWeight' <= SpoolWeight
        BY <1>1, <1>5, <2>5
      <3>2. Slack' >= Slack
        BY <1>1, <1>2, <1>3, <2>1, <2>2, <2>5 DEF Slack
      <3> QED  BY <1>a, <3>1, <3>2, KeepsBound
    <2> QED  BY <1>15, <2>3, <2>4, <2>5, TrimWeight
  <1>24. CASE SpoolTrimFault(t)
    <2>1. Goto(t, "drain") /\ pc[t] = "trim" /\ ~ disabled /\ faults' = faults + 1
      BY <1>24 DEF SpoolTrimFault
    <2>2. Trims' = Trims - 1
      <3>1. Trims' = Trims - At(t, "trim") + 0
        BY <2>1, <1>c
      <3> QED  BY <1>1, <1>b, <2>1, <3>1
    <2>3. Overhang' = Overhang + 1
      BY <1>1, <1>2, <1>3, <2>1
    <2>4. CASE SpoolWeight' <= MaxSpool
      BY <1>a, <2>4, TrimmedBound
    <2>5. CASE UNCHANGED spool
      <3>1. SpoolWeight' <= SpoolWeight
        BY <1>1, <1>5, <2>5
      <3>2. Slack' >= Slack
        BY <1>1, <1>2, <1>d, <2>1, <2>2, <2>3 DEF Slack
      <3> QED  BY <1>a, <3>1, <3>2, KeepsBound
    <2> QED  BY <1>24, <2>4, <2>5, TrimFaultWeight
  <1>16. CASE DrainedUnhealthy(t)
    BY <1>7, <1>16 DEF DrainedUnhealthy, Rest, envVars
  <1>17. CASE DrainedHealthy(t)
    BY <1>7, <1>17 DEF DrainedHealthy, envVars
  <1>18. CASE ReplayFinish(t)
    BY <1>7, <1>18 DEF ReplayFinish, Rest, envVars
  <1>19. CASE ReplayRead(t)
    BY <1>7, <1>19 DEF ReplayRead, envVars
  <1>20. CASE ReplayReadFault(t)
    <2>1. SpoolWeight' <= SpoolWeight /\ faults' >= faults
      BY <1>1, <1>2, <1>5, <1>20 DEF ReplayReadFault
    <2> QED  BY <1>6, <1>20, <2>1 DEF ReplayReadFault
  <1>21. CASE ResendTaken(t)
    BY <1>7, <1>21 DEF ResendTaken, envVars, PostAccepted, PostRefused
  <1>22. CASE ResendFailed(t)
    BY <1>7, <1>22 DEF ResendFailed, Rest, envVars, PostFailed
  <1>23. CASE Discard(t)
    <2>1. SpoolWeight' <= SpoolWeight
      BY <1>4, <1>23, DiscardThins
    <2>2. faults' = faults \/ faults' = faults + 1
      BY <1>23 DEF Discard
    <2>3. faults' >= faults
      BY <1>2, <2>2
    <2> QED  BY <1>6, <1>23, <2>1, <2>3 DEF Discard
  <1> QED
    BY <1>8, <1>9, <1>10, <1>11, <1>12, <1>13, <1>14, <1>15, <1>16, <1>17, <1>18, <1>19, <1>20,
       <1>21, <1>22, <1>23, <1>24
    DEF FlushStep

\* Nor does a crash, an exit or a restart: what they interrupt they pay for.
LEMMA BoundStep ==
    ASSUME TypeOK, TypeOK', ControlOK, ControlOK', SizesOK, BoundOK, [Next]_vars
    PROVE  BoundOK'
  <1>1. Sums /\ Sums'
    BY SumsTyped, PTL
  <1>a. /\ SpoolWeight \in Nat /\ Overhang \in Nat /\ Trims \in Nat /\ Overhang' \in Nat
        /\ Trims <= 1 + Stopping /\ Stopping \in {0, 1}
    BY <1>1 DEF Sums
  <1>b. crashes \in Nat /\ shutdowns \in Nat /\ faults \in Nat
    BY DEF TypeOK
  <1>2. ASSUME UNCHANGED <<spool, disabled, pc>>, Overhang' = Overhang, Stopping' >= Stopping
        PROVE  BoundOK'
    <2>1. SpoolWeight' = SpoolWeight /\ Trims' = Trims
      BY <1>2 DEF SpoolWeight, Trims, At
    <2>2. SpoolWeight' <= SpoolWeight
      BY <1>a, <2>1
    <2>3. Slack' >= Slack
      <3>1. CASE disabled
        <4>1. Slack = Overhang + Stopping /\ Slack' = Overhang' + Stopping'
          BY <1>2, <3>1, SlackIs, Zenon
        <4>2. Overhang' >= Overhang /\ Stopping \in Nat /\ Stopping' \in Nat
          BY <1>1, <1>a, <1>2 DEF Sums
        <4> QED  BY <1>a, <1>2, <4>1, <4>2, Adding, Zenon
      <3>2. CASE ~ disabled
        <4>1. Slack = Overhang + Trims /\ Slack' = Overhang' + Trims'
          BY <1>2, <3>2, SlackIs, Zenon
        <4>2. Trims' >= Trims /\ Overhang' >= Overhang /\ Trims' \in Nat
          BY <1>a, <1>2, <2>1
        <4> QED  BY <1>a, <4>1, <4>2, Adding, Zenon
      <3> QED  BY <3>1, <3>2
    <2> QED  BY <1>1, <2>2, <2>3, KeepsBound
  <1>3. CASE Report
    BY <1>2, <1>3 DEF Report, flushVars, envVars, Overhang, Stopping
  <1>4. CASE Crash
    <2>1. /\ spool' = spool /\ disabled' = FALSE /\ pc' = [u \in Thread |-> "idle"]
          /\ mode' = "down" /\ crashes' = crashes + 1 /\ UNCHANGED <<faults, shutdowns>>
      BY <1>4 DEF Crash, Vanish
    <2>2. SpoolWeight' = SpoolWeight /\ Trims' = 0 /\ Stopping' = 0
      BY <2>1 DEF SpoolWeight, Trims, At, Stopping, Thread
    <2>3. Overhang' = Overhang + 1 + Stopping
      BY <1>a, <1>b, <2>1, <2>2 DEF Overhang
    <2>4. Slack' >= Slack /\ SpoolWeight' <= SpoolWeight
      BY <1>a, <2>1, <2>2, <2>3 DEF Slack
    <2> QED  BY <1>1, <2>4, KeepsBound
  <1>5. CASE Shutdown
    <2>1. /\ UNCHANGED <<spool, disabled, pc, faults, crashes>> /\ mode = "up"
          /\ mode' = "stopping" /\ shutdowns' = shutdowns + 1
      BY <1>5 DEF Shutdown, flushVars
    <2>2. Overhang' = Overhang /\ Stopping' >= Stopping
      BY <1>b, <2>1 DEF Stopping, Overhang
    <2> QED  BY <1>2, <2>1, <2>2
  <1>6. CASE Halt
    <2>1. /\ spool' = spool /\ disabled' = FALSE /\ pc' = [u \in Thread |-> "idle"]
          /\ mode = "stopping" /\ mode' = "down" /\ pc[Hook] = "done"
          /\ UNCHANGED <<faults, shutdowns, crashes>>
      BY <1>6 DEF Halt, Vanish, envVars
    <2>2. /\ SpoolWeight' = SpoolWeight /\ Trims' = 0 /\ Stopping' = 0 /\ Stopping = 1
          /\ Trims <= 1
      BY <2>1 DEF SpoolWeight, Trims, At, Stopping, Thread
    <2>3. Overhang' = Overhang + 1
      BY <1>b, <2>1, <2>2 DEF Overhang
    <2>4. Slack' >= Slack /\ SpoolWeight' <= SpoolWeight
      BY <1>a, <2>1, <2>2, <2>3 DEF Slack
    <2> QED  BY <1>1, <2>4, KeepsBound
  <1>7. CASE Restart
    <2>1. /\ UNCHANGED <<spool, disabled, pc, faults, crashes, shutdowns>> /\ mode = "down"
          /\ mode' = "up"
      BY <1>7 DEF Restart, flushVars, envVars
    <2> QED  BY <1>2, <2>1 DEF Overhang, Stopping
  <1>8. CASE \E t \in Thread : FlushStep(t)
    BY <1>8, BoundFlush
  <1>9. CASE UNCHANGED vars
    BY <1>2, <1>9 DEF vars, flushVars, envVars, Overhang, Stopping
  <1> QED  BY <1>3, <1>4, <1>5, <1>6, <1>7, <1>8, <1>9 DEF Next

\* The allowance as SpoolBounded counts it.
LEMMA BoundIsKept == TypeOK /\ ControlOK /\ BoundOK => SpoolBounded
  <1> SUFFICES ASSUME TypeOK, ControlOK, BoundOK PROVE SpoolBounded
    OBVIOUS
  <1> DEFINE trimming == {t \in Thread : pc[t] = "trim"}
  <1>1. Cardinality(trimming) = Trims
    <2>1. Cardinality({}) = 0 /\ IsFiniteSet({})
      BY FS_EmptySet
    <2>2. Cardinality({Daemon}) = 1 /\ Cardinality({Hook}) = 1 /\ IsFiniteSet({Daemon})
      BY FS_Singleton
    <2>3. Cardinality({Daemon} \cup {Hook}) = 2
      BY <2>2, ThreadsAssumption, FS_AddElement
    <2>4. CASE pc[Daemon] = "trim" /\ pc[Hook] = "trim"
      <3>1. trimming = {Daemon} \cup {Hook} /\ Trims = 2
        BY <2>4 DEF Trims, At, Thread
      <3> QED  BY <2>3, <3>1
    <2>5. CASE pc[Daemon] = "trim" /\ pc[Hook] # "trim"
      <3>1. trimming = {Daemon} /\ Trims = 1
        BY <2>5 DEF Trims, At, Thread
      <3> QED  BY <2>2, <3>1
    <2>6. CASE pc[Daemon] # "trim" /\ pc[Hook] = "trim"
      <3>1. trimming = {Hook} /\ Trims = 1
        BY <2>6 DEF Trims, At, Thread
      <3> QED  BY <2>2, <3>1
    <2>7. CASE pc[Daemon] # "trim" /\ pc[Hook] # "trim"
      <3>1. trimming = {} /\ Trims = 0
        BY <2>7 DEF Trims, At, Thread
      <3> QED  BY <2>1, <3>1
    <2> QED  BY <2>4, <2>5, <2>6, <2>7
  <1> HIDE DEF trimming
  <1>2. /\ SpoolWeight \in Nat /\ Overhang \in Nat /\ Trims \in Nat /\ Stopping \in {0, 1}
    BY SumsTyped DEF Sums
  <1> DEFINE a == Slack
             b == crashes + shutdowns + faults + Trims
  <1>3. a \in Nat /\ b \in Nat /\ a <= b
    BY <1>2 DEF Slack, Overhang, TypeOK
  <1>4. SpoolWeight <= Allowed(a)
    BY DEF BoundOK
  <1> HIDE DEF a, b
  <1>5. Allowed(a) <= Allowed(b) /\ Allowed(a) \in Nat /\ Allowed(b) \in Nat
    BY <1>3, AllowedGrows
  <1>6. SpoolWeight <= Allowed(b)
    BY <1>2, <1>4, <1>5
  <1> QED  BY <1>1, <1>6 DEF SpoolBounded, Allowed, b, trimming

-----------------------------------------------------------------------------
(* How much is lost without a spool                                         *)

\* What may happen to the two sides of the balance: nothing, a send that fails, its
\* batch let go, an exit.
Quiet(a, b) == b[1] <= a[1] /\ b[2] <= a[2] /\ b[3] >= a[3] /\ b[4] >= a[4]
FailedSend(a, b) == b[1] <= a[1] /\ b[2] = a[2] + 1 /\ b[3] = a[3] + 1 /\ b[4] = a[4]
LetGo(a, b) == b[1] <= a[1] + BatchSize /\ a[2] = b[2] + 1 /\ b[3] = a[3] /\ b[4] = a[4]
Exit(a, b) ==
    b[1] <= a[1] + (BatchSize + Capacity) /\ b[2] <= a[2] /\ b[3] = a[3] /\ b[4] = a[4] + 1
Change(a, b) == Quiet(a, b) \/ FailedSend(a, b) \/ LetGo(a, b) \/ Exit(a, b)

Counts(a) == a[1] \in Nat /\ a[2] \in Nat /\ a[3] \in Nat /\ a[4] \in Nat
Balanced(a) == Balance(a[1], a[2], a[3], a[4])

LEMMA BalanceKept ==
    ASSUME NEW a, NEW b, Counts(a), Counts(b), Balanced(a), Change(a, b)
    PROVE  Balanced(b)
  <1> DEFINE l == a[1]
             f == a[2]
             o == a[3]
             s == a[4]
             l2 == b[1]
             f2 == b[2]
             o2 == b[3]
             s2 == b[4]
  <1>0. /\ l \in Nat /\ f \in Nat /\ o \in Nat /\ s \in Nat
        /\ l2 \in Nat /\ f2 \in Nat /\ o2 \in Nat /\ s2 \in Nat
    BY DEF Counts
  <1>1. BatchSize \in Nat /\ Capacity \in Nat /\ BatchSize + Capacity \in Nat
    BY SizesAssumption
  <1> DEFINE F == BatchSize * f
             F2 == BatchSize * f2
             O == BatchSize * o
             O2 == BatchSize * o2
             S == (BatchSize + Capacity) * s
             S2 == (BatchSize + Capacity) * s2
  <1>2. F \in Nat /\ F2 \in Nat /\ O \in Nat /\ O2 \in Nat /\ S \in Nat /\ S2 \in Nat
    BY <1>0, <1>1, Scaled, Zenon
  <1>3. l + F <= O + S
    BY DEF Balanced, Balance
  <1>b. \/ l2 <= l /\ f2 <= f /\ o2 >= o /\ s2 >= s
        \/ l2 <= l /\ f2 = f + 1 /\ o2 = o + 1 /\ s2 = s
        \/ l2 <= l + BatchSize /\ f = f2 + 1 /\ o2 = o /\ s2 = s
        \/ l2 <= l + (BatchSize + Capacity) /\ f2 <= f /\ o2 = o /\ s2 = s + 1
    BY DEF Change, Quiet, FailedSend, LetGo, Exit
  <1> HIDE DEF l, f, o, s, l2, f2, o2, s2
  <1>4. f2 <= f => F2 <= F
    BY <1>0, <1>1, Scaled, Zenon
  <1>5. o2 >= o => O <= O2
    <2>1. o2 >= o => o <= o2
      BY <1>0
    <2> QED  BY <1>0, <1>1, <2>1, Scaled, Zenon
  <1>6. s2 >= s => S <= S2
    <2>1. s2 >= s => s <= s2
      BY <1>0
    <2> QED  BY <1>0, <1>1, <2>1, Scaled, Zenon
  <1>7. f2 = f + 1 => F2 = F + BatchSize
    BY <1>0, <1>1, Scaled, Zenon
  <1>8. f = f2 + 1 => F = F2 + BatchSize
    BY <1>0, <1>1, Scaled, Zenon
  <1>9. o2 = o + 1 => O2 = O + BatchSize
    BY <1>0, <1>1, Scaled, Zenon
  <1>10. s2 = s + 1 => S2 = S + (BatchSize + Capacity)
    BY <1>0, <1>1, Scaled, Zenon
  <1>11. (o2 = o => O2 = O) /\ (s2 = s => S2 = S)
    OBVIOUS
  <1> HIDE DEF F, F2, O, O2, S, S2
  <1>12. l2 + F2 <= O2 + S2
    BY <1>1, <1>2, <1>3, <1>4, <1>5, <1>6, <1>7, <1>8, <1>9, <1>10, <1>11,
       <1>0, <1>b
  <1> QED  BY <1>12 DEF Balanced, Balance, l2, f2, o2, s2, F2, O2, S2

\* No list holds more events than its length.
LEMMA RangeCount ==
    ASSUME NEW s \in Seq(Nat)
    PROVE  IsFiniteSet(Range(s)) /\ Cardinality(Range(s)) \in Nat /\ Cardinality(Range(s)) <= Len(s)
  <1>1. Len(s) \in Nat /\ DOMAIN s = 1..Len(s) /\ s \in [1..Len(s) -> Nat]
    BY LenProperties
  <1>2. s \in Surjection(1..Len(s), Range(s))
    BY <1>1 DEF Surjection, Range
  <1>3. IsFiniteSet(1..Len(s)) /\ Cardinality(1..Len(s)) = Len(s)
    <2>1. IsFiniteSet(1..Len(s)) /\ Cardinality(1..Len(s)) = IF 1 > Len(s) THEN 0 ELSE Len(s) - 1 + 1
      BY <1>1, FS_Interval
    <2> QED  BY <1>1, <2>1
  <1>4. IsFiniteSet(Range(s)) /\ Cardinality(Range(s)) <= Cardinality(1..Len(s))
    BY <1>2, <1>3, FS_Surjection
  <1> QED  BY <1>3, <1>4, FS_CardinalityType

LEMMA UnionCount ==
    ASSUME NEW S, NEW T, IsFiniteSet(S), IsFiniteSet(T)
    PROVE  IsFiniteSet(S \cup T) /\ Cardinality(S \cup T) <= Cardinality(S) + Cardinality(T)
  <1>1. /\ IsFiniteSet(S \cup T)
        /\ Cardinality(S \cup T) = Cardinality(S) + Cardinality(T) - Cardinality(S \cap T)
    BY FS_Union
  <1>2. IsFiniteSet(S \cap T)
    BY FS_Subset
  <1>3. Cardinality(S) \in Nat /\ Cardinality(T) \in Nat /\ Cardinality(S \cap T) \in Nat
    BY <1>2, FS_CardinalityType
  <1> QED  BY <1>1, <1>3

\* The lost events can be counted.
LostTyped == IsFiniteSet(Lost) /\ Cardinality(Lost) \in Nat

LEMMA LostCount == TypeOK => LostTyped
  <1> SUFFICES ASSUME TypeOK PROVE LostTyped
    OBVIOUS
  <1>1. IsFiniteSet(1..reported)
    BY FS_Interval DEF TypeOK
  <1>2. Lost \in SUBSET (1..reported)
    BY DEF Lost
  <1>3. IsFiniteSet(Lost)
    BY <1>1, <1>2, FS_Subset
  <1> QED  BY <1>3, FS_CardinalityType DEF LostTyped

\* What a step can lose.
LEMMA LostGrows ==
    ASSUME TypeOK, ControlOK, [Next]_vars
    PROVE  \/ Lost' \subseteq Lost
           \/ Halt /\ Lost' \subseteq Lost \cup Waiting
           \/ \E t \in Thread : /\ SpoolWrite(t) \/ SpoolAbsent(t)
                                /\ Lost' \subseteq Lost \cup Range(batch[t])
  <1>1. ASSUME NEW e \in Lost' PROVE e \in Lost \cup Waiting
    <2>1. e \in 1..reported' /\ e \notin Settled' /\ e \notin Waiting'
      BY DEF Lost, Waiting
    <2>2. e \notin Settled
      BY <2>1, SettledGrows
    <2>3. CASE reported' = reported
      BY <2>1, <2>2, <2>3 DEF Lost, Waiting
    <2>4. CASE Report /\ reported' = reported + 1
      <3>1. e # reported + 1
        BY <2>1, <2>4, ReportPlaces
      <3>2. e \in 1..reported
        BY <2>1, <2>4, <3>1 DEF TypeOK
      <3> QED  BY <2>2, <3>2 DEF Lost, Waiting
    <2> QED  BY <2>3, <2>4, WaitingGrows
  <1>2. Lost' \cap Waiting' = {} /\ Lost' \cap Settled' = {}
    BY DEF Lost, Waiting
  <1>3. CASE Waiting \subseteq Waiting' \cup Settled'
    BY <1>1, <1>2, <1>3
  <1>4. CASE Halt
    BY <1>1, <1>4
  <1>5. ASSUME NEW t \in Thread, SpoolWrite(t) \/ SpoolAbsent(t),
               Waiting \subseteq Waiting' \cup Range(batch[t])
        PROVE  Lost' \subseteq Lost \cup Range(batch[t])
    BY <1>1, <1>2, <1>5
  <1> QED  BY <1>3, <1>4, <1>5, WaitingShrinks

\* A failed send loses its batch, an exit what memory holds, and nothing else.
LEMMA LossStep ==
    ASSUME TypeOK, TypeOK', ControlOK, ControlOK', SizesOK, LossOK, [Next]_vars
    PROVE  LossOK'
  <1>1. LossOK' <=> (~ deployment'.spool =>
                        Balance(Cardinality(Lost'), Failing', outages', shutdowns' - Stopping'))
    BY DEF LossOK, Balance
  <1>2. deployment' = deployment
    <2>1. ASSUME NEW t \in Thread, FlushStep(t) PROVE deployment' = deployment
      BY <2>1, FlushFrame
    <2> QED  BY <2>1 DEF Next, Report, Crash, Shutdown, Halt, Restart, envVars, vars
  <1> SUFFICES ASSUME ~ deployment.spool
               PROVE  Balance(Cardinality(Lost'), Failing', outages', shutdowns' - Stopping')
    BY <1>1, <1>2
  <1> DEFINE l == Cardinality(Lost)
             l2 == Cardinality(Lost')
             f == Failing
             f2 == Failing'
             o == outages
             o2 == outages'
             s == shutdowns - Stopping
             s2 == shutdowns' - Stopping'
  <1>3. Balance(l, f, o, s)
    BY DEF LossOK
  <1>4. Sums /\ Sums' /\ LostTyped /\ LostTyped'
    BY SumsTyped, LostCount, PTL
  <1>5. /\ l \in Nat /\ f \in Nat /\ o \in Nat /\ s \in Nat
        /\ l2 \in Nat /\ f2 \in Nat /\ o2 \in Nat /\ s2 \in Nat
        /\ IsFiniteSet(Lost) /\ IsFiniteSet(Lost')
    BY <1>4 DEF Sums, LostTyped, TypeOK
  <1>6. Lost' \subseteq Lost => l2 <= l
    BY <1>5, FS_Subset
  <1>7. ASSUME NEW T, IsFiniteSet(T), Lost' \subseteq Lost \cup T
        PROVE  l2 <= l + Cardinality(T)
    <2>1. IsFiniteSet(Lost \cup T) /\ Cardinality(Lost \cup T) <= l + Cardinality(T)
      BY <1>5, <1>7, UnionCount
    <2>2. l2 <= Cardinality(Lost \cup T)
      BY <1>7, <2>1, FS_Subset
    <2>3. Cardinality(Lost \cup T) \in Nat /\ Cardinality(T) \in Nat
      BY <1>7, <2>1, FS_CardinalityType
    <2> QED  BY <1>5, <2>1, <2>2, <2>3
  <1> HIDE DEF l, l2, f, f2, o, o2, s, s2
  <1>8. /\ BatchSize \in Nat /\ Capacity \in Nat
        /\ f <= f2 => f2 >= f
    BY <1>5, SizesAssumption
  <1>9. Change(<<l, f, o, s>>, <<l2, f2, o2, s2>>) => Balance(l2, f2, o2, s2)
    <2> DEFINE a == <<l, f, o, s>>
               b == <<l2, f2, o2, s2>>
    <2>1. Counts(a) /\ Counts(b)
      BY <1>5 DEF Counts
    <2>2. Balanced(a)
      BY <1>3 DEF Balanced
    <2>3. Balanced(b) => Balance(l2, f2, o2, s2)
      BY DEF Balanced
    <2> HIDE DEF a, b
    <2>4. Change(a, b) => Balanced(b)
      BY <2>1, <2>2, BalanceKept
    <2> QED  BY <2>3, <2>4 DEF a, b
  <1>a. (f2 = f => f2 <= f) /\ (o2 = o => o2 >= o) /\ (s2 = s => s2 >= s)
    BY <1>5
  <1>b. crashes \in Nat /\ shutdowns \in Nat /\ Stopping \in {0, 1}
    BY <1>4 DEF TypeOK, Sums
  <1>c. ASSUME Lost' \subseteq Lost, f2 <= f, o2 >= o, s2 >= s
        PROVE  Change(<<l, f, o, s>>, <<l2, f2, o2, s2>>)
    BY <1>6, <1>c DEF Change, Quiet
  <1>10. Change(<<l, f, o, s>>, <<l2, f2, o2, s2>>)
    <2>1. CASE Report
      <3>1. f2 = f /\ o2 = o /\ s2 = s
        BY <2>1 DEF f, f2, o, o2, s, s2, Report, flushVars, envVars, Failing, At, Stopping
      <3>2. Lost' \subseteq Lost
        BY <2>1, LostGrows DEF Report, Halt, Vanish, SpoolWrite, SpoolAbsent, Goto, TypeOK, flushVars
      <3> QED  BY <1>a, <1>c, <3>1, <3>2
    <2>2. CASE Crash
      <3>1. /\ pc' = [u \in Thread |-> "idle"] /\ mode' = "down" /\ UNCHANGED <<outages, shutdowns>>
            /\ crashes' = crashes + 1
        BY <2>2 DEF Crash, Vanish
      <3>2. f2 = 0 /\ o2 = o /\ s2 = shutdowns - 0
        BY <3>1 DEF f2, o, o2, s2, Failing, At, Stopping, Thread
      <3>3. f2 <= f /\ o2 >= o /\ s2 >= s
        BY <1>5, <1>b, <3>2 DEF s
      <3>4. Lost' \subseteq Lost
        <4>1. crashes' # crashes
          BY <1>b, <3>1
        <4> QED  BY <4>1, LostGrows DEF Halt, SpoolWrite, SpoolAbsent, envVars
      <3> QED  BY <1>c, <3>3, <3>4
    <2>3. CASE Shutdown
      <3>1. UNCHANGED <<pc, outages>> /\ mode = "up" /\ mode' = "stopping" /\ shutdowns' = shutdowns + 1
        BY <2>3 DEF Shutdown, flushVars
      <3>2. f2 = f /\ o2 = o /\ s2 = s
        BY <1>b, <3>1 DEF f, f2, o, o2, s, s2, Failing, At, Stopping
      <3>3. Lost' \subseteq Lost
        <4>1. shutdowns' # shutdowns
          BY <1>b, <3>1
        <4> QED  BY <4>1, LostGrows DEF Halt, SpoolWrite, SpoolAbsent, envVars
      <3> QED  BY <1>a, <1>c, <3>2, <3>3
    <2>4. CASE Restart \/ UNCHANGED vars
      <3>1. /\ UNCHANGED <<pc, outages, shutdowns, received, counted, writtenOff, queue, batch, reported>>
            /\ mode' # "stopping" <=> mode # "stopping"
        BY <2>4 DEF Restart, flushVars, envVars, vars
      <3>2. f2 = f /\ o2 = o /\ s2 = s
        BY <3>1 DEF f, f2, o, o2, s, s2, Failing, At, Stopping
      <3>3. Lost' \subseteq Lost
        BY <3>1 DEF Lost, Settled, InHands
      <3> QED  BY <1>a, <1>c, <3>2, <3>3
    <2>5. CASE Halt
      <3>1. /\ pc' = [u \in Thread |-> "idle"] /\ mode = "stopping" /\ mode' = "down"
            /\ UNCHANGED <<outages, shutdowns>> /\ pc[Hook] = "done" /\ reported' = reported
        BY <2>5 DEF Halt, Vanish, envVars
      <3>2. f2 = 0 /\ o2 = o /\ s2 = shutdowns - 0 /\ s = shutdowns - 1
        BY <3>1 DEF f2, o, o2, s, s2, Failing, At, Stopping, Thread
      <3>3. f2 <= f /\ s2 = s + 1
        BY <1>5, <1>b, <3>2
      <3>4. Lost' \subseteq Lost \cup Waiting
        <4>1. ASSUME NEW e \in Lost' PROVE e \in Lost \cup Waiting
          BY <2>5, <3>1, SettledGrows DEF Lost, Waiting
        <4> QED  BY <4>1
      <3>5. batch[Hook] = << >> /\ batch[Daemon] \in Seq(Nat) /\ queue \in Seq(Nat)
        BY <3>1 DEF ControlOK, Thread, TypeOK
      <3>6. Range(batch[Hook]) = {}
        BY <3>5, RangeFacts
      <3>7. Waiting = Range(queue) \cup Range(batch[Daemon])
        BY <3>6 DEF Waiting, InHands, Thread
      <3>8. /\ IsFiniteSet(Range(queue)) /\ Cardinality(Range(queue)) \in Nat
            /\ IsFiniteSet(Range(batch[Daemon])) /\ Cardinality(Range(batch[Daemon])) \in Nat
            /\ Cardinality(Range(queue)) <= Len(queue)
            /\ Cardinality(Range(batch[Daemon])) <= Len(batch[Daemon])
        BY <3>5, RangeCount
      <3>9. IsFiniteSet(Waiting)
            /\ Cardinality(Waiting) <= Cardinality(Range(queue)) + Cardinality(Range(batch[Daemon]))
        BY <3>7, <3>8, UnionCount
      <3>10. Cardinality(Waiting) \in Nat
        BY <3>9, FS_CardinalityType
      <3>11. /\ Len(queue) <= Capacity /\ Len(batch[Daemon]) <= BatchSize
             /\ Len(queue) \in Nat /\ Len(batch[Daemon]) \in Nat
        BY <3>5, LenProperties DEF SizesOK, Thread
      <3>12. Cardinality(Waiting) <= BatchSize + Capacity
        BY <1>8, <3>8, <3>9, <3>10, <3>11
      <3>13. l2 <= l + Cardinality(Waiting)
        BY <1>7, <3>4, <3>9
      <3>14. l2 <= l + (BatchSize + Capacity)
        BY <1>5, <1>8, <3>10, <3>12, <3>13
      <3> QED  BY <3>2, <3>3, <3>14 DEF Change, Exit
    <2>6. ASSUME NEW t \in Thread, FlushStep(t)
          PROVE  Change(<<l, f, o, s>>, <<l2, f2, o2, s2>>)
      <3>1. UNCHANGED <<mode, shutdowns>>
        BY <2>6, FlushFrame
      <3>2. s2 = s
        BY <3>1 DEF s, s2, Stopping
      <3>3. At(t, "spool") = IF pc[t] = "spool" THEN 1 ELSE 0
        BY DEF At
      <3>4. ASSUME NEW label, Goto(t, label)
            PROVE  f2 = f - At(t, "spool") + (IF label = "spool" THEN 1 ELSE 0)
        BY <3>4, MoveCounts DEF f, f2
      <3>5. ~ Halt
        BY <3>1 DEF Halt, Vanish
      <3>6. ASSUME NEW label, label # "spool", Goto(t, label), pc[t] # "spool",
                   o2 = o \/ o2 = o + 1, Lost' \subseteq Lost
            PROVE  Change(<<l, f, o, s>>, <<l2, f2, o2, s2>>)
        <4>1. f2 = f - At(t, "spool") + 0
          BY <3>4, <3>6
        <4>2. f2 <= f
          BY <1>5, <3>3, <3>6, <4>1
        <4>3. o2 >= o
          BY <1>5, <3>6
        <4> QED  BY <1>a, <1>c, <3>2, <3>6, <4>2, <4>3
      <3>7. pc[t] # "spool" => Lost' \subseteq Lost
        <4>1. ASSUME NEW u \in Thread, SpoolWrite(u) \/ SpoolAbsent(u) PROVE u = t /\ pc[t] = "spool"
          <5>1. pc[u] = "spool" /\ pc'[u] # "spool"
            BY <4>1 DEF SpoolWrite, SpoolAbsent, Goto, TypeOK
          <5>2. \E label \in Label : pc' = [pc EXCEPT ![t] = label]
            BY <2>6, FlushFrame
          <5> QED  BY <5>1, <5>2 DEF TypeOK
        <4> QED  BY <3>5, <4>1, LostGrows
      <3>8. CASE SendFailed(t)
        <4>1. pc[t] = "send" /\ Goto(t, "spool") /\ o2 = o + 1
          BY <3>8 DEF SendFailed, PostFailed, o, o2
        <4>2. f2 = f - At(t, "spool") + 1
          BY <3>4, <4>1
        <4>3. f2 = f + 1
          BY <1>5, <3>3, <4>1, <4>2
        <4> QED  BY <1>6, <3>2, <3>7, <4>1, <4>3 DEF Change, FailedSend
      <3>9. CASE SpoolAbsent(t)
        <4>1. pc[t] = "spool" /\ Goto(t, "drain") /\ o2 = o
          BY <3>9 DEF SpoolAbsent, envVars, o, o2
        <4>2. f2 = f - At(t, "spool") + 0
          BY <3>4, <4>1
        <4>3. f = f2 + 1
          BY <1>5, <3>3, <4>1, <4>2
        <4>4. Lost' \subseteq Lost \cup Range(batch[t])
          <5>1. UNCHANGED <<queue, received, counted, writtenOff, reported>>
                /\ batch' = [batch EXCEPT ![t] = << >>]
            BY <3>9 DEF SpoolAbsent
          <5>2. InHands \subseteq InHands' \cup Range(batch[t])
            BY <5>1, HandsEffect
          <5> QED  BY <5>1, <5>2 DEF Lost, Settled
        <4>5. batch[t] \in Seq(Nat) /\ Len(batch[t]) <= BatchSize
          BY DEF TypeOK, SizesOK
        <4>6. /\ IsFiniteSet(Range(batch[t])) /\ Cardinality(Range(batch[t])) \in Nat
              /\ Cardinality(Range(batch[t])) <= Len(batch[t]) /\ Len(batch[t]) \in Nat
          BY <4>5, RangeCount, LenProperties
        <4>7. l2 <= l + Cardinality(Range(batch[t]))
          BY <1>7, <4>4, <4>6
        <4>8. l2 <= l + BatchSize
          BY <1>5, <1>8, <4>5, <4>6, <4>7
        <4> QED  BY <3>2, <4>1, <4>3, <4>8 DEF Change, LetGo
      <3>10. CASE FlushStart(t)
        BY <3>6, <3>7, <3>10 DEF FlushStart, o, o2, envVars
      <3>11. CASE DrainBatch(t)
        BY <3>6, <3>7, <3>11 DEF DrainBatch, o, o2, envVars
      <3>12. CASE SendTaken(t)
        BY <3>6, <3>7, <3>12 DEF SendTaken, o, o2, envVars, PostAccepted, PostRefused
      <3>13. CASE SpoolTrim(t)
        BY <3>6, <3>7, <3>13 DEF SpoolTrim, o, o2, envVars
      <3>23. CASE SpoolTrimFault(t)
        BY <3>6, <3>7, <3>23 DEF SpoolTrimFault, o, o2, envVars
      <3>14. CASE DrainedUnhealthy(t)
        BY <3>6, <3>7, <3>14 DEF DrainedUnhealthy, o, o2, envVars, Rest
      <3>15. CASE DrainedHealthy(t)
        BY <3>6, <3>7, <3>15 DEF DrainedHealthy, o, o2, envVars
      <3>16. CASE ReplayFinish(t)
        BY <3>6, <3>7, <3>16 DEF ReplayFinish, o, o2, envVars, Rest
      <3>17. CASE ReplayRead(t)
        BY <3>6, <3>7, <3>17 DEF ReplayRead, o, o2, envVars
      <3>18. CASE ReplayReadFault(t)
        BY <3>6, <3>7, <3>18 DEF ReplayReadFault, o, o2, envVars
      <3>19. CASE ResendTaken(t)
        BY <3>6, <3>7, <3>19 DEF ResendTaken, o, o2, envVars, PostAccepted, PostRefused
      <3>20. CASE ResendFailed(t)
        BY <3>6, <3>7, <3>20 DEF ResendFailed, o, o2, envVars, Rest, PostFailed
      <3>21. CASE Discard(t)
        BY <3>6, <3>7, <3>21 DEF Discard, o, o2, envVars
      <3>22. ~ SpoolWrite(t) /\ ~ SpoolGivesUp(t)
        BY DEF SpoolWrite, SpoolGivesUp
      <3> QED
        BY <2>6, <3>8, <3>9, <3>10, <3>11, <3>12, <3>13, <3>14, <3>15, <3>16, <3>17, <3>18, <3>19, <3>20, <3>21, <3>22, <3>23
        DEF FlushStep
    <2> QED  BY <2>1, <2>2, <2>3, <2>4, <2>5, <2>6 DEF Next
  <1> QED  BY <1>9, <1>10 DEF l2, f2, o2, s2

\* The loss as LossPerOutage counts it.
LEMMA LossIsKept == TypeOK /\ ControlOK /\ LossOK => LossPerOutage
  <1> SUFFICES ASSUME TypeOK, ControlOK, LossOK, ~ deployment.spool
               PROVE  Cardinality(Lost) <= BatchSize * outages + (BatchSize + Capacity) * shutdowns
    BY DEF LossPerOutage, Lost
  <1> DEFINE l == Cardinality(Lost)
             a == <<l, Failing, outages, shutdowns - Stopping>>
             b == <<l, 0, outages, shutdowns>>
  <1>1. l \in Nat /\ Sums
    BY SumsTyped, LostCount DEF LostTyped
  <1>2. /\ Failing \in Nat /\ outages \in Nat /\ shutdowns \in Nat /\ Stopping \in {0, 1}
        /\ shutdowns - Stopping \in Nat
    BY <1>1 DEF Sums, TypeOK
  <1>3. Counts(a) /\ Counts(b)
    BY <1>1, <1>2 DEF Counts
  <1>4. Balanced(a)
    BY DEF Balanced, LossOK
  <1>5. Change(a, b)
    <2>1. l <= l /\ 0 <= Failing /\ outages >= outages /\ shutdowns >= shutdowns - Stopping
      BY <1>1, <1>2
    <2> QED  BY <2>1 DEF Change, Quiet
  <1>6. Balanced(b) => l + BatchSize * 0 <= BatchSize * outages + (BatchSize + Capacity) * shutdowns
    BY DEF Balanced, Balance
  <1>7. BatchSize * 0 = 0
    BY SizesAssumption
  <1>8. l + 0 = l
    BY <1>1
  <1> HIDE DEF a, b
  <1>9. Balanced(b)
    BY <1>3, <1>4, <1>5, BalanceKept
  <1> HIDE DEF l
  <1> QED  BY <1>6, <1>7, <1>8, <1>9 DEF l

-----------------------------------------------------------------------------
(* The invariant, and what follows from it                                  *)

LEMMA InvInit == Init => IInv
  <1> SUFFICES ASSUME Init PROVE IInv
    OBVIOUS
  <1>1. TypeOK /\ ControlOK /\ SizesOK
    BY TypeInit, ControlInit
  <1>2. Len(queue) = 0 /\ Len(spool) = 0 /\ \A t \in Thread : Len(batch[t]) = 0
    BY EmptySeq DEF Init
  <1>3. HeldOK
    BY <1>2 DEF HeldOK, Sorted, Known, Older
  <1>4. IdsOK
    BY <1>2 DEF IdsOK
  <1>5. OrderOK /\ ReplayOK
    BY <1>2 DEF OrderOK, Ordered, ReplayOK
  <1>6. reported = 0 /\ 1..reported = {}
    BY DEF Init
  <1>7. NothingVanishes /\ Lost = {}
    BY <1>6 DEF NothingVanishes, Lost
  <1>8. /\ Trims = 0 /\ Failing = 0 /\ Stopping = 0 /\ ~ disabled
        /\ outages = 0 /\ shutdowns = 0 /\ crashes = 0 /\ faults = 0
    BY DEF Init, Trims, Failing, At, Stopping, Thread
  <1>9. BoundOK
    <2>1. DOMAIN spool = {}
      BY DEF Init
    <2>2. LinesOn(spool) = {}
      BY <2>1 DEF LinesOn
    <2>3. SpoolWeight = 0
      BY <2>2, FS_EmptySet DEF SpoolWeight
    <2>4. Overhang = 0
      BY <1>8 DEF Overhang
    <2>5. Slack \in Nat
      BY <1>8, <2>4 DEF Slack
    <2>6. Allowed(Slack) >= MaxSpool /\ Allowed(Slack) \in Nat
      BY <2>5, AllowedGrows
    <2>7. 0 <= Allowed(Slack)
      BY <2>6
    <2> QED  BY <1>8, <2>3, <2>7 DEF BoundOK
  <1>10. LossOK
    <2>1. Cardinality(Lost) = 0
      BY <1>7, FS_EmptySet
    <2>2. shutdowns - Stopping = 0
      BY <1>8
    <2>3. Balance(0, 0, 0, 0)
      BY SizesAssumption DEF Balance
    <2> QED  BY <1>8, <2>1, <2>2, <2>3 DEF LossOK
  <1> QED  BY <1>1, <1>3, <1>4, <1>5, <1>7, <1>9, <1>10 DEF IInv

LEMMA InvStep == IInv /\ [Next]_vars => IInv'
  <1> SUFFICES ASSUME IInv, [Next]_vars PROVE IInv'
    OBVIOUS
  <1>1. /\ TypeOK /\ ControlOK /\ SizesOK /\ HeldOK /\ IdsOK /\ OrderOK /\ ReplayOK
        /\ NothingVanishes /\ BoundOK /\ LossOK
    BY DEF IInv
  <1>2. TypeOK' /\ ControlOK'
    BY <1>1, TypeStep, ControlStep
  <1>3. HeldOK' /\ SizesOK'
    BY <1>1, HeldStep
  <1>4. IdsOK' /\ OrderOK' /\ ReplayOK'
    BY <1>1, <1>2, IdsStep, OrderStep, ReplayStep
  <1>5. NothingVanishes'
    BY <1>1, <1>2, VanishStep
  <1>6. BoundOK' /\ LossOK'
    BY <1>1, <1>2, BoundStep, LossStep
  <1> QED  BY <1>2, <1>3, <1>4, <1>5, <1>6 DEF IInv

\* Every reachable state satisfies the invariant.
THEOREM Invariance == Spec => []IInv
  BY InvInit, InvStep, PTL DEF Spec

\* ReportingThread.flushOnce and Spool.append: while the spool is configured and
\* no orderly exit has begun, a reported event is in memory, on disk, or settled,
\* across failed sends, replays, trims, disk faults and crashes.
THEOREM NothingIsLostSilently == Spec => []NothingVanishes
  <1>1. IInv => NothingVanishes
    BY DEF IInv
  <1> QED  BY <1>1, Invariance, PTL

\* Spool.append and segments(): read oldest first, the segments give the events
\* back in the order in which the application reported them.
THEOREM SpoolReplaysInOrder == Spec => []SpoolInOrder
  <1>1. IInv => SpoolInOrder
    BY OrderedIsInOrder DEF IInv
  <1> QED  BY <1>1, Invariance, PTL

\* Spool.enforceCeiling: what lies above the ceiling is at most a batch for each
\* append that is under way or that a crash, an exit or a disk fault cut short.
THEOREM DiskIsBounded == Spec => []SpoolBounded
  <1>1. IInv => SpoolBounded
    BY BoundIsKept DEF IInv
  <1> QED  BY <1>1, Invariance, PTL

\* BoundedRingBuffer.drain: the daemon, the exit hook and the buffer never hold
\* the same event.
THEOREM EventHasOneOwner == Spec => []OneOwner
  <1>1. IInv => OneOwner
    BY HeldIsDistinct DEF IInv
  <1> QED  BY <1>1, Invariance, PTL

\* ReportingThread.flushOnce without a spool: each failed send costs its batch, each
\* orderly exit what the daemon and the buffer held, and nothing else is lost unseen.
THEOREM LossIsAccounted == Spec => []LossPerOutage
  <1>1. IInv => LossPerOutage
    BY LossIsKept DEF IInv
  <1> QED  BY <1>1, Invariance, PTL

\* Spool.discard and enforceCeiling: an event leaves the disk only when someone has
\* answered for it.
THEOREM DiskKeepsUntilSettled == Spec => SpooledUntilSettled
  <1> DEFINE Kind == Kept' => \A e \in InSpool : e \in InSpool' \cup Settled'
  <1>1. IInv /\ IInv' /\ [Next]_vars => Kind
    BY SpoolShrinks DEF IInv
  <1>2. Kind => [Kind]_vars
    OBVIOUS
  <1> HIDE DEF Kind
  <1>3. Spec => [][Kind]_vars
    BY <1>1, Invariance, PTL DEF Spec
  <1> QED  BY <1>3 DEF SpooledUntilSettled, Kind
=============================================================================
