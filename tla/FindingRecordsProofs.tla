------------------------ MODULE FindingRecordsProofs ------------------------
(***************************************************************************)
(* What lost updates cannot do to a finding, for any stream of hits, any   *)
(* requests and any number of analysts.                                    *)
(***************************************************************************)
EXTENDS FindingRecords, FiniteSetTheorems, SequenceTheorems, NaturalsInduction, TLAPS

Statuses == {"OPEN", "CONFIRMED", "REMEDIATED", "FALSE_POSITIVE", "ACCEPTED_RISK"}
Confidences == {"SUSPECTED", "CONFIRMED", "EXPLOITED"}

\* What a usable hit says.
Leveled(h) == Registered(h) /\ h.confidence \in Confidences /\ h.severity \in Severity

IsFinding(r) ==
    /\ DOMAIN r = Columns
    /\ r.severity \in Severity /\ r.risk \in Int
    /\ r.status \in Statuses
    /\ r.confidence \in Confidences
    /\ r.occurrences \in Nat
    /\ r.suppressed \in Nat
    /\ r.acceptedUntil \in Nat

-----------------------------------------------------------------------------
(* Lemmas about one finding                                                 *)

\* The keys of the two tables of the domain.
LEMMA Levels == DOMAIN ConfidenceOrder = Confidences /\ \A k \in Confidences : ConfidenceOrder[k] \in Nat
  BY DEF ConfidenceOrder, Confidences

\* A row is never the answer that there is none.
LEMMA FindingIsRow ==
    ASSUME NEW r, IsFinding(r)
    PROVE  r # NoRow
  <1>1. "ABSENT" \notin Statuses
    BY DEF Statuses
  <1>2. NoRow.status = "ABSENT"
    BY DEF NoRow
  <1> QED BY <1>1, <1>2 DEF IsFinding

\* A new finding counts nothing yet.
LEMMA NewIsFinding ==
    ASSUME NEW h, Leveled(h)
    PROVE  /\ IsFinding(NewFinding(h))
           /\ NewFinding(h).occurrences = 0 /\ NewFinding(h).suppressed = 0
           /\ NewFinding(h).status = "OPEN"
  BY DEF IsFinding, NewFinding, Columns, Statuses, Never, Leveled

\* Confidence rises and nothing else changes.
LEMMA RaiseEffect ==
    ASSUME NEW r, IsFinding(r), NEW h, Leveled(h)
    PROVE  /\ IsFinding(RaiseConfidence(r, h))
           /\ RaiseConfidence(r, h).occurrences = r.occurrences
           /\ RaiseConfidence(r, h).suppressed = r.suppressed
           /\ RaiseConfidence(r, h).status = r.status
           /\ RaiseConfidence(r, h).regressed = r.regressed
           /\ ConfidenceOrder[RaiseConfidence(r, h).confidence] >= ConfidenceOrder[r.confidence]
  <1>1. "confidence" \in DOMAIN r /\ ConfidenceOrder[r.confidence] \in Nat
        /\ ConfidenceOrder[h.confidence] \in Nat
    BY Levels DEF IsFinding, Columns, Leveled
  <1> QED BY <1>1 DEF IsFinding, RaiseConfidence, Leveled

\* So does a hit that blocking would have stopped.
LEMMA WouldBlockEffect ==
    ASSUME NEW r, IsFinding(r), NEW h
    PROVE  /\ IsFinding(RecordWouldBlock(r, h))
           /\ RecordWouldBlock(r, h).occurrences = r.occurrences
           /\ RecordWouldBlock(r, h).suppressed = r.suppressed
           /\ RecordWouldBlock(r, h).status = r.status
           /\ RecordWouldBlock(r, h).regressed = r.regressed
           /\ RecordWouldBlock(r, h).confidence = r.confidence
  <1>1. "wouldBlock" \in DOMAIN r
    BY DEF IsFinding, Columns
  <1> QED BY <1>1 DEF IsFinding, RecordWouldBlock

\* The score is a number.
LEMMA ScoreIsNumber ==
    ASSUME NEW s \in Severity, NEW k \in Confidences, NEW env \in Environment, NEW facing,
           NEW crit \in Criticality, NEW n
    PROVE  Score(s, k, ExposureWeight(env, facing), crit, n) \in Int
  <1> DEFINE w == [DEVELOPMENT |-> 3, QA |-> 4, STAGING |-> 7, PRODUCTION |-> 10][env]
             f == IF facing THEN 13 ELSE 10
             p == SeverityBase[s] * ConfidenceWeight[k] * (w * f) * CriticalityWeight[crit]
             attack == IF k = "EXPLOITED" THEN 1000000 ELSE 0
             d == Doublings(n)
  <1>1. SeverityBase[s] \in Int /\ ConfidenceWeight[k] \in Int /\ w \in Int /\ f \in Int
        /\ CriticalityWeight[crit] \in Int
    BY DEF Severity, SeverityBase, Confidences, ConfidenceWeight, Environment, Criticality,
           CriticalityWeight
  <1>2. d \in Int
    <2> DEFINE K == {j \in 1..5 : 2^j <= n}
    <2>1. IsFiniteSet(K)
      <3>1. IsFiniteSet(1..5)
        <4>1. 1 \in Int /\ 5 \in Int
          OBVIOUS
        <4> QED BY <4>1, FS_Interval, Zenon
      <3>2. K \subseteq 1..5
        OBVIOUS
      <3> HIDE DEF K
      <3> QED BY <3>1, <3>2, FS_Subset
    <2> HIDE DEF K
    <2>2. Cardinality(K) \in Nat
      BY <2>1, FS_CardinalityType
    <2> QED BY <2>2 DEF Doublings, K
  <1>3. attack \in Int
    OBVIOUS
  <1> HIDE DEF w, f
  <1>4. p \in Int
    BY <1>1
  <1> HIDE DEF p, attack, d
  <1> DEFINE x == AtMost(p + attack + 100000 * d, 10000000) + 5000
  <1>5. x \in Int
    BY <1>2, <1>3, <1>4 DEF AtMost
  <1> HIDE DEF x
  <1>6. x \div 10000 \in Int
    BY <1>5
  <1>7. Score(s, k, ExposureWeight(env, facing), crit, n) = x \div 10000
    BY DEF Score, ExposureWeight, x, p, attack, d, w, f
  <1> QED BY <1>6, <1>7

\* The score is not part of any of it.
LEMMA RescoreEffect ==
    ASSUME NEW r, IsFinding(r), NEW h, Leveled(h)
    PROVE  /\ IsFinding(Rescore(r, h))
           /\ Rescore(r, h).occurrences = r.occurrences
           /\ Rescore(r, h).suppressed = r.suppressed
           /\ Rescore(r, h).status = r.status
           /\ Rescore(r, h).regressed = r.regressed
           /\ Rescore(r, h).confidence = r.confidence
  <1>1. "risk" \in DOMAIN r
    BY DEF IsFinding, Columns
  <1> DEFINE c == ContextOf(h)
             x == Score(r.severity, r.confidence, ExposureWeight(c.env, c.facing),
                        c.criticality, r.occurrences)
  <1>2. Rescore(r, h) = [r EXCEPT !.risk = x]
    BY DEF Rescore
  <1>3. x \in Int
    <2>1. /\ c.criticality \in Criticality /\ c.env \in Environment
          /\ r.severity \in Severity /\ r.confidence \in Confidences
      BY ContextAssumption DEF Leveled, Registered, ContextOf, IsFinding
    <2> HIDE DEF c
    <2> QED BY <2>1, ScoreIsNumber
  <1> HIDE DEF x
  <1> QED BY <1>1, <1>2, <1>3 DEF IsFinding

\* A hit counts once, and where its finding's status says.
LEMMA OccurrenceEffect ==
    ASSUME NEW r, IsFinding(r)
    PROVE  LET n == RecordOccurrence(r)
           IN /\ IsFinding(n)
              /\ n.confidence = r.confidence
              /\ \/ /\ Suppressed(r.status) /\ n.status = r.status /\ n.regressed = r.regressed
                    /\ n.occurrences = r.occurrences /\ n.suppressed = r.suppressed + 1
                 \/ /\ ~Suppressed(r.status)
                    /\ n.occurrences = r.occurrences + 1 /\ n.suppressed = r.suppressed
                    /\ IF r.status = "REMEDIATED" THEN n.status = "OPEN" /\ n.regressed = TRUE
                       ELSE n.status = r.status /\ n.regressed = r.regressed
  <1>1. {"occurrences", "status", "suppressed", "regressed", "remediatedAt"} \subseteq DOMAIN r
    BY DEF IsFinding, Columns
  <1>2. CASE Suppressed(r.status)
    BY <1>1, <1>2 DEF IsFinding, RecordOccurrence
  <1>3. CASE ~Suppressed(r.status) /\ r.status = "REMEDIATED"
    <2> DEFINE a == [r EXCEPT !.occurrences = @ + 1]
               b == [a EXCEPT !.status = "OPEN"]
               d == [b EXCEPT !.regressed = TRUE]
               n == [d EXCEPT !.remediatedAt = Never]
    <2>1. RecordOccurrence(r) = n
      BY <1>3, <1>1 DEF RecordOccurrence
    <2>2. IsFinding(n) /\ n.confidence = r.confidence /\ n.occurrences = r.occurrences + 1
          /\ n.suppressed = r.suppressed /\ n.status = "OPEN" /\ n.regressed = TRUE
      BY <1>1 DEF IsFinding, Statuses
    <2> QED BY <2>1, <2>2, <1>3
  <1>4. CASE ~Suppressed(r.status) /\ r.status # "REMEDIATED"
    BY <1>1, <1>4 DEF IsFinding, RecordOccurrence
  <1> QED BY <1>2, <1>3, <1>4

\* A fold of a hit, from one row of a finding to the next, as the lifecycle
\* of a batch allows it.
Folded(old, new) ==
    /\ Suppressed(old.status) =>
           new.status = old.status /\ new.occurrences = old.occurrences
    /\ old.status = "REMEDIATED" => new.status = "OPEN" /\ new.regressed = TRUE
    /\ old.status \in {"OPEN", "CONFIRMED"} =>
           new.status = old.status /\ (old.regressed = TRUE => new.regressed = TRUE)
    /\ ConfidenceOrder[new.confidence] >= ConfidenceOrder[old.confidence]
    /\ new.occurrences + new.suppressed > old.occurrences + old.suppressed

\* Folding a hit into a finding there is.
LEMMA FoldEffect ==
    ASSUME NEW r, IsFinding(r), NEW h, Leveled(h)
    PROVE  LET n == Fold(r, h)
           IN /\ IsFinding(n) /\ Folded(r, n)
              /\ \/ n.occurrences = r.occurrences + 1 /\ n.suppressed = r.suppressed
                 \/ n.occurrences = r.occurrences /\ n.suppressed = r.suppressed + 1
  <1> DEFINE a == RaiseConfidence(r, h)
             b == RecordWouldBlock(a, h)
             d == RecordOccurrence(b)
             n == Rescore(d, h)
  <1>1. Fold(r, h) = n
    BY FindingIsRow DEF Fold
  <1>2. /\ IsFinding(a) /\ a.occurrences = r.occurrences /\ a.suppressed = r.suppressed
        /\ a.status = r.status /\ a.regressed = r.regressed
        /\ ConfidenceOrder[a.confidence] >= ConfidenceOrder[r.confidence]
    BY RaiseEffect
  <1> HIDE DEF a
  <1>3. /\ IsFinding(b) /\ b.occurrences = a.occurrences /\ b.suppressed = a.suppressed
        /\ b.status = a.status /\ b.regressed = a.regressed /\ b.confidence = a.confidence
    BY <1>2, WouldBlockEffect
  <1> HIDE DEF b
  <1>4. /\ IsFinding(d) /\ d.confidence = b.confidence
        /\ \/ /\ Suppressed(b.status) /\ d.status = b.status /\ d.regressed = b.regressed
              /\ d.occurrences = b.occurrences /\ d.suppressed = b.suppressed + 1
           \/ /\ ~Suppressed(b.status)
              /\ d.occurrences = b.occurrences + 1 /\ d.suppressed = b.suppressed
              /\ IF b.status = "REMEDIATED" THEN d.status = "OPEN" /\ d.regressed = TRUE
                 ELSE d.status = b.status /\ d.regressed = b.regressed
    BY <1>3, OccurrenceEffect
  <1> HIDE DEF d
  <1>5. /\ IsFinding(n) /\ n.occurrences = d.occurrences /\ n.suppressed = d.suppressed
        /\ n.status = d.status /\ n.regressed = d.regressed /\ n.confidence = d.confidence
    BY <1>4, RescoreEffect
  <1> HIDE DEF n
  <1>6. r.occurrences \in Nat /\ r.suppressed \in Nat
    BY DEF IsFinding
  <1>7. /\ Suppressed(r.status) => n.status = r.status /\ n.occurrences = r.occurrences
        /\ r.status = "REMEDIATED" => n.status = "OPEN" /\ n.regressed = TRUE
        /\ r.status \in {"OPEN", "CONFIRMED"} =>
               n.status = r.status /\ (r.regressed = TRUE => n.regressed = TRUE)
    BY <1>2, <1>3, <1>4, <1>5 DEF Suppressed
  <1>8. /\ \/ n.occurrences = r.occurrences + 1 /\ n.suppressed = r.suppressed
           \/ n.occurrences = r.occurrences /\ n.suppressed = r.suppressed + 1
        /\ n.occurrences + n.suppressed > r.occurrences + r.suppressed
    <2>1. CASE Suppressed(b.status)
      BY <1>2, <1>3, <1>4, <1>5, <1>6, <2>1
    <2>2. CASE ~Suppressed(b.status)
      BY <1>2, <1>3, <1>4, <1>5, <1>6, <2>2
    <2> QED BY <2>1, <2>2
  <1>9. ConfidenceOrder[n.confidence] >= ConfidenceOrder[r.confidence]
    BY <1>2, <1>3, <1>4, <1>5
  <1> QED BY <1>1, <1>5, <1>7, <1>8, <1>9 DEF Folded

\* Folding a hit of a defect nobody saw before.
LEMMA FirstFold ==
    ASSUME NEW h, Leveled(h)
    PROVE  LET n == Fold(NoRow, h)
           IN IsFinding(n) /\ n.occurrences = 1 /\ n.suppressed = 0
  <1> DEFINE a == NewFinding(h)
             b == RecordWouldBlock(a, h)
             d == RecordOccurrence(b)
             n == Rescore(d, h)
  <1>1. Fold(NoRow, h) = n
    BY DEF Fold
  <1>2. IsFinding(a) /\ a.occurrences = 0 /\ a.suppressed = 0 /\ a.status = "OPEN"
    BY NewIsFinding
  <1> HIDE DEF a
  <1>3. IsFinding(b) /\ b.occurrences = 0 /\ b.suppressed = 0 /\ b.status = "OPEN"
    BY <1>2, WouldBlockEffect
  <1> HIDE DEF b
  <1>4. IsFinding(d) /\ d.occurrences = 1 /\ d.suppressed = 0
    <2>1. ~Suppressed(b.status)
      BY <1>3 DEF Suppressed
    <2>2. IsFinding(d) /\ d.occurrences = b.occurrences + 1 /\ d.suppressed = b.suppressed
      BY <1>3, <2>1, OccurrenceEffect
    <2> QED BY <1>3, <2>2
  <1> HIDE DEF d
  <1>5. IsFinding(n) /\ n.occurrences = 1 /\ n.suppressed = 0
    BY <1>4, RescoreEffect
  <1> QED BY <1>1, <1>5

\* Folding twice is still the lifecycle of a batch.
LEMMA FoldedAgain ==
    ASSUME NEW r, NEW s, NEW t, IsFinding(r), IsFinding(s), IsFinding(t),
           Folded(r, s), Folded(s, t)
    PROVE  Folded(r, t)
  <1>1. /\ r.occurrences \in Nat /\ s.occurrences \in Nat /\ t.occurrences \in Nat
        /\ r.suppressed \in Nat /\ s.suppressed \in Nat /\ t.suppressed \in Nat
        /\ r.status \in Statuses
    BY DEF IsFinding
  <1>2. /\ ConfidenceOrder[r.confidence] \in Nat /\ ConfidenceOrder[s.confidence] \in Nat
        /\ ConfidenceOrder[t.confidence] \in Nat
    BY Levels DEF IsFinding
  <1>3. ConfidenceOrder[t.confidence] >= ConfidenceOrder[r.confidence]
        /\ t.occurrences + t.suppressed > r.occurrences + r.suppressed
    BY <1>1, <1>2 DEF Folded
  <1>4. /\ Suppressed(r.status) => t.status = r.status /\ t.occurrences = r.occurrences
        /\ r.status = "REMEDIATED" => t.status = "OPEN" /\ t.regressed = TRUE
        /\ r.status \in {"OPEN", "CONFIRMED"} =>
               t.status = r.status /\ (r.regressed = TRUE => t.regressed = TRUE)
    BY DEF Folded, Suppressed
  <1> QED BY <1>3, <1>4 DEF Folded

\* What a triage makes of a finding.
Triaged(old, new) ==
    /\ old.status \in Statuses /\ new.status \in Allowed[old.status]
    /\ Suppressed(new.status) => new.noted
    /\ new.status = "ACCEPTED_RISK" <=> new.acceptedUntil # Never
    /\ new.status = "REMEDIATED" <=> new.remediatedAt # Never
    /\ new.occurrences = old.occurrences /\ new.suppressed = old.suppressed

\* A decision that is allowed either changes nothing or is a step of the
\* lifecycle.
LEMMA TransitionEffect ==
    ASSUME NEW r, IsFinding(r), NEW target, NEW note, NEW now \in Nat \ {0},
           CanTransition(r, target, note)
    PROVE  LET n == Transition(r, target, note, now, Period)
           IN /\ IsFinding(n) /\ (n = r \/ Triaged(r, n))
              /\ n.occurrences = r.occurrences /\ n.suppressed = r.suppressed
  <1> DEFINE n == Transition(r, target, note, now, Period)
  <1>1. CASE target = r.status
    BY <1>1 DEF Transition
  <1>2. CASE target # r.status
    <2>1. target \in Allowed[r.status] /\ (Suppressed(target) => note)
      BY <1>2 DEF CanTransition
    <2>2. {"status", "noted", "remediatedAt", "regressed", "acceptedUntil"} \subseteq DOMAIN r
      BY DEF IsFinding, Columns
    <2>3. target \in Statuses
      BY <2>1 DEF IsFinding, Statuses, Allowed
    <2>4. now # Never /\ now + Period # Never /\ now + Period \in Nat /\ Never \in Nat
      BY SizeAssumption DEF Never
    <2> DEFINE rem == IF target = "REMEDIATED" THEN now ELSE Never
               acc == IF target = "ACCEPTED_RISK" THEN now + Period ELSE Never
               reg == r.regressed /\ target # "REMEDIATED"
               a == [r EXCEPT !.status = target]
               b == [a EXCEPT !.noted = note]
               d == [b EXCEPT !.remediatedAt = rem]
               e == [d EXCEPT !.regressed = reg]
               f == [e EXCEPT !.acceptedUntil = acc]
    <2>5. n = f
      BY <1>2, <2>2 DEF Transition
    <2>6. rem # Never <=> target = "REMEDIATED"
      BY <2>4
    <2>7. acc \in Nat /\ (acc # Never <=> target = "ACCEPTED_RISK")
      BY <2>4
    <2> HIDE DEF rem, acc, reg
    <2>8. /\ DOMAIN f = DOMAIN r /\ f.status = target /\ f.noted = note /\ f.remediatedAt = rem
          /\ f.acceptedUntil = acc /\ f.confidence = r.confidence
          /\ f.occurrences = r.occurrences /\ f.suppressed = r.suppressed
          /\ f.severity = r.severity /\ f.risk = r.risk
      BY <2>2
    <2> HIDE DEF f
    <2>9. IsFinding(f)
      BY <2>3, <2>7, <2>8 DEF IsFinding
    <2>10. Triaged(r, f)
      BY <2>1, <2>6, <2>7, <2>8 DEF Triaged, IsFinding
    <2> QED BY <2>5, <2>8, <2>9, <2>10
  <1> QED BY <1>1, <1>2

\* What the sweep makes of a finding.
LEMMA ExpiryEffect ==
    ASSUME NEW r, IsFinding(r)
    PROVE  LET n == ExpireAcceptance(r)
           IN /\ IsFinding(n) /\ n.status = "OPEN"
              /\ n.occurrences = r.occurrences /\ n.suppressed = r.suppressed
  <1>1. {"status", "acceptedUntil"} \subseteq DOMAIN r
    BY DEF IsFinding, Columns
  <1> QED BY <1>1 DEF ExpireAcceptance, IsFinding, Statuses, Never

\* An update takes each column from the change or from the row as it is.
LEMMA MergeEffect ==
    ASSUME NEW current, NEW obj, NEW seen, IsFinding(current), IsFinding(obj)
    PROVE  LET n == Merge(current, obj, seen)
           IN /\ IsFinding(n)
              /\ n.occurrences \in {current.occurrences, obj.occurrences}
              /\ n.suppressed \in {current.suppressed, obj.suppressed}
  BY DEF Merge, IsFinding, Columns

\* A row that is as it was read takes the change whole.
LEMMA MergeFresh ==
    ASSUME NEW obj, NEW seen, NEW k \in Columns
    PROVE  Merge(seen, obj, seen)[k] = obj[k]
  BY DEF Merge, Changed

-----------------------------------------------------------------------------
(* What every state is like                                                 *)

\* How far the worker is in the stream.
Place == BatchEnd - Len(work[Worker].todo)

\* Only the worker makes findings; everyone else writes rows that are there.
OwnOK(c) ==
    \A id \in DOMAIN own[c] : IsFinding(own[c][id]) /\ (c # Worker => id \in DOMAIN rows)

KindOK(c) ==
    /\ c = Worker =>
           /\ work[c].kind = "batch"
           /\ Len(work[c].todo) <= BatchEnd - folded
           /\ \A i \in DOMAIN work[c].todo : work[c].todo[i] = Stream[Place + i]
    /\ c = Sweeper =>
           /\ work[c].kind = "sweep"
           /\ \A i \in DOMAIN work[c].todo :
                  work[c].todo[i].id \in DOMAIN rows /\ IsFinding(work[c].todo[i].row)
    /\ c \in Analysts =>
           /\ work[c].kind \in {"single", "bulk"} /\ work[c].ask.now \in Nat \ {0}
           /\ work[c].kind = "single" /\ work[c].todo # <<>> =>
                  Len(work[c].todo) = 1 /\ own[c] = <<>>

\* The object in hand, and the row it was made from.
ObjectOK(c) ==
    /\ work[c].todo # <<>>
    /\ IsFinding(work[c].obj)
    /\ c = Worker =>
           /\ Usable(Head(work[c].todo)) /\ work[c].id = Identity(Head(work[c].todo))
           /\ work[c].old = NoRow \/ IsFinding(work[c].old)
    /\ c # Worker => work[c].id \in DOMAIN rows /\ IsFinding(work[c].old)
    /\ c = Sweeper => work[c].id = Head(work[c].todo).id
    /\ c \in Analysts => work[c].id = Head(work[c].todo)

\* The second read finds a row, or the hit is the first of its defect.
SeenOK(c) ==
    \/ c = Worker /\ work[c].seen = NoRow /\ work[c].id \notin DOMAIN View(c)
    \/ IsFinding(work[c].seen) /\ work[c].id \in DOMAIN View(c)

Busy(c) ==
    /\ work[c].pc \in {"load", "reread", "flush"}
    /\ IsSequence(work[c].todo)
    /\ KindOK(c)
    /\ work[c].pc # "load" => ObjectOK(c)
    /\ work[c].pc = "flush" => SeenOK(c)

WorkOK(c) == (work[c] = Idle /\ own[c] = <<>>) \/ Busy(c)

\* A row has one writer at a time.
OwnApart == \A c, d \in Clients : c # d => DOMAIN own[c] \cap DOMAIN own[d] = {}

Tables ==
    /\ clock \in Nat \ {0} /\ folded \in 0..Len(Stream)
    /\ \A id \in DOMAIN rows : IsFinding(rows[id])

Shape == DOMAIN work = Clients /\ DOMAIN own = Clients

Typed == Tables /\ Shape /\ OwnApart /\ \A c \in Clients : OwnOK(c) /\ WorkOK(c)

-----------------------------------------------------------------------------
(* Lemmas about sequences and rows                                          *)

\* The tail of a sequence is the rest of it.
LEMMA TailFacts ==
    ASSUME NEW s, IsSequence(s), s # <<>>
    PROVE  /\ Len(s) \in Nat \ {0} /\ DOMAIN s = 1..Len(s) /\ Head(s) = s[1]
           /\ IsSequence(Tail(s)) /\ Len(Tail(s)) = Len(s) - 1
           /\ DOMAIN Tail(s) = 1..(Len(s) - 1)
           /\ \A i \in DOMAIN Tail(s) : i + 1 \in DOMAIN s /\ Tail(s)[i] = s[i + 1]
  <1> DEFINE S == {s[i] : i \in DOMAIN s}
  <1>1. s \in Seq(S)
    BY DEF IsSequence
  <1>2. /\ Len(s) \in Nat \ {0} /\ DOMAIN s = 1..Len(s) /\ Head(s) = s[1]
        /\ Tail(s) \in Seq(S) /\ Len(Tail(s)) = Len(s) - 1
    BY <1>1
  <1>3. DOMAIN Tail(s) = 1..(Len(s) - 1)
    BY <1>2
  <1>4. \A i \in DOMAIN Tail(s) : i + 1 \in DOMAIN s /\ Tail(s)[i] = s[i + 1]
    BY <1>1, <1>2, <1>3
  <1>5. IsSequence(Tail(s))
    <2> DEFINE t == Tail(s)
    <2>2. t \in Seq(S) /\ DOMAIN t = 1..Len(t) /\ Len(t) \in Nat
      BY <1>2
    <2> HIDE DEF t
    <2>3. t = [i \in 1..Len(t) |-> t[i]]
      BY <2>2
    <2>4. [i \in 1..Len(t) |-> t[i]] \in Seq({t[i] : i \in DOMAIN t})
      BY <2>2
    <2>5. t \in Seq({t[i] : i \in DOMAIN t})
      BY <2>3, <2>4, Zenon
    <2> USE DEF t
    <2> QED BY <2>5 DEF IsSequence
  <1> QED BY <1>2, <1>3, <1>4, <1>5

\* A sequence is as long as its domain.
LEMMA SequenceFacts ==
    ASSUME NEW s, IsSequence(s)
    PROVE  Len(s) \in Nat /\ DOMAIN s = 1..Len(s) /\ (s = <<>> <=> Len(s) = 0)
  BY DEF IsSequence

\* Rows over others.
LEMMA OverlayFacts ==
    ASSUME NEW new, NEW old
    PROVE  /\ DOMAIN Overlay(new, old) = DOMAIN new \cup DOMAIN old
           /\ \A id \in DOMAIN new : Overlay(new, old)[id] = new[id]
           /\ \A id \in DOMAIN old \ DOMAIN new : Overlay(new, old)[id] = old[id]
  BY DEF Overlay

\* One row over others.
LEMMA OverlayRow ==
    ASSUME NEW k, NEW x, NEW old
    PROVE  /\ DOMAIN Overlay(Row(k, x), old) = {k} \cup DOMAIN old
           /\ Overlay(Row(k, x), old)[k] = x
           /\ \A id \in DOMAIN old \ {k} : Overlay(Row(k, x), old)[id] = old[id]
  <1> DEFINE new == Row(k, x)
  <1>1. DOMAIN new = {k} /\ new[k] = x
    BY DEF Row
  <1>2. /\ DOMAIN Overlay(new, old) = DOMAIN new \cup DOMAIN old
        /\ \A id \in DOMAIN new : Overlay(new, old)[id] = new[id]
        /\ \A id \in DOMAIN old \ DOMAIN new : Overlay(new, old)[id] = old[id]
    BY OverlayFacts
  <1> HIDE DEF new
  <1>3. /\ DOMAIN Overlay(new, old) = {k} \cup DOMAIN old /\ Overlay(new, old)[k] = x
        /\ \A id \in DOMAIN old \ {k} : Overlay(new, old)[id] = old[id]
    BY <1>1, <1>2
  <1> QED BY <1>3 DEF new

\* The end of the batch.
LEMMA BatchEndFacts ==
    ASSUME Tables
    PROVE  /\ folded \in Nat /\ Len(Stream) \in Nat /\ DOMAIN Stream = 1..Len(Stream)
           /\ BatchEnd \in Nat /\ folded <= BatchEnd /\ BatchEnd <= Len(Stream)
           /\ (folded < Len(Stream) => folded < BatchEnd)
  <1>1. Len(Stream) \in Nat /\ DOMAIN Stream = 1..Len(Stream)
    BY StreamAssumption DEF IsSequence
  <1> QED BY <1>1, SizeAssumption DEF Tables, BatchEnd, AtMost

\* What a client sees: its own rows over the committed ones.
LEMMA ViewFacts ==
    ASSUME NEW c
    PROVE  /\ DOMAIN View(c) = DOMAIN own[c] \cup DOMAIN rows
           /\ \A id \in DOMAIN own[c] : View(c)[id] = own[c][id]
           /\ \A id \in DOMAIN rows \ DOMAIN own[c] : View(c)[id] = rows[id]
  BY OverlayFacts DEF View

\* A read finds a finding or tells that there is none.
LEMMA ReadFacts ==
    ASSUME Typed, NEW c \in Clients, NEW id
    PROVE  /\ id \in DOMAIN View(c) => IsFinding(ReadRow(c, id)) /\ ReadRow(c, id) # NoRow
           /\ id \notin DOMAIN View(c) => ReadRow(c, id) = NoRow
           /\ id \in DOMAIN own[c] => ReadRow(c, id) = own[c][id]
           /\ id \in DOMAIN rows \ DOMAIN own[c] => ReadRow(c, id) = rows[id]
  <1>1. \A k \in DOMAIN View(c) : IsFinding(View(c)[k])
    BY ViewFacts DEF Typed, OwnOK, Tables
  <1> QED BY <1>1, ViewFacts, FindingIsRow DEF ReadRow

-----------------------------------------------------------------------------
(* Types                                                                    *)

\* A hit of the worker's batch is one of the stream.
LEMMA HitFacts ==
    ASSUME Typed, Busy(Worker), work[Worker].todo # <<>>
    PROVE  /\ Place \in Nat /\ folded <= Place /\ Place + 1 <= BatchEnd
           /\ Place + 1 \in DOMAIN Stream /\ Head(work[Worker].todo) = Stream[Place + 1]
           /\ Usable(Head(work[Worker].todo)) => Leveled(Head(work[Worker].todo))
  <1> DEFINE todo == work[Worker].todo
  <1>1. IsSequence(todo) /\ Len(todo) <= BatchEnd - folded
        /\ \A i \in DOMAIN todo : todo[i] = Stream[Place + i]
    BY DEF Busy, KindOK
  <1>2. Len(todo) \in Nat \ {0} /\ DOMAIN todo = 1..Len(todo) /\ Head(todo) = todo[1]
    BY <1>1, TailFacts
  <1>3. Tables
    BY DEF Typed
  <1>4. /\ folded \in Nat /\ Len(Stream) \in Nat /\ DOMAIN Stream = 1..Len(Stream)
        /\ BatchEnd \in Nat /\ folded <= BatchEnd /\ BatchEnd <= Len(Stream)
    BY <1>3, BatchEndFacts
  <1>5. Place \in Nat /\ folded <= Place /\ Place + 1 <= BatchEnd /\ Place + 1 \in DOMAIN Stream
    BY <1>1, <1>2, <1>4 DEF Place
  <1>6. Head(todo) = Stream[Place + 1]
    BY <1>1, <1>2
  <1> QED BY <1>5, <1>6, StreamAssumption, Levels DEF Usable, Leveled

\* Clients that do not act stay as they are, whatever the others commit.
LEMMA OthersKept ==
    ASSUME NEW d \in Clients, OwnOK(d), WorkOK(d), work'[d] = work[d], own'[d] = own[d],
           DOMAIN rows \subseteq DOMAIN rows',
           d = Worker => DOMAIN rows' = DOMAIN rows /\ folded' = folded
    PROVE  OwnOK(d)' /\ WorkOK(d)'
  <1>1. OwnOK(d)'
    BY DEF OwnOK
  <1>2. d = Worker => BatchEnd' = BatchEnd /\ Place' = Place /\ DOMAIN View(d)' = DOMAIN View(d)
    BY ViewFacts DEF BatchEnd, Place, View, Overlay
  <1>3. DOMAIN View(d) \subseteq DOMAIN View(d)'
    BY DEF View, Overlay
  <1>4. KindOK(d) => KindOK(d)'
    BY <1>2 DEF KindOK
  <1>5. ObjectOK(d) => ObjectOK(d)'
    BY DEF ObjectOK
  <1>6. SeenOK(d) => SeenOK(d)'
    BY <1>2, <1>3 DEF SeenOK
  <1>7. Busy(d) => Busy(d)'
    BY <1>4, <1>5, <1>6 DEF Busy
  <1> QED BY <1>1, <1>7 DEF WorkOK

\* When one client acts and nothing is written, its own state is what matters.
LEMMA ActsAlone ==
    ASSUME Typed, NEW c \in Clients, NEW w,
           work' = [work EXCEPT ![c] = w], UNCHANGED <<own, tables, clock>>,
           (w = Idle /\ own[c] = <<>>) \/ Busy(c)'
    PROVE  Typed'
  <1>1. rows' = rows /\ folded' = folded /\ own' = own /\ clock' = clock
    BY DEF tables
  <1>2. DOMAIN work' = Clients /\ work'[c] = w /\ \A d \in Clients \ {c} : work'[d] = work[d]
    BY DEF Typed, Shape
  <1>3. Tables' /\ Shape' /\ OwnApart'
    BY <1>1, <1>2 DEF Typed, Tables, Shape, OwnApart
  <1>4. \A d \in Clients \ {c} : OwnOK(d)' /\ WorkOK(d)'
    BY <1>1, <1>2, OthersKept DEF Typed
  <1>5. OwnOK(c)' /\ WorkOK(c)'
    BY <1>1, <1>2 DEF Typed, OwnOK, WorkOK
  <1> QED BY <1>3, <1>4, <1>5 DEF Typed

\* A part of the stream is a sequence of its hits.
LEMMA PartOfStream ==
    ASSUME NEW m \in Nat, NEW n \in Nat, m <= n, n <= Len(Stream)
    PROVE  LET s == SubSeq(Stream, m + 1, n)
           IN IsSequence(s) /\ Len(s) = n - m /\ \A i \in DOMAIN s : s[i] = Stream[m + i]
  <1> DEFINE S == {Stream[i] : i \in DOMAIN Stream}
             s == SubSeq(Stream, m + 1, n)
  <1>1. Stream \in Seq(S)
    BY StreamAssumption DEF IsSequence
  <1>2. s \in Seq(S) /\ Len(s) = n - m /\ \A i \in 1..(n - m) : s[i] = Stream[m + i]
    BY <1>1
  <1>3. DOMAIN s = 1..(n - m)
    BY <1>2
  <1> HIDE DEF s, S
  <1>4. s = [i \in 1..Len(s) |-> s[i]] /\ Len(s) \in Nat /\ DOMAIN s = 1..Len(s)
    BY <1>2, <1>3
  <1>5. [i \in 1..Len(s) |-> s[i]] \in Seq({s[i] : i \in DOMAIN s})
    BY <1>4
  <1>6. IsSequence(s)
    BY <1>4, <1>5, Zenon DEF IsSequence
  <1> QED BY <1>2, <1>3, <1>6 DEF s

\* A batch is a part of the stream.
LEMMA BeginBatchTyped ==
    ASSUME Typed, BeginBatch
    PROVE  Typed'
  <1> DEFINE todo == SubSeq(Stream, folded + 1, BatchEnd)
             w == [pc |-> "load", kind |-> "batch", todo |-> todo, ask |-> Idle,
                   base |-> <<>>, fresh |-> TRUE]
  <1>1. work' = [work EXCEPT ![Worker] = w] /\ UNCHANGED <<own, tables, clock>>
    BY DEF BeginBatch, Open, pendings, envVars
  <1>2. Worker \in Clients /\ Worker # Sweeper /\ Worker \notin Analysts
    BY ClientAssumption DEF Clients
  <1>3. folded \in Nat /\ BatchEnd \in Nat /\ folded <= BatchEnd /\ BatchEnd <= Len(Stream)
    BY BatchEndFacts DEF Typed
  <1>4. IsSequence(todo) /\ Len(todo) = BatchEnd - folded
        /\ \A i \in DOMAIN todo : todo[i] = Stream[folded + i]
    BY <1>3, PartOfStream
  <1>5. work'[Worker] = w
    BY <1>1, <1>2 DEF Typed, Shape
  <1> HIDE DEF todo
  <1>6. BatchEnd' = BatchEnd /\ folded' = folded /\ work'[Worker].todo = todo
        /\ work'[Worker].kind = "batch" /\ work'[Worker].pc = "load"
    BY <1>1, <1>5 DEF BatchEnd, tables
  <1>7. Place' = folded
    BY <1>3, <1>4, <1>6 DEF Place
  <1>8. KindOK(Worker)'
    BY <1>2, <1>3, <1>4, <1>6, <1>7 DEF KindOK
  <1>9. Busy(Worker)'
    BY <1>4, <1>6, <1>8 DEF Busy
  <1> QED BY <1>1, <1>2, <1>9, ActsAlone

\* A request names each finding once.
LEMMA BeginTriageTyped ==
    ASSUME Typed, NEW c \in Analysts, BeginTriage(c)
    PROVE  Typed'
  <1>1. PICK ids \in Targets, ask \in Requests, kind \in {"single", "bulk"} :
            /\ kind = "single" => Len(ids) = 1
            /\ Open(c, kind, ids, [status |-> ask.status, note |-> ask.note, now |-> clock])
    BY DEF BeginTriage
  <1> DEFINE w == [pc |-> "load", kind |-> kind, todo |-> ids,
                   ask |-> [status |-> ask.status, note |-> ask.note, now |-> clock],
                   base |-> <<>>, fresh |-> TRUE]
  <1>2. work' = [work EXCEPT ![c] = w] /\ UNCHANGED <<own, tables, clock>>
    BY <1>1 DEF BeginTriage, Open, pendings
  <1>3. c \in Clients /\ c # Worker /\ c # Sweeper
    BY ClientAssumption DEF Clients
  <1>4. work'[c] = w
    BY <1>2, <1>3 DEF Typed, Shape
  <1>5. IsSequence(ids)
    BY TargetAssumption
  <1>6. own[c] = <<>>
    BY <1>3 DEF BeginTriage, Typed, WorkOK, Busy, Idle
  <1>7. /\ work'[c].pc = "load" /\ work'[c].todo = ids /\ work'[c].ask.now = clock
        /\ work'[c].kind = kind
    BY <1>4
  <1> HIDE DEF w
  <1>8. Busy(c)'
    <2>1. KindOK(c)'
      BY <1>1, <1>2, <1>3, <1>6, <1>7 DEF KindOK, Typed, Tables
    <2> QED BY <1>5, <1>7, <2>1 DEF Busy
  <1> QED BY <1>2, <1>3, <1>8, ActsAlone

\* The sweeper takes committed rows.
LEMMA BeginSweepTyped ==
    ASSUME Typed, BeginSweep
    PROVE  Typed'
  <1>1. PICK ids \in UNION {[1..n -> DOMAIN rows] : n \in 1..Cardinality(DOMAIN rows)} :
            Open(Sweeper, "sweep", [i \in DOMAIN ids |-> [id |-> ids[i], row |-> rows[ids[i]]]], Idle)
    BY DEF BeginSweep
  <1> DEFINE todo == [i \in DOMAIN ids |-> [id |-> ids[i], row |-> rows[ids[i]]]]
             w == [pc |-> "load", kind |-> "sweep", todo |-> todo, ask |-> Idle,
                   base |-> <<>>, fresh |-> TRUE]
  <1>2. work' = [work EXCEPT ![Sweeper] = w] /\ UNCHANGED <<own, tables, clock>>
    BY <1>1 DEF BeginSweep, Open, pendings, envVars
  <1>3. Sweeper \in Clients /\ Worker # Sweeper /\ Sweeper \notin Analysts
    BY ClientAssumption DEF Clients
  <1>4. work'[Sweeper] = w
    BY <1>2, <1>3 DEF Typed, Shape
  <1>5. PICK n \in 1..Cardinality(DOMAIN rows) : ids \in [1..n -> DOMAIN rows]
    OBVIOUS
  <1>6. n \in Nat
    BY <1>5
  <1>7. IsSequence(todo)
    <2>1. todo \in Seq({todo[i] : i \in DOMAIN todo})
      <3>1. DOMAIN todo = 1..n /\ todo = [i \in 1..n |-> todo[i]]
        BY <1>5
      <3> HIDE DEF todo
      <3>2. [i \in 1..n |-> todo[i]] \in Seq({todo[i] : i \in DOMAIN todo})
        BY <3>1, <1>6
      <3> QED BY <3>1, <3>2, Zenon
    <2> QED BY <2>1 DEF IsSequence
  <1>8. \A i \in DOMAIN todo : todo[i].id \in DOMAIN rows /\ IsFinding(todo[i].row)
    BY <1>5 DEF Typed, Tables
  <1> HIDE DEF todo
  <1>9. Busy(Sweeper)'
    BY <1>2, <1>3, <1>4, <1>7, <1>8 DEF Busy, KindOK, tables
  <1> QED BY <1>2, <1>3, <1>9, ActsAlone

\* Going on with the rest of the work.
LEMMA GoesOn ==
    ASSUME Typed, NEW c \in Clients, Busy(c), work[c].todo # <<>>,
           work'[c] = AtLoad(work[c], Tail(work[c].todo)), UNCHANGED <<rows, folded>>
    PROVE  Busy(c)'
  <1> DEFINE todo == work[c].todo
             w == work'[c]
  <1>1. /\ Len(todo) \in Nat \ {0} /\ DOMAIN todo = 1..Len(todo)
        /\ IsSequence(Tail(todo)) /\ Len(Tail(todo)) = Len(todo) - 1
        /\ DOMAIN Tail(todo) = 1..(Len(todo) - 1)
        /\ \A i \in DOMAIN Tail(todo) : i + 1 \in DOMAIN todo /\ Tail(todo)[i] = todo[i + 1]
    BY TailFacts DEF Busy
  <1>2. w.pc = "load" /\ w.kind = work[c].kind /\ w.todo = Tail(todo) /\ w.ask = work[c].ask
    BY DEF AtLoad
  <1>3. BatchEnd' = BatchEnd
    BY DEF BatchEnd
  <1>4. ASSUME c = Worker PROVE KindOK(c)'
    <2>1. work[c].kind = "batch" /\ Len(todo) <= BatchEnd - folded
          /\ \A i \in DOMAIN todo : todo[i] = Stream[Place + i]
      BY <1>4 DEF Busy, KindOK
    <2>2. BatchEnd \in Nat /\ folded \in Nat
      BY BatchEndFacts DEF Typed
    <2>3. Place' = Place + 1 /\ Place \in Int
      <3>1. Len(w.todo) = Len(todo) - 1
        BY <1>1, <1>2
      <3>2. Place = BatchEnd - Len(todo) /\ Place' = BatchEnd - Len(w.todo)
        BY <1>3, <1>4 DEF Place
      <3> QED BY <1>1, <2>2, <3>1, <3>2
    <2>4. Len(Tail(todo)) <= BatchEnd - folded
      BY <1>1, <2>1, <2>2
    <2>5. \A i \in DOMAIN Tail(todo) : Tail(todo)[i] = Stream[(Place + 1) + i]
      <3> TAKE i \in DOMAIN Tail(todo)
      <3>1. i \in Nat /\ Tail(todo)[i] = todo[i + 1] /\ todo[i + 1] = Stream[Place + (i + 1)]
        BY <1>1, <2>1
      <3>2. Place + (i + 1) = (Place + 1) + i
        BY <3>1, <2>3
      <3> QED BY <3>1, <3>2
    <2> QED BY <1>2, <1>3, <1>4, <2>1, <2>3, <2>4, <2>5, ClientAssumption DEF KindOK
  <1>5. ASSUME c # Worker PROVE KindOK(c)'
    <2>1. Len(todo) = 1 => w.todo = <<>>
      <3>1. IsSequence(w.todo) /\ Len(w.todo) = Len(todo) - 1
        BY <1>1, <1>2
      <3>2. w.todo = <<>> <=> Len(w.todo) = 0
        BY <3>1, SequenceFacts
      <3> QED BY <3>1, <3>2
    <2> QED BY <1>1, <1>2, <1>5, <2>1 DEF Busy, KindOK
  <1> QED BY <1>1, <1>2, <1>4, <1>5 DEF Busy

\* A hit that is not usable.
LEMMA RejectHitTyped ==
    ASSUME Typed, RejectHit
    PROVE  Typed'
  <1>1. Worker \in Clients /\ Busy(Worker) /\ work[Worker].todo # <<>>
    BY DEF RejectHit, HasTodo, Typed, WorkOK, Clients, Idle
  <1>2. work' = [work EXCEPT ![Worker] = AtLoad(work[Worker], Tail(work[Worker].todo))]
        /\ UNCHANGED <<own, tables, clock>>
    BY DEF RejectHit, pendings, envVars
  <1>3. work'[Worker] = AtLoad(work[Worker], Tail(work[Worker].todo)) /\ UNCHANGED <<rows, folded>>
    BY <1>1, <1>2 DEF Typed, Shape, tables
  <1>4. Busy(Worker)'
    BY <1>1, <1>3, GoesOn
  <1> QED BY <1>1, <1>2, <1>4, ActsAlone

\* A refusal, alone or among others.
LEMMA RefuseTriageTyped ==
    ASSUME Typed, NEW c \in Analysts, RefuseTriage(c)
    PROVE  Typed'
  <1>1. c \in Clients /\ Busy(c) /\ work[c].todo # <<>>
    BY DEF RefuseTriage, HasTodo, Typed, WorkOK, Clients, Idle
  <1>2. UNCHANGED <<own, tables, clock>>
    BY DEF RefuseTriage, pendings, envVars
  <1>3. CASE work[c].kind = "bulk"
    <2>1. work' = [work EXCEPT ![c] = AtLoad(work[c], Tail(work[c].todo))]
      BY <1>3 DEF RefuseTriage
    <2>2. work'[c] = AtLoad(work[c], Tail(work[c].todo)) /\ UNCHANGED <<rows, folded>>
      BY <1>1, <1>2, <2>1 DEF Typed, Shape, tables
    <2>3. Busy(c)'
      BY <1>1, <2>2, GoesOn
    <2> QED BY <1>1, <1>2, <2>1, <2>3, ActsAlone
  <1>4. CASE work[c].kind # "bulk"
    <2>1. work' = [work EXCEPT ![c] = Idle]
      BY <1>4 DEF RefuseTriage
    <2>2. own[c] = <<>>
      BY <1>1, <1>4 DEF Busy, KindOK
    <2> QED BY <1>1, <1>2, <2>1, <2>2, ActsAlone
  <1> QED BY <1>3, <1>4

\* Who has something to do is busy with it.
LEMMA BusyAtLoad ==
    ASSUME Typed, NEW c \in Clients, HasTodo(c)
    PROVE  Busy(c) /\ work[c].todo # <<>> /\ work[c].pc = "load"
  BY DEF HasTodo, Typed, WorkOK, Idle

\* Having loaded a finding and changed the object.
LEMMA LoadedTyped ==
    ASSUME Typed, NEW c \in Clients, HasTodo(c), NEW id, NEW old, NEW obj,
           Loaded(c, id, old, obj), UNCHANGED <<tables, pendings, envVars>>,
           IsFinding(obj),
           c = Worker => /\ Usable(Head(work[c].todo)) /\ id = Identity(Head(work[c].todo))
                         /\ old = NoRow \/ IsFinding(old),
           c # Worker => id \in DOMAIN rows /\ IsFinding(old),
           c = Sweeper => id = Head(work[c].todo).id,
           c \in Analysts => id = Head(work[c].todo)
    PROVE  Typed'
  <1> DEFINE v == work[c]
             w == [pc |-> "reread", kind |-> v.kind, todo |-> v.todo, ask |-> v.ask,
                   base |-> Overlay(v.base, Row(id, old)), fresh |-> v.fresh,
                   id |-> id, old |-> old, obj |-> obj]
  <1>1. work' = [work EXCEPT ![c] = w]
    BY DEF Loaded
  <1>2. Busy(c) /\ v.todo # <<>>
    BY BusyAtLoad
  <1>3. rows' = rows /\ folded' = folded /\ own' = own /\ clock' = clock
    BY DEF tables, pendings, envVars
  <1>4. work'[c] = w
    BY <1>1 DEF Typed, Shape
  <1>5. /\ work'[c].pc = "reread" /\ work'[c].kind = v.kind /\ work'[c].todo = v.todo
        /\ work'[c].ask = v.ask /\ work'[c].id = id /\ work'[c].old = old /\ work'[c].obj = obj
    BY <1>4
  <1>6. BatchEnd' = BatchEnd /\ (c = Worker => Place' = Place)
    BY <1>3, <1>5 DEF BatchEnd, Place
  <1>7. KindOK(c)'
    BY <1>2, <1>3, <1>5, <1>6 DEF Busy, KindOK
  <1>8. ObjectOK(c)'
    BY <1>2, <1>3, <1>5 DEF ObjectOK
  <1>9. Busy(c)'
    BY <1>2, <1>5, <1>7, <1>8 DEF Busy
  <1> HIDE DEF w
  <1> QED BY <1>1, <1>3, <1>9, ActsAlone DEF tables

\* The first read of a fold.
LEMMA LoadForHitTyped ==
    ASSUME Typed, LoadForHit
    PROVE  Typed'
  <1> DEFINE h == Head(work[Worker].todo)
             old == ReadRow(Worker, Identity(h))
  <1>1. Worker \in Clients /\ Worker # Sweeper /\ Worker \notin Analysts
    BY ClientAssumption DEF Clients
  <1>2. HasTodo(Worker) /\ Usable(h) /\ Loaded(Worker, Identity(h), old, Fold(old, h))
        /\ UNCHANGED <<tables, pendings, envVars>>
    BY DEF LoadForHit
  <1>3. Leveled(h)
    BY <1>1, <1>2, BusyAtLoad, HitFacts
  <1>4. old = NoRow \/ IsFinding(old)
    BY <1>1, ReadFacts
  <1> HIDE DEF old
  <1>5. IsFinding(Fold(old, h))
    BY <1>3, <1>4, FirstFold, FoldEffect
  <1> QED BY <1>1, <1>2, <1>4, <1>5, LoadedTyped

\* The first read of a triage.
LEMMA LoadForTriageTyped ==
    ASSUME Typed, NEW c \in Analysts, LoadForTriage(c)
    PROVE  Typed'
  <1> DEFINE id == Head(work[c].todo)
             old == ReadRow(c, id)
             ask == work[c].ask
             now == IF work[c].kind = "bulk" THEN ask.now ELSE clock
             obj == Transition(old, ask.status, ask.note, now, Period)
  <1>1. c \in Clients /\ c # Worker /\ c # Sweeper
    BY ClientAssumption DEF Clients
  <1>2. HasTodo(c) /\ old # NoRow /\ CanTransition(old, ask.status, ask.note)
        /\ Loaded(c, id, old, obj) /\ UNCHANGED <<tables, pendings, envVars>>
    BY DEF LoadForTriage
  <1>3. id \in DOMAIN View(c) /\ IsFinding(old)
    BY <1>1, <1>2, ReadFacts
  <1>4. id \in DOMAIN rows
    BY <1>1, <1>3, ViewFacts DEF Typed, OwnOK
  <1>5. now \in Nat \ {0}
    BY <1>1, <1>2, BusyAtLoad DEF Busy, KindOK, Typed, Tables
  <1> HIDE DEF old, now
  <1>6. IsFinding(obj)
    BY <1>2, <1>3, <1>5, TransitionEffect
  <1> HIDE DEF obj
  <1> QED BY <1>1, <1>2, <1>3, <1>4, <1>6, LoadedTyped

\* An expired acceptance is taken up.
LEMMA LoadForSweepTyped ==
    ASSUME Typed, LoadForSweep
    PROVE  Typed'
  <1> DEFINE item == Head(work[Sweeper].todo)
  <1>1. Sweeper \in Clients /\ Worker # Sweeper /\ Sweeper \notin Analysts
    BY ClientAssumption DEF Clients
  <1>2. HasTodo(Sweeper) /\ Loaded(Sweeper, item.id, item.row, ExpireAcceptance(item.row))
        /\ UNCHANGED <<tables, pendings, envVars>>
    BY DEF LoadForSweep
  <1>3. Busy(Sweeper) /\ work[Sweeper].todo # <<>>
    BY <1>1, <1>2, BusyAtLoad
  <1>4. item = work[Sweeper].todo[1] /\ 1 \in DOMAIN work[Sweeper].todo
    BY <1>3, TailFacts DEF Busy
  <1>5. item.id \in DOMAIN rows /\ IsFinding(item.row)
    BY <1>3, <1>4 DEF Busy, KindOK
  <1>6. IsFinding(ExpireAcceptance(item.row))
    BY <1>5, ExpiryEffect
  <1> QED BY <1>1, <1>2, <1>5, <1>6, LoadedTyped

\* The second read of upsert.
LEMMA RereadTyped ==
    ASSUME Typed, NEW c \in Clients, Reread(c)
    PROVE  Typed'
  <1> DEFINE v == work[c]
             seen == ReadRow(c, v.id)
             w == [pc |-> "flush", kind |-> v.kind, todo |-> v.todo, ask |-> v.ask,
                   base |-> v.base, fresh |-> v.fresh /\ seen = v.old,
                   id |-> v.id, old |-> v.old, obj |-> v.obj, seen |-> seen]
  <1>1. work' = [work EXCEPT ![c] = w] /\ v.pc = "reread"
    BY DEF Reread
  <1>2. Busy(c) /\ ObjectOK(c)
    BY <1>1 DEF Typed, WorkOK, Idle, Busy
  <1>3. /\ rows' = rows /\ folded' = folded /\ own' = own /\ clock' = clock
        /\ UNCHANGED <<own, tables, clock>>
    BY DEF Reread, tables, pendings, envVars
  <1>4. work'[c] = w
    BY <1>1 DEF Typed, Shape
  <1>5. /\ work'[c].pc = "flush" /\ work'[c].kind = v.kind /\ work'[c].todo = v.todo
        /\ work'[c].ask = v.ask /\ work'[c].id = v.id /\ work'[c].old = v.old
        /\ work'[c].obj = v.obj /\ work'[c].seen = seen
    BY <1>4
  <1>6. BatchEnd' = BatchEnd /\ (c = Worker => Place' = Place)
    BY <1>3, <1>5 DEF BatchEnd, Place
  <1>7. KindOK(c)' /\ ObjectOK(c)'
    BY <1>2, <1>3, <1>5, <1>6 DEF Busy, KindOK, ObjectOK
  <1>8. SeenOK(c)'
    <2>1. View(c)' = View(c)
      BY <1>3 DEF View
    <2>2. c # Worker => v.id \in DOMAIN View(c)
      BY <1>2, ViewFacts DEF ObjectOK
    <2> QED BY <1>5, <2>1, <2>2, ReadFacts DEF SeenOK
  <1>9. Busy(c)'
    BY <1>2, <1>5, <1>7, <1>8 DEF Busy
  <1> HIDE DEF w
  <1> QED BY <1>1, <1>3, <1>9, ActsAlone

\* A flush writes a finding nobody else has written.
LEMMA FlushWrites ==
    ASSUME Typed, NEW c \in Clients, Flush(c)
    PROVE  LET w == work[c]
               x == StoredRow(c, w.id, w.obj, w.seen)
           IN /\ Busy(c) /\ ObjectOK(c) /\ SeenOK(c) /\ w.todo # <<>> /\ w.pc = "flush"
              /\ work'[c] = AtLoad(w, Tail(w.todo))
              /\ work' = [work EXCEPT ![c] = AtLoad(w, Tail(w.todo))]
              /\ rows' = rows /\ folded' = folded /\ clock' = clock
              /\ \/ /\ w.seen # NoRow /\ Changed(w.obj, w.seen) = {} /\ own' = own
                 \/ /\ w.seen # NoRow => Changed(w.obj, w.seen) # {}
                    /\ own' = [own EXCEPT ![c] = Overlay(Row(w.id, x), own[c])]
                    /\ own'[c] = Overlay(Row(w.id, x), own[c])
                    /\ IsFinding(x)
                    /\ \A d \in Clients \ {c} : w.id \notin DOMAIN own[d] /\ own'[d] = own[d]
  <1> DEFINE w == work[c]
             x == StoredRow(c, w.id, w.obj, w.seen)
  <1>1. w.pc = "flush" /\ ~Blocked(c)
    BY DEF Flush
  <1>2. Busy(c) /\ ObjectOK(c) /\ SeenOK(c) /\ w.todo # <<>>
    BY <1>1 DEF Typed, WorkOK, Idle, Busy, ObjectOK
  <1>3. work' = [work EXCEPT ![c] = AtLoad(w, Tail(w.todo))]
    BY DEF Flush
  <1>4. work'[c] = AtLoad(w, Tail(w.todo))
    BY <1>3 DEF Typed, Shape
  <1>5. rows' = rows /\ folded' = folded /\ clock' = clock
    BY DEF Flush, tables, envVars
  <1>6. own' = IF w.seen # NoRow /\ Changed(w.obj, w.seen) = {} THEN own
               ELSE [own EXCEPT ![c] = Overlay(Row(w.id, x), own[c])]
    BY DEF Flush
  <1>7. IsFinding(x)
    <2>1. CASE w.seen = NoRow
      BY <1>2, <2>1 DEF StoredRow, ObjectOK
    <2>2. CASE w.seen # NoRow
      <3>1. IsFinding(ReadRow(c, w.id)) /\ IsFinding(w.obj)
        BY <1>2, <2>2, ReadFacts DEF SeenOK, ObjectOK
      <3> QED BY <2>2, <3>1, MergeEffect DEF StoredRow
    <2> QED BY <2>1, <2>2
  <1> HIDE DEF x
  <1>8. CASE w.seen # NoRow /\ Changed(w.obj, w.seen) = {}
    BY <1>1, <1>2, <1>3, <1>4, <1>5, <1>6, <1>8
  <1>9. CASE w.seen # NoRow => Changed(w.obj, w.seen) # {}
    <2>1. own' = [own EXCEPT ![c] = Overlay(Row(w.id, x), own[c])]
      BY <1>6, <1>9
    <2>2. own'[c] = Overlay(Row(w.id, x), own[c]) /\ \A d \in Clients \ {c} : own'[d] = own[d]
      BY <2>1 DEF Typed, Shape
    <2>3. \A d \in Clients \ {c} : w.id \notin DOMAIN own[d]
      <3>1. CASE w.seen = NoRow
        <4>1. c = Worker /\ w.id \notin DOMAIN rows
          BY <1>2, <3>1, FindingIsRow, ViewFacts DEF SeenOK
        <4> QED BY <4>1 DEF Typed, OwnOK
      <3>2. CASE w.seen # NoRow
        BY <1>1, <1>9, <3>2 DEF Blocked, LockedByOther
      <3> QED BY <3>1, <3>2
    <2> QED BY <1>1, <1>2, <1>3, <1>4, <1>5, <1>7, <1>9, <2>1, <2>2, <2>3 DEF x
  <1> QED BY <1>8, <1>9

\* The flush, with the sample or comment it carries.
LEMMA FlushTyped ==
    ASSUME Typed, NEW c \in Clients, Flush(c)
    PROVE  Typed'
  <1> DEFINE w == work[c]
             x == StoredRow(c, w.id, w.obj, w.seen)
  <1>1. /\ Busy(c) /\ ObjectOK(c) /\ w.todo # <<>>
        /\ work'[c] = AtLoad(w, Tail(w.todo))
        /\ work' = [work EXCEPT ![c] = AtLoad(w, Tail(w.todo))]
        /\ rows' = rows /\ folded' = folded /\ clock' = clock
    BY FlushWrites
  <1>2. Busy(c)'
    BY <1>1, GoesOn
  <1>3. UNCHANGED <<tables, clock>>
    BY DEF Flush, envVars
  <1>4. CASE own' = own
    BY <1>1, <1>2, <1>3, <1>4, ActsAlone DEF tables
  <1>5. CASE /\ own' = [own EXCEPT ![c] = Overlay(Row(w.id, x), own[c])]
             /\ own'[c] = Overlay(Row(w.id, x), own[c])
             /\ IsFinding(x)
             /\ \A d \in Clients \ {c} : w.id \notin DOMAIN own[d] /\ own'[d] = own[d]
    <2> HIDE DEF x
    <2>1. /\ DOMAIN own'[c] = {w.id} \cup DOMAIN own[c] /\ own'[c][w.id] = x
          /\ \A id \in DOMAIN own[c] \ {w.id} : own'[c][id] = own[c][id]
      <3> DEFINE k == w.id
                 r == own[c]
                 o == Overlay(Row(k, x), r)
      <3> HIDE DEF k, r
      <3>0. /\ DOMAIN o = {k} \cup DOMAIN r /\ o[k] = x
            /\ \A id \in DOMAIN r \ {k} : o[id] = r[id]
        BY DEF Overlay, Row
      <3> USE DEF k, r
      <3>1. /\ DOMAIN o = {w.id} \cup DOMAIN own[c] /\ o[w.id] = x
            /\ \A id \in DOMAIN own[c] \ {w.id} : o[id] = own[c][id]
        BY <3>0, Zenon
      <3>2. own'[c] = o
        BY <1>5
      <3> HIDE DEF o
      <3> QED BY <3>1, <3>2
    <2>2. OwnOK(c)'
      BY <1>1, <1>5, <2>1 DEF Typed, OwnOK, ObjectOK
    <2>3. Tables' /\ Shape'
      BY <1>1, <1>5 DEF Typed, Tables, Shape
    <2>4. OwnApart'
      <3>1. \A d \in Clients \ {c} : DOMAIN own'[c] \cap DOMAIN own'[d] = {}
        BY <1>5, <2>1 DEF Typed, OwnApart
      <3>2. \A d, e \in Clients \ {c} : d # e => DOMAIN own'[d] \cap DOMAIN own'[e] = {}
        BY <1>5 DEF Typed, OwnApart
      <3> QED BY <3>1, <3>2 DEF OwnApart
    <2>5. \A d \in Clients \ {c} : work'[d] = work[d]
      BY <1>1 DEF Typed, Shape
    <2>6. \A d \in Clients \ {c} : OwnOK(d)' /\ WorkOK(d)'
      BY <1>1, <1>5, <2>5, OthersKept DEF Typed
    <2> QED BY <1>2, <2>2, <2>3, <2>4, <2>6 DEF Typed, WorkOK
  <1> QED BY <1>4, <1>5, FlushWrites

\* Leaving a transaction behind, with or without what it wrote.
LEMMA LeavesTyped ==
    ASSUME Typed, NEW c \in Clients, Forget(c), clock' = clock,
           \/ rows' = rows /\ folded' = folded
           \/ rows' = View(c) /\ folded' = IF c = Worker THEN BatchEnd ELSE folded
    PROVE  Typed'
  <1>1. /\ work'[c] = Idle /\ own'[c] = <<>>
        /\ \A d \in Clients \ {c} : work'[d] = work[d] /\ own'[d] = own[d]
        /\ Shape'
    BY DEF Forget, Typed, Shape
  <1>2. DOMAIN rows \subseteq DOMAIN rows'
        /\ (c # Worker => DOMAIN rows' = DOMAIN rows /\ folded' = folded)
    BY ViewFacts DEF Typed, OwnOK
  <1>3. \A d \in Clients \ {c} : OwnOK(d)' /\ WorkOK(d)'
    BY <1>1, <1>2, OthersKept DEF Typed
  <1>4. OwnOK(c)' /\ WorkOK(c)'
    BY <1>1 DEF OwnOK, WorkOK
  <1>5. OwnApart'
    BY <1>1 DEF OwnApart, Typed
  <1>6. \A id \in DOMAIN rows' : IsFinding(rows'[id])
    <2>1. CASE rows' = View(c)
      <3>1. \A id \in DOMAIN View(c) : IsFinding(View(c)[id])
        BY ViewFacts DEF Typed, Tables, OwnOK
      <3> QED BY <2>1, <3>1
    <2>2. CASE rows' = rows
      BY <2>2 DEF Typed, Tables
    <2> QED BY <2>1, <2>2
  <1>7. Tables'
    BY <1>6, BatchEndFacts DEF Typed, Tables
  <1> QED BY <1>1, <1>3, <1>4, <1>5, <1>7 DEF Typed

\* Typed holds of what it is about, whatever else changes.
LEMMA TypedSame ==
    ASSUME Typed, UNCHANGED <<rows, folded, work, own>>, clock' \in Nat \ {0}
    PROVE  Typed'
  <1>1. Tables' /\ Shape' /\ OwnApart'
    BY DEF Typed, Tables, Shape, OwnApart
  <1>2. \A d \in Clients : OwnOK(d)' /\ WorkOK(d)'
    BY OthersKept DEF Typed
  <1> QED BY <1>1, <1>2 DEF Typed

\* The empty tables are typed.
LEMMA InitTyped == Init => Typed
  BY StreamAssumption, SequenceFacts
     DEF Init, Typed, Tables, Shape, OwnApart, OwnOK, WorkOK

\* Every step keeps the types.
LEMMA NextTyped ==
    ASSUME Typed, [Next]_vars
    PROVE  Typed'
  <1>1. ASSUME NEW c \in Clients, RecordAudit(c) PROVE Typed'
    BY <1>1, TypedSame DEF RecordAudit, tables, envVars, Typed, Tables
  <1>2. ASSUME NEW c \in Clients, Commit(c) PROVE Typed'
    BY <1>2, LeavesTyped DEF Commit, envVars
  <1>3. ASSUME NEW c \in Clients, Abort(c) PROVE Typed'
    BY <1>3, LeavesTyped DEF Abort, tables
  <1>4. ASSUME NEW c \in Clients, DeadlockVictim(c) PROVE Typed'
    BY <1>4, LeavesTyped DEF DeadlockVictim, tables, envVars
  <1>5. CASE Tick
    <2>1. clock' \in Nat \ {0}
      BY <1>5 DEF Tick, Typed, Tables
    <2> QED BY <1>5, <2>1, TypedSame DEF Tick, tables, pendings
  <1>6. CASE UNCHANGED vars
    BY <1>6, TypedSame DEF vars, tables, pendings, envVars, Typed, Tables
  <1> QED
    BY <1>1, <1>2, <1>3, <1>4, <1>5, <1>6, BeginBatchTyped, BeginSweepTyped, RejectHitTyped,
       LoadForHitTyped, LoadForSweepTyped, BeginTriageTyped, LoadForTriageTyped,
       RefuseTriageTyped, RereadTyped, FlushTyped DEF Next

\* Every reachable state is typed.
THEOREM AlwaysTyped == Spec => []Typed
  <1>1. Typed /\ [Next]_vars => Typed'
    BY NextTyped
  <1> QED BY InitTyped, <1>1, PTL DEF Spec

-----------------------------------------------------------------------------
(* The audit chain                                                          *)

\* The one client that holds the lock has finished its work, and its entry is
\* the next of the chain.
EntryOK(c) ==
    \/ entry[c] = <<>>
    \/ /\ c \in Analysts /\ work[c].pc = "load" /\ work[c].todo = <<>>
       /\ entry[c] = <<entry[c][1]>>
       /\ entry[c][1].sequence = Len(audit) + 1
       /\ entry[c][1].previous = TailHash(audit)
       /\ entry[c][1].hash = Hash(entry[c][1])

Chained ==
    /\ IsSequence(audit) /\ ChainIntact(audit)
    /\ \A i \in DOMAIN audit : audit[i].sequence = i
    /\ DOMAIN entry = Clients
    /\ \A c \in Clients : EntryOK(c)
    /\ \A c, d \in Clients : c # d => entry[c] = <<>> \/ entry[d] = <<>>

\* An entry made from the tail of a chain lengthens the chain.
LEMMA ChainGrows ==
    ASSUME NEW log, NEW e, IsSequence(log), ChainIntact(log),
           \A i \in DOMAIN log : log[i].sequence = i,
           e.sequence = Len(log) + 1, e.previous = TailHash(log), e.hash = Hash(e)
    PROVE  LET longer == log \o <<e>>
           IN /\ IsSequence(longer) /\ ChainIntact(longer)
              /\ \A i \in DOMAIN longer : longer[i].sequence = i
  <1> DEFINE longer == log \o <<e>>
             S == {log[i] : i \in DOMAIN log} \cup {e}
  <1>1. log \in Seq(S) /\ <<e>> \in Seq(S)
    <2>1. {log[i] : i \in DOMAIN log} \subseteq S
      OBVIOUS
    <2>2. log \in Seq(S)
      BY <2>1, SeqMonotonic DEF IsSequence
    <2> QED BY <2>2
  <1>2. Len(log) \in Nat /\ DOMAIN log = 1..Len(log) /\ (log = <<>> <=> Len(log) = 0)
    BY SequenceFacts
  <1>3. longer \in Seq(S) /\ Len(longer) = Len(log) + 1
    BY <1>1
  <1>4. DOMAIN longer = 1..(Len(log) + 1)
    BY <1>2, <1>3
  <1>5. longer[Len(log) + 1] = e /\ \A i \in 1..Len(log) : longer[i] = log[i]
    BY <1>1, <1>2
  <1> HIDE DEF longer, S
  <1>6. IsSequence(longer)
    <2>1. longer = [i \in 1..Len(longer) |-> longer[i]] /\ Len(longer) \in Nat
          /\ DOMAIN longer = 1..Len(longer)
      BY <1>2, <1>3, <1>4
    <2>2. [i \in 1..Len(longer) |-> longer[i]] \in Seq({longer[i] : i \in DOMAIN longer})
      BY <2>1
    <2> QED BY <2>1, <2>2, Zenon DEF IsSequence
  <1>7. ASSUME NEW i \in DOMAIN longer
        PROVE  /\ longer[i].previous = (IF i = 1 THEN Genesis ELSE longer[i - 1].hash)
               /\ longer[i].hash = Hash(longer[i]) /\ longer[i].sequence = i
    <2>1. CASE i \in 1..Len(log)
      <3>1. longer[i] = log[i] /\ i \in DOMAIN log
        BY <1>2, <1>5, <2>1
      <3>2. i # 1 => longer[i - 1] = log[i - 1]
        BY <1>2, <1>5, <2>1
      <3> QED BY <3>1, <3>2 DEF ChainIntact
    <2>2. CASE i = Len(log) + 1
      <3>1. longer[i] = e
        BY <1>5, <2>2
      <3>2. CASE log = <<>>
        BY <1>2, <2>2, <3>1, <3>2 DEF TailHash
      <3>3. CASE log # <<>>
        <4>1. i # 1 /\ longer[i - 1] = log[Len(log)]
          BY <1>2, <1>5, <2>2, <3>3
        <4> QED BY <2>2, <3>1, <3>3, <4>1 DEF TailHash
      <3> QED BY <3>2, <3>3
    <2> QED BY <1>2, <1>4, <2>1, <2>2
  <1>8. ChainIntact(longer)
    BY <1>7, Zenon DEF ChainIntact
  <1> QED BY <1>6, <1>7, <1>8 DEF longer

\* The next entry is sealed with its place and the hash of the last.
LEMMA NextEntryFacts ==
    ASSUME NEW log, NEW body, IsSequence(log), \A i \in DOMAIN log : log[i].sequence = i
    PROVE  LET e == NextEntry(log, body)
           IN e.sequence = Len(log) + 1 /\ e.previous = TailHash(log) /\ e.hash = Hash(e)
  <1> DEFINE n == IF log = <<>> THEN 1 ELSE log[Len(log)].sequence + 1
             e == Seal(body, TailHash(log), n)
  <1>1. Len(log) \in Nat /\ DOMAIN log = 1..Len(log) /\ (log = <<>> <=> Len(log) = 0)
    BY SequenceFacts
  <1>2. n = Len(log) + 1
    BY <1>1
  <1> HIDE DEF n
  <1>3. e.sequence = n /\ e.previous = TailHash(log) /\ e.hash = Hash(e)
    BY DEF Seal, Hash
  <1> QED BY <1>2, <1>3 DEF NextEntry, n

\* Who has no entry yet may do what it likes with its work.
LEMMA EntriesKept ==
    ASSUME Chained, NEW c \in Clients, entry[c] = <<>>, UNCHANGED <<audit, entry>>,
           \A d \in Clients \ {c} : work'[d] = work[d]
    PROVE  Chained'
  BY DEF Chained, EntryOK

\* Leaving a transaction whose entry is the next of the chain, or none.
LEMMA EntryLeaves ==
    ASSUME Typed, Chained, NEW c \in Clients, Forget(c),
           audit' = audit \/ audit' = audit \o entry[c]
    PROVE  Chained'
  <1>1. /\ entry'[c] = <<>> /\ DOMAIN entry' = Clients
        /\ \A d \in Clients \ {c} : work'[d] = work[d] /\ entry'[d] = entry[d]
    BY DEF Forget, Chained, Typed, Shape
  <1>2. CASE audit' = audit
    BY <1>1, <1>2 DEF Chained, EntryOK
  <1>3. CASE entry[c] = <<>> /\ audit' = audit \o entry[c]
    <2>1. audit' = audit
      BY <1>3, ConcatEmptySeq DEF Chained, IsSequence
    <2> QED BY <1>2, <2>1
  <1>4. CASE entry[c] # <<>> /\ audit' = audit \o entry[c]
    <2> DEFINE e == entry[c][1]
    <2>1. /\ entry[c] = <<e>> /\ e.sequence = Len(audit) + 1
          /\ e.previous = TailHash(audit) /\ e.hash = Hash(e)
      BY <1>4 DEF Chained, EntryOK
    <2> HIDE DEF e
    <2>2. /\ IsSequence(audit \o <<e>>) /\ ChainIntact(audit \o <<e>>)
          /\ \A i \in DOMAIN (audit \o <<e>>) : (audit \o <<e>>)[i].sequence = i
      BY <2>1, ChainGrows DEF Chained
    <2>3. \A d \in Clients : entry'[d] = <<>>
      BY <1>1, <1>4 DEF Chained
    <2>4. audit' = audit \o <<e>>
      BY <1>4, <2>1
    <2> QED BY <1>1, <2>2, <2>3, <2>4 DEF Chained, EntryOK
  <1> QED BY <1>2, <1>3, <1>4

\* The empty chain is intact.
LEMMA InitChained == Init => Chained
  BY DEF Init, Chained, EntryOK, ChainIntact, IsSequence

\* Every step keeps the chain.
LEMMA NextChained ==
    ASSUME Typed, Chained, [Next]_vars
    PROVE  Chained'
  <1> DEFINE Step(c) == \/ c = Worker /\ (BeginBatch \/ RejectHit \/ LoadForHit)
                        \/ c = Sweeper /\ (BeginSweep \/ LoadForSweep)
                        \/ c \in Analysts /\ (BeginTriage(c) \/ LoadForTriage(c) \/ RefuseTriage(c))
                        \/ Reread(c) \/ Flush(c)
  <1>1. ASSUME NEW c \in Clients, Step(c) PROVE Chained'
    <2>1. work[c] = Idle \/ (work[c].pc = "load" /\ work[c].todo # <<>>)
          \/ work[c].pc \in {"reread", "flush"}
      BY <1>1 DEF BeginBatch, RejectHit, LoadForHit, BeginSweep, LoadForSweep, BeginTriage,
                  LoadForTriage, RefuseTriage, Reread, Flush, HasTodo
    <2>2. entry[c] = <<>>
      BY <2>1 DEF Chained, EntryOK, Idle
    <2>3. UNCHANGED <<audit, entry>>
      BY <1>1 DEF BeginBatch, RejectHit, LoadForHit, BeginSweep, LoadForSweep, BeginTriage,
                  LoadForTriage, RefuseTriage, Reread, Flush, tables, pendings
    <2>4. \A d \in Clients \ {c} : work'[d] = work[d]
      <3>1. \E w : work' = [work EXCEPT ![c] = w]
        BY <1>1 DEF BeginBatch, RejectHit, LoadForHit, BeginSweep, LoadForSweep, BeginTriage,
                    LoadForTriage, RefuseTriage, Reread, Flush, Open, Loaded
      <3> QED BY <3>1 DEF Typed, Shape
    <2> QED BY <2>2, <2>3, <2>4, EntriesKept
  <1>2. ASSUME NEW c \in Clients, RecordAudit(c) PROVE Chained'
    <2> DEFINE e == NextEntry(audit, EntryBody(c))
    <2>1. /\ entry' = [entry EXCEPT ![c] = <<e>>] /\ UNCHANGED <<audit, work>>
          /\ c \in Analysts /\ Done(c) /\ entry[c] = <<>>
          /\ \A d \in Clients \ {c} : entry[d] = <<>>
      BY <1>2 DEF RecordAudit, tables, OwesAudit, AppendLockFree
    <2>2. e.sequence = Len(audit) + 1 /\ e.previous = TailHash(audit) /\ e.hash = Hash(e)
      BY NextEntryFacts DEF Chained
    <2> HIDE DEF e
    <2>3. /\ entry'[c] = <<e>> /\ entry'[c][1] = e /\ DOMAIN entry' = Clients
          /\ \A d \in Clients \ {c} : entry'[d] = <<>>
      BY <2>1 DEF Chained
    <2>4. EntryOK(c)'
      BY <2>1, <2>2, <2>3 DEF EntryOK, Done
    <2> QED BY <2>1, <2>3, <2>4 DEF Chained, EntryOK
  <1>3. ASSUME NEW c \in Clients, Commit(c) PROVE Chained'
    BY <1>3, EntryLeaves DEF Commit
  <1>4. ASSUME NEW c \in Clients, Abort(c) PROVE Chained'
    BY <1>4, EntryLeaves DEF Abort, tables
  <1>5. ASSUME NEW c \in Clients, DeadlockVictim(c) PROVE Chained'
    BY <1>5, EntryLeaves DEF DeadlockVictim, tables
  <1>6. CASE Tick \/ UNCHANGED vars
    BY <1>6 DEF Tick, vars, tables, pendings, Chained, EntryOK
  <1>7. Worker \in Clients /\ Sweeper \in Clients /\ Analysts \subseteq Clients
    BY DEF Clients
  <1> QED BY <1>1, <1>2, <1>3, <1>4, <1>5, <1>6, <1>7 DEF Next

\* The chain is the next entry away from intact at every moment.
THEOREM AlwaysChained == Spec => []Chained
  <1>1. Typed /\ Chained /\ [Next]_vars => Chained'
    BY NextChained
  <1> QED BY InitChained, AlwaysTyped, <1>1, PTL DEF Spec

\* AuditRecorder: no request waits for a row while it holds the lock of the
\* chain, whatever the number of analysts and the findings they name.
THEOREM LockIsAlwaysLast == Spec => []AuditLockIsLast
  <1>1. Chained => AuditLockIsLast
    BY DEF Chained, EntryOK, AuditLockIsLast, Blocked
  <1> QED BY AlwaysChained, <1>1, PTL

-----------------------------------------------------------------------------
(* Who acts, and what the others see of it                                  *)

\* A step of client c within its transaction.
Works(c) ==
    \/ c = Worker /\ (BeginBatch \/ RejectHit \/ LoadForHit)
    \/ c = Sweeper /\ (BeginSweep \/ LoadForSweep)
    \/ c \in Analysts /\ (BeginTriage(c) \/ LoadForTriage(c) \/ RefuseTriage(c))
    \/ Reread(c) \/ Flush(c)

\* The end of its transaction without a commit.
GivesUp(c) == Forget(c) /\ UNCHANGED <<tables, clock>>

\* Every step is of one client, or of the clock, or of the log alone.
LEMMA NextActs ==
    ASSUME [Next]_vars
    PROVE  \/ \E c \in Clients : Works(c) \/ GivesUp(c) \/ Commit(c)
           \/ Tick \/ UNCHANGED <<rows, folded, work, own, clock>>
  <1>1. Worker \in Clients /\ Sweeper \in Clients /\ Analysts \subseteq Clients
    BY DEF Clients
  <1>2. \A c \in Clients : RecordAudit(c) => UNCHANGED <<rows, folded, work, own, clock>>
    BY DEF RecordAudit, tables, envVars
  <1>3. \A c \in Clients : Abort(c) \/ DeadlockVictim(c) => GivesUp(c)
    BY DEF Abort, DeadlockVictim, GivesUp, tables, envVars
  <1>4. UNCHANGED vars => UNCHANGED <<rows, folded, work, own, clock>>
    BY DEF vars, tables, pendings, envVars
  <1> QED BY <1>1, <1>2, <1>3, <1>4 DEF Next, Works

\* Within its transaction a client changes no table and no other client.
LEMMA WorksAlone ==
    ASSUME Typed, NEW c \in Clients, Works(c)
    PROVE  /\ rows' = rows /\ folded' = folded /\ clock' = clock
           /\ \A d \in Clients \ {c} : work'[d] = work[d] /\ own'[d] = own[d]
  <1>1. UNCHANGED <<rows, folded, clock>>
    BY DEF Works, BeginBatch, RejectHit, LoadForHit, BeginSweep, LoadForSweep, BeginTriage,
           LoadForTriage, RefuseTriage, Reread, Flush, tables, envVars
  <1>2. \E w : work' = [work EXCEPT ![c] = w]
    BY DEF Works, BeginBatch, RejectHit, LoadForHit, BeginSweep, LoadForSweep, BeginTriage,
           LoadForTriage, RefuseTriage, Reread, Flush, Open, Loaded
  <1>3. own' = own \/ \E o : own' = [own EXCEPT ![c] = o]
    BY DEF Works, BeginBatch, RejectHit, LoadForHit, BeginSweep, LoadForSweep, BeginTriage,
           LoadForTriage, RefuseTriage, Reread, Flush, pendings
  <1> QED BY <1>1, <1>2, <1>3 DEF Typed, Shape

\* Forgetting concerns one client.
LEMMA ForgetsAlone ==
    ASSUME Typed, NEW c \in Clients, Forget(c)
    PROVE  /\ work'[c] = Idle /\ own'[c] = <<>>
           /\ \A d \in Clients \ {c} : work'[d] = work[d] /\ own'[d] = own[d]
  BY DEF Forget, Typed, Shape

\* A commit has nothing left to do.
LEMMA CommitFacts ==
    ASSUME Typed, NEW c \in Clients, Commit(c)
    PROVE  /\ Busy(c) /\ work[c].pc = "load" /\ work[c].todo = <<>>
           /\ rows' = View(c) /\ clock' = clock /\ Forget(c)
           /\ folded' = IF c = Worker THEN BatchEnd ELSE folded
           /\ c = Worker => Place = BatchEnd
           /\ c # Worker => DOMAIN rows' = DOMAIN rows /\ folded' = folded
  <1>1. /\ Done(c) /\ rows' = View(c) /\ clock' = clock /\ Forget(c)
        /\ folded' = IF c = Worker THEN BatchEnd ELSE folded
    BY DEF Commit, envVars
  <1>2. Busy(c) /\ work[c].pc = "load" /\ work[c].todo = <<>>
    BY <1>1 DEF Done, Typed, WorkOK, Idle
  <1>3. c = Worker => Place = BatchEnd
    BY <1>2, BatchEndFacts DEF Place, Typed
  <1>4. c # Worker => DOMAIN rows' = DOMAIN rows
    BY <1>1, ViewFacts DEF Typed, OwnOK
  <1> QED BY <1>1, <1>2, <1>3, <1>4

\* What the worker has done is what it had to do less what is left.
LEMMA PlaceMoves ==
    ASSUME Typed, Busy(Worker), work[Worker].todo # <<>>, folded' = folded,
           work'[Worker].todo = Tail(work[Worker].todo)
    PROVE  Place \in Nat /\ Place' = Place + 1 /\ Place + 1 <= BatchEnd
  <1> DEFINE todo == work[Worker].todo
  <1>1. Len(todo) \in Nat \ {0} /\ Len(Tail(todo)) = Len(todo) - 1
    BY TailFacts DEF Busy
  <1>2. BatchEnd \in Nat /\ BatchEnd' = BatchEnd
    BY BatchEndFacts DEF Typed, BatchEnd
  <1>3. Place \in Nat /\ Place + 1 <= BatchEnd
    BY HitFacts
  <1>4. Place = BatchEnd - Len(todo) /\ Place' = BatchEnd' - Len(Tail(todo))
    BY DEF Place
  <1> HIDE DEF todo
  <1>5. Place' = BatchEnd - (Len(todo) - 1)
    BY <1>1, <1>2, <1>4
  <1> QED BY <1>1, <1>2, <1>3, <1>4, <1>5

\* A batch begins where the last one ended.
LEMMA BatchBegins ==
    ASSUME Typed, BeginBatch
    PROVE  /\ own' = own /\ own[Worker] = <<>> /\ work[Worker] = Idle
           /\ work'[Worker] # Idle /\ work'[Worker].pc = "load" /\ Place' = folded
  <1> DEFINE todo == SubSeq(Stream, folded + 1, BatchEnd)
  <1>1. own' = own /\ work[Worker] = Idle /\ folded' = folded /\ Worker \in Clients
    BY DEF BeginBatch, pendings, tables, Clients
  <1>2. own[Worker] = <<>>
    BY <1>1 DEF Typed, WorkOK, Busy, Idle
  <1>3. work'[Worker].todo = todo /\ work'[Worker].pc = "load"
    BY <1>1 DEF BeginBatch, Open, Typed, Shape
  <1>4. BatchEnd' = BatchEnd /\ folded \in Nat /\ BatchEnd \in Nat
        /\ folded <= BatchEnd /\ BatchEnd <= Len(Stream)
    BY <1>1, BatchEndFacts DEF Typed, BatchEnd
  <1>5. Len(todo) = BatchEnd - folded
    BY <1>4, PartOfStream
  <1> HIDE DEF todo
  <1>6. Place' = folded
    BY <1>3, <1>4, <1>5 DEF Place
  <1> QED BY <1>1, <1>2, <1>3, <1>6 DEF Idle

-----------------------------------------------------------------------------
(* One row per identity                                                     *)

SeenUpTo(n) == {Identity(Stream[i]) : i \in {j \in 1..n : Usable(Stream[j])}}

\* The findings are those of the hits folded so far, and the worker's view has
\* those of the batch as well.
Known ==
    /\ DOMAIN rows = SeenUpTo(folded)
    /\ work[Worker] # Idle => DOMAIN View(Worker) = SeenUpTo(Place)

\* One more hit.
LEMMA SeenStep ==
    ASSUME NEW n \in Nat
    PROVE  SeenUpTo(n + 1) = IF Usable(Stream[n + 1]) THEN SeenUpTo(n) \cup {Identity(Stream[n + 1])}
                             ELSE SeenUpTo(n)
  <1>1. 1..(n + 1) = 1..n \cup {n + 1}
    OBVIOUS
  <1> QED BY <1>1 DEF SeenUpTo

\* The worker at work on its batch.
LEMMA KnownWorks ==
    ASSUME Typed, Known, Works(Worker)
    PROVE  Known'
  <1>1. rows' = rows /\ folded' = folded /\ Worker \in Clients /\ Worker # Sweeper /\ Worker \notin Analysts
    BY WorksAlone, ClientAssumption DEF Clients
  <1>2. DOMAIN rows' = SeenUpTo(folded')
    BY <1>1 DEF Known
  <1>3. CASE BeginBatch
    <2>1. own' = own /\ Place' = folded /\ own[Worker] = <<>>
      BY <1>3, BatchBegins
    <2>2. DOMAIN View(Worker)' = DOMAIN rows'
      BY <1>1, <2>1 DEF View, Overlay
    <2> QED BY <1>1, <1>2, <2>1, <2>2 DEF Known
  <1>4. CASE RejectHit
    <2>1. /\ HasTodo(Worker) /\ ~Usable(Head(work[Worker].todo)) /\ own' = own
          /\ work'[Worker].todo = Tail(work[Worker].todo)
      BY <1>1, <1>4 DEF RejectHit, pendings, Typed, Shape, AtLoad
    <2>2. Busy(Worker) /\ work[Worker].todo # <<>> /\ work[Worker] # Idle
      BY <1>1, <2>1, BusyAtLoad DEF Idle
    <2>3. Place \in Nat /\ Place' = Place + 1 /\ Head(work[Worker].todo) = Stream[Place + 1]
      BY <1>1, <2>1, <2>2, PlaceMoves, HitFacts
    <2>4. SeenUpTo(Place + 1) = SeenUpTo(Place)
      BY <2>1, <2>3, SeenStep
    <2>5. DOMAIN View(Worker)' = SeenUpTo(Place)
      BY <1>1, <2>1, <2>2 DEF View, Overlay, Known
    <2> QED BY <1>2, <2>3, <2>4, <2>5 DEF Known
  <1>5. CASE LoadForHit \/ Reread(Worker)
    <2>1. own' = own /\ work'[Worker].todo = work[Worker].todo /\ work[Worker].pc \in {"load", "reread"}
      BY <1>1, <1>5 DEF LoadForHit, Loaded, Reread, HasTodo, pendings, Typed, Shape
    <2>2. work[Worker] # Idle
      BY <2>1 DEF Idle
    <2>3. DOMAIN View(Worker)' = DOMAIN View(Worker) /\ Place' = Place
      BY <1>1, <2>1 DEF View, Overlay, Place, BatchEnd
    <2> QED BY <1>2, <2>2, <2>3 DEF Known
  <1>6. CASE Flush(Worker)
    <2> DEFINE w == work[Worker]
               x == StoredRow(Worker, w.id, w.obj, w.seen)
    <2>1. /\ Busy(Worker) /\ ObjectOK(Worker) /\ SeenOK(Worker) /\ w.todo # <<>> /\ w.pc = "flush"
          /\ work'[Worker] = AtLoad(w, Tail(w.todo))
          /\ \/ w.seen # NoRow /\ own' = own
             \/ own'[Worker] = Overlay(Row(w.id, x), own[Worker])
      BY <1>1, <1>6, FlushWrites
    <2>2. Place \in Nat /\ Place' = Place + 1 /\ Head(w.todo) = Stream[Place + 1]
      BY <1>1, <2>1, PlaceMoves, HitFacts DEF AtLoad
    <2>3. SeenUpTo(Place + 1) = SeenUpTo(Place) \cup {w.id}
      BY <1>1, <2>1, <2>2, SeenStep DEF ObjectOK
    <2>4. DOMAIN View(Worker) = SeenUpTo(Place)
      BY <2>1 DEF Known, Idle
    <2>5. DOMAIN View(Worker)' = DOMAIN View(Worker) \cup {w.id}
      <3>1. CASE w.seen # NoRow /\ own' = own
        BY <1>1, <2>1, <3>1 DEF SeenOK, View, Overlay
      <3>2. CASE own'[Worker] = Overlay(Row(w.id, x), own[Worker])
        <4>1. DOMAIN own'[Worker] = {w.id} \cup DOMAIN own[Worker]
          BY <3>2 DEF Overlay, Row
        <4> QED BY <1>1, <4>1 DEF View, Overlay
      <3> QED BY <2>1, <3>1, <3>2
    <2> QED BY <1>2, <2>2, <2>3, <2>4, <2>5 DEF Known
  <1> QED BY <1>1, <1>3, <1>4, <1>5, <1>6 DEF Works

\* While the worker does nothing, nothing becomes known.
LEMMA KnownKept ==
    ASSUME Known, DOMAIN rows' = DOMAIN rows, folded' = folded,
           work'[Worker] = work[Worker], own'[Worker] = own[Worker]
    PROVE  Known'
  <1>1. DOMAIN View(Worker)' = DOMAIN View(Worker) /\ Place' = Place
    BY DEF View, Overlay, Place, BatchEnd
  <1> QED BY <1>1 DEF Known

\* Every step keeps what is known of the rows.
LEMMA NextKnown ==
    ASSUME Typed, Known, [Next]_vars
    PROVE  Known'
  <1>1. Worker \in Clients
    BY DEF Clients
  <1>2. ASSUME NEW c \in Clients \ {Worker}, Works(c) PROVE Known'
    BY <1>1, <1>2, WorksAlone, KnownKept
  <1>3. ASSUME NEW c \in Clients \ {Worker}, GivesUp(c) PROVE Known'
    BY <1>1, <1>3, ForgetsAlone, KnownKept DEF GivesUp, tables
  <1>4. ASSUME NEW c \in Clients \ {Worker}, Commit(c) PROVE Known'
    BY <1>1, <1>4, CommitFacts, ForgetsAlone, KnownKept
  <1>5. CASE GivesUp(Worker)
    BY <1>1, <1>5, ForgetsAlone DEF GivesUp, tables, Known
  <1>6. CASE Commit(Worker)
    <2>1. /\ work[Worker] # Idle /\ Place = BatchEnd /\ rows' = View(Worker)
          /\ folded' = BatchEnd /\ work'[Worker] = Idle
      BY <1>1, <1>6, CommitFacts, ForgetsAlone DEF Idle
    <2> QED BY <2>1 DEF Known
  <1>7. CASE Tick \/ UNCHANGED <<rows, folded, work, own, clock>>
    BY <1>7, KnownKept DEF Tick, tables, pendings
  <1> QED BY <1>1, <1>2, <1>3, <1>4, <1>5, <1>6, <1>7, NextActs, KnownWorks

\* No row before the first hit.
LEMMA InitKnown == Init => Known
  BY DEF Init, Known, SeenUpTo, Clients

\* ProcessRuntimeEvents: at every moment the rows the worker sees are those of the
\* usable hits before the place it has reached in the stream.
THEOREM AlwaysKnown == Spec => []Known
  <1>1. Typed /\ Known /\ [Next]_vars => Known'
    BY NextKnown
  <1> QED BY InitKnown, AlwaysTyped, <1>1, PTL DEF Spec

\* If the fingerprint tells two lines apart and knows one line again, there is
\* one row per vulnerable line.
Telling ==
    \A i, j \in {k \in DOMAIN Stream : Usable(Stream[k])} :
        Identity(Stream[i]) = Identity(Stream[j]) <=> Stream[i].site = Stream[j].site

\* ProcessRuntimeEvents: whatever the batches, their repetition and what is
\* triaged meanwhile, a defect gets its row once.
THEOREM OneRowAlways == Spec => [](Telling => OneRowPerDefect)
  <1>1. Typed /\ Known => (Telling => OneRowPerDefect)
    <2> SUFFICES ASSUME Typed, Known, Telling PROVE OneRowPerDefect
      OBVIOUS
    <2> DEFINE I == {j \in 1..folded : Usable(Stream[j])}
               S == {Stream[i].site : i \in I}
               f == [s \in S |-> Identity(Stream[CHOOSE i \in I : Stream[i].site = s])]
    <2>1. folded \in Nat /\ I \subseteq {k \in DOMAIN Stream : Usable(Stream[k])}
      BY BatchEndFacts DEF Typed, Tables
    <2>2. \A s \in S : \E i \in I : Stream[i].site = s /\ f[s] = Identity(Stream[i])
      <3> TAKE s \in S
      <3> DEFINE i == CHOOSE k \in I : Stream[k].site = s
      <3>1. i \in I /\ Stream[i].site = s
        OBVIOUS
      <3>2. f[s] = Identity(Stream[i])
        OBVIOUS
      <3> QED BY <3>1, <3>2
    <2>3. DOMAIN rows = {Identity(Stream[i]) : i \in I}
      BY DEF Known, SeenUpTo
    <2>4. DOMAIN f = S
      OBVIOUS
    <2> HIDE DEF f
    <2>5. \A s, t \in S : f[s] = f[t] => s = t
      BY <2>1, <2>2 DEF Telling
    <2>6. \A i \in I : f[Stream[i].site] = Identity(Stream[i])
      <3> TAKE i \in I
      <3>1. Stream[i].site \in S
        OBVIOUS
      <3>2. PICK k \in I : Stream[k].site = Stream[i].site /\ f[Stream[i].site] = Identity(Stream[k])
        BY <2>2, <3>1
      <3> QED BY <2>1, <3>2 DEF Telling
    <2>7. f \in Bijection(S, DOMAIN rows)
      <3>1. \A s \in S : f[s] \in DOMAIN rows
        BY <2>2, <2>3
      <3>2. \A d \in DOMAIN rows : \E s \in S : f[s] = d
        BY <2>3, <2>6
      <3>3. f = [s \in S |-> f[s]]
        BY DEF f
      <3>4. f \in [S -> DOMAIN rows]
        BY <3>1, <3>3
      <3> DEFINE T == DOMAIN rows
      <3> HIDE DEF S, I, T
      <3>5. f \in Injection(S, T)
        BY <2>5, <3>4 DEF Injection, IsInjective, T
      <3>6. f \in Surjection(S, T)
        BY <3>2, <3>4 DEF Surjection, T
      <3> QED BY <3>5, <3>6 DEF Bijection, T
    <2>8. IsFiniteSet(S)
      <3> DEFINE g == [i \in I |-> Stream[i].site]
      <3>1. IsFiniteSet(I)
        <4>1. IsFiniteSet(1..folded)
          BY <2>1, FS_Interval
        <4>2. I \in SUBSET (1..folded)
          OBVIOUS
        <4> HIDE DEF I
        <4> QED BY <4>1, <4>2, FS_Subset
      <3>2. g \in Surjection(I, S)
        BY DEF Surjection
      <3> QED BY <3>1, <3>2, FS_Surjection
    <2>9. Cardinality(DOMAIN rows) = Cardinality(S)
      BY <2>7, <2>8, FS_Bijection DEF ExistsBijection
    <2>10. S = {Stream[i].site : i \in {j \in 1..folded : Usable(Stream[j])}}
      OBVIOUS
    <2> QED BY <2>9, <2>10 DEF OneRowPerDefect
  <1> QED BY AlwaysTyped, AlwaysKnown, <1>1, PTL

-----------------------------------------------------------------------------
(* Counting.  A stale row written back may lower a count, and a column      *)
(* merged from one row with a column of another may be a row that never     *)
(* was; so a bound on the sum of the two counts is not inductive.  But each *)
(* hit raises one of the two columns by one, in one client's hands, and     *)
(* every value anywhere was such a one: the hits of a finding split into    *)
(* those that can have been counted as occurrences and those that can have  *)
(* been counted as suppressed, and no row in any hands exceeds either.      *)

Count(id, n) == Cardinality({i \in 1..n : Usable(Stream[i]) /\ Identity(Stream[i]) = id})

\* How much of the stream the rows in the worker's hands may count.
Reached ==
    IF work[Worker] = Idle THEN folded
    ELSE IF work[Worker].pc = "load" THEN Place ELSE Place + 1

Within(r, a, b) == r.occurrences <= a /\ r.suppressed <= b

\* No row of id that c can still store counts more than a and b.
OwnWithin(c, id, a, b) == id \in DOMAIN own[c] => Within(own[c][id], a, b)
ObjWithin(c, id, a, b) ==
    work[c].pc \in {"reread", "flush"} /\ work[c].id = id => Within(work[c].obj, a, b)
TodoWithin(c, id, a, b) ==
    c = Sweeper /\ work[c] # Idle =>
        \A i \in DOMAIN work[c].todo : work[c].todo[i].id = id => Within(work[c].todo[i].row, a, b)
HoldsWithin(c, id, a, b) ==
    OwnWithin(c, id, a, b) /\ ObjWithin(c, id, a, b) /\ TodoWithin(c, id, a, b)

\* What everyone can write, and what the worker can.
Bounds(id, a, b, p, q) ==
    /\ a <= p /\ b <= q
    /\ a + b <= Count(id, folded) /\ p + q <= Count(id, Reached)
    /\ id \in DOMAIN rows => Within(rows[id], a, b)
    /\ \A c \in Clients \ {Worker} : HoldsWithin(c, id, a, b)
    /\ HoldsWithin(Worker, id, p, q)

CountedFor(id) == \E a, b, p, q \in Nat : Bounds(id, a, b, p, q)
Counted == \A id : CountedFor(id)

\* A count is a number, and one more hit raises it by one at most.
LEMMA CountStep ==
    ASSUME NEW id, NEW n \in Nat
    PROVE  /\ Count(id, n) \in Nat
           /\ Count(id, n + 1) \in Nat /\ Count(id, n) <= Count(id, n + 1)
           /\ Usable(Stream[n + 1]) /\ Identity(Stream[n + 1]) = id =>
                  Count(id, n + 1) = Count(id, n) + 1
  <1> DEFINE S == {i \in 1..n : Usable(Stream[i]) /\ Identity(Stream[i]) = id}
             T == {i \in 1..(n + 1) : Usable(Stream[i]) /\ Identity(Stream[i]) = id}
             this == Usable(Stream[n + 1]) /\ Identity(Stream[n + 1]) = id
  <1>1. IsFiniteSet(1..n)
    BY FS_Interval
  <1>2. S \in SUBSET (1..n) /\ n + 1 \notin S
    OBVIOUS
  <1>3. IsFiniteSet(S)
    <2> HIDE DEF S
    <2> QED BY <1>1, <1>2, FS_Subset
  <1>4. Cardinality(S) \in Nat /\ Cardinality(S \cup {n + 1}) = Cardinality(S) + 1
    <2> HIDE DEF S
    <2> QED BY <1>2, <1>3, FS_CardinalityType, FS_AddElement
  <1>5. 1..(n + 1) = 1..n \cup {n + 1}
    OBVIOUS
  <1>6. this => T = S \cup {n + 1}
    BY <1>5
  <1>7. ~this => T = S
    BY <1>5
  <1>8. Count(id, n) = Cardinality(S) /\ Count(id, n + 1) = Cardinality(T)
    BY DEF Count
  <1> HIDE DEF S, T, this
  <1>9. CASE this
    <2>1. Count(id, n) \in Nat /\ Count(id, n + 1) = Count(id, n) + 1
      BY <1>4, <1>6, <1>8, <1>9
    <2> HIDE DEF S, T
    <2> QED BY <2>1
  <1>10. CASE ~this
    <2>1. Count(id, n) \in Nat /\ Count(id, n + 1) = Count(id, n)
      BY <1>4, <1>7, <1>8, <1>10
    <2> QED BY <2>1, <1>10 DEF this
  <1> QED BY <1>9, <1>10

\* A looser bound.
LEMMA Looser ==
    ASSUME NEW r, IsFinding(r), NEW a \in Nat, NEW b \in Nat, NEW p \in Nat, NEW q \in Nat,
           a <= p, b <= q, Within(r, a, b)
    PROVE  Within(r, p, q)
  BY DEF IsFinding, Within

\* Looser bounds hold as well.
LEMMA HoldsLooser ==
    ASSUME Typed, NEW c \in Clients, NEW id, NEW a \in Nat, NEW b \in Nat,
           NEW p \in Nat, NEW q \in Nat, a <= p, b <= q, HoldsWithin(c, id, a, b)
    PROVE  HoldsWithin(c, id, p, q)
  <1>1. OwnWithin(c, id, p, q)
    BY Looser DEF HoldsWithin, OwnWithin, Typed, OwnOK
  <1>2. ObjWithin(c, id, p, q)
    BY Looser DEF HoldsWithin, ObjWithin, Typed, WorkOK, Busy, ObjectOK, Idle
  <1>3. TodoWithin(c, id, p, q)
    BY Looser DEF HoldsWithin, TodoWithin, Typed, WorkOK, Busy, KindOK
  <1> QED BY <1>1, <1>2, <1>3 DEF HoldsWithin

\* What a client reads is within what it and everyone can write.
LEMMA ReadWithin ==
    ASSUME Typed, NEW c \in Clients, NEW id, NEW a, NEW b, id \in DOMAIN View(c),
           OwnWithin(c, id, a, b), id \in DOMAIN rows => Within(rows[id], a, b)
    PROVE  Within(ReadRow(c, id), a, b)
  BY ViewFacts DEF ReadRow, OwnWithin

\* A flush stores what the object or the row counts.
LEMMA FlushWithin ==
    ASSUME Typed, NEW c \in Clients, Flush(c), NEW id, NEW a \in Nat, NEW b \in Nat,
           HoldsWithin(c, id, a, b), id \in DOMAIN rows => Within(rows[id], a, b)
    PROVE  HoldsWithin(c, id, a, b)'
  <1> DEFINE w == work[c]
             x == StoredRow(c, w.id, w.obj, w.seen)
  <1>1. /\ Busy(c) /\ ObjectOK(c) /\ SeenOK(c) /\ w.todo # <<>> /\ w.pc = "flush"
        /\ work'[c] = AtLoad(w, Tail(w.todo))
        /\ own'[c] = own[c] \/ own'[c] = Overlay(Row(w.id, x), own[c])
    BY FlushWrites
  <1>2. ASSUME w.id = id PROVE Within(x, a, b)
    <2>1. IsFinding(w.obj) /\ Within(w.obj, a, b)
      BY <1>1, <1>2 DEF ObjectOK, HoldsWithin, ObjWithin
    <2>2. CASE w.seen = NoRow
      BY <2>1, <2>2 DEF StoredRow
    <2>3. CASE w.seen # NoRow
      <3>1. w.id \in DOMAIN View(c)
        BY <1>1, <2>3 DEF SeenOK
      <3>2. IsFinding(ReadRow(c, w.id)) /\ Within(ReadRow(c, w.id), a, b)
        BY <1>2, <3>1, ReadFacts, ReadWithin DEF HoldsWithin
      <3> QED BY <2>1, <2>3, <3>2, MergeEffect DEF StoredRow, Within
    <2> QED BY <2>2, <2>3
  <1> HIDE DEF x
  <1>3. OwnWithin(c, id, a, b)'
    <2>1. CASE own'[c] = own[c]
      BY <2>1 DEF HoldsWithin, OwnWithin
    <2>2. CASE own'[c] = Overlay(Row(w.id, x), own[c])
      <3>1. \A k \in DOMAIN own'[c] : own'[c][k] = (IF k = w.id THEN x ELSE own[c][k])
                                      /\ (k # w.id => k \in DOMAIN own[c])
        BY <2>2 DEF Overlay, Row
      <3> QED BY <1>2, <3>1 DEF HoldsWithin, OwnWithin
    <2> QED BY <1>1, <2>1, <2>2
  <1>4. ObjWithin(c, id, a, b)'
    BY <1>1 DEF ObjWithin, AtLoad
  <1>5. TodoWithin(c, id, a, b)'
    <2> SUFFICES ASSUME c = Sweeper, NEW i \in DOMAIN Tail(w.todo), Tail(w.todo)[i].id = id
                 PROVE  Within(Tail(w.todo)[i].row, a, b)
      BY <1>1 DEF TodoWithin, AtLoad
    <2>1. i + 1 \in DOMAIN w.todo /\ Tail(w.todo)[i] = w.todo[i + 1]
      BY <1>1, TailFacts DEF Busy
    <2> QED BY <1>1, <2>1 DEF HoldsWithin, TodoWithin, Idle
  <1> QED BY <1>3, <1>4, <1>5 DEF HoldsWithin

\* A client other than the worker makes no count of its own.
LEMMA WorksWithin ==
    ASSUME Typed, NEW c \in Clients \ {Worker}, Works(c),
           NEW id, NEW a \in Nat, NEW b \in Nat,
           HoldsWithin(c, id, a, b), id \in DOMAIN rows => Within(rows[id], a, b)
    PROVE  HoldsWithin(c, id, a, b)'
  <1>1. CASE Flush(c)
    BY <1>1, FlushWithin
  <1>2. CASE Reread(c)
    <2>1. /\ own' = own /\ work[c].pc = "reread" /\ work[c] # Idle
          /\ work'[c].obj = work[c].obj /\ work'[c].id = work[c].id /\ work'[c].todo = work[c].todo
      BY <1>2 DEF Reread, pendings, Typed, Shape, Idle
    <2> QED BY <2>1 DEF HoldsWithin, OwnWithin, ObjWithin, TodoWithin
  <1>3. CASE c \in Analysts /\ BeginTriage(c)
    <2>1. own' = own /\ work'[c].pc = "load" /\ c # Sweeper
      BY <1>3, ClientAssumption DEF BeginTriage, Open, pendings, Typed, Shape
    <2> QED BY <2>1 DEF HoldsWithin, OwnWithin, ObjWithin, TodoWithin
  <1>4. CASE c = Sweeper /\ BeginSweep
    <2>1. PICK ids \in UNION {[1..n -> DOMAIN rows] : n \in 1..Cardinality(DOMAIN rows)} :
              Open(Sweeper, "sweep", [i \in DOMAIN ids |-> [id |-> ids[i], row |-> rows[ids[i]]]],
                   Idle)
      BY <1>4 DEF BeginSweep
    <2> DEFINE todo == [i \in DOMAIN ids |-> [id |-> ids[i], row |-> rows[ids[i]]]]
    <2>2. own' = own /\ work'[c].pc = "load" /\ work'[c].todo = todo
      BY <1>4, <2>1 DEF BeginSweep, Open, pendings, Typed, Shape
    <2>3. \A i \in DOMAIN ids : ids[i] \in DOMAIN rows
      BY <2>1
    <2>4. \A i \in DOMAIN todo : todo[i].id = id => Within(todo[i].row, a, b)
      BY <2>3
    <2> HIDE DEF todo
    <2> QED BY <2>2, <2>4 DEF HoldsWithin, OwnWithin, ObjWithin, TodoWithin
  <1>5. CASE c \in Analysts /\ LoadForTriage(c)
    <2> DEFINE k == Head(work[c].todo)
               old == ReadRow(c, k)
               ask == work[c].ask
               now == IF work[c].kind = "bulk" THEN ask.now ELSE clock
               obj == Transition(old, ask.status, ask.note, now, Period)
    <2>1. HasTodo(c) /\ old # NoRow /\ CanTransition(old, ask.status, ask.note)
          /\ Loaded(c, k, old, obj) /\ own' = own
      BY <1>5 DEF LoadForTriage, pendings
    <2>2. work'[c].obj = obj /\ work'[c].id = k /\ c # Sweeper
      BY <1>5, <2>1, ClientAssumption DEF Loaded, Typed, Shape
    <2>3. k \in DOMAIN View(c) /\ IsFinding(old)
      BY <2>1, ReadFacts
    <2>4. now \in Nat \ {0}
      BY <1>5, <2>1, BusyAtLoad DEF Busy, KindOK, Typed, Tables
    <2>5. k = id => Within(old, a, b)
      BY <2>3, ReadWithin DEF HoldsWithin
    <2> HIDE DEF old, now
    <2>6. obj.occurrences = old.occurrences /\ obj.suppressed = old.suppressed
      BY <2>1, <2>3, <2>4, TransitionEffect
    <2> HIDE DEF obj
    <2>7. k = id => Within(obj, a, b)
      BY <2>5, <2>6 DEF Within
    <2> QED BY <2>1, <2>2, <2>7 DEF HoldsWithin, OwnWithin, ObjWithin, TodoWithin
  <1>6. CASE c \in Analysts /\ RefuseTriage(c)
    <2>1. own' = own /\ work'[c].pc \in {"load", "idle"} /\ c # Sweeper
      BY <1>6, ClientAssumption DEF RefuseTriage, AtLoad, Idle, pendings, Typed, Shape
    <2> QED BY <2>1 DEF HoldsWithin, OwnWithin, ObjWithin, TodoWithin
  <1>7. CASE c = Sweeper /\ LoadForSweep
    <2> DEFINE item == Head(work[c].todo)
               obj == ExpireAcceptance(item.row)
    <2>1. HasTodo(c) /\ Loaded(c, item.id, item.row, obj) /\ own' = own
      BY <1>7 DEF LoadForSweep, pendings
    <2>2. work'[c].obj = obj /\ work'[c].id = item.id /\ work'[c].todo = work[c].todo
      BY <2>1 DEF Loaded, Typed, Shape
    <2>3. Busy(c) /\ work[c].todo # <<>> /\ work[c] # Idle
      BY <2>1, BusyAtLoad DEF Idle
    <2>4. item = work[c].todo[1] /\ 1 \in DOMAIN work[c].todo
      BY <2>3, TailFacts DEF Busy
    <2>5. IsFinding(item.row)
      BY <1>7, <2>3, <2>4 DEF Busy, KindOK
    <2>6. item.id = id => Within(item.row, a, b)
      BY <1>7, <2>3, <2>4 DEF HoldsWithin, TodoWithin
    <2> HIDE DEF item
    <2>7. obj.occurrences = item.row.occurrences /\ obj.suppressed = item.row.suppressed
      BY <2>5, ExpiryEffect
    <2> HIDE DEF obj
    <2>8. item.id = id => Within(obj, a, b)
      BY <2>6, <2>7 DEF Within
    <2> QED BY <2>1, <2>2, <2>3, <2>8 DEF HoldsWithin, OwnWithin, ObjWithin, TodoWithin
  <1> QED BY <1>1, <1>2, <1>3, <1>4, <1>5, <1>6, <1>7 DEF Works

\* The worker's hands after each of its steps, with one more hit in them at
\* most.
LEMMA WorkerWithin ==
    ASSUME Typed, Works(Worker), NEW id, NEW p \in Nat, NEW q \in Nat,
           p + q <= Count(id, Reached),
           HoldsWithin(Worker, id, p, q), id \in DOMAIN rows => Within(rows[id], p, q)
    PROVE  \E m, n \in Nat : /\ p <= m /\ q <= n /\ m + n <= Count(id, Reached')
                             /\ HoldsWithin(Worker, id, m, n)'
  <1>1. Worker \in Clients /\ Worker # Sweeper /\ Worker \notin Analysts
    BY ClientAssumption DEF Clients
  <1>2. CASE BeginBatch
    <2>1. /\ own' = own /\ work[Worker] = Idle /\ work'[Worker] # Idle
          /\ work'[Worker].pc = "load" /\ Place' = folded
      BY <1>2, BatchBegins
    <2>2. Reached' = Reached
      BY <2>1 DEF Reached
    <2>3. HoldsWithin(Worker, id, p, q)'
      BY <1>1, <2>1 DEF HoldsWithin, OwnWithin, ObjWithin, TodoWithin
    <2> QED BY <2>2, <2>3
  <1>3. CASE RejectHit
    <2>1. /\ HasTodo(Worker) /\ own' = own /\ folded' = folded
          /\ work'[Worker] = AtLoad(work[Worker], Tail(work[Worker].todo))
      BY <1>1, <1>3 DEF RejectHit, tables, pendings, Typed, Shape
    <2>2. /\ Busy(Worker) /\ work[Worker].todo # <<>> /\ work[Worker].pc = "load"
          /\ work'[Worker].pc = "load" /\ work'[Worker].todo = Tail(work[Worker].todo)
      BY <1>1, <2>1, BusyAtLoad DEF AtLoad
    <2>3. Place \in Nat /\ Reached = Place /\ Reached' = Place + 1
      BY <2>1, <2>2, PlaceMoves DEF Reached, Idle
    <2>4. p + q <= Count(id, Reached')
      BY <2>3, CountStep
    <2>5. HoldsWithin(Worker, id, p, q)'
      BY <1>1, <2>1, <2>2 DEF HoldsWithin, OwnWithin, ObjWithin, TodoWithin
    <2> QED BY <2>4, <2>5
  <1>4. CASE LoadForHit
    <2> DEFINE h == Head(work[Worker].todo)
               k == Identity(h)
               old == ReadRow(Worker, k)
               obj == Fold(old, h)
    <2>1. HasTodo(Worker) /\ Usable(h) /\ Loaded(Worker, k, old, obj) /\ own' = own /\ folded' = folded
      BY <1>4 DEF LoadForHit, tables, pendings
    <2>2. /\ work'[Worker].obj = obj /\ work'[Worker].id = k /\ work'[Worker].pc = "reread"
          /\ work'[Worker].todo = work[Worker].todo
      BY <1>1, <2>1 DEF Loaded, Typed, Shape
    <2>3. Busy(Worker) /\ work[Worker].todo # <<>> /\ work[Worker].pc = "load"
      BY <1>1, <2>1, BusyAtLoad
    <2>4. Place \in Nat /\ h = Stream[Place + 1] /\ Leveled(h)
      BY <2>1, <2>3, HitFacts
    <2>5. Reached = Place /\ Reached' = Place + 1
      BY <2>1, <2>2, <2>3 DEF Reached, Idle, Place, BatchEnd
    <2>6. /\ Count(id, Place) \in Nat /\ Count(id, Place + 1) \in Nat
          /\ Count(id, Place) <= Count(id, Place + 1)
          /\ k = id => Count(id, Place + 1) = Count(id, Place) + 1
      BY <2>1, <2>4, CountStep
    <2>7. OwnWithin(Worker, id, p, q)' /\ TodoWithin(Worker, id, p, q)'
      BY <1>1, <2>1 DEF HoldsWithin, OwnWithin, TodoWithin
    <2>8. CASE k # id
      <3>1. HoldsWithin(Worker, id, p, q)'
        BY <2>2, <2>7, <2>8 DEF HoldsWithin, ObjWithin
      <3>2. p + q <= Count(id, Reached')
        BY <2>5, <2>6
      <3> QED BY <3>1, <3>2
    <2>9. CASE k = id
      <3>1. old = NoRow \/ (IsFinding(old) /\ Within(old, p, q))
        BY <1>1, <2>9, ReadFacts, ReadWithin DEF HoldsWithin
      <3> HIDE DEF old, h, k
      <3>2. /\ IsFinding(obj)
            /\ \/ obj.occurrences <= p + 1 /\ obj.suppressed <= q
               \/ obj.occurrences <= p /\ obj.suppressed <= q + 1
        <4>1. CASE old = NoRow
          <5>1. IsFinding(obj) /\ obj.occurrences = 1 /\ obj.suppressed = 0
            BY <2>4, <4>1, FirstFold
          <5> HIDE DEF obj
          <5> QED BY <5>1
        <4>2. CASE IsFinding(old) /\ Within(old, p, q)
          <5>1. /\ IsFinding(obj)
                /\ \/ obj.occurrences = old.occurrences + 1 /\ obj.suppressed = old.suppressed
                   \/ obj.occurrences = old.occurrences /\ obj.suppressed = old.suppressed + 1
            BY <2>4, <4>2, FoldEffect
          <5> HIDE DEF obj
          <5> QED BY <4>2, <5>1 DEF Within, IsFinding
        <4> QED BY <3>1, <4>1, <4>2
      <3> HIDE DEF obj
      <3>3. PICK m \in {p, p + 1}, n \in {q, q + 1} :
                m + n = p + q + 1 /\ obj.occurrences <= m /\ obj.suppressed <= n
        BY <3>2
      <3>4. m \in Nat /\ n \in Nat /\ p <= m /\ q <= n
        BY <3>3
      <3>5. m + n <= Count(id, Reached')
        BY <2>5, <2>6, <2>9, <3>3, <3>4
      <3>6. OwnWithin(Worker, id, m, n)'
        <4>1. id \in DOMAIN own[Worker] => IsFinding(own[Worker][id]) /\ Within(own[Worker][id], p, q)
          BY <1>1 DEF HoldsWithin, OwnWithin, Typed, OwnOK
        <4> QED BY <2>1, <3>4, <4>1, Looser DEF OwnWithin
      <3>7. ObjWithin(Worker, id, m, n)' /\ TodoWithin(Worker, id, m, n)'
        BY <1>1, <2>2, <3>3 DEF ObjWithin, TodoWithin, Within
      <3> QED BY <3>4, <3>5, <3>6, <3>7 DEF HoldsWithin
    <2> QED BY <2>8, <2>9
  <1>5. CASE Reread(Worker)
    <2>1. /\ own' = own /\ folded' = folded /\ work[Worker].pc = "reread" /\ work'[Worker].pc = "flush"
          /\ work'[Worker].obj = work[Worker].obj /\ work'[Worker].id = work[Worker].id
          /\ work'[Worker].todo = work[Worker].todo
      BY <1>1, <1>5 DEF Reread, tables, pendings, Typed, Shape
    <2>2. Reached' = Reached
      BY <2>1 DEF Reached, Idle, Place, BatchEnd
    <2>3. HoldsWithin(Worker, id, p, q)'
      BY <1>1, <2>1 DEF HoldsWithin, OwnWithin, ObjWithin, TodoWithin
    <2> QED BY <2>2, <2>3
  <1>6. CASE Flush(Worker)
    <2> DEFINE w == work[Worker]
    <2>1. /\ Busy(Worker) /\ w.todo # <<>> /\ w.pc = "flush" /\ folded' = folded
          /\ work'[Worker] = AtLoad(w, Tail(w.todo))
      BY <1>1, <1>6, FlushWrites
    <2>2. work'[Worker].pc = "load" /\ work'[Worker].todo = Tail(w.todo)
      BY <2>1 DEF AtLoad
    <2>3. Reached' = Reached
      BY <2>1, <2>2, PlaceMoves DEF Reached, Idle
    <2>4. HoldsWithin(Worker, id, p, q)'
      BY <1>1, <1>6, FlushWithin
    <2> QED BY <2>3, <2>4
  <1> QED BY <1>1, <1>2, <1>3, <1>4, <1>5, <1>6 DEF Works

\* A client that does not act holds what it held.
LEMMA HoldsStill ==
    ASSUME NEW c, NEW id, NEW a, NEW b, HoldsWithin(c, id, a, b),
           work'[c] = work[c], own'[c] = own[c]
    PROVE  HoldsWithin(c, id, a, b)'
  BY DEF HoldsWithin, OwnWithin, ObjWithin, TodoWithin

\* Nobody idle holds anything.
LEMMA IdleHolds ==
    ASSUME NEW c, NEW id, NEW a, NEW b, work'[c] = Idle, own'[c] = <<>>
    PROVE  HoldsWithin(c, id, a, b)'
  BY DEF HoldsWithin, OwnWithin, ObjWithin, TodoWithin, Idle

\* Every step keeps the bounds of one finding.
LEMMA NextCountedFor ==
    ASSUME Typed, NEW id, CountedFor(id), [Next]_vars
    PROVE  CountedFor(id)'
  <1>1. Worker \in Clients
    BY DEF Clients
  <1>2. PICK a \in Nat, b \in Nat, p \in Nat, q \in Nat : Bounds(id, a, b, p, q)
    BY DEF CountedFor
  <1>3. /\ a <= p /\ b <= q
        /\ a + b <= Count(id, folded) /\ p + q <= Count(id, Reached)
        /\ id \in DOMAIN rows => Within(rows[id], a, b)
        /\ \A c \in Clients \ {Worker} : HoldsWithin(c, id, a, b)
        /\ HoldsWithin(Worker, id, p, q)
    BY <1>2 DEF Bounds
  <1>4. id \in DOMAIN rows => Within(rows[id], p, q)
    BY <1>3, Looser DEF Typed, Tables
  <1>5. ASSUME NEW c \in Clients \ {Worker}, Works(c) PROVE CountedFor(id)'
    <2>1. /\ rows' = rows /\ folded' = folded
          /\ \A d \in Clients \ {c} : work'[d] = work[d] /\ own'[d] = own[d]
      BY <1>5, WorksAlone
    <2>2. Reached' = Reached
      BY <1>1, <2>1 DEF Reached, Place, BatchEnd
    <2>3. \A d \in Clients \ {Worker} : HoldsWithin(d, id, a, b)'
      BY <1>3, <1>5, <2>1, HoldsStill, WorksWithin
    <2>4. HoldsWithin(Worker, id, p, q)'
      BY <1>1, <1>3, <2>1, HoldsStill
    <2>5. Bounds(id, a, b, p, q)'
      BY <1>3, <2>1, <2>2, <2>3, <2>4 DEF Bounds
    <2> QED BY <2>5 DEF CountedFor
  <1>6. CASE Works(Worker)
    <2>1. /\ rows' = rows /\ folded' = folded
          /\ \A d \in Clients \ {Worker} : work'[d] = work[d] /\ own'[d] = own[d]
      BY <1>1, <1>6, WorksAlone
    <2>2. PICK m \in Nat, n \in Nat : /\ p <= m /\ q <= n /\ m + n <= Count(id, Reached')
                                      /\ HoldsWithin(Worker, id, m, n)'
      BY <1>3, <1>4, <1>6, WorkerWithin
    <2>3. \A d \in Clients \ {Worker} : HoldsWithin(d, id, a, b)'
      BY <1>3, <2>1, HoldsStill
    <2>4. a <= m /\ b <= n
      BY <1>3, <2>2
    <2>5. Bounds(id, a, b, m, n)'
      BY <1>3, <2>1, <2>2, <2>3, <2>4 DEF Bounds
    <2> QED BY <2>5 DEF CountedFor
  <1>7. ASSUME NEW c \in Clients \ {Worker}, GivesUp(c) \/ Commit(c) PROVE CountedFor(id)'
    <2>1. /\ work'[c] = Idle /\ own'[c] = <<>> /\ folded' = folded
          /\ \A d \in Clients \ {c} : work'[d] = work[d] /\ own'[d] = own[d]
          /\ rows' = rows \/ rows' = View(c)
      BY <1>7, CommitFacts, ForgetsAlone DEF GivesUp, tables
    <2>2. Reached' = Reached
      BY <1>1, <2>1 DEF Reached, Place, BatchEnd
    <2>3. \A d \in Clients \ {Worker} : HoldsWithin(d, id, a, b)'
      BY <1>3, <2>1, HoldsStill, IdleHolds
    <2>4. HoldsWithin(Worker, id, p, q)'
      BY <1>1, <1>3, <2>1, HoldsStill
    <2>5. id \in DOMAIN rows' => Within(rows'[id], a, b)
      <3>1. CASE rows' = rows
        BY <1>3, <3>1
      <3>2. CASE rows' = View(c)
        <4>1. id \in DOMAIN own[c] => Within(own[c][id], a, b)
          BY <1>3 DEF HoldsWithin, OwnWithin
        <4>2. /\ DOMAIN View(c) = DOMAIN own[c] \cup DOMAIN rows
              /\ id \in DOMAIN own[c] => View(c)[id] = own[c][id]
              /\ id \in DOMAIN rows \ DOMAIN own[c] => View(c)[id] = rows[id]
          BY ViewFacts
        <4> QED BY <1>3, <3>2, <4>1, <4>2
      <3> QED BY <2>1, <3>1, <3>2
    <2>6. Bounds(id, a, b, p, q)'
      BY <1>3, <2>1, <2>2, <2>3, <2>4, <2>5 DEF Bounds
    <2> QED BY <2>6 DEF CountedFor
  <1>8. CASE GivesUp(Worker)
    <2>1. /\ work'[Worker] = Idle /\ own'[Worker] = <<>> /\ folded' = folded /\ rows' = rows
          /\ \A d \in Clients \ {Worker} : work'[d] = work[d] /\ own'[d] = own[d]
      BY <1>1, <1>8, ForgetsAlone DEF GivesUp, tables
    <2>2. Reached' = folded
      BY <2>1 DEF Reached
    <2>3. \A d \in Clients \ {Worker} : HoldsWithin(d, id, a, b)'
      BY <1>3, <2>1, HoldsStill
    <2>4. HoldsWithin(Worker, id, a, b)'
      BY <2>1, IdleHolds
    <2>5. Bounds(id, a, b, a, b)'
      BY <1>3, <2>1, <2>2, <2>3, <2>4 DEF Bounds
    <2> QED BY <2>5 DEF CountedFor
  <1>9. CASE Commit(Worker)
    <2>1. /\ work'[Worker] = Idle /\ own'[Worker] = <<>> /\ folded' = BatchEnd /\ rows' = View(Worker)
          /\ work[Worker].pc = "load" /\ Place = BatchEnd
          /\ \A d \in Clients \ {Worker} : work'[d] = work[d] /\ own'[d] = own[d]
      BY <1>1, <1>9, CommitFacts, ForgetsAlone
    <2>2. Reached' = folded' /\ Reached = folded'
      BY <2>1 DEF Reached, Idle
    <2>3. \A d \in Clients \ {Worker} : HoldsWithin(d, id, p, q)
      BY <1>3, HoldsLooser
    <2>4. \A d \in Clients \ {Worker} : HoldsWithin(d, id, p, q)'
      BY <2>1, <2>3, HoldsStill
    <2>5. HoldsWithin(Worker, id, p, q)'
      BY <2>1, IdleHolds
    <2>6. id \in DOMAIN rows' => Within(rows'[id], p, q)
      BY <1>3, <1>4, <2>1, ViewFacts DEF HoldsWithin, OwnWithin
    <2>7. Bounds(id, p, q, p, q)'
      BY <1>3, <2>2, <2>4, <2>5, <2>6 DEF Bounds
    <2> QED BY <2>7 DEF CountedFor
  <1>10. CASE Tick \/ UNCHANGED <<rows, folded, work, own, clock>>
    <2>1. rows' = rows /\ folded' = folded /\ work' = work /\ own' = own
      BY <1>10 DEF Tick, tables, pendings
    <2>2. Reached' = Reached
      BY <2>1 DEF Reached, Place, BatchEnd
    <2>3. \A d \in Clients \ {Worker} : HoldsWithin(d, id, a, b)'
      BY <1>3, <2>1, HoldsStill
    <2>4. HoldsWithin(Worker, id, p, q)'
      BY <1>3, <2>1, HoldsStill
    <2>5. Bounds(id, a, b, p, q)'
      BY <1>3, <2>1, <2>2, <2>3, <2>4 DEF Bounds
    <2> QED BY <2>5 DEF CountedFor
  <1> QED BY <1>1, <1>5, <1>6, <1>7, <1>8, <1>9, <1>10, NextActs

\* Nothing is counted in the beginning.
LEMMA InitCounted == Init => Counted
  <1> SUFFICES ASSUME Init, NEW id PROVE CountedFor(id)
    BY DEF Counted
  <1>1. Worker \in Clients
    BY DEF Clients
  <1>2. Count(id, 0) \in Nat
    BY CountStep
  <1>3. Bounds(id, 0, 0, 0, 0)
    BY <1>1, <1>2 DEF Init, Bounds, Reached, HoldsWithin, OwnWithin, ObjWithin, TodoWithin, Idle
  <1> QED BY <1>3 DEF CountedFor

\* The invariant that counting needs.
THEOREM AlwaysCounted == Spec => []Counted
  <1>1. Typed /\ Counted /\ [Next]_vars => Counted'
    BY NextCountedFor DEF Counted
  <1> QED BY InitCounted, AlwaysTyped, <1>1, PTL DEF Spec

\* ProcessRuntimeEvents and BulkTriageFindings: however the batches overlap
\* with triage, are rolled back and repeated, a finding never counts more
\* sightings than hits of its defect were folded.
THEOREM CountsAreNeverInvented == Spec => []NoInventedOccurrence
  <1>1. Typed /\ Counted => NoInventedOccurrence
    <2> SUFFICES ASSUME Typed, Counted, NEW id \in DOMAIN rows
                 PROVE  rows[id].occurrences + rows[id].suppressed <= Count(id, folded)
      BY DEF NoInventedOccurrence, Count
    <2>1. PICK a \in Nat, b \in Nat, p \in Nat, q \in Nat : Bounds(id, a, b, p, q)
      BY DEF Counted, CountedFor
    <2>2. a + b <= Count(id, folded) /\ rows[id].occurrences <= a /\ rows[id].suppressed <= b
      BY <2>1 DEF Bounds, Within
    <2>3. rows[id].occurrences \in Nat /\ rows[id].suppressed \in Nat /\ Count(id, folded) \in Nat
      BY CountStep DEF Typed, Tables, IsFinding
    <2> QED BY <2>2, <2>3
  <1> QED BY AlwaysTyped, AlwaysCounted, <1>1, PTL

-----------------------------------------------------------------------------
(* The lifecycle.  What a client decided on is still there when it commits  *)
(* if it was there when it flushed, because nobody else can have flushed    *)
(* the row since.                                                           *)

\* A legal change by client c, where an acceptance is judged at time now.
LegalAt(now, c, old, new) ==
    /\ c = Worker => Folded(old, new)
    /\ c = Sweeper => AcceptanceExpired(old, now) /\ new.status = "OPEN"
    /\ c \in Analysts => Triaged(old, new)

TaskId(c, i) == IF c = Sweeper THEN work[c].todo[i].id ELSE work[c].todo[i]

Loading(c) == work[c].pc \in {"reread", "flush"}

\* What is written follows legally on what it was decided on.
WrittenLegal(c) ==
    \A id \in DOMAIN own[c] \cap DOMAIN rows :
        work[c].base[id] = rows[id] => LegalAt(clock, c, rows[id], own[c][id])

InHand(c) ==
    LET w == work[c]
    IN /\ w.id \in DOMAIN w.base
       /\ w.old # NoRow => LegalAt(clock, c, w.old, w.obj) \/ (c \in Analysts /\ w.obj = w.old)
       /\ w.fresh /\ w.id \notin DOMAIN own[c] => w.base[w.id] = w.old
       /\ w.id \in DOMAIN own[c] => c = Worker /\ w.old = own[c][w.id]
       /\ w.pc = "flush" /\ w.fresh => w.seen = w.old

\* The worker writes whatever it loads.
WorkerBase ==
    work[Worker].fresh =>
        DOMAIN work[Worker].base
            \subseteq DOMAIN own[Worker] \cup (IF Loading(Worker) THEN {work[Worker].id} ELSE {})

\* Everyone else loads each finding once.
OthersBase(c) ==
    /\ \A i, j \in DOMAIN work[c].todo : TaskId(c, i) = TaskId(c, j) => i = j
    /\ \A i \in DOMAIN work[c].todo :
           (i = 1 => ~Loading(c)) => TaskId(c, i) \notin DOMAIN work[c].base
    /\ c = Sweeper =>
           \A i \in DOMAIN work[c].todo : AcceptanceExpired(work[c].todo[i].row, clock)

BaseOK(c) ==
    /\ DOMAIN own[c] \subseteq DOMAIN work[c].base
    /\ work[c].fresh => WrittenLegal(c)
    /\ Loading(c) => InHand(c)
    /\ c = Worker => WorkerBase
    /\ c # Worker => OthersBase(c)

Based == \A c \in Clients : work[c] # Idle => BaseOK(c)

\* An acceptance that has expired stays expired.
LEMMA LegalLater ==
    ASSUME NEW m \in Nat, NEW n \in Nat, m <= n, NEW c, NEW old, NEW new, IsFinding(old),
           LegalAt(m, c, old, new)
    PROVE  LegalAt(n, c, old, new)
  <1>1. AcceptanceExpired(old, m) => AcceptanceExpired(old, n)
    BY DEF AcceptanceExpired, IsFinding
  <1> QED BY <1>1 DEF LegalAt

\* The lifecycle reads eight columns.
LEMMA LegalFields ==
    ASSUME NEW now, NEW c, NEW old, NEW obj, NEW new, \A k \in Columns : new[k] = obj[k],
           LegalAt(now, c, old, obj)
    PROVE  LegalAt(now, c, old, new)
  <1>1. /\ new.status = obj.status /\ new.occurrences = obj.occurrences
        /\ new.suppressed = obj.suppressed /\ new.regressed = obj.regressed
        /\ new.confidence = obj.confidence /\ new.noted = obj.noted
        /\ new.acceptedUntil = obj.acceptedUntil /\ new.remediatedAt = obj.remediatedAt
    BY DEF Columns
  <1> QED BY <1>1 DEF LegalAt, Folded, Triaged

\* A client that does not act keeps its reasons, and the rows it has written
\* stay as they are in the table.
LEMMA BaseKept ==
    ASSUME Typed, NEW d \in Clients, work[d] # Idle, BaseOK(d),
           work'[d] = work[d], own'[d] = own[d], clock' \in Nat, clock <= clock',
           \A id \in DOMAIN own[d] \cap DOMAIN rows' : id \in DOMAIN rows /\ rows'[id] = rows[id]
    PROVE  BaseOK(d)'
  <1>1. Busy(d) /\ clock \in Nat
    BY DEF Typed, WorkOK, Tables
  <1>2. WrittenLegal(d) => WrittenLegal(d)'
    <2>1. ASSUME WrittenLegal(d), NEW id \in DOMAIN own[d] \cap DOMAIN rows',
                 work[d].base[id] = rows'[id]
          PROVE  LegalAt(clock', d, rows'[id], own[d][id])
      <3>1. LegalAt(clock, d, rows[id], own[d][id]) /\ IsFinding(rows[id]) /\ rows'[id] = rows[id]
        BY <2>1 DEF WrittenLegal, Typed, Tables
      <3> QED BY <1>1, <3>1, LegalLater
    <2> QED BY <2>1 DEF WrittenLegal
  <1>3. InHand(d) /\ Loading(d) => InHand(d)'
    <2> DEFINE x == work[d].old
               y == work[d].obj
    <2> SUFFICES ASSUME InHand(d), Loading(d) PROVE InHand(d)'
      OBVIOUS
    <2>1. ASSUME x # NoRow, LegalAt(clock, d, x, y) PROVE LegalAt(clock', d, x, y)
      <3>1. IsFinding(x)
        BY <1>1, <2>1 DEF Busy, ObjectOK, Loading
      <3> HIDE DEF x, y
      <3> QED BY <1>1, <2>1, <3>1, LegalLater
    <2> QED BY <2>1 DEF InHand
  <1>4. d # Worker /\ OthersBase(d) => OthersBase(d)'
    <2> SUFFICES ASSUME d # Worker, OthersBase(d) PROVE OthersBase(d)'
      OBVIOUS
    <2>1. ASSUME d = Sweeper, NEW i \in DOMAIN work[d].todo
          PROVE  AcceptanceExpired(work[d].todo[i].row, clock')
      <3> DEFINE x == work[d].todo[i].row
      <3>1. IsFinding(x) /\ AcceptanceExpired(x, clock)
        BY <1>1, <2>1 DEF OthersBase, Busy, KindOK
      <3> QED BY <3>1 DEF AcceptanceExpired, IsFinding, Typed, Tables
    <2> QED BY <2>1 DEF OthersBase, TaskId, Loading
  <1>5. d = Worker /\ WorkerBase => WorkerBase'
    BY DEF WorkerBase, Loading
  <1> QED BY <1>2, <1>3, <1>4, <1>5 DEF BaseOK, Loading

Begins(c) ==
    \/ c = Worker /\ BeginBatch
    \/ c \in Analysts /\ BeginTriage(c)
    \/ c = Sweeper /\ BeginSweep

Loads(c) ==
    \/ c = Worker /\ LoadForHit
    \/ c \in Analysts /\ LoadForTriage(c)
    \/ c = Sweeper /\ LoadForSweep

\* A transaction begins with nothing loaded.
LEMMA BaseBegins ==
    ASSUME Typed, NEW c \in Clients, Begins(c)
    PROVE  BaseOK(c)'
  <1>1. own' = own /\ work[c] = Idle
    BY DEF Begins, BeginBatch, BeginTriage, BeginSweep, pendings
  <1>2. own[c] = <<>>
    BY <1>1 DEF Typed, WorkOK, Busy, Idle
  <1>3. work'[c].base = <<>> /\ work'[c].pc = "load"
    <2>1. \A kind, todo, ask : Open(c, kind, todo, ask) => work'[c].base = <<>> /\ work'[c].pc = "load"
      BY DEF Open, Typed, Shape
    <2>2. CASE c = Worker /\ BeginBatch
      BY <2>1, <2>2 DEF BeginBatch
    <2>3. CASE c \in Analysts /\ BeginTriage(c)
      BY <2>1, <2>3 DEF BeginTriage
    <2>4. CASE c = Sweeper /\ BeginSweep
      <3>1. PICK ids \in UNION {[1..n -> DOMAIN rows] : n \in 1..Cardinality(DOMAIN rows)} :
                Open(c, "sweep", [i \in DOMAIN ids |-> [id |-> ids[i], row |-> rows[ids[i]]]], Idle)
        BY <2>4 DEF BeginSweep
      <3> DEFINE todo == [i \in DOMAIN ids |-> [id |-> ids[i], row |-> rows[ids[i]]]]
      <3>2. Open(c, "sweep", todo, Idle)
        BY <3>1
      <3> HIDE DEF todo
      <3> QED BY <2>1, <3>2
    <2> QED BY <2>2, <2>3, <2>4 DEF Begins
  <1>4. ~Loading(c)' /\ WrittenLegal(c)' /\ (c = Worker => WorkerBase')
    BY <1>1, <1>2, <1>3 DEF Loading, WrittenLegal, WorkerBase
  <1>5. CASE c \in Analysts /\ BeginTriage(c)
    <2>1. PICK ids \in Targets, ask \in Requests, kind \in {"single", "bulk"} :
              Open(c, kind, ids, [status |-> ask.status, note |-> ask.note, now |-> clock])
      BY <1>5 DEF BeginTriage
    <2>2. work'[c].todo = ids /\ c # Sweeper /\ c # Worker
      BY <1>5, <2>1, ClientAssumption DEF Open, Typed, Shape
    <2>3. OthersBase(c)'
      BY <1>3, <2>2, TargetAssumption DEF OthersBase, TaskId
    <2> QED BY <1>1, <1>2, <1>4, <2>2, <2>3 DEF BaseOK
  <1>6. CASE c = Sweeper /\ BeginSweep
    <2>1. PICK ids \in UNION {[1..n -> DOMAIN rows] : n \in 1..Cardinality(DOMAIN rows)} :
              /\ {ids[i] : i \in DOMAIN ids} = {i \in DOMAIN rows : AcceptanceExpired(rows[i], clock)}
              /\ \A i, j \in DOMAIN ids : ids[i] = ids[j] => i = j
              /\ Open(Sweeper, "sweep", [i \in DOMAIN ids |-> [id |-> ids[i], row |-> rows[ids[i]]]],
                      Idle)
      BY <1>6 DEF BeginSweep
    <2> DEFINE todo == [i \in DOMAIN ids |-> [id |-> ids[i], row |-> rows[ids[i]]]]
    <2>2. work'[c].todo = todo /\ clock' = clock
      BY <1>6, <2>1 DEF BeginSweep, Open, Typed, Shape, envVars
    <2>3. \A i, j \in DOMAIN todo : todo[i].id = todo[j].id => i = j
      BY <2>1
    <2>4. \A i \in DOMAIN ids : AcceptanceExpired(rows[ids[i]], clock)
      BY <2>1
    <2>5. \A i \in DOMAIN todo : AcceptanceExpired(todo[i].row, clock)
      BY <2>4
    <2> HIDE DEF todo
    <2>6. OthersBase(c)'
      BY <1>3, <1>6, <2>2, <2>3, <2>5 DEF OthersBase, TaskId
    <2> QED BY <1>1, <1>2, <1>4, <1>6, <2>6, ClientAssumption DEF BaseOK
  <1>7. CASE c = Worker /\ BeginBatch
    BY <1>1, <1>2, <1>4, <1>7 DEF BaseOK
  <1> QED BY <1>5, <1>6, <1>7 DEF Begins

\* Dropping the first task, with nothing in hand.
LEMMA OthersGoOn ==
    ASSUME Typed, NEW c \in Clients, c # Worker, Busy(c), work[c].todo # <<>>, OthersBase(c),
           work'[c] = AtLoad(work[c], Tail(work[c].todo)), clock' = clock
    PROVE  OthersBase(c)'
  <1> DEFINE todo == work[c].todo
             w == work'[c]
  <1>1. /\ DOMAIN todo = 1..Len(todo) /\ Len(todo) \in Nat \ {0}
        /\ DOMAIN Tail(todo) = 1..(Len(todo) - 1)
        /\ \A i \in DOMAIN Tail(todo) : i + 1 \in DOMAIN todo /\ Tail(todo)[i] = todo[i + 1]
    BY TailFacts DEF Busy
  <1>2. w.todo = Tail(todo) /\ w.base = work[c].base /\ w.pc = "load"
    BY DEF AtLoad
  <1>3. \A i \in DOMAIN Tail(todo) : i \in Nat \ {0} /\ i + 1 # 1 /\ TaskId(c, i)' = TaskId(c, i + 1)
    <2> TAKE i \in DOMAIN Tail(todo)
    <2>1. i \in Nat \ {0} /\ i + 1 # 1 /\ w.todo[i] = todo[i + 1]
      <3>1. w.todo[i] = Tail(todo)[i]
        BY <1>2, Zenon
      <3>2. Tail(todo)[i] = todo[i + 1] /\ i \in 1..(Len(todo) - 1)
        BY <1>1
      <3> QED BY <1>1, <3>1, <3>2
    <2>2. TaskId(c, i)' = (IF c = Sweeper THEN w.todo[i].id ELSE w.todo[i])
      BY DEF TaskId
    <2>3. TaskId(c, i + 1) = (IF c = Sweeper THEN todo[i + 1].id ELSE todo[i + 1])
      BY DEF TaskId
    <2> HIDE DEF w, todo
    <2> QED BY <2>1, <2>2, <2>3
  <1> HIDE DEF w
  <1>4. \A i, j \in DOMAIN Tail(todo) : TaskId(c, i)' = TaskId(c, j)' => i = j
    <2> TAKE i, j \in DOMAIN Tail(todo)
    <2>1. TaskId(c, i)' = TaskId(c, j)' => i + 1 = j + 1
      BY <1>1, <1>3 DEF OthersBase
    <2> QED BY <1>1, <1>3, <2>1
  <1>5. \A i \in DOMAIN Tail(todo) : TaskId(c, i)' \notin DOMAIN work[c].base
    BY <1>1, <1>3 DEF OthersBase
  <1>6. c = Sweeper => \A i \in DOMAIN Tail(todo) : AcceptanceExpired(Tail(todo)[i].row, clock)
    BY <1>1 DEF OthersBase
  <1> QED BY <1>2, <1>4, <1>5, <1>6 DEF OthersBase, w

\* The rest of a client's work, when nothing is in hand afterwards.
LEMMA BaseGoesOn ==
    ASSUME Typed, NEW c \in Clients, Busy(c), work[c].todo # <<>>, BaseOK(c),
           work'[c] = AtLoad(work[c], Tail(work[c].todo)), clock' = clock,
           DOMAIN own'[c] \subseteq DOMAIN work[c].base,
           work[c].fresh => WrittenLegal(c)',
           c = Worker /\ work[c].fresh => DOMAIN work[c].base \subseteq DOMAIN own'[c]
    PROVE  BaseOK(c)'
  <1>1. /\ work'[c].base = work[c].base /\ work'[c].fresh = work[c].fresh
        /\ work'[c].pc = "load"
    BY DEF AtLoad
  <1>2. c # Worker => OthersBase(c)'
    BY OthersGoOn DEF BaseOK
  <1>3. c = Worker => WorkerBase'
    BY <1>1 DEF WorkerBase
  <1> QED BY <1>1, <1>2, <1>3 DEF BaseOK, Loading

\* A hit or a finding that is passed over.
LEMMA PassedOver ==
    ASSUME Typed, NEW c \in Clients, HasTodo(c), BaseOK(c),
           work'[c] = AtLoad(work[c], Tail(work[c].todo)),
           own'[c] = own[c], rows' = rows, clock' = clock
    PROVE  BaseOK(c)'
  <1>1. Busy(c) /\ work[c].todo # <<>> /\ work[c].pc = "load"
    BY BusyAtLoad
  <1>2. work[c].fresh => WrittenLegal(c)'
    BY DEF BaseOK, WrittenLegal, AtLoad
  <1>3. c = Worker /\ work[c].fresh => DOMAIN work[c].base \subseteq DOMAIN own'[c]
    BY <1>1 DEF BaseOK, WorkerBase, Loading
  <1> QED BY <1>1, <1>2, <1>3, BaseGoesOn DEF BaseOK

\* Having loaded a finding: what it was like is on record, unless the client
\* has written it before.
LEMMA LoadedBase ==
    ASSUME Typed, NEW c \in Clients, HasTodo(c), BaseOK(c), NEW id, NEW old, NEW obj,
           Loaded(c, id, old, obj), own' = own, rows' = rows, clock' = clock,
           c # Worker => id = TaskId(c, 1),
           old # NoRow => LegalAt(clock, c, old, obj) \/ (c \in Analysts /\ obj = old),
           c = Worker /\ id \in DOMAIN own[c] => old = own[c][id]
    PROVE  BaseOK(c)'
  <1> DEFINE v == work[c]
             base == Overlay(v.base, Row(id, old))
  <1>1. /\ work'[c].pc = "reread" /\ work'[c].todo = v.todo /\ work'[c].fresh = v.fresh
        /\ work'[c].id = id /\ work'[c].old = old /\ work'[c].obj = obj
        /\ work'[c].base = base
    BY DEF Loaded, Typed, Shape
  <1>2. /\ DOMAIN base = DOMAIN v.base \cup {id}
        /\ \A k \in DOMAIN v.base : base[k] = v.base[k]
        /\ id \notin DOMAIN v.base => base[id] = old
    BY DEF Overlay, Row
  <1> HIDE DEF base
  <1>3. Busy(c) /\ v.todo # <<>> /\ v.pc = "load" /\ ~Loading(c) /\ Loading(c)'
    BY <1>1, BusyAtLoad DEF Loading
  <1>4. 1 \in DOMAIN v.todo
    BY <1>3, TailFacts DEF Busy
  <1>5. c # Worker => id \notin DOMAIN v.base
    BY <1>3, <1>4 DEF BaseOK, OthersBase
  <1>6. c # Worker => id \notin DOMAIN own[c]
    BY <1>5 DEF BaseOK
  <1>7. v.fresh /\ id \notin DOMAIN own[c] => base[id] = old
    BY <1>2, <1>3, <1>5 DEF BaseOK, WorkerBase
  <1>8. InHand(c)'
    BY <1>1, <1>2, <1>6, <1>7 DEF InHand
  <1>9. v.fresh => WrittenLegal(c)'
    <2>1. \A k \in DOMAIN own[c] : base[k] = v.base[k]
      BY <1>2 DEF BaseOK
    <2> QED BY <1>1, <2>1 DEF BaseOK, WrittenLegal
  <1>10. c = Worker => WorkerBase'
    BY <1>1, <1>2, <1>3 DEF BaseOK, WorkerBase
  <1>11. c # Worker => OthersBase(c)'
    <2> SUFFICES ASSUME c # Worker PROVE OthersBase(c)'
      OBVIOUS
    <2>1. \A i \in DOMAIN v.todo : TaskId(c, i)' = TaskId(c, i)
      BY <1>1 DEF TaskId
    <2>2. \A i \in DOMAIN v.todo : i # 1 => TaskId(c, i) \notin DOMAIN base
      BY <1>2, <1>3, <1>4 DEF BaseOK, OthersBase
    <2>3. \A i, j \in DOMAIN v.todo : TaskId(c, i) = TaskId(c, j) => i = j
      BY DEF BaseOK, OthersBase
    <2>4. c = Sweeper => \A i \in DOMAIN v.todo : AcceptanceExpired(v.todo[i].row, clock)
      BY DEF BaseOK, OthersBase
    <2> QED BY <1>1, <1>3, <2>1, <2>2, <2>3, <2>4 DEF OthersBase
  <1> QED BY <1>1, <1>2, <1>8, <1>9, <1>10, <1>11 DEF BaseOK

\* The three loads.
LEMMA LoadsBase ==
    ASSUME Typed, NEW c \in Clients, BaseOK(c), Loads(c)
    PROVE  BaseOK(c)'
  <1>1. own' = own /\ rows' = rows /\ clock' = clock
    BY DEF Loads, LoadForHit, LoadForTriage, LoadForSweep, pendings, tables, envVars
  <1>2. CASE c = Worker /\ LoadForHit
    <2> DEFINE h == Head(work[c].todo)
               old == ReadRow(c, Identity(h))
               obj == Fold(old, h)
    <2>1. HasTodo(c) /\ Usable(h) /\ Loaded(c, Identity(h), old, obj)
      BY <1>2 DEF LoadForHit
    <2>2. Leveled(h)
      BY <1>2, <2>1, BusyAtLoad, HitFacts
    <2>3. /\ old = NoRow \/ IsFinding(old)
          /\ Identity(h) \in DOMAIN own[c] => old = own[c][Identity(h)]
      BY ReadFacts
    <2> HIDE DEF old
    <2>4. old # NoRow => Folded(old, obj)
      BY <2>2, <2>3, FoldEffect
    <2> HIDE DEF obj
    <2>5. old # NoRow => LegalAt(clock, c, old, obj)
      BY <1>2, <2>4, ClientAssumption DEF LegalAt
    <2> QED BY <1>1, <1>2, <2>1, <2>3, <2>5, LoadedBase
  <1>3. CASE c \in Analysts /\ LoadForTriage(c)
    <2> DEFINE id == Head(work[c].todo)
               old == ReadRow(c, id)
               ask == work[c].ask
               now == IF work[c].kind = "bulk" THEN ask.now ELSE clock
               obj == Transition(old, ask.status, ask.note, now, Period)
    <2>1. c # Worker /\ c # Sweeper
      BY <1>3, ClientAssumption
    <2>2. HasTodo(c) /\ old # NoRow /\ CanTransition(old, ask.status, ask.note)
          /\ Loaded(c, id, old, obj)
      BY <1>3 DEF LoadForTriage
    <2>3. IsFinding(old)
      BY <2>2, ReadFacts
    <2>4. now \in Nat \ {0}
      BY <1>3, <2>2, BusyAtLoad DEF Busy, KindOK, Typed, Tables
    <2>5. id = TaskId(c, 1)
      BY <2>1, <2>2, BusyAtLoad, TailFacts DEF Busy, TaskId
    <2> HIDE DEF old, now
    <2>6. obj = old \/ Triaged(old, obj)
      BY <2>2, <2>3, <2>4, TransitionEffect
    <2> HIDE DEF obj
    <2>7. LegalAt(clock, c, old, obj) \/ (c \in Analysts /\ obj = old)
      BY <1>3, <2>1, <2>6 DEF LegalAt
    <2> QED BY <1>1, <2>1, <2>2, <2>5, <2>7, LoadedBase
  <1>4. CASE c = Sweeper /\ LoadForSweep
    <2> DEFINE item == Head(work[c].todo)
               obj == ExpireAcceptance(item.row)
    <2>1. c # Worker /\ c \notin Analysts
      BY <1>4, ClientAssumption
    <2>2. HasTodo(c) /\ Loaded(c, item.id, item.row, obj)
      BY <1>4 DEF LoadForSweep
    <2>3. item = work[c].todo[1] /\ 1 \in DOMAIN work[c].todo
      BY <2>2, BusyAtLoad, TailFacts DEF Busy
    <2>4. IsFinding(item.row) /\ AcceptanceExpired(item.row, clock)
      BY <1>4, <2>1, <2>2, <2>3, BusyAtLoad DEF Busy, KindOK, BaseOK, OthersBase
    <2>5. item.id = TaskId(c, 1)
      BY <1>4, <2>3 DEF TaskId
    <2> HIDE DEF item
    <2>6. obj.status = "OPEN"
      BY <2>4, ExpiryEffect
    <2> HIDE DEF obj
    <2>7. LegalAt(clock, c, item.row, obj)
      BY <1>4, <2>1, <2>4, <2>6 DEF LegalAt
    <2> QED BY <1>1, <2>1, <2>2, <2>5, <2>7, LoadedBase
  <1> QED BY <1>2, <1>3, <1>4 DEF Loads

\* The second read tells whether the row is still what was decided on.
LEMMA RereadBase ==
    ASSUME Typed, NEW c \in Clients, BaseOK(c), Reread(c)
    PROVE  BaseOK(c)'
  <1> DEFINE v == work[c]
             seen == ReadRow(c, v.id)
  <1>1. /\ v.pc = "reread" /\ own' = own /\ rows' = rows /\ clock' = clock
        /\ work' = [work EXCEPT ![c] = [pc |-> "flush", kind |-> v.kind, todo |-> v.todo,
                        ask |-> v.ask, base |-> v.base, fresh |-> v.fresh /\ seen = v.old,
                        id |-> v.id, old |-> v.old, obj |-> v.obj, seen |-> seen]]
    BY DEF Reread, pendings, tables, envVars
  <1> HIDE DEF seen
  <1>2. /\ work'[c].pc = "flush" /\ work'[c].todo = v.todo /\ work'[c].base = v.base
        /\ work'[c].id = v.id /\ work'[c].old = v.old /\ work'[c].obj = v.obj
        /\ work'[c].seen = seen /\ work'[c].fresh = (v.fresh /\ seen = v.old)
    BY <1>1 DEF Typed, Shape
  <1>3. Loading(c) /\ Loading(c)'
    BY <1>1, <1>2 DEF Loading
  <1>4. work'[c].fresh => v.fresh /\ seen = v.old
    BY <1>2
  <1>5. InHand(c)'
    BY <1>1, <1>2, <1>3, <1>4 DEF BaseOK, InHand
  <1>6. work'[c].fresh => WrittenLegal(c)'
    BY <1>1, <1>2, <1>4 DEF BaseOK, WrittenLegal
  <1>7. c = Worker => WorkerBase'
    BY <1>1, <1>2, <1>3, <1>4 DEF BaseOK, WorkerBase
  <1>8. c # Worker => OthersBase(c)'
    BY <1>1, <1>2, <1>3 DEF BaseOK, OthersBase, TaskId
  <1> QED BY <1>1, <1>2, <1>5, <1>6, <1>7, <1>8 DEF BaseOK

\* A row in hand that is written fresh is the one decided on, changed.
LEMMA FlushLegal ==
    ASSUME Typed, NEW c \in Clients, Busy(c), ObjectOK(c), SeenOK(c), BaseOK(c),
           work[c].pc = "flush", work[c].fresh, work[c].id \in DOMAIN rows,
           work[c].base[work[c].id] = rows[work[c].id],
           work[c].seen # NoRow => Changed(work[c].obj, work[c].seen) # {},
           NEW x, x = StoredRow(c, work[c].id, work[c].obj, work[c].seen), IsFinding(x)
    PROVE  LegalAt(clock, c, rows[work[c].id], x)
  <1> DEFINE id == work[c].id
             old == work[c].old
             obj == work[c].obj
             seen == work[c].seen
             row == rows[id]
  <1>1. seen = old /\ IsFinding(row) /\ IsFinding(obj) /\ InHand(c)
    BY DEF BaseOK, Loading, InHand, ObjectOK, Typed, Tables
  <1>2. id \in DOMAIN own[c] => c = Worker /\ old = own[c][id] /\ IsFinding(old)
    BY <1>1 DEF InHand, Typed, OwnOK
  <1>3. id \notin DOMAIN own[c] => old = row
    BY <1>1 DEF InHand
  <1>4. IsFinding(old) /\ ReadRow(c, id) = old
    BY <1>1, <1>2, <1>3, ReadFacts
  <1>5. old # NoRow
    <2> HIDE DEF old
    <2> QED BY <1>4, FindingIsRow
  <1>6. x = Merge(old, obj, old) /\ Changed(obj, old) # {}
    BY <1>1, <1>4, <1>5 DEF StoredRow
  <1>7. LegalAt(clock, c, old, obj)
    BY <1>1, <1>5, <1>6 DEF InHand, Changed
  <1>8. LegalAt(clock, c, old, x)
    <2> HIDE DEF old, obj
    <2>1. \A k \in Columns : x[k] = obj[k]
      BY <1>6, MergeFresh
    <2> QED BY <1>7, <2>1, LegalFields
  <1>9. CASE id \notin DOMAIN own[c]
    BY <1>3, <1>8, <1>9
  <1>10. CASE id \in DOMAIN own[c]
    <2>1. c = Worker /\ c # Sweeper /\ c \notin Analysts
      BY <1>2, <1>10, ClientAssumption
    <2>2. LegalAt(clock, c, row, own[c][id])
      BY <1>10 DEF BaseOK, WrittenLegal
    <2>3. Folded(row, old) /\ Folded(old, x)
      BY <1>2, <1>8, <1>10, <2>1, <2>2 DEF LegalAt
    <2>4. Folded(row, x)
      <3> HIDE DEF row, old
      <3> QED BY <1>1, <1>4, <2>3, FoldedAgain
    <2> QED BY <2>1, <2>4 DEF LegalAt
  <1> QED BY <1>9, <1>10

\* The worker's fresh change is never empty, so that it is written.
LEMMA FreshIsWritten ==
    ASSUME Typed, BaseOK(Worker), Worker \in Clients, ObjectOK(Worker),
           work[Worker].pc = "flush", work[Worker].fresh, work[Worker].seen # NoRow
    PROVE  Changed(work[Worker].obj, work[Worker].seen) # {}
  <1> DEFINE old == work[Worker].old
             obj == work[Worker].obj
  <1>1. work[Worker].seen = old /\ old # NoRow /\ LegalAt(clock, Worker, old, obj)
    BY ClientAssumption DEF BaseOK, Loading, InHand
  <1>2. IsFinding(old) /\ IsFinding(obj)
    BY <1>1 DEF ObjectOK
  <1> HIDE DEF old, obj
  <1>3. obj.occurrences + obj.suppressed > old.occurrences + old.suppressed
    BY <1>1 DEF LegalAt, Folded
  <1>4. /\ old.occurrences \in Nat /\ old.suppressed \in Nat
        /\ obj.occurrences \in Nat /\ obj.suppressed \in Nat
    BY <1>2 DEF IsFinding
  <1>5. obj.occurrences # old.occurrences \/ obj.suppressed # old.suppressed
    BY <1>3, <1>4
  <1>6. Changed(obj, old) # {}
    BY <1>5 DEF Changed, Columns
  <1> QED BY <1>1, <1>6 DEF obj

\* A flush.
LEMMA FlushBase ==
    ASSUME Typed, NEW c \in Clients, BaseOK(c), Flush(c)
    PROVE  BaseOK(c)'
  <1> DEFINE w == work[c]
             x == StoredRow(c, w.id, w.obj, w.seen)
  <1>1. /\ Busy(c) /\ ObjectOK(c) /\ SeenOK(c) /\ w.todo # <<>> /\ w.pc = "flush"
        /\ work'[c] = AtLoad(w, Tail(w.todo))
        /\ rows' = rows /\ clock' = clock
    BY FlushWrites
  <1>2. Loading(c) /\ w.id \in DOMAIN w.base
    BY <1>1 DEF BaseOK, Loading, InHand
  <1>3. w.base = work'[c].base /\ w.fresh = work'[c].fresh
    BY <1>1 DEF AtLoad
  <1>4. CASE w.seen # NoRow /\ Changed(w.obj, w.seen) = {} /\ own' = own
    <2>1. c = Worker => ~w.fresh
      BY <1>1, <1>4, FreshIsWritten
    <2>2. w.fresh => WrittenLegal(c)'
      BY <1>1, <1>3, <1>4 DEF BaseOK, WrittenLegal
    <2>3. DOMAIN own'[c] \subseteq DOMAIN w.base
      BY <1>4 DEF BaseOK
    <2> QED BY <1>1, <2>1, <2>2, <2>3, BaseGoesOn
  <1>5. CASE /\ w.seen # NoRow => Changed(w.obj, w.seen) # {}
             /\ own'[c] = Overlay(Row(w.id, x), own[c])
             /\ IsFinding(x)
    <2>1. w.fresh /\ w.id \in DOMAIN rows /\ w.base[w.id] = rows[w.id]
              => LegalAt(clock, c, rows[w.id], x)
      <3> DEFINE y == x
      <3>1. y = x /\ IsFinding(y)
        BY <1>5
      <3> HIDE DEF y
      <3>2. w.fresh /\ w.id \in DOMAIN rows /\ w.base[w.id] = rows[w.id]
                => LegalAt(clock, c, rows[w.id], y)
        BY <1>1, <1>5, <3>1, FlushLegal
      <3> QED BY <3>1, <3>2
    <2> HIDE DEF x
    <2>2. \A k \in DOMAIN own'[c] : own'[c][k] = (IF k = w.id THEN x ELSE own[c][k])
                                    /\ (k # w.id => k \in DOMAIN own[c])
      BY <1>5 DEF Overlay, Row
    <2>3. DOMAIN own'[c] = {w.id} \cup DOMAIN own[c]
      BY <1>5 DEF Overlay, Row
    <2>4. DOMAIN own'[c] \subseteq DOMAIN w.base
      BY <1>2, <2>3 DEF BaseOK
    <2>5. w.fresh => WrittenLegal(c)'
      BY <1>1, <1>3, <2>1, <2>2 DEF BaseOK, WrittenLegal
    <2>6. c = Worker /\ w.fresh => DOMAIN w.base \subseteq DOMAIN own'[c]
      BY <1>2, <2>3 DEF BaseOK, WorkerBase
    <2> QED BY <1>1, <2>4, <2>5, <2>6, BaseGoesOn
  <1> QED BY <1>4, <1>5, FlushWrites

\* Every step of a client's own.
LEMMA WorksBase ==
    ASSUME Typed, Based, NEW c \in Clients, Works(c), work'[c] # Idle
    PROVE  BaseOK(c)'
  <1>1. ASSUME HasTodo(c) \/ work[c].pc \in {"reread", "flush"} PROVE BaseOK(c)
    BY <1>1 DEF HasTodo, Based, Idle
  <1>2. CASE Begins(c)
    BY <1>2, BaseBegins
  <1>3. CASE Loads(c)
    BY <1>1, <1>3, LoadsBase DEF Loads, LoadForHit, LoadForTriage, LoadForSweep
  <1>4. CASE Reread(c)
    BY <1>1, <1>4, RereadBase DEF Reread
  <1>5. CASE Flush(c)
    BY <1>1, <1>5, FlushBase DEF Flush
  <1>6. CASE c = Worker /\ RejectHit
    <2>1. HasTodo(c)
      BY <1>6 DEF RejectHit
    <2>2. work'[c] = AtLoad(work[c], Tail(work[c].todo)) /\ own' = own /\ rows' = rows /\ clock' = clock
      BY <1>6 DEF RejectHit, pendings, tables, envVars, Typed, Shape
    <2> QED BY <1>1, <2>1, <2>2, PassedOver
  <1>7. CASE c \in Analysts /\ RefuseTriage(c)
    <2>1. HasTodo(c)
      BY <1>7 DEF RefuseTriage
    <2>2. work'[c] = (IF work[c].kind = "bulk" THEN AtLoad(work[c], Tail(work[c].todo)) ELSE Idle)
          /\ own' = own /\ rows' = rows /\ clock' = clock
      BY <1>7 DEF RefuseTriage, pendings, tables, envVars, Typed, Shape
    <2>3. work'[c] = AtLoad(work[c], Tail(work[c].todo))
      BY <2>2
    <2> QED BY <1>1, <2>1, <2>2, <2>3, PassedOver
  <1> QED BY <1>2, <1>3, <1>4, <1>5, <1>6, <1>7 DEF Works, Begins, Loads

\* Nobody has read anything in the beginning.
LEMMA InitBased == Init => Based
  BY DEF Init, Based

\* Every step keeps what was decided legal on what it was decided on.
LEMMA NextBased ==
    ASSUME Typed, Typed', Based, [Next]_vars
    PROVE  Based'
  <1> SUFFICES ASSUME NEW d \in Clients, work'[d] # Idle PROVE BaseOK(d)'
    BY DEF Based
  <1>1. clock \in Nat /\ clock' \in Nat
    BY DEF Typed, Tables
  <1>2. ASSUME work'[d] = work[d], own'[d] = own[d], rows' = rows, clock <= clock'
        PROVE  BaseOK(d)'
    BY <1>1, <1>2, BaseKept DEF Based
  <1>3. CASE Works(d)
    BY <1>3, WorksBase
  <1>4. ASSUME NEW c \in Clients \ {d}, Works(c) PROVE BaseOK(d)'
    BY <1>1, <1>2, <1>4, WorksAlone
  <1>5. ASSUME NEW c \in Clients, GivesUp(c) PROVE BaseOK(d)'
    <2>1. c # d /\ work'[d] = work[d] /\ own'[d] = own[d] /\ rows' = rows /\ clock' = clock
      BY <1>5, ForgetsAlone DEF GivesUp, tables
    <2> QED BY <1>1, <1>2, <2>1
  <1>6. ASSUME NEW c \in Clients, Commit(c) PROVE BaseOK(d)'
    <2>1. /\ c # d /\ work'[d] = work[d] /\ own'[d] = own[d] /\ rows' = View(c) /\ clock' = clock
      BY <1>6, ForgetsAlone, CommitFacts
    <2>2. \A id \in DOMAIN own[d] \cap DOMAIN rows' : id \in DOMAIN rows /\ rows'[id] = rows[id]
      <3> TAKE id \in DOMAIN own[d] \cap DOMAIN rows'
      <3>1. id \notin DOMAIN own[c]
        BY <2>1 DEF Typed, OwnApart
      <3>2. DOMAIN View(c) = DOMAIN own[c] \cup DOMAIN rows
            /\ \A k \in DOMAIN rows \ DOMAIN own[c] : View(c)[k] = rows[k]
        BY ViewFacts
      <3> QED BY <2>1, <3>1, <3>2
    <2> QED BY <1>1, <2>1, <2>2, BaseKept DEF Based
  <1>7. CASE Tick \/ UNCHANGED <<rows, folded, work, own, clock>>
    <2>1. UNCHANGED <<rows, work, own>> /\ clock <= clock'
      BY <1>1, <1>7 DEF Tick, tables, pendings
    <2> QED BY <1>2, <2>1
  <1> QED BY <1>3, <1>4, <1>5, <1>6, <1>7, NextActs

\* What is written follows legally on what it was decided on, in every state.
THEOREM AlwaysBased == Spec => []Based
  <1>1. Typed /\ Typed' /\ Based /\ [Next]_vars => Based'
    BY NextBased
  <1> QED BY InitBased, AlwaysTyped, <1>1, PTL DEF Spec

\* Who commits written rows leaves with a commit.
LEMMA CommittingCommits ==
    ASSUME Typed, [Next]_vars, NEW c \in Clients, Committing(c)
    PROVE  Commit(c)
  <1>1. work[c] # Idle /\ work'[c] = Idle /\ rows' # rows
    BY DEF Committing
  <1>2. \A d \in Clients : Works(d) \/ GivesUp(d) => rows' = rows
    BY WorksAlone DEF GivesUp, tables
  <1>3. \A d \in Clients \ {c} : Commit(d) => work'[c] = work[c]
    BY CommitFacts, ForgetsAlone
  <1>4. Tick => rows' = rows
    BY DEF Tick, tables
  <1> QED BY <1>1, <1>2, <1>3, <1>4, NextActs

\* domain/entities/findings.py, ProcessRuntimeEvents: whoever commits a finding
\* that nobody else changed between load and commit moves it along the
\* lifecycle, for any number of clients and any stream.
THEOREM FreshStepsAreAlwaysLegal == Spec => FreshStepsAreLegal
  <1> DEFINE A == \A c \in Clients : \A id \in DOMAIN own[c] \cap DOMAIN rows :
                      Committing(c) /\ work[c].fresh /\ work[c].base[id] = rows[id]
                          => LegalStep(work[c].kind, rows[id], rows'[id])
  <1>1. Typed /\ Based /\ [Next]_vars => A
    <2> SUFFICES ASSUME Typed, Based, [Next]_vars,
                        NEW c \in Clients, NEW id \in DOMAIN own[c] \cap DOMAIN rows,
                        Committing(c), work[c].fresh, work[c].base[id] = rows[id]
                 PROVE  LegalStep(work[c].kind, rows[id], rows'[id])
      OBVIOUS
    <2>1. Commit(c)
      BY CommittingCommits
    <2>2. Busy(c) /\ rows' = View(c) /\ work[c] # Idle
      BY <2>1, CommitFacts DEF Committing
    <2>3. rows'[id] = own[c][id]
      BY <2>2, ViewFacts
    <2>4. LegalAt(clock, c, rows[id], own[c][id])
      BY <2>2 DEF Based, BaseOK, WrittenLegal
    <2> DEFINE old == rows[id]
               new == own[c][id]
               kind == work[c].kind
    <2>5. /\ c = Worker => kind = "batch"
          /\ c = Sweeper => kind = "sweep"
          /\ c \in Analysts => kind \in {"single", "bulk"}
      BY <2>2 DEF Busy, KindOK
    <2>6. IsFinding(old) /\ IsFinding(new)
      BY DEF Typed, Tables, OwnOK
    <2>7. LegalStep(kind, old, new)
      <3> HIDE DEF old, new, kind
      <3>1. CASE c = Worker
        BY <2>4, <2>5, <3>1 DEF LegalAt, Folded, LegalStep, old, new
      <3>2. CASE c = Sweeper
        BY <2>4, <2>5, <3>2 DEF LegalAt, LegalStep, old, new
      <3>3. CASE c \in Analysts
        BY <2>4, <2>5, <3>3 DEF LegalAt, Triaged, LegalStep, old, new
      <3> QED BY <3>1, <3>2, <3>3 DEF Clients
    <2> QED BY <2>3, <2>7
  <1> HIDE DEF A
  <1>2. Spec => [][A]_vars
    BY AlwaysTyped, AlwaysBased, <1>1, PTL DEF Spec
  <1> QED BY <1>2 DEF FreshStepsAreLegal, A

-----------------------------------------------------------------------------
(* Recursive functions: there is one, and what two of them compute          *)

\* A set of numbers that is not empty has a smallest one.
LEMMA SmallestNumber ==
    ASSUME NEW T \in SUBSET Nat, T # {}
    PROVE  \E m \in T : \A n \in T : m <= n
  <1>1. PICK m \in T : \A n \in T : ~ (<<n, m>> \in OpToRel(<, Nat))
    BY NatLessThanWellFounded, WFMin
  <1>2. \A n \in T : ~ (n < m)
    BY <1>1 DEF OpToRel
  <1> QED BY <1>2

\* g is computed from a on, step by step, as long as it stays in S.
Computes(g, n, S, a, G) ==
    g[0] = a /\ \A i \in 1..n : g[i - 1] \in S => g[i] = G[i][g[i - 1]]

\* A computation that stays in S all along.
Stays(f, n, S, a, G) == Computes(f, n, S, a, G) /\ \A i \in 0..n : f[i] \in S

\* A computation is defined, and there is one.
LEMMA Recursion ==
    ASSUME NEW S, NEW a \in S, NEW N \in Nat, NEW G \in [1..N -> [S -> S]]
    PROVE  \A n \in 0..N : \E f : Stays(f, n, S, a, G)
  <1> DEFINE Stuck == {n \in 0..N : ~ \E f \in [0..n -> S] : Computes(f, n, S, a, G)}
  <1> SUFFICES ASSUME Stuck # {} PROVE FALSE
    BY DEF Stays
  <1>1. Stuck \in SUBSET Nat
    OBVIOUS
  <1>2. PICK m \in Stuck : \A n \in Stuck : m <= n
    BY <1>1, SmallestNumber
  <1>3. m \in 0..N /\ m \in Nat /\ ~ \E f \in [0..m -> S] : Computes(f, m, S, a, G)
    BY <1>2
  <1>4. CASE m = 0
    <2> DEFINE f == [i \in 0..0 |-> a]
    <2>1. f \in [0..m -> S] /\ f[0] = a
      BY <1>4
    <2>2. 1..m = {}
      BY <1>4
    <2>3. Computes(f, m, S, a, G)
      BY <2>1, <2>2 DEF Computes
    <2> QED BY <1>3, <2>1, <2>3
  <1>5. CASE m # 0
    <2>1. m - 1 \in 0..N /\ m - 1 \in Nat /\ ~ (m <= m - 1)
      BY <1>3, <1>5
    <2>2. m - 1 \notin Stuck
      BY <1>2, <2>1
    <2>3. PICK f \in [0..(m - 1) -> S] : Computes(f, m - 1, S, a, G)
      BY <2>1, <2>2
    <2> DEFINE g == [i \in 0..m |-> IF i = m THEN G[m][f[m - 1]] ELSE f[i]]
    <2>4. f[m - 1] \in S /\ m \in 1..N
      BY <1>3, <1>5, <2>1, <2>3
    <2>5. G[m][f[m - 1]] \in S
      BY <2>4
    <2>6. \A i \in 0..m : i # m => i \in 0..(m - 1)
      BY <1>3
    <2>7. g \in [0..m -> S]
      BY <2>3, <2>5, <2>6
    <2>8. \A i \in 0..(m - 1) : g[i] = f[i]
      BY <1>3
    <2>9. g[m] = G[m][f[m - 1]]
      BY <1>3
    <2> HIDE DEF g
    <2>10. g[0] = a
      BY <2>1, <2>3, <2>8 DEF Computes
    <2>11. ASSUME NEW i \in 1..m PROVE g[i] = G[i][g[i - 1]]
      <3>1. CASE i = m
        BY <1>3, <1>5, <2>1, <2>8, <2>9, <3>1
      <3>2. CASE i # m
        <4>1. i \in 1..(m - 1) /\ i \in 0..(m - 1) /\ i - 1 \in 0..(m - 1)
          BY <1>3, <3>2
        <4>2. f[i] = G[i][f[i - 1]]
          BY <2>3, <4>1 DEF Computes
        <4> QED BY <2>8, <4>1, <4>2
      <3> QED BY <3>1, <3>2
    <2>12. Computes(g, m, S, a, G)
      BY <2>10, <2>11 DEF Computes
    <2> QED BY <1>3, <2>7, <2>12
  <1> QED BY <1>4, <1>5

\* It is the only one.
LEMMA OneComputation ==
    ASSUME NEW S, NEW a, NEW n \in Nat, NEW G,
           NEW f, Stays(f, n, S, a, G), NEW g, Computes(g, n, S, a, G)
    PROVE  \A i \in 0..n : g[i] = f[i]
  <1> DEFINE Wrong == {i \in 0..n : g[i] # f[i]}
  <1> SUFFICES ASSUME Wrong # {} PROVE FALSE
    OBVIOUS
  <1>1. Wrong \in SUBSET Nat
    OBVIOUS
  <1>2. PICK m \in Wrong : \A i \in Wrong : m <= i
    BY <1>1, SmallestNumber
  <1>3. m \in 0..n /\ m \in Nat /\ g[m] # f[m]
    BY <1>2
  <1>4. m # 0
    BY <1>3 DEF Stays, Computes
  <1>5. m - 1 \in 0..n /\ ~ (m <= m - 1) /\ m \in 1..n
    BY <1>3, <1>4
  <1>6. m - 1 \notin Wrong
    BY <1>2, <1>5
  <1>7. g[m - 1] = f[m - 1] /\ f[m - 1] \in S
    BY <1>5, <1>6 DEF Stays
  <1> QED BY <1>3, <1>5, <1>7 DEF Stays, Computes

\* A sequence over some set is a sequence.
LEMMA SomeSequence ==
    ASSUME NEW T, NEW s \in Seq(T)
    PROVE  IsSequence(s)
  <1>1. s = [i \in 1..Len(s) |-> s[i]] /\ Len(s) \in Nat /\ DOMAIN s = 1..Len(s)
    OBVIOUS
  <1>2. [i \in 1..Len(s) |-> s[i]] \in Seq({s[i] : i \in DOMAIN s})
    BY <1>1
  <1> QED BY <1>1, <1>2, Zenon DEF IsSequence

\* A sequence is one over every set that holds what is in it.
LEMMA SequenceOver ==
    ASSUME NEW T, NEW s, IsSequence(s), \A i \in DOMAIN s : s[i] \in T
    PROVE  s \in Seq(T)
  <1>1. {s[i] : i \in DOMAIN s} \subseteq T
    OBVIOUS
  <1> QED BY <1>1, SeqMonotonic DEF IsSequence

\* The comments of analysts picked one after the other.
Picks(f, log, T) ==
    /\ \A i \in 0..Len(log) : f[i] \in Seq(T)
    /\ f[0] = <<>>
    /\ \A i \in 1..Len(log) :
          f[i] = IF log[i].by \in Analysts THEN Append(f[i - 1], log[i]) ELSE f[i - 1]

\* That is what Decided computes.
LEMMA Deciding ==
    ASSUME NEW T, NEW log \in Seq(T)
    PROVE  /\ \E f : Picks(f, log, T)
           /\ \A f : Picks(f, log, T) => Decided(log) = f[Len(log)]
  <1> DEFINE N == Len(log)
             S == Seq(T)
             Pick(i, y) == IF log[i].by \in Analysts THEN Append(y, log[i]) ELSE y
             G == [i \in 1..N |-> [y \in S |-> Pick(i, y)]]
  <1>1. N \in Nat /\ <<>> \in S /\ \A i \in 1..N : log[i] \in T
    OBVIOUS
  <1>2. \A i \in 1..N, y \in S : Pick(i, y) \in S
    BY <1>1
  <1> HIDE DEF Pick
  <1>3. G \in [1..N -> [S -> S]]
    BY <1>2
  <1>4. \A i \in 1..N, y \in S : G[i][y] = Pick(i, y)
    OBVIOUS
  <1> HIDE DEF G
  <1>5. ASSUME NEW f PROVE Stays(f, N, S, <<>>, G) <=> Picks(f, log, T)
    <2>1. \A i \in 1..N : i - 1 \in 0..N
      BY <1>1
    <2>2. Picks(f, log, T) <=> /\ \A i \in 0..N : f[i] \in S
                               /\ f[0] = <<>> /\ \A i \in 1..N : f[i] = Pick(i, f[i - 1])
      BY DEF Picks, Pick
    <2> HIDE DEF N, S
    <2>3. (\A i \in 0..N : f[i] \in S) =>
              (Computes(f, N, S, <<>>, G) <=> (f[0] = <<>> /\ \A i \in 1..N : f[i] = Pick(i, f[i - 1])))
      BY <1>4, <2>1 DEF Computes
    <2> QED BY <2>2, <2>3 DEF Stays
  <1>6. \E f : Picks(f, log, T)
    <2>1. \A n \in 0..N : \E f : Stays(f, n, S, <<>>, G)
      BY <1>1, <1>3, Recursion
    <2>2. N \in 0..N
      BY <1>1
    <2> QED BY <1>5, <2>1, <2>2
  <1>7. ASSUME NEW f, Picks(f, log, T) PROVE Decided(log) = f[N]
    <2> DEFINE Body(h, n) == IF n = 0 THEN <<>>
                             ELSE IF log[n].by \in Analysts THEN Append(h[n - 1], log[n]) ELSE h[n - 1]
               h == [n \in 0..N |-> f[n]]
               F == CHOOSE q : q = [n \in 0..N |-> Body(q, n)]
    <2>1. ASSUME NEW n \in 0..N PROVE f[n] = Body(h, n)
      <3>1. CASE n = 0
        BY <1>7, <3>1 DEF Picks
      <3>2. CASE n # 0
        <4>1. n \in 1..N /\ n - 1 \in 0..N
          BY <1>1, <3>2
        <4> QED BY <1>7, <3>2, <4>1 DEF Picks
      <3> QED BY <3>1, <3>2
    <2>2. h = [n \in 0..N |-> Body(h, n)]
      BY <2>1
    <2>3. F = [n \in 0..N |-> Body(F, n)]
      <3> HIDE DEF h, Body
      <3> QED BY <2>2
    <2>4. Decided(log) = F[N]
      BY DEF Decided
    <2> HIDE DEF F
    <2>5. F[0] = <<>> /\ \A i \in 1..N : F[i] = Pick(i, F[i - 1])
      <3>1. \A i \in 1..N : i \in 0..N /\ i # 0
        BY <1>1
      <3>2. 0 \in 0..N
        BY <1>1
      <3> QED BY <2>3, <3>1, <3>2 DEF Pick
    <2>6. Computes(F, N, S, <<>>, G)
      BY <1>4, <2>5 DEF Computes
    <2>7. \A i \in 0..N : F[i] = f[i]
      <3>1. N \in Nat /\ Stays(f, N, S, <<>>, G)
        BY <1>1, <1>5, <1>7
      <3> HIDE DEF N, S
      <3> QED BY <2>6, <3>1, OneComputation
    <2>8. N \in 0..N
      BY <1>1
    <2> QED BY <2>4, <2>7, <2>8
  <1> QED BY <1>6, <1>7

\* Appending after joining.
LEMMA JoinOne ==
    ASSUME NEW T, NEW a \in Seq(T), NEW b \in Seq(T), NEW e \in T
    PROVE  a \o Append(b, e) = Append(a \o b, e)
  OBVIOUS

\* What analysts add to a thread they decided; what others add they did not.
LEMMA DecidedGrows ==
    ASSUME NEW T, NEW log \in Seq(T), NEW b \in Seq(T), NEW yes \in BOOLEAN,
           \A i \in DOMAIN b : (b[i].by \in Analysts) <=> yes
    PROVE  Decided(log \o b) = IF yes THEN Decided(log) \o b ELSE Decided(log)
  <1> DEFINE n == Len(log)
             m == Len(b)
             t == log \o b
             More(j) == IF yes THEN SubSeq(b, 1, j) ELSE <<>>
  <1>1. PICK f : Picks(f, log, T)
    BY Deciding
  <1>2. Decided(log) = f[n]
    BY <1>1, Deciding
  <1> DEFINE k == [i \in 0..(n + m) |-> IF i <= n THEN f[i] ELSE f[n] \o More(i - n)]
  <1>3. /\ n \in Nat /\ m \in Nat /\ t \in Seq(T) /\ Len(t) = n + m
        /\ \A i \in 1..n : t[i] = log[i]
        /\ \A j \in 1..m : t[n + j] = b[j]
    OBVIOUS
  <1>4. /\ \A j \in 0..m : More(j) \in Seq(T)
        /\ \A j \in 1..m : More(j) = IF yes THEN Append(More(j - 1), b[j]) ELSE More(j - 1)
        /\ More(0) = <<>> /\ More(m) = IF yes THEN b ELSE <<>>
    <2>1. \A j \in 0..m : SubSeq(b, 1, j) \in Seq(T)
      BY <1>3, SubSeqProperties
    <2>2. \A j \in 1..m : SubSeq(b, 1, j) = Append(SubSeq(b, 1, j - 1), b[j])
      OBVIOUS
    <2>3. SubSeq(b, 1, 0) = <<>> /\ SubSeq(b, 1, m) = b
      OBVIOUS
    <2>4. /\ \A j \in 1..m : 0 \in 0..m /\ j - 1 \in 0..m /\ j \in 0..m
          /\ 0 \in 0..m /\ m \in 0..m
      BY <1>3
    <2> HIDE DEF m
    <2>5. CASE yes
      <3>1. \A j \in 0..m : More(j) = SubSeq(b, 1, j)
        BY <2>5
      <3> HIDE DEF More
      <3> QED BY <2>1, <2>2, <2>3, <2>4, <2>5, <3>1
    <2>6. CASE ~yes
      <3>1. <<>> \in Seq(T) /\ \A j \in 0..m : More(j) = <<>>
        BY <2>6
      <3> HIDE DEF More
      <3> QED BY <2>4, <2>6, <3>1
    <2> QED BY <2>5, <2>6
  <1>5. \A j \in 1..m : (b[j].by \in Analysts) <=> yes
    OBVIOUS
  <1>6. /\ \A i \in 0..n : f[i] \in Seq(T)
        /\ f[0] = <<>>
        /\ \A i \in 1..n : f[i] = IF log[i].by \in Analysts THEN Append(f[i - 1], log[i]) ELSE f[i - 1]
    BY <1>1 DEF Picks
  <1> HIDE DEF More, t, n, m
  <1>7. \A i \in 0..n : k[i] = f[i]
    BY <1>3
  <1>8. \A j \in 0..m : k[n + j] = f[n] \o More(j)
    <2> TAKE j \in 0..m
    <2>1. CASE j = 0
      <3>1. f[n] \o <<>> = f[n] /\ n + 0 = n /\ n \in 0..(n + m) /\ n <= n
        BY <1>3, <1>6
      <3> QED BY <1>4, <2>1, <3>1
    <2>2. CASE j # 0
      <3>1. n + j \in 0..(n + m) /\ ~(n + j <= n) /\ (n + j) - n = j
        BY <1>3, <2>2
      <3> QED BY <3>1
    <2> QED BY <2>1, <2>2
  <1> HIDE DEF k
  <1>9. f[n] \in Seq(T)
    BY <1>3, <1>6
  <1>10. ASSUME NEW i \in 1..(n + m)
         PROVE  k[i] = IF t[i].by \in Analysts THEN Append(k[i - 1], t[i]) ELSE k[i - 1]
    <2>1. CASE i <= n
      <3>1. i \in 1..n /\ i \in 0..n /\ i - 1 \in 0..n
        BY <1>3, <2>1
      <3> QED BY <1>3, <1>6, <1>7, <3>1
    <2>2. CASE ~(i <= n)
      <3> DEFINE j == i - n
      <3>1. j \in 1..m /\ j \in 0..m /\ j - 1 \in 0..m /\ i = n + j /\ i - 1 = n + (j - 1)
        BY <1>3, <2>2
      <3> HIDE DEF j
      <3>2. k[i] = f[n] \o More(j) /\ k[i - 1] = f[n] \o More(j - 1) /\ t[i] = b[j]
        BY <1>3, <1>8, <3>1
      <3>3. CASE yes
        <4>1. More(j) = Append(More(j - 1), b[j]) /\ More(j - 1) \in Seq(T) /\ b[j] \in T
          BY <1>4, <3>1, <3>3 DEF m
        <4>2. f[n] \o Append(More(j - 1), b[j]) = Append(f[n] \o More(j - 1), b[j])
          <5> DEFINE A == f[n]
                     B == More(j - 1)
                     e == b[j]
          <5>1. A \in Seq(T) /\ B \in Seq(T) /\ e \in T
            BY <1>9, <4>1
          <5> HIDE DEF A, B, e
          <5>2. A \o Append(B, e) = Append(A \o B, e)
            BY <5>1, JoinOne
          <5> QED BY <5>2 DEF A, B, e
        <4> QED BY <1>5, <3>1, <3>2, <3>3, <4>1, <4>2
      <3>4. CASE ~yes
        BY <1>4, <1>5, <3>1, <3>2, <3>4
      <3> QED BY <3>3, <3>4
    <2> QED BY <2>1, <2>2
  <1>11. ASSUME NEW i \in 0..(n + m) PROVE k[i] \in Seq(T)
    <2>1. CASE i <= n
      <3>1. i \in 0..n
        BY <1>3, <2>1
      <3> QED BY <1>6, <1>7, <3>1
    <2>2. CASE ~(i <= n)
      <3>1. i - n \in 0..m /\ i = n + (i - n)
        BY <1>3, <2>2
      <3>2. More(i - n) \in Seq(T) /\ k[i] = f[n] \o More(i - n)
        BY <1>4, <1>8, <3>1
      <3> QED BY <1>9, <3>2
    <2> QED BY <2>1, <2>2
  <1>12. k[0] = <<>>
    BY <1>3, <1>6, <1>7
  <1>13. Picks(k, t, T)
    BY <1>3, <1>10, <1>11, <1>12 DEF Picks
  <1>14. Decided(t) = k[n + m]
    BY <1>3, <1>13, Deciding
  <1>15. k[n + m] = f[n] \o More(m)
    BY <1>3, <1>8
  <1>16. CASE yes
    BY <1>2, <1>4, <1>14, <1>15, <1>16 DEF t
  <1>17. CASE ~yes
    <2>1. f[n] \o <<>> = f[n]
      BY <1>9
    <2> QED BY <1>2, <1>4, <1>14, <1>15, <1>17, <2>1 DEF t
  <1> QED BY <1>16, <1>17

-----------------------------------------------------------------------------
(* The chain tells what the threads show                                    *)

\* Two sequences have elements of one set.
LEMMA OneSet ==
    ASSUME NEW a, NEW b, IsSequence(a), IsSequence(b)
    PROVE  (\E T : a \in Seq(T) /\ b \in Seq(T)) /\ IsSequence(a \o b)
  <1> DEFINE A == {a[i] : i \in DOMAIN a}
             B == {b[i] : i \in DOMAIN b}
             T == A \cup B
  <1>1. a \in Seq(A) /\ b \in Seq(B)
    BY DEF IsSequence
  <1> HIDE DEF A, B
  <1>2. A \subseteq T /\ B \subseteq T
    OBVIOUS
  <1> HIDE DEF T
  <1>3. a \in Seq(T) /\ b \in Seq(T)
    BY <1>1, <1>2, SeqMonotonic
  <1>4. a \o b \in Seq(T)
    BY <1>3
  <1> QED BY <1>3, <1>4, SomeSequence

\* The status a request gives is the status of the object it made.
LEMMA TransitionStatus ==
    ASSUME NEW r, "status" \in DOMAIN r, NEW target, NEW note, NEW now, NEW period
    PROVE  Transition(r, target, note, now, period).status = target
  BY DEF Transition

\* What is decided next comes after what was decided before.
LEMMA Joined ==
    ASSUME NEW T, NEW d \in Seq(T), NEW b \in Seq(T)
    PROVE  /\ d \o b \in Seq(T) /\ Len(d \o b) = Len(d) + Len(b)
           /\ Len(d) \in Nat /\ Len(b) \in Nat
           /\ SubSeq(d \o b, Len(d) + 1, Len(d) + Len(b)) = b
           /\ \A i, j \in 0..Len(d) : i < j => SubSeq(d \o b, i + 1, j) = SubSeq(d, i + 1, j)
  OBVIOUS

\* One more entry accounts for the decisions it tells of.
LEMMA AccountsGrow ==
    ASSUME NEW T, NEW d \in Seq(T), NEW b \in Seq(T), b # <<>>,
           NEW log, IsSequence(log), NEW e, Accounts(log, d), Tells(e.body, b)
    PROVE  Accounts(log \o <<e>>, d \o b)
  <1> DEFINE n == Len(log)
             k == Len(d)
             m == Len(b)
             longer == log \o <<e>>
             both == d \o b
             S == {log[i] : i \in DOMAIN log} \cup {e}
  <1>1. n \in Nat /\ DOMAIN log = 1..n
    BY SequenceFacts
  <1>2. log \in Seq(S)
    <2>1. \A i \in DOMAIN log : log[i] \in S
      OBVIOUS
    <2> HIDE DEF S
    <2> QED BY <2>1, SequenceOver
  <1>3. /\ Len(longer) = n + 1 /\ DOMAIN longer = 1..(n + 1)
        /\ longer[n + 1] = e /\ \A i \in 1..n : longer[i] = log[i]
    BY <1>1, <1>2
  <1>4. /\ Len(both) = k + m /\ k \in Nat /\ m \in Nat
        /\ SubSeq(both, k + 1, k + m) = b
        /\ \A i, j \in 0..k : i < j => SubSeq(both, i + 1, j) = SubSeq(d, i + 1, j)
    BY Joined
  <1>5. m > 0
    BY <1>4
  <1>6. PICK end \in [0..n -> 0..k] :
           /\ end[0] = 0 /\ end[n] = k
           /\ \A i \in 1..n : /\ end[i - 1] < end[i]
                              /\ Tells(log[i].body, SubSeq(d, end[i - 1] + 1, end[i]))
    BY <1>1 DEF Accounts
  <1> HIDE DEF n, k, m, longer, both, S
  <1> DEFINE more == [i \in 0..(n + 1) |-> IF i = n + 1 THEN k + m ELSE end[i]]
  <1>7. /\ more \in [0..(n + 1) -> 0..(k + m)] /\ more[0] = 0 /\ more[n + 1] = k + m
        /\ \A i \in 0..n : more[i] = end[i]
    BY <1>1, <1>4, <1>6
  <1> HIDE DEF more
  <1>8. ASSUME NEW i \in 1..(n + 1)
        PROVE  /\ more[i - 1] < more[i]
               /\ Tells(longer[i].body, SubSeq(both, more[i - 1] + 1, more[i]))
    <2>1. CASE i = n + 1
      <3>1. i - 1 = n /\ n \in 0..n
        BY <1>1, <2>1
      <3>2. more[i - 1] = k /\ more[i] = k + m /\ longer[i] = e
        BY <1>3, <1>6, <1>7, <2>1, <3>1
      <3>3. k < k + m
        BY <1>4, <1>5
      <3> QED BY <1>4, <3>2, <3>3
    <2>2. CASE i # n + 1
      <3>1. i \in 1..n /\ i \in 0..n /\ i - 1 \in 0..n
        BY <1>1, <2>2
      <3>2. more[i - 1] = end[i - 1] /\ more[i] = end[i] /\ longer[i] = log[i]
        BY <1>3, <1>7, <3>1
      <3>3. end[i - 1] \in 0..k /\ end[i] \in 0..k /\ end[i - 1] < end[i]
        BY <1>6, <3>1
      <3>4. SubSeq(both, end[i - 1] + 1, end[i]) = SubSeq(d, end[i - 1] + 1, end[i])
        BY <1>4, <3>3
      <3> QED BY <1>6, <3>1, <3>2, <3>3, <3>4
    <2> QED BY <2>1, <2>2
  <1>9. \E f \in [0..Len(longer) -> 0..Len(both)] :
           /\ f[0] = 0 /\ f[Len(longer)] = Len(both)
           /\ \A i \in DOMAIN longer : /\ f[i - 1] < f[i]
                                       /\ Tells(longer[i].body, SubSeq(both, f[i - 1] + 1, f[i]))
    BY <1>3, <1>4, <1>7, <1>8
  <1> QED BY <1>9 DEF Accounts, longer, both

\* The comments of a client not yet committed: an analyst's give the status it
\* asked for, one if it asked for one finding, and its entry tells of them.
NotesOK(c) ==
    /\ IsSequence(notes[c])
    /\ \A i \in DOMAIN notes[c] : notes[c][i].by = c
    /\ c = Worker => notes[c] = <<>>
    /\ c \in Analysts =>
           IF work[c] = Idle THEN notes[c] = <<>>
           ELSE /\ \A i \in DOMAIN notes[c] : notes[c][i].to = work[c].ask.status
                /\ work[c].pc # "load" => work[c].obj.status = work[c].ask.status
                /\ work[c].kind = "single" =>
                       Len(notes[c]) <= 1 /\ (work[c].todo # <<>> => notes[c] = <<>>)
    /\ entry[c] # <<>> => notes[c] # <<>> /\ Tells(entry[c][1].body, notes[c])

Told ==
    /\ DOMAIN notes = Clients /\ IsSequence(thread)
    /\ \A c \in Clients : NotesOK(c)
    /\ Accounts(audit, Decided(thread))

\* What is decided is a sequence.
LEMMA DecidedFacts ==
    ASSUME NEW T, NEW log \in Seq(T)
    PROVE  Decided(log) \in Seq(T)
  <1>1. PICK f : Picks(f, log, T)
    BY Deciding
  <1>2. Decided(log) = f[Len(log)] /\ Len(log) \in 0..Len(log)
    BY <1>1, Deciding
  <1> QED BY <1>1, <1>2 DEF Picks

\* Nothing is decided and nothing is told in the beginning.
LEMMA InitTold == Init => Told
  <1> SUFFICES ASSUME Init PROVE Told
    OBVIOUS
  <1>1. /\ thread = <<>> /\ audit = <<>> /\ DOMAIN notes = Clients
        /\ \A c \in Clients : notes[c] = <<>> /\ entry[c] = <<>> /\ work[c] = Idle
    BY DEF Init
  <1>2. IsSequence(<<>>) /\ DOMAIN <<>> = {}
    BY DEF IsSequence
  <1>3. \A c \in Clients : NotesOK(c)
    BY <1>1, <1>2 DEF NotesOK
  <1>4. Decided(thread) = <<>>
    <2>1. <<>> \in Seq({}) /\ Len(<<>>) = 0
      OBVIOUS
    <2>2. PICK f : Picks(f, <<>>, {})
      BY <2>1, Deciding
    <2>3. Decided(<<>>) = f[0]
      BY <2>1, <2>2, Deciding
    <2>4. f[0] = <<>>
      BY <2>2 DEF Picks
    <2> QED BY <1>1, <2>3, <2>4
  <1>5. Accounts(<<>>, <<>>)
    <2> DEFINE f == [i \in 0..0 |-> 0]
    <2>1. f \in [0..Len(<<>>) -> 0..Len(<<>>)] /\ f[0] = 0 /\ Len(<<>>) = 0 /\ DOMAIN <<>> = {}
      OBVIOUS
    <2> HIDE DEF f
    <2> QED BY <2>1 DEF Accounts
  <1> QED BY <1>1, <1>2, <1>3, <1>4, <1>5 DEF Told

\* Whoever decides or gives up leaves the comments of the others alone.
LEMMA OthersTold ==
    ASSUME Told, NEW c \in Clients, UNCHANGED <<thread, audit>>, DOMAIN notes' = Clients,
           \A d \in Clients \ {c} :
               work'[d] = work[d] /\ notes'[d] = notes[d] /\ entry'[d] = entry[d],
           NotesOK(c)'
    PROVE  Told'
  <1>1. \A d \in Clients \ {c} : NotesOK(d)'
    BY DEF NotesOK, Told
  <1> QED BY <1>1 DEF Told

\* Leaving a transaction and its tables as they were.
LEMMA GivesUpTold ==
    ASSUME Typed, Chained, Told, NEW c \in Clients, Forget(c), UNCHANGED <<thread, audit>>
    PROVE  Told'
  <1>1. /\ notes'[c] = <<>> /\ entry'[c] = <<>> /\ work'[c] = Idle /\ DOMAIN notes' = Clients
        /\ \A d \in Clients \ {c} :
               work'[d] = work[d] /\ notes'[d] = notes[d] /\ entry'[d] = entry[d]
    BY DEF Forget, Chained, Told, Typed, Shape
  <1>2. NotesOK(c)'
    BY <1>1 DEF NotesOK, IsSequence
  <1> QED BY <1>1, <1>2, OthersTold

\* Nothing is behind the head of a list of one.
LEMMA TailOfOne ==
    ASSUME NEW T, NEW q \in Seq(T), Len(q) = 1
    PROVE  Tail(q) = <<>>
  <1>1. q # <<>>
    BY EmptySeq
  <1>2. Tail(q) \in Seq(T) /\ Len(Tail(q)) = Len(q) - 1
    BY <1>1, HeadTailProperties
  <1>3. Len(Tail(q)) = 0
    BY <1>2
  <1> QED BY <1>2, <1>3, EmptySeq

\* A flush adds the comment of who decided.
LEMMA FlushTold ==
    ASSUME Typed, Chained, Told, NEW c \in Clients, Flush(c)
    PROVE  Told'
  <1> DEFINE x == StatusComment(c, work[c])
             w == work[c]
  <1>1. /\ entry' = entry /\ UNCHANGED <<thread, audit>> /\ w.pc = "flush"
        /\ work' = [work EXCEPT ![c] = AtLoad(w, Tail(w.todo))]
    BY DEF Flush, tables
  <1>2. entry[c] = <<>>
    BY <1>1 DEF Chained, EntryOK
  <1>3. /\ work'[c] = AtLoad(w, Tail(w.todo)) /\ w # Idle
        /\ \A d \in Clients \ {c} : work'[d] = work[d]
    BY <1>1 DEF Typed, Shape, Idle
  <1>4. /\ work'[c].ask = w.ask /\ work'[c].kind = w.kind /\ work'[c].pc = "load"
        /\ work'[c].todo = Tail(w.todo) /\ work'[c] # Idle
    BY <1>3 DEF AtLoad, Idle
  <1>5. CASE c = Worker
    <2>1. notes' = notes /\ c \notin Analysts
      BY <1>5, ClientAssumption DEF Flush
    <2>2. NotesOK(c)'
      BY <1>1, <2>1 DEF Told, NotesOK
    <2> QED BY <1>1, <1>3, <2>1, <2>2, OthersTold DEF Told
  <1>6. CASE c # Worker
    <2>1. notes' = [notes EXCEPT ![c] = Append(@, x)]
      BY <1>6 DEF Flush
    <2>2. x.by = c /\ x.to = w.obj.status
      BY DEF StatusComment
    <2> HIDE DEF x
    <2>3. DOMAIN notes' = Clients /\ notes'[c] = Append(notes[c], x)
          /\ \A d \in Clients \ {c} : notes'[d] = notes[d]
      BY <2>1 DEF Told
    <2> DEFINE s == notes[c]
               S == {s[i] : i \in DOMAIN s} \cup {x}
               longer == Append(s, x)
    <2>4. IsSequence(s) /\ \A i \in DOMAIN s : s[i].by = c
      BY DEF Told, NotesOK
    <2>5. c \in Analysts => /\ \A i \in DOMAIN s : s[i].to = w.ask.status
                            /\ w.obj.status = w.ask.status
                            /\ w.kind = "single" => s = <<>> \/ w.todo = <<>>
      BY <1>1, <1>3 DEF Told, NotesOK
    <2> HIDE DEF s
    <2>6. \A i \in DOMAIN s : s[i] \in S
      OBVIOUS
    <2>7. \A y \in S : y.by = c /\ (c \in Analysts => y.to = w.ask.status)
      BY <2>2, <2>4, <2>5
    <2> HIDE DEF S
    <2>8. s \in Seq(S) /\ x \in S
      BY <2>4, <2>6, SequenceOver DEF S
    <2>9. longer \in Seq(S) /\ Len(longer) = Len(s) + 1 /\ Len(s) \in Nat
      BY <2>8
    <2> HIDE DEF longer
    <2>10. (\A i \in DOMAIN longer : longer[i] \in S) /\ IsSequence(longer)
      <3>1. IsSequence(longer)
        BY <2>9, SomeSequence
      <3> QED BY <2>9, <3>1
    <2>11. c \in Analysts /\ w.kind = "single" => Len(longer) <= 1 /\ Tail(w.todo) = <<>>
      <3> SUFFICES ASSUME c \in Analysts, w.kind = "single"
                   PROVE  Len(longer) <= 1 /\ Tail(w.todo) = <<>>
        OBVIOUS
      <3>1. Busy(c) /\ w.todo # <<>> /\ IsSequence(w.todo)
        BY <1>1, <1>3 DEF Typed, WorkOK, Busy, ObjectOK
      <3>2. Len(w.todo) = 1
        BY <3>1 DEF Busy, KindOK
      <3>3. s = <<>>
        BY <2>5, <3>1
      <3>4. Len(s) = 0
        BY <3>3
      <3>5. Tail(w.todo) = <<>>
        <4> DEFINE t == w.todo
        <4>1. t \in Seq({t[i] : i \in DOMAIN t}) /\ Len(t) = 1
          BY <3>1, <3>2 DEF IsSequence
        <4> HIDE DEF t
        <4>2. PICK T : t \in Seq(T)
          BY <4>1
        <4>3. Tail(t) = <<>>
          BY <4>1, <4>2, TailOfOne
        <4> QED BY <4>3 DEF t
      <3> QED BY <2>9, <3>4, <3>5
    <2>12. notes'[c] = longer /\ entry'[c] = <<>>
      BY <1>1, <1>2, <2>3 DEF longer, s
    <2> HIDE DEF w
    <2>13. NotesOK(c)'
      BY <1>4, <1>6, <2>7, <2>10, <2>11, <2>12 DEF NotesOK
    <2> QED BY <1>1, <1>3, <2>3, <2>13, OthersTold
  <1> QED BY <1>5, <1>6

\* What the entry of a request says its comments show.
LEMMA EntryTells ==
    ASSUME Typed, Told, NEW c \in Analysts, OwesAudit(c), work[c].pc = "load"
    PROVE  Tells(EntryBody(c), notes[c])
  <1> DEFINE s == notes[c]
             w == work[c]
  <1>1. c \in Clients /\ w # Idle
    BY DEF Clients, Idle
  <1>2. /\ IsSequence(s) /\ s # <<>>
        /\ \A i \in DOMAIN s : s[i].by = c /\ s[i].to = w.ask.status
        /\ w.kind = "single" => Len(s) <= 1
        /\ w.kind \in {"single", "bulk"}
    BY <1>1 DEF Told, NotesOK, OwesAudit, Typed, WorkOK, Busy, KindOK
  <1>3. Len(s) \in Nat /\ DOMAIN s = 1..Len(s) /\ Len(s) # 0
    BY <1>2, SequenceFacts
  <1>4. ASSUME w.kind = "bulk" PROVE Tells(EntryBody(c), s)
    <2>1. EntryBody(c) = BulkBody(c)
      BY <1>4 DEF EntryBody
    <2>2. /\ BulkBody(c).kind = "bulk" /\ BulkBody(c).by = c /\ BulkBody(c).to = w.ask.status
          /\ BulkBody(c).applied = Len(s)
          /\ BulkBody(c).ids = [i \in 1..AtMost(MaxListed, Len(s)) |-> s[i].id]
      BY DEF BulkBody, Listed
    <2> DEFINE body == BulkBody(c)
    <2> HIDE DEF s, w, body
    <2>3. Tells(body, s)
      BY <1>2, <2>2 DEF Tells, body
    <2> QED BY <2>1, <2>3 DEF body
  <1>5. ASSUME w.kind = "single" PROVE Tells(EntryBody(c), s)
    <2>1. EntryBody(c) = SingleBody(c)
      BY <1>5 DEF EntryBody
    <2>2. Len(s) = 1 /\ 1 \in DOMAIN s
      <3> HIDE DEF s, w
      <3> QED BY <1>2, <1>3, <1>5
    <2>3. /\ SingleBody(c).kind = "single" /\ SingleBody(c).by = c /\ SingleBody(c).to = s[1].to
          /\ SingleBody(c).id = s[1].id /\ SingleBody(c).from = s[1].from
      BY DEF SingleBody
    <2> DEFINE body == SingleBody(c)
    <2> HIDE DEF s, w, body
    <2>4. Tells(body, s)
      BY <1>2, <2>2, <2>3 DEF Tells, body
    <2> QED BY <2>1, <2>4 DEF body
  <1> QED BY <1>2, <1>4, <1>5

\* A commit adds the comments to the thread and tells of those of an analyst.
LEMMA CommitTold ==
    ASSUME Typed, Chained, Told, NEW c \in Clients, Commit(c)
    PROVE  Told'
  <1> DEFINE b == notes[c]
  <1>1. thread' = thread \o b /\ audit' = audit \o entry[c] /\ Forget(c) /\ ~OwesAudit(c)
    BY DEF Commit
  <1>2. /\ notes'[c] = <<>> /\ entry'[c] = <<>> /\ work'[c] = Idle /\ DOMAIN notes' = Clients
        /\ \A d \in Clients \ {c} :
               work'[d] = work[d] /\ notes'[d] = notes[d] /\ entry'[d] = entry[d]
    BY <1>1 DEF Forget, Chained, Told, Typed, Shape
  <1>3. \A d \in Clients : NotesOK(d)'
    <2>1. NotesOK(c)'
      BY <1>2 DEF NotesOK, IsSequence
    <2>2. \A d \in Clients \ {c} : NotesOK(d)'
      BY <1>2 DEF NotesOK, Told
    <2> QED BY <2>1, <2>2
  <1>4. /\ IsSequence(thread) /\ IsSequence(b) /\ IsSequence(audit)
        /\ \A i \in DOMAIN b : b[i].by = c
    BY DEF Told, NotesOK, Chained
  <1> DEFINE yes == c \in Analysts
  <1>5. PICK T : thread \in Seq(T) /\ b \in Seq(T)
    BY <1>4, OneSet
  <1>6. Decided(thread') = IF yes THEN Decided(thread) \o b ELSE Decided(thread)
    <2>1. yes \in BOOLEAN /\ \A i \in DOMAIN b : (b[i].by \in Analysts) <=> yes
      BY <1>4
    <2> HIDE DEF b, yes
    <2>2. Decided(thread \o b) = IF yes THEN Decided(thread) \o b ELSE Decided(thread)
      BY <1>5, <2>1, DecidedGrows
    <2> QED BY <1>1, <2>2
  <1>7. IsSequence(thread')
    BY <1>1, <1>4, OneSet
  <1>8. CASE entry[c] # <<>>
    <2> DEFINE e == entry[c][1]
    <2>1. c \in Analysts /\ entry[c] = <<e>> /\ Tells(e.body, b) /\ b # <<>>
      BY <1>8 DEF Chained, EntryOK, Told, NotesOK
    <2>2. Decided(thread) \in Seq(T)
      BY <1>5, DecidedFacts
    <2>3. Accounts(audit, Decided(thread))
      BY DEF Told
    <2> HIDE DEF e, b
    <2>4. Accounts(audit \o <<e>>, Decided(thread) \o b)
      BY <1>4, <1>5, <2>1, <2>2, <2>3, AccountsGrow
    <2>5. Accounts(audit', Decided(thread'))
      BY <1>1, <1>6, <2>1, <2>4
    <2> QED BY <1>2, <1>3, <1>7, <2>5 DEF Told
  <1>9. CASE entry[c] = <<>>
    <2>1. audit' = audit
      <3> DEFINE S == {audit[i] : i \in DOMAIN audit}
      <3>1. audit \in Seq(S)
        BY <1>4 DEF IsSequence
      <3> HIDE DEF S
      <3>2. audit \o <<>> = audit
        BY <3>1
      <3> QED BY <1>1, <1>9, <3>2
    <2>2. c \in Analysts => b = <<>>
      BY <1>1, <1>9 DEF OwesAudit
    <2>3. Decided(thread') = Decided(thread)
      <3>1. CASE c \in Analysts
        <4>1. thread \o <<>> = thread
          BY <1>5
        <4> QED BY <1>1, <2>2, <3>1, <4>1
      <3>2. CASE c \notin Analysts
        BY <1>6, <3>2
      <3> QED BY <3>1, <3>2
    <2> QED BY <1>2, <1>3, <1>7, <2>1, <2>3 DEF Told
  <1> QED BY <1>8, <1>9

\* A request begins, goes on to a finding, or passes over it.
LEMMA WorksTold ==
    ASSUME Typed, Chained, Told, NEW c \in Clients, Works(c), ~Flush(c)
    PROVE  Told'
  <1>1. UNCHANGED <<thread, audit, notes, entry>>
    BY DEF Works, BeginBatch, RejectHit, LoadForHit, BeginSweep, LoadForSweep, BeginTriage,
           LoadForTriage, RefuseTriage, Reread, tables, pendings
  <1>2. \A d \in Clients \ {c} : work'[d] = work[d]
    <2>1. \E w : work' = [work EXCEPT ![c] = w]
      BY DEF Works, BeginBatch, RejectHit, LoadForHit, BeginSweep, LoadForSweep, BeginTriage,
             LoadForTriage, RefuseTriage, Reread, Open, Loaded
    <2> QED BY <2>1 DEF Typed, Shape
  <1>3. entry[c] = <<>>
    <2>1. work[c] = Idle \/ (work[c].pc = "load" /\ work[c].todo # <<>>)
          \/ work[c].pc \in {"reread", "flush"}
      BY DEF Works, BeginBatch, RejectHit, LoadForHit, BeginSweep, LoadForSweep, BeginTriage,
             LoadForTriage, RefuseTriage, Reread, HasTodo
    <2> QED BY <2>1 DEF Chained, EntryOK, Idle
  <1>4. NotesOK(c) /\ DOMAIN notes = Clients /\ DOMAIN work = Clients
    BY DEF Told, Typed, Shape
  <1>5. ASSUME c \notin Analysts PROVE NotesOK(c)'
    BY <1>1, <1>4, <1>5 DEF NotesOK
  <1>6. ASSUME c \in Analysts, BeginTriage(c) PROVE NotesOK(c)'
    <2>1. work[c] = Idle /\ notes[c] = <<>>
      BY <1>4, <1>6 DEF BeginTriage, NotesOK
    <2>2. PICK kind \in {"single", "bulk"}, ids \in Targets, ask \in Requests :
             Open(c, kind, ids, [status |-> ask.status, note |-> ask.note, now |-> clock])
      BY <1>6 DEF BeginTriage
    <2>3. work'[c].pc = "load" /\ work'[c] # Idle
      BY <1>4, <2>2 DEF Open, Idle
    <2> QED BY <1>1, <1>3, <1>4, <2>1, <2>3 DEF NotesOK
  <1>7. ASSUME c \in Analysts, LoadForTriage(c) PROVE NotesOK(c)'
    <2> DEFINE id == Head(work[c].todo)
               old == ReadRow(c, id)
               ask == work[c].ask
               now == IF work[c].kind = "bulk" THEN ask.now ELSE clock
               obj == Transition(old, ask.status, ask.note, now, Period)
    <2>1. /\ HasTodo(c) /\ old # NoRow /\ CanTransition(old, ask.status, ask.note)
          /\ Loaded(c, id, old, obj)
      BY <1>7 DEF LoadForTriage
    <2>2. IsFinding(old)
      BY <2>1, ReadFacts
    <2>3. "status" \in DOMAIN old
      BY <2>2 DEF IsFinding, Columns
    <2> HIDE DEF old, now
    <2>4. obj.status = ask.status
      BY <2>3, TransitionStatus
    <2> HIDE DEF obj
    <2>5. /\ work'[c].pc = "reread" /\ work'[c].kind = work[c].kind /\ work'[c].todo = work[c].todo
          /\ work'[c].ask = ask /\ work'[c].obj = obj /\ work'[c] # Idle /\ work[c] # Idle
      BY <1>4, <2>1 DEF Loaded, Idle, HasTodo
    <2> QED BY <1>1, <1>3, <1>4, <2>4, <2>5 DEF NotesOK
  <1>8. ASSUME c \in Analysts, RefuseTriage(c) PROVE NotesOK(c)'
    <2>1. work[c].pc = "load" /\ work[c].todo # <<>> /\ work[c] # Idle
      BY <1>8 DEF RefuseTriage, HasTodo, Idle
    <2>2. CASE work[c].kind = "bulk"
      <3>1. work'[c] = AtLoad(work[c], Tail(work[c].todo))
        BY <1>4, <1>8, <2>2 DEF RefuseTriage
      <3>2. /\ work'[c].pc = "load" /\ work'[c].kind = "bulk" /\ work'[c].ask = work[c].ask
            /\ work'[c] # Idle
        BY <2>2, <3>1 DEF AtLoad, Idle
      <3> QED BY <1>1, <1>3, <1>4, <2>1, <3>2 DEF NotesOK
    <2>3. CASE work[c].kind # "bulk"
      <3>1. work'[c] = Idle
        BY <1>4, <1>8, <2>3 DEF RefuseTriage
      <3>2. work[c].kind = "single"
        BY <1>8, <2>1, <2>3 DEF Typed, WorkOK, Busy, KindOK
      <3>3. notes[c] = <<>>
        BY <1>4, <1>8, <2>1, <3>2 DEF NotesOK
      <3> QED BY <1>1, <1>3, <1>4, <3>1, <3>3 DEF NotesOK
    <2> QED BY <2>2, <2>3
  <1>9. ASSUME c \in Analysts, Reread(c) PROVE NotesOK(c)'
    <2>1. /\ work'[c].kind = work[c].kind /\ work'[c].todo = work[c].todo
          /\ work'[c].ask = work[c].ask /\ work'[c].obj = work[c].obj
          /\ work[c].pc = "reread" /\ work'[c].pc = "flush"
      BY <1>4, <1>9 DEF Reread
    <2>2. work[c] # Idle /\ work'[c] # Idle
      BY <2>1 DEF Idle
    <2> QED BY <1>1, <1>3, <1>4, <2>1, <2>2 DEF NotesOK
  <1>10. NotesOK(c)'
    <2>1. CASE c \notin Analysts
      BY <1>5, <2>1
    <2>2. CASE c \in Analysts
      <3>1. c # Worker /\ c # Sweeper
        BY <2>2, ClientAssumption
      <3>2. BeginTriage(c) \/ LoadForTriage(c) \/ RefuseTriage(c) \/ Reread(c)
        BY <3>1 DEF Works
      <3> QED BY <1>6, <1>7, <1>8, <1>9, <2>2, <3>2
    <2> QED BY <2>1, <2>2
  <1> QED BY <1>1, <1>2, <1>4, <1>10, OthersTold

\* Every step tells what it decides.
LEMMA NextTold ==
    ASSUME Typed, Chained, Told, [Next]_vars
    PROVE  Told'
  <1>1. ASSUME UNCHANGED <<thread, audit, notes, entry, work>> PROVE Told'
    BY <1>1 DEF Told, NotesOK
  <1>2. ASSUME NEW c \in Clients, Works(c), ~Flush(c) PROVE Told'
    BY <1>2, WorksTold
  <1>3. ASSUME NEW c \in Clients, Flush(c) PROVE Told'
    BY <1>3, FlushTold
  <1>4. ASSUME NEW c \in Clients, RecordAudit(c) PROVE Told'
    <2> DEFINE e == NextEntry(audit, EntryBody(c))
    <2>1. /\ entry' = [entry EXCEPT ![c] = <<e>>] /\ UNCHANGED <<thread, audit, notes, work>>
          /\ OwesAudit(c) /\ Done(c)
      BY <1>4 DEF RecordAudit, tables
    <2>2. e.body = EntryBody(c)
      BY DEF NextEntry, Seal
    <2>3. Tells(EntryBody(c), notes[c]) /\ notes[c] # <<>>
      BY <2>1, EntryTells DEF OwesAudit, Done
    <2> HIDE DEF e
    <2>4. entry'[c] = <<e>> /\ \A d \in Clients \ {c} : entry'[d] = entry[d]
      BY <2>1 DEF Chained
    <2>5. Tells(entry'[c][1].body, notes[c])
      BY <2>2, <2>3, <2>4
    <2>6. NotesOK(c)'
      BY <2>1, <2>3, <2>5 DEF NotesOK, Told
    <2> QED BY <2>1, <2>4, <2>6, OthersTold DEF Told
  <1>5. ASSUME NEW c \in Clients, Commit(c) PROVE Told'
    BY <1>5, CommitTold
  <1>6. ASSUME NEW c \in Clients, Abort(c) \/ DeadlockVictim(c) PROVE Told'
    BY <1>6, GivesUpTold DEF Abort, DeadlockVictim, tables
  <1>7. CASE Tick \/ UNCHANGED vars
    BY <1>1, <1>7 DEF Tick, vars, tables, pendings
  <1>8. Worker \in Clients /\ Sweeper \in Clients /\ Analysts \subseteq Clients
    BY DEF Clients
  <1> QED BY <1>2, <1>3, <1>4, <1>5, <1>6, <1>7, <1>8 DEF Next, Works

\* application/findings.py, AuditRecorder: the chain verifies from its first
\* entry, and its entries one after the other tell of the decisions the threads
\* show: of one finding the change, of many who gave which status, to how many
\* and to which first MaxListed, for any number of analysts and whatever
\* sessions are lost.
THEOREM AuditAlwaysTells == Spec => []AuditTellsTheThread
  <1>1. Typed /\ Chained /\ Told /\ [Next]_vars => Told'
    BY NextTold
  <1>2. Spec => []Told
    BY InitTold, AlwaysTyped, AlwaysChained, <1>1, PTL DEF Spec
  <1>3. Chained /\ Told => AuditTellsTheThread
    BY DEF Chained, Told, AuditTellsTheThread
  <1> QED BY <1>2, <1>3, AlwaysChained, PTL

-----------------------------------------------------------------------------
(* The queue, page by page                                                  *)

\* What holds of 0 and goes on from number to number holds up to any.
LEMMA UpTo ==
    ASSUME NEW X, NEW N \in Nat, 0 \in X, \A n \in 1..N : n - 1 \in X => n \in X
    PROVE  0..N \subseteq X
  <1> DEFINE Wrong == {n \in 0..N : n \notin X}
  <1> SUFFICES ASSUME Wrong # {} PROVE FALSE
    OBVIOUS
  <1>1. Wrong \in SUBSET Nat
    OBVIOUS
  <1>2. PICK m \in Wrong : \A n \in Wrong : m <= n
    BY <1>1, SmallestNumber
  <1>3. m \in 1..N /\ m - 1 \in 0..N /\ ~(m <= m - 1)
    BY <1>2
  <1>4. m - 1 \in X
    BY <1>2, <1>3
  <1> QED BY <1>2, <1>3, <1>4

\* A finite set has an element that none precedes.
LEMMA FirstOfSet ==
    ASSUME NEW X, IsFiniteSet(X), X # {}, NEW R,
           \A a \in X : <<a, a>> \notin R,
           \A a, b, c \in X : <<a, b>> \in R /\ <<b, c>> \in R => <<a, c>> \in R
    PROVE  \E m \in X : \A j \in X : <<j, m>> \notin R
  <1> DEFINE Pred(i) == {j \in X : <<j, i>> \in R}
             T == {Cardinality(Pred(i)) : i \in X}
  <1>1. \A i \in X : IsFiniteSet(Pred(i)) /\ Cardinality(Pred(i)) \in Nat
    <2> TAKE i \in X
    <2>1. Pred(i) \subseteq X
      OBVIOUS
    <2> HIDE DEF Pred
    <2> QED BY <2>1, FS_Subset, FS_CardinalityType
  <1>2. T \in SUBSET Nat /\ T # {}
    <2> HIDE DEF Pred
    <2> QED BY <1>1
  <1>3. PICK n \in T : \A k \in T : n <= k
    BY <1>2, SmallestNumber
  <1>4. PICK m \in X : n = Cardinality(Pred(m))
    BY <1>3
  <1>5. ASSUME NEW j \in X, <<j, m>> \in R PROVE FALSE
    <2>1. Pred(j) \subseteq Pred(m) /\ j \in Pred(m) /\ j \notin Pred(j)
      BY <1>5
    <2>2. Pred(j) # Pred(m)
      BY <2>1
    <2> HIDE DEF Pred
    <2>3. Cardinality(Pred(j)) < Cardinality(Pred(m))
      BY <1>1, <2>1, <2>2, FS_Subset
    <2>4. Cardinality(Pred(m)) <= Cardinality(Pred(j))
      BY <1>3, <1>4
    <2> QED BY <1>1, <2>3, <2>4
  <1> QED BY <1>5

\* A queue: a score for each finding, and ids that tell them apart.
Queue(q, o) ==
    /\ IsFiniteSet(DOMAIN q)
    /\ \A a \in DOMAIN q : q[a].risk \in Int /\ o[a] \in Int
    /\ \A a, b \in DOMAIN q : o[a] = o[b] => a = b

IsCursor(at) == at = <<>> \/ at \in Int \X Int

Left(q, o, at) == {i \in DOMAIN q : AfterCursor(q, o, at, i)}

\* The order of a queue is total.
LEMMA BeforeFacts ==
    ASSUME NEW q, NEW o, Queue(q, o)
    PROVE  /\ \A a \in DOMAIN q : ~Before(q, o, a, a)
           /\ \A a, b \in DOMAIN q : a = b \/ Before(q, o, a, b) \/ Before(q, o, b, a)
           /\ \A a, b \in DOMAIN q : ~(Before(q, o, a, b) /\ Before(q, o, b, a))
           /\ \A a, b, c \in DOMAIN q :
                  Before(q, o, a, b) /\ Before(q, o, b, c) => Before(q, o, a, c)
  BY DEF Queue, Before

\* What is left after a folded is left with all that follows it.
LEMMA LeftFacts ==
    ASSUME NEW q, NEW o, Queue(q, o), NEW at, IsCursor(at)
    PROVE  /\ IsFiniteSet(Left(q, o, at)) /\ Left(q, o, at) \subseteq DOMAIN q
           /\ at = <<>> => Left(q, o, at) = DOMAIN q
           /\ \A a \in Left(q, o, at), b \in DOMAIN q :
                  Before(q, o, a, b) => b \in Left(q, o, at)
  <1>1. Left(q, o, at) \subseteq DOMAIN q
    BY DEF Left
  <1>2. IsFiniteSet(Left(q, o, at))
    BY <1>1, FS_Subset DEF Queue
  <1>3. at = <<>> => Left(q, o, at) = DOMAIN q
    BY DEF Left, AfterCursor
  <1>4. ASSUME NEW a \in Left(q, o, at), NEW b \in DOMAIN q, Before(q, o, a, b)
        PROVE  b \in Left(q, o, at)
    <2>1. CASE at = <<>>
      BY <1>3, <2>1
    <2>2. CASE at \in Int \X Int
      <3>1. at[1] \in Int /\ at[2] \in Int
        BY <2>2
      <3>2. a \in DOMAIN q /\ AfterCursor(q, o, at, a)
        BY DEF Left
      <3>3. AfterCursor(q, o, at, b)
        BY <1>4, <3>1, <3>2 DEF AfterCursor, Before, Queue
      <3> QED BY <3>3 DEF Left
    <2> QED BY <2>1, <2>2 DEF IsCursor
  <1> QED BY <1>1, <1>2, <1>3, <1>4

\* After the folded of a finding comes what it precedes.
LEMMA CursorOf ==
    ASSUME NEW q, NEW o, Queue(q, o), NEW last \in DOMAIN q,
           NEW at, at = <<q[last].risk, o[last]>>
    PROVE  at \in Int \X Int /\ \A i \in DOMAIN q : AfterCursor(q, o, at, i) <=> Before(q, o, last, i)
  <1>1. q[last].risk \in Int /\ o[last] \in Int
    BY DEF Queue
  <1>2. at \in Int \X Int /\ at # <<>> /\ at[1] = q[last].risk /\ at[2] = o[last]
    BY <1>1
  <1> QED BY <1>2 DEF AfterCursor, Before, Queue

\* A page takes from what is left, takes something, and leaves the rest.
LEMMA PageFacts ==
    ASSUME NEW q, NEW o, Queue(q, o), NEW limit \in Nat \ {0}, NEW at, IsCursor(at)
    PROVE  LET page == QueuePage(q, o, limit, at)
               next == NextCursor(q, o, page)
           IN /\ page \subseteq Left(q, o, at)
              /\ page = {} => Left(q, o, at) = {}
              /\ page # {} => next \in Int \X Int /\ Left(q, o, next) = Left(q, o, at) \ page
  <1> DEFINE left == Left(q, o, at)
             B(a, b) == Before(q, o, a, b)
             Pred(i) == {j \in left : B(j, i)}
             page == QueuePage(q, o, limit, at)
             next == NextCursor(q, o, page)
  <1>1. page = {i \in left : Cardinality(Pred(i)) < limit}
    BY DEF QueuePage, Left
  <1>2. IsFiniteSet(left) /\ left \subseteq DOMAIN q
        /\ \A a \in left, b \in DOMAIN q : B(a, b) => b \in left
    BY LeftFacts
  <1>3. /\ \A a \in DOMAIN q : ~B(a, a)
        /\ \A a, b \in DOMAIN q : a = b \/ B(a, b) \/ B(b, a)
        /\ \A a, b \in DOMAIN q : ~(B(a, b) /\ B(b, a))
        /\ \A a, b, c \in DOMAIN q : B(a, b) /\ B(b, c) => B(a, c)
    BY BeforeFacts
  <1> HIDE DEF left, B, page
  <1>4. \A i \in left : IsFiniteSet(Pred(i)) /\ Cardinality(Pred(i)) \in Nat
    <2> TAKE i \in left
    <2>1. Pred(i) \subseteq left
      OBVIOUS
    <2> HIDE DEF Pred
    <2> QED BY <1>2, <2>1, FS_Subset, FS_CardinalityType
  <1>5. page \subseteq left
    BY <1>1
  <1>6. ASSUME left # {} PROVE page # {}
    <2> DEFINE R == {p \in left \X left : B(p[1], p[2])}
    <2>1. \A a, b \in left : <<a, b>> \in R <=> B(a, b)
      OBVIOUS
    <2> HIDE DEF R
    <2>2. /\ \A a \in left : <<a, a>> \notin R
          /\ \A a, b, c \in left : <<a, b>> \in R /\ <<b, c>> \in R => <<a, c>> \in R
      BY <1>2, <1>3, <2>1
    <2>3. PICK m \in left : \A j \in left : <<j, m>> \notin R
      BY <1>2, <1>6, <2>2, FirstOfSet
    <2>4. Pred(m) = {}
      BY <2>1, <2>3
    <2> HIDE DEF Pred
    <2>5. Cardinality(Pred(m)) = 0
      BY <2>4, FS_EmptySet
    <2> QED BY <1>1, <2>5
  <1>7. ASSUME NEW i \in page, NEW j \in left, B(j, i) PROVE j \in page
    <2>1. i \in left /\ Cardinality(Pred(i)) < limit
      BY <1>1
    <2>2. Pred(j) \subseteq Pred(i)
      BY <1>2, <1>3, <1>7, <2>1
    <2> HIDE DEF Pred
    <2>3. Cardinality(Pred(j)) <= Cardinality(Pred(i))
      BY <1>4, <2>1, <2>2, FS_Subset
    <2>4. Cardinality(Pred(j)) < limit
      BY <1>4, <2>1, <2>3
    <2> QED BY <1>1, <2>4
  <1>8. ASSUME page # {} PROVE next \in Int \X Int /\ Left(q, o, next) = left \ page
    <2> DEFINE Last(i) == \A j \in page : i = j \/ B(j, i)
    <2>1. \E i \in page : Last(i)
      <3> DEFINE R == {p \in page \X page : B(p[2], p[1])}
      <3>1. \A a, b \in page : <<a, b>> \in R <=> B(b, a)
        OBVIOUS
      <3> HIDE DEF R
      <3>2. IsFiniteSet(page)
        BY <1>2, <1>5, FS_Subset
      <3>3. /\ \A a \in page : <<a, a>> \notin R
            /\ \A a, b, c \in page : <<a, b>> \in R /\ <<b, c>> \in R => <<a, c>> \in R
        BY <1>2, <1>3, <1>5, <3>1
      <3>4. PICK m \in page : \A j \in page : <<j, m>> \notin R
        BY <1>8, <3>2, <3>3, FirstOfSet
      <3>5. Last(m)
        BY <1>2, <1>3, <1>5, <3>1, <3>4
      <3> QED BY <3>4, <3>5
    <2> DEFINE last == CHOOSE i \in page : Last(i)
    <2>2. last \in page /\ Last(last)
      <3> HIDE DEF Last
      <3> QED BY <2>1
    <2>3. next = <<q[last].risk, o[last]>>
      BY DEF NextCursor, B
    <2> HIDE DEF last, next
    <2>4. last \in left /\ last \in DOMAIN q
      BY <1>2, <1>5, <2>2
    <2>5. next \in Int \X Int /\ \A i \in DOMAIN q : AfterCursor(q, o, next, i) <=> B(last, i)
      BY <2>3, <2>4, CursorOf DEF B
    <2>6. ASSUME NEW i \in DOMAIN q PROVE B(last, i) <=> i \in left \ page
      <3>1. ASSUME B(last, i) PROVE i \in left /\ i \notin page
        BY <1>2, <1>3, <2>2, <2>4, <3>1
      <3>2. ASSUME i \in left, i \notin page PROVE B(last, i)
        BY <1>3, <1>7, <2>2, <2>4, <3>2
      <3> QED BY <3>1, <3>2
    <2> QED BY <1>2, <2>5, <2>6 DEF Left
  <1> QED BY <1>5, <1>6, <1>8 DEF left, page

\* What a walk has shown when it is at a folded, and how far it may still go.
Walked(w, n, q, o) ==
    LET left == Left(q, o, w.at)
    IN /\ w.pages \in Seq(SUBSET DOMAIN q) /\ IsCursor(w.at)
       /\ \A i \in 1..Len(w.pages) : w.pages[i] \cap left = {}
       /\ \A d \in DOMAIN q \ left : \E i \in 1..Len(w.pages) : d \in w.pages[i]
       /\ \A i, j \in 1..Len(w.pages) : i # j => w.pages[i] \cap w.pages[j] = {}
       /\ left = {} \/ Cardinality(left) <= Cardinality(DOMAIN q) - n

\* One step of the walk: a page that is not empty, and the folded behind it.
Onward(q, o, limit, w) ==
    LET page == QueuePage(q, o, limit, w.at)
    IN IF page = {} THEN w
       ELSE [pages |-> Append(w.pages, page), at |-> NextCursor(q, o, page)]

\* It goes on.
LEMMA WalksOn ==
    ASSUME NEW q, NEW o, Queue(q, o), NEW limit \in Nat \ {0}, NEW w,
           NEW n \in Nat \ {0}, Walked(w, n - 1, q, o)
    PROVE  Walked(Onward(q, o, limit, w), n, q, o)
  <1> DEFINE D == DOMAIN q
             left == Left(q, o, w.at)
             page == QueuePage(q, o, limit, w.at)
             next == NextCursor(q, o, page)
             N == Cardinality(D)
             k == Len(w.pages)
  <1>1. /\ w.pages \in Seq(SUBSET D) /\ IsCursor(w.at) /\ k \in Nat
        /\ \A i \in 1..k : w.pages[i] \cap left = {}
        /\ \A d \in D \ left : \E i \in 1..k : d \in w.pages[i]
        /\ \A i, j \in 1..k : i # j => w.pages[i] \cap w.pages[j] = {}
        /\ left = {} \/ Cardinality(left) <= N - (n - 1)
    BY DEF Walked
  <1>2. /\ page \subseteq left
        /\ page = {} => left = {}
        /\ page # {} => next \in Int \X Int /\ Left(q, o, next) = left \ page
    BY <1>1, PageFacts
  <1>3. IsFiniteSet(left) /\ left \subseteq D
    BY <1>1, LeftFacts
  <1>4. N \in Nat
    BY FS_CardinalityType DEF Queue
  <1> HIDE DEF left, page, next, N
  <1>5. CASE page = {}
    <2>1. Onward(q, o, limit, w) = w
      BY <1>5 DEF Onward, page
    <2>2. left = {}
      BY <1>2, <1>5
    <2> QED BY <1>1, <2>1, <2>2 DEF Walked, left
  <1>6. CASE page # {}
    <2> DEFINE v == [pages |-> Append(w.pages, page), at |-> next]
               left2 == left \ page
    <2>1. Onward(q, o, limit, w) = v
      BY <1>6 DEF Onward, page, next
    <2>2. v.at = next /\ IsCursor(next) /\ Left(q, o, next) = left2
      BY <1>2, <1>6 DEF IsCursor
    <2>3. page \in SUBSET D
      BY <1>2, <1>3
    <2>4. /\ v.pages \in Seq(SUBSET D) /\ Len(v.pages) = k + 1
          /\ v.pages[k + 1] = page
          /\ \A i \in 1..k : v.pages[i] = w.pages[i]
      BY <1>1, <2>3
    <2>5. \A i \in 1..(k + 1) : i = k + 1 \/ i \in 1..k
      BY <1>1
    <2>6. k + 1 \in 1..(k + 1) /\ \A i \in 1..k : i \in 1..(k + 1)
      BY <1>1
    <2>7. Cardinality(left2) < Cardinality(left) /\ Cardinality(left2) \in Nat
          /\ Cardinality(left) \in Nat
      <3>1. left2 \subseteq left /\ left2 # left
        BY <1>2, <1>6
      <3> HIDE DEF left2
      <3> QED BY <1>3, <3>1, FS_Subset, FS_CardinalityType
    <2>8. left # {}
      BY <1>2, <1>6
    <2>9. Cardinality(left2) <= N - n
      BY <1>1, <1>4, <2>7, <2>8
    <2> HIDE DEF v
    <2>10. \A i \in 1..(k + 1) : v.pages[i] \cap left2 = {}
      BY <1>1, <2>4, <2>5
    <2>11. \A d \in D \ left2 : \E i \in 1..(k + 1) : d \in v.pages[i]
      BY <1>1, <2>4, <2>6
    <2>12. \A i, j \in 1..(k + 1) : i # j => v.pages[i] \cap v.pages[j] = {}
      <3> TAKE i, j \in 1..(k + 1)
      <3>1. CASE i \in 1..k /\ j \in 1..k
        BY <1>1, <2>4, <3>1
      <3>2. CASE i \in 1..k /\ j = k + 1
        BY <1>1, <1>2, <2>4, <3>2
      <3>3. CASE i = k + 1 /\ j \in 1..k
        BY <1>1, <1>2, <2>4, <3>3
      <3> QED BY <2>5, <3>1, <3>2, <3>3
    <2>13. Walked(v, n, q, o)
      <3> HIDE DEF left2, k
      <3> QED BY <2>2, <2>4, <2>9, <2>10, <2>11, <2>12 DEF Walked, N
    <2> QED BY <2>1, <2>13
  <1> QED BY <1>5, <1>6

\* list_all in pages of a size, as PagesPartitionQueue walks through it.
Parts(q, o, limit) ==
    LET walk[n \in 0..Cardinality(DOMAIN q)] ==
            IF n = 0 THEN [pages |-> <<>>, at |-> <<>>]
            ELSE LET page == QueuePage(q, o, limit, walk[n - 1].at)
                 IN IF page = {} THEN walk[n - 1]
                    ELSE [pages |-> Append(walk[n - 1].pages, page),
                          at |-> NextCursor(q, o, page)]
        pages == walk[Cardinality(DOMAIN q)].pages
    IN /\ UNION {pages[i] : i \in DOMAIN pages} = DOMAIN q
       /\ \A i, j \in DOMAIN pages : i # j => pages[i] \cap pages[j] = {}

\* The walk ends when nothing is left.
LEMMA WalkParts ==
    ASSUME NEW q, NEW o, Queue(q, o), NEW limit \in Nat \ {0}
    PROVE  Parts(q, o, limit)
  <1> DEFINE N == Cardinality(DOMAIN q)
             first == [pages |-> <<>>, at |-> <<>>]
             S == [pages : Seq(SUBSET DOMAIN q), at : {<<>>} \cup (Int \X Int)]
             G == [n \in 1..N |-> [w \in S |-> Onward(q, o, limit, w)]]
             Body(h, n) == IF n = 0 THEN first
                           ELSE LET page == QueuePage(q, o, limit, h[n - 1].at)
                                IN IF page = {} THEN h[n - 1]
                                   ELSE [pages |-> Append(h[n - 1].pages, page),
                                         at |-> NextCursor(q, o, page)]
             walk == CHOOSE h : h = [n \in 0..N |-> Body(h, n)]
  <1>1. N \in Nat
    BY FS_CardinalityType DEF Queue
  <1>2. first \in S
    OBVIOUS
  <1>3. \A w \in S : Onward(q, o, limit, w) \in S
    <2> TAKE w \in S
    <2> DEFINE page == QueuePage(q, o, limit, w.at)
               next == NextCursor(q, o, page)
    <2>1. IsCursor(w.at) /\ w.pages \in Seq(SUBSET DOMAIN q)
      BY DEF IsCursor
    <2>2. page \subseteq DOMAIN q /\ (page # {} => next \in Int \X Int)
      BY <2>1, PageFacts, LeftFacts
    <2> HIDE DEF page, next
    <2>3. CASE page = {}
      BY <2>3 DEF Onward, page
    <2>4. CASE page # {}
      <3>1. Onward(q, o, limit, w) = [pages |-> Append(w.pages, page), at |-> next]
        BY <2>4 DEF Onward, page, next
      <3>2. Append(w.pages, page) \in Seq(SUBSET DOMAIN q)
        BY <2>1, <2>2
      <3> QED BY <2>2, <2>4, <3>1, <3>2
    <2> QED BY <2>3, <2>4
  <1>4. \A h, n : n # 0 => Body(h, n) = Onward(q, o, limit, h[n - 1])
    BY DEF Onward
  <1>5. \A h : Body(h, 0) = first
    OBVIOUS
  <1> HIDE DEF first, S, Body
  <1>6. PICK f : Stays(f, N, S, first, G)
    <2>1. G \in [1..N -> [S -> S]]
      BY <1>3
    <2> HIDE DEF G, N
    <2>2. \A n \in 0..N : \E f : Stays(f, n, S, first, G)
      BY <1>1, <1>2, <2>1, Recursion
    <2>3. N \in 0..N
      BY <1>1
    <2> QED BY <2>2, <2>3
  <1> DEFINE h == [n \in 0..N |-> f[n]]
  <1>7. h = [n \in 0..N |-> Body(h, n)]
    <2>1. ASSUME NEW n \in 0..N PROVE f[n] = Body(h, n)
      <3>1. CASE n = 0
        BY <1>5, <1>6, <3>1 DEF Stays, Computes
      <3>2. CASE n # 0
        <4>1. n \in 1..N /\ n - 1 \in 0..N
          BY <1>1, <3>2
        <4>2. f[n - 1] \in S /\ f[n] = G[n][f[n - 1]]
          BY <1>6, <4>1 DEF Stays, Computes
        <4>3. f[n] = Onward(q, o, limit, f[n - 1])
          BY <4>1, <4>2
        <4>4. h[n - 1] = f[n - 1]
          BY <4>1
        <4> QED BY <1>4, <3>2, <4>3, <4>4
      <3> QED BY <3>1, <3>2
    <2> QED BY <2>1
  <1>8. walk = [n \in 0..N |-> Body(walk, n)]
    <2> HIDE DEF h, N
    <2> QED BY <1>7
  <1> HIDE DEF walk, G, h
  <1> DEFINE X == {n \in 0..N : Walked(walk[n], n, q, o)}
  <1>9. 0 \in X
    <2>1. walk[0] = first /\ 0 \in 0..N
      BY <1>1, <1>5, <1>8
    <2>2. first.pages = <<>> /\ first.at = <<>> /\ Len(<<>>) = 0 /\ <<>> \in Seq(SUBSET DOMAIN q)
      BY DEF first
    <2>3. IsCursor(<<>>) /\ Left(q, o, <<>>) = DOMAIN q
      BY LeftFacts DEF IsCursor
    <2>4. Walked(first, 0, q, o)
      BY <1>1, <2>2, <2>3 DEF Walked
    <2> QED BY <2>1, <2>4
  <1>10. ASSUME NEW n \in 1..N, n - 1 \in X PROVE n \in X
    <2>1. n \in 0..N /\ n # 0 /\ n \in Nat \ {0}
      BY <1>1
    <2>2. walk[n] = Onward(q, o, limit, walk[n - 1])
      BY <1>4, <1>8, <2>1
    <2>3. Walked(walk[n], n, q, o)
      BY <1>10, <2>1, <2>2, WalksOn
    <2> QED BY <2>1, <2>3
  <1>11. N \in X
    <2> HIDE DEF X
    <2>1. 0..N \subseteq X
      BY <1>1, <1>9, <1>10, UpTo
    <2>2. N \in 0..N
      BY <1>1
    <2> QED BY <2>1, <2>2
  <1> DEFINE pages == walk[N].pages
             left == Left(q, o, walk[N].at)
  <1>12. Walked(walk[N], N, q, o)
    BY <1>11
  <1>13. left = {}
    <2>1. IsFiniteSet(left) /\ (left = {} \/ Cardinality(left) <= N - N)
      BY <1>12, LeftFacts DEF Walked
    <2> HIDE DEF left
    <2>2. Cardinality(left) \in Nat
      BY <2>1, FS_CardinalityType
    <2>3. left = {} \/ Cardinality(left) = 0
      BY <1>1, <2>1, <2>2
    <2> QED BY <2>1, <2>3, FS_EmptySet
  <1>14. /\ pages \in Seq(SUBSET DOMAIN q)
         /\ \A d \in DOMAIN q : \E i \in 1..Len(pages) : d \in pages[i]
         /\ \A i, j \in 1..Len(pages) : i # j => pages[i] \cap pages[j] = {}
    BY <1>12, <1>13 DEF Walked
  <1> HIDE DEF pages
  <1>15. DOMAIN pages = 1..Len(pages) /\ \A i \in DOMAIN pages : pages[i] \subseteq DOMAIN q
    BY <1>14
  <1>16. UNION {pages[i] : i \in DOMAIN pages} = DOMAIN q
    <2>1. \A d \in DOMAIN q : d \in UNION {pages[i] : i \in DOMAIN pages}
      BY <1>14, <1>15
    <2>2. \A d \in UNION {pages[i] : i \in DOMAIN pages} : d \in DOMAIN q
      BY <1>15
    <2> QED BY <2>1, <2>2
  <1>17. \A i, j \in DOMAIN pages : i # j => pages[i] \cap pages[j] = {}
    BY <1>14, <1>15
  <1> QED BY <1>16, <1>17 DEF Parts, pages, walk, Body, first

\* The findings there are make a queue.
LEMMA RowsQueue ==
    ASSUME Typed, Known
    PROVE  Queue(rows, IdOrder)
  <1> DEFINE I == {j \in 1..folded : Usable(Stream[j])}
  <1>1. DOMAIN rows = {Identity(Stream[i]) : i \in I}
    BY DEF Known, SeenUpTo
  <1>2. \A i \in I : i \in DOMAIN Stream /\ Usable(Stream[i])
    BY BatchEndFacts DEF Typed, Tables
  <1>3. IsFiniteSet(I)
    <2>1. folded \in Nat
      BY BatchEndFacts DEF Typed
    <2>2. IsFiniteSet(1..folded)
      BY <2>1, FS_Interval
    <2>3. I \subseteq 1..folded
      OBVIOUS
    <2> HIDE DEF I
    <2> QED BY <2>2, <2>3, FS_Subset
  <1> HIDE DEF I
  <1>4. IsFiniteSet(DOMAIN rows)
    <2> DEFINE g == [i \in I |-> Identity(Stream[i])]
               D == DOMAIN rows
    <2>1. \A d \in D : \E i \in I : g[i] = d
      BY <1>1
    <2>2. g \in [I -> D]
      BY <1>1
    <2> HIDE DEF g, D
    <2>3. g \in Surjection(I, D)
      BY <2>1, <2>2 DEF Surjection
    <2>4. IsFiniteSet(D)
      BY <1>3, <2>3, FS_Surjection
    <2> QED BY <2>4 DEF D
  <1>5. \A a \in DOMAIN rows : rows[a].risk \in Int /\ IdOrder[a] \in Int
    BY <1>1, <1>2, OrderAssumption DEF Typed, Tables, IsFinding
  <1>6. \A a, b \in DOMAIN rows : IdOrder[a] = IdOrder[b] => a = b
    BY <1>1, <1>2, OrderAssumption
  <1> QED BY <1>4, <1>5, <1>6 DEF Queue

\* application/findings.py, list_all: pages of any size show every finding
\* once, ties of the score included, for any number of findings.
THEOREM PagesAlwaysPartition == Spec => []PagesPartitionQueue
  <1>1. Typed /\ Known => PagesPartitionQueue
    <2> SUFFICES ASSUME Typed, Known PROVE PagesPartitionQueue
      OBVIOUS
    <2>1. Queue(rows, IdOrder)
      BY RowsQueue
    <2>2. ASSUME NEW limit \in 1..2 PROVE Parts(rows, IdOrder, limit)
      BY <2>1, WalkParts
    <2> QED BY <2>2 DEF PagesPartitionQueue, Parts
  <1> QED BY AlwaysTyped, AlwaysKnown, <1>1, PTL

=============================================================================
