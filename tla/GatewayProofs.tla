---------------------------- MODULE GatewayProofs ----------------------------
(***************************************************************************)
(* What holds of the ingest gateway for any number of agents, tenants,    *)
(* requests and events, and for any size of the caches and buckets.       *)
(***************************************************************************)
EXTENDS GatewayIngest, SequenceTheorems, FiniteSetTheorems, WellFoundedInduction, TLAPS

(* What the variables hold                                                  *)

Request ==
    [state : {"free", "received", "publishing"}, agent : Agent \cup {None},
     lines : Seq(Events), todo : Seq(Events), shed : SUBSET Events, rejected : Nat]

\* A request that is not being published has nothing left to publish or to shed.
RequestsOK ==
    /\ waiting \in [Agent -> Slot \cup {None}]
    /\ req \in [Slot -> Request]
    /\ \A s \in Slot : req[s].state # "free" => req[s].agent \in Agent
    /\ \A s \in Slot : req[s].state # "publishing" => req[s].todo = << >> /\ req[s].shed = {}

\* The agents, the requests, the cache, the buckets, the stream and the history.
TypeOK ==
    /\ outbox \in [Agent -> Seq(Events)]
    /\ RequestsOK
    /\ dedup \in Seq(Ids)
    /\ tokens \in [Tenants -> Nat]
    /\ stream \in Seq(Events)
    /\ acked \in SUBSET Events /\ dropped \in SUBSET Events /\ shed \in SUBSET Events
    /\ forgotten \in SUBSET Ids
    /\ faults \in Nat

\* Neither what was discarded nor what a request has put aside is a signal.
ShedOK ==
    /\ \A e \in shed : e.kind # "signal"
    /\ \A s \in Slot : \A e \in req[s].shed : e.kind # "signal"

\* What was or will be published is remembered, and in one place only, unless the
\* cache has lost its id.
OnceOK ==
    /\ \A i, j \in 1..Len(stream) :
           i # j /\ stream[i].id = stream[j].id => stream[i].id \in forgotten
    /\ \A s \in Slot : \A k \in 1..Len(req[s].todo), i \in 1..Len(stream) :
           stream[i].id = req[s].todo[k].id => stream[i].id \in forgotten
    /\ \A s, r \in Slot : \A k \in 1..Len(req[s].todo), l \in 1..Len(req[r].todo) :
           <<s, k>> # <<r, l>> /\ req[s].todo[k].id = req[r].todo[l].id
               => req[s].todo[k].id \in forgotten
    /\ \A i \in 1..Len(stream) : stream[i].id \in Range(dedup) \cup forgotten
    /\ \A s \in Slot : \A k \in 1..Len(req[s].todo) :
           req[s].todo[k].id \in Range(dedup) \cup forgotten

\* What is in the stream or on its way there.
Safe == Range(stream) \cup InFlight

\* A signal the gateway remembers, or whose batch it is about to answer 200, is safe.
DurableOK ==
    /\ \A e \in OwnSignals : e.id \in Range(dedup) => e \in Safe
    /\ \A s \in Slot : req[s].state = "publishing"
           => Range(req[s].lines) \cap OwnSignals \subseteq Safe
    /\ AckedIsDurableOrInFlight

\* A batch refused for want of quota or for a broken line has not charged a signal
\* before: such a signal would be a duplicate when the batch comes back, and
\* acknowledged as one.
RefusalsSpareSignals ==
    \A s \in Slot : req[s].state = "received" /\ Verdict(s).end \in {"quota", "error"}
        => \A k \in DOMAIN Verdict(s).todo : Verdict(s).todo[k].kind # "signal"

\* No batch is longer than the gateway reads: the lines past max_batch_events are
\* answered 200 with the rest.
EveryLineIsRead == \A s \in Slot : req[s].state = "received" => Verdict(s).end # "limit"

\* The sink and the process hold, and no batch is refused for one line the schema refuses.
Calm == Faults \cap {"sink", "restart"} = {} /\ ~Strict

\* An agent that holds one signal at a time: no other stands before it in a batch.
OneSignal(s) ==
    \A i, j \in DOMAIN s : s[i].kind = "signal" /\ s[j].kind = "signal" => i = j

PacedOK ==
    /\ \A a \in Agent : OneSignal(outbox[a])
    /\ \A s \in Slot : OneSignal(req[s].lines)

-----------------------------------------------------------------------------
(* Sequences                                                                *)

\* A set of numbers that is not empty has a smallest one.
LEMMA SmallestNumber ==
    ASSUME NEW T \in SUBSET Nat, T # {}
    PROVE  \E m \in T : \A n \in T : m <= n
  <1>1. PICK m \in T : \A n \in T : ~ (<<n, m>> \in OpToRel(<, Nat))
    BY NatLessThanWellFounded, WFMin
  <1>2. \A n \in T : ~ (n < m)
    BY <1>1 DEF OpToRel
  <1> QED  BY <1>2

\* The first n of a sequence and the rest of it.
LEMMA SplitSeq ==
    ASSUME NEW S, NEW s \in Seq(S), NEW n \in 0..Len(s)
    PROVE  /\ SubSeq(s, 1, n) \in Seq(S) /\ Len(SubSeq(s, 1, n)) = n
           /\ \A i \in 1..n : SubSeq(s, 1, n)[i] = s[i]
           /\ SubSeq(s, n + 1, Len(s)) \in Seq(S)
           /\ Len(SubSeq(s, n + 1, Len(s))) = Len(s) - n
           /\ \A i \in 1..(Len(s) - n) : SubSeq(s, n + 1, Len(s))[i] = s[n + i]
  <1>1. Len(s) \in Nat /\ \A i \in 1..Len(s) : s[i] \in S
    BY ElementOfSeq, LenProperties
  <1>2. /\ SubSeq(s, 1, n) \in Seq(S)
        /\ Len(SubSeq(s, 1, n)) = IF 1 <= n THEN n - 1 + 1 ELSE 0
        /\ \A i \in 1..(n - 1 + 1) : SubSeq(s, 1, n)[i] = s[1 + i - 1]
    <2>1. \A i \in 1..n : s[i] \in S
      BY <1>1
    <2> QED  BY <1>1, <2>1, SubSeqProperties
  <1>3. /\ SubSeq(s, n + 1, Len(s)) \in Seq(S)
        /\ Len(SubSeq(s, n + 1, Len(s)))
               = IF n + 1 <= Len(s) THEN Len(s) - (n + 1) + 1 ELSE 0
        /\ \A i \in 1..(Len(s) - (n + 1) + 1) :
               SubSeq(s, n + 1, Len(s))[i] = s[(n + 1) + i - 1]
    <2>1. n + 1 \in Int /\ Len(s) \in Int /\ \A i \in (n + 1)..Len(s) : s[i] \in S
      BY <1>1
    <2> HIDE <1>1
    <2> QED  BY <2>1, SubSeqProperties
  <1>4. Len(SubSeq(s, 1, n)) = n /\ \A i \in 1..n : SubSeq(s, 1, n)[i] = s[i]
    <2>1. \A i \in 1..n : i \in 1..(n - 1 + 1) /\ 1 + i - 1 = i
      BY <1>1
    <2>2. IF 1 <= n THEN n - 1 + 1 = n ELSE n = 0
      BY <1>1
    <2> QED  BY <1>2, <2>1, <2>2
  <1>5. /\ Len(SubSeq(s, n + 1, Len(s))) = Len(s) - n
        /\ \A i \in 1..(Len(s) - n) : SubSeq(s, n + 1, Len(s))[i] = s[n + i]
    <2>1. \A i \in 1..(Len(s) - n) : i \in 1..(Len(s) - (n + 1) + 1) /\ (n + 1) + i - 1 = n + i
      BY <1>1
    <2>2. IF n + 1 <= Len(s) THEN Len(s) - (n + 1) + 1 = Len(s) - n ELSE Len(s) - n = 0
      BY <1>1
    <2> QED  BY <1>3, <2>1, <2>2
  <1> QED  BY <1>2, <1>3, <1>4, <1>5

\* One element removed: the others stay as they were, in their order.
LEMMA RemoveAtProperties ==
    ASSUME NEW S, NEW s \in Seq(S), NEW k \in DOMAIN s
    PROVE  /\ RemoveAt(s, k) \in Seq(S)
           /\ Len(RemoveAt(s, k)) = Len(s) - 1
           /\ \A i \in 1..(Len(s) - 1) :
                  RemoveAt(s, k)[i] = IF i < k THEN s[i] ELSE s[i + 1]
  <1> DEFINE left == SubSeq(s, 1, k - 1)
             right == SubSeq(s, k + 1, Len(s))
  <1>1. /\ Len(s) \in Nat /\ k \in 1..Len(s)
        /\ k - 1 \in 0..Len(s) /\ k \in 0..Len(s)
    BY LenProperties
  <1>2. /\ left \in Seq(S) /\ Len(left) = k - 1
        /\ \A i \in 1..(k - 1) : left[i] = s[i]
    BY <1>1, SplitSeq
  <1>3. /\ right \in Seq(S) /\ Len(right) = Len(s) - k
        /\ \A i \in 1..(Len(s) - k) : right[i] = s[k + i]
    BY <1>1, SplitSeq
  <1> HIDE DEF left, right
  <1>4. /\ left \o right \in Seq(S)
        /\ Len(left \o right) = Len(left) + Len(right)
        /\ \A i \in 1..(Len(left) + Len(right)) :
               (left \o right)[i] = IF i <= Len(left) THEN left[i] ELSE right[i - Len(left)]
    BY <1>2, <1>3, ConcatProperties
  <1>5. Len(left) + Len(right) = Len(s) - 1
    BY <1>1, <1>2, <1>3
  <1>6. ASSUME NEW i \in 1..(Len(s) - 1)
        PROVE  (left \o right)[i] = IF i < k THEN s[i] ELSE s[i + 1]
    <2>1. (left \o right)[i] = IF i <= Len(left) THEN left[i] ELSE right[i - Len(left)]
      BY <1>4, <1>5
    <2>2. CASE i < k
      <3>1. i \in 1..(k - 1) /\ i <= Len(left)
        BY <1>1, <1>2, <2>2
      <3> QED  BY <1>2, <2>1, <2>2, <3>1
    <2>3. CASE ~ (i < k)
      <3>1. /\ ~ (i <= Len(left)) /\ ~ (i < k)
            /\ i - Len(left) \in 1..(Len(s) - k) /\ k + (i - Len(left)) = i + 1
        BY <1>1, <1>2, <2>3
      <3> QED  BY <1>3, <2>1, <3>1
    <2> QED  BY <2>2, <2>3
  <1>7. RemoveAt(s, k) = left \o right
    BY DEF RemoveAt, left, right
  <1> QED  BY <1>4, <1>5, <1>6, <1>7

\* The elements of a list, of a list with one more, of a list in two parts.
LEMMA RangeFacts ==
    ASSUME NEW S, NEW s \in Seq(S)
    PROVE  /\ Range(<< >>) = {}
           /\ Range(s) = {s[i] : i \in 1..Len(s)} /\ Range(s) \subseteq S
           /\ \A e \in S : Range(Append(s, e)) = Range(s) \cup {e}
           /\ \A r \in Seq(S) : Range(s \o r) = Range(s) \cup Range(r)
           /\ \A n \in 0..Len(s) :
                  Range(s) = Range(SubSeq(s, 1, n)) \cup Range(SubSeq(s, n + 1, Len(s)))
           /\ s # << >> => Range(s) = {Head(s)} \cup Range(Tail(s))
  <1>1. /\ \A r \in Seq(S) : /\ Len(r) \in Nat /\ DOMAIN r = 1..Len(r)
                             /\ \A i \in 1..Len(r) : r[i] \in S
    BY LenProperties, ElementOfSeq
  <1>2. \A r \in Seq(S) : Range(r) = {r[i] : i \in 1..Len(r)}
    BY <1>1 DEF Range
  <1>3. Range(<< >>) = {}
    BY DEF Range
  <1>4. ASSUME NEW e \in S PROVE Range(Append(s, e)) = Range(s) \cup {e}
    <2>1. /\ Append(s, e) \in Seq(S) /\ Len(Append(s, e)) = Len(s) + 1
          /\ \A i \in 1..Len(s) : Append(s, e)[i] = s[i]
          /\ Append(s, e)[Len(s) + 1] = e
      BY AppendProperties
    <2>2. 1..(Len(s) + 1) = 1..Len(s) \cup {Len(s) + 1}
      BY <1>1
    <2>3. Range(Append(s, e)) = {Append(s, e)[i] : i \in 1..(Len(s) + 1)}
      BY <1>2, <2>1
    <2> QED  BY <1>2, <2>1, <2>2, <2>3
  <1>5. ASSUME NEW r \in Seq(S) PROVE Range(s \o r) = Range(s) \cup Range(r)
    <2>1. /\ s \o r \in Seq(S) /\ Len(s \o r) = Len(s) + Len(r)
          /\ \A i \in 1..(Len(s) + Len(r)) :
                 (s \o r)[i] = IF i <= Len(s) THEN s[i] ELSE r[i - Len(s)]
      BY ConcatProperties
    <2>2. \A i \in 1..(Len(s) + Len(r)) : (s \o r)[i] \in Range(s) \cup Range(r)
      <3> SUFFICES ASSUME NEW i \in 1..(Len(s) + Len(r))
                   PROVE  (s \o r)[i] \in Range(s) \cup Range(r)
        OBVIOUS
      <3>1. CASE i <= Len(s)
        BY <1>1, <1>2, <2>1, <3>1
      <3>2. CASE ~ (i <= Len(s))
        <4>1. i - Len(s) \in 1..Len(r)
          BY <1>1, <3>2
        <4> QED  BY <1>2, <2>1, <3>2, <4>1
      <3> QED  BY <3>1, <3>2
    <2>3. \A i \in 1..Len(s) : s[i] \in Range(s \o r)
      <3> SUFFICES ASSUME NEW i \in 1..Len(s) PROVE s[i] \in Range(s \o r)
        OBVIOUS
      <3>1. i \in 1..(Len(s) + Len(r)) /\ i <= Len(s)
        BY <1>1
      <3> QED  BY <1>2, <2>1, <3>1
    <2>4. \A i \in 1..Len(r) : r[i] \in Range(s \o r)
      <3> SUFFICES ASSUME NEW i \in 1..Len(r) PROVE r[i] \in Range(s \o r)
        OBVIOUS
      <3>1. /\ Len(s) + i \in 1..(Len(s) + Len(r)) /\ ~ (Len(s) + i <= Len(s))
            /\ (Len(s) + i) - Len(s) = i
        BY <1>1
      <3>2. (s \o r)[Len(s) + i] = r[i]
        BY <2>1, <3>1
      <3> QED  BY <1>2, <2>1, <3>1, <3>2
    <2>5. Range(s \o r) = {(s \o r)[i] : i \in 1..(Len(s) + Len(r))}
      BY <1>2, <2>1
    <2>6. Range(s \o r) \subseteq Range(s) \cup Range(r)
      BY <2>2, <2>5
    <2>7. Range(s) \subseteq Range(s \o r)
      BY <1>2, <2>3
    <2>8. Range(r) \subseteq Range(s \o r)
      BY <1>2, <2>4
    <2> QED  BY <2>6, <2>7, <2>8
  <1>6. ASSUME NEW n \in 0..Len(s)
        PROVE  Range(s) = Range(SubSeq(s, 1, n)) \cup Range(SubSeq(s, n + 1, Len(s)))
    <2> DEFINE left == SubSeq(s, 1, n)
               right == SubSeq(s, n + 1, Len(s))
    <2>1. /\ left \in Seq(S) /\ Len(left) = n /\ \A i \in 1..n : left[i] = s[i]
          /\ right \in Seq(S) /\ Len(right) = Len(s) - n
          /\ \A i \in 1..(Len(s) - n) : right[i] = s[n + i]
      BY SplitSeq
    <2> HIDE DEF left, right
    <2>2. \A i \in 1..Len(s) : s[i] \in Range(left) \cup Range(right)
      <3> SUFFICES ASSUME NEW i \in 1..Len(s) PROVE s[i] \in Range(left) \cup Range(right)
        OBVIOUS
      <3>1. CASE i <= n
        <4>1. i \in 1..n
          BY <1>1, <3>1
        <4> QED  BY <1>2, <2>1, <4>1
      <3>2. CASE ~ (i <= n)
        <4>1. i - n \in 1..(Len(s) - n) /\ n + (i - n) = i
          BY <1>1, <3>2
        <4>2. right[i - n] = s[i]
          BY <2>1, <4>1
        <4> QED  BY <1>2, <2>1, <4>1, <4>2
      <3> QED  BY <3>1, <3>2
    <2>3. \A i \in 1..n : left[i] \in Range(s)
      <3>1. \A i \in 1..n : i \in 1..Len(s)
        BY <1>1
      <3> QED  BY <1>2, <2>1, <3>1
    <2>4. \A i \in 1..(Len(s) - n) : right[i] \in Range(s)
      <3>1. \A i \in 1..(Len(s) - n) : n + i \in 1..Len(s)
        BY <1>1
      <3> QED  BY <1>2, <2>1, <3>1
    <2>5. Range(left) = {left[i] : i \in 1..n} /\ Range(right) = {right[i] : i \in 1..(Len(s) - n)}
      BY <1>2, <2>1
    <2>6. Range(s) \subseteq Range(left) \cup Range(right)
      BY <1>2, <2>2
    <2>7. Range(left) \subseteq Range(s)
      BY <2>3, <2>5
    <2>8. Range(right) \subseteq Range(s)
      BY <2>4, <2>5
    <2>9. Range(s) = Range(left) \cup Range(right)
      BY <2>6, <2>7, <2>8
    <2> QED  BY <2>9 DEF left, right
  <1>7. ASSUME s # << >> PROVE Range(s) = {Head(s)} \cup Range(Tail(s))
    <2>1. /\ Head(s) = s[1] /\ Tail(s) \in Seq(S) /\ Len(Tail(s)) = Len(s) - 1
          /\ \A i \in 1..Len(Tail(s)) : Tail(s)[i] = s[i + 1]
      BY <1>7, HeadTailProperties
    <2>2. Len(s) >= 1
      BY <1>1, <1>7, EmptySeq
    <2>3. \A i \in 1..Len(s) : s[i] \in {Head(s)} \cup Range(Tail(s))
      <3> SUFFICES ASSUME NEW i \in 1..Len(s), i # 1 PROVE s[i] \in Range(Tail(s))
        BY <2>1
      <3>1. i - 1 \in 1..Len(Tail(s)) /\ (i - 1) + 1 = i
        BY <1>1, <2>1
      <3>2. Tail(s)[i - 1] = s[i]
        BY <2>1, <3>1
      <3> QED  BY <1>2, <2>1, <3>1, <3>2
    <2>4. \A i \in 1..(Len(s) - 1) : Tail(s)[i] \in Range(s)
      <3>1. \A i \in 1..(Len(s) - 1) : i + 1 \in 1..Len(s)
        BY <1>1
      <3> QED  BY <1>2, <2>1, <3>1
    <2>5. Head(s) \in Range(s)
      <3>1. 1 \in 1..Len(s)
        BY <1>1, <2>2
      <3> QED  BY <1>2, <2>1, <3>1
    <2>6. Range(Tail(s)) = {Tail(s)[i] : i \in 1..(Len(s) - 1)}
      BY <1>2, <2>1
    <2> QED  BY <1>2, <2>3, <2>4, <2>5, <2>6
  <1> QED  BY <1>1, <1>2, <1>3, <1>4, <1>5, <1>6, <1>7

-----------------------------------------------------------------------------
(* The cache                                                                *)

\* An id moved to the end of the cache is there, and no other has gone.
LEMMA TouchKeeps ==
    ASSUME NEW cache \in Seq(Ids), NEW id \in Ids
    PROVE  /\ Touch(cache, id) \in Seq(Ids)
           /\ Range(Touch(cache, id)) = Range(cache) \cup {id}
           /\ Len(Touch(cache, id)) \in Nat /\ Len(Touch(cache, id)) >= 1
           /\ Touch(cache, id)[Len(Touch(cache, id))] = id
  <1>1. DOMAIN cache = 1..Len(cache) /\ Len(cache) \in Nat
    BY LenProperties
  <1> DEFINE w == Without(cache, id)
  <1>2. w \in Seq(Ids) /\ Range(w) \subseteq Range(cache) /\ Range(cache) \subseteq Range(w) \cup {id}
    <2>1. CASE ~ Seen(cache, id)
      BY <2>1 DEF Without
    <2>2. CASE Seen(cache, id)
      <3> DEFINE k == CHOOSE i \in DOMAIN cache : cache[i] = id
      <3>1. k \in DOMAIN cache /\ cache[k] = id
        BY <2>2 DEF Seen
      <3>2. w = RemoveAt(cache, k)
        BY <2>2 DEF Without
      <3> HIDE DEF k, w
      <3>3. /\ w \in Seq(Ids) /\ Len(w) = Len(cache) - 1
            /\ \A i \in 1..(Len(cache) - 1) : w[i] = IF i < k THEN cache[i] ELSE cache[i + 1]
        BY <3>1, <3>2, RemoveAtProperties
      <3>4. /\ Range(w) = {w[i] : i \in 1..(Len(cache) - 1)}
            /\ Range(cache) = {cache[i] : i \in 1..Len(cache)}
        BY <3>3, RangeFacts
      <3>5. ASSUME NEW i \in 1..(Len(cache) - 1) PROVE w[i] \in Range(cache)
        <4>1. i \in 1..Len(cache) /\ i + 1 \in 1..Len(cache)
          BY <1>1
        <4> QED  BY <3>3, <3>4, <4>1
      <3>6. ASSUME NEW i \in 1..Len(cache), i # k PROVE cache[i] \in Range(w)
        <4>1. CASE i < k
          <5>1. i \in 1..(Len(cache) - 1)
            BY <1>1, <3>1, <4>1
          <5> QED  BY <3>3, <3>4, <4>1, <5>1
        <4>2. CASE ~ (i < k)
          <5>1. i - 1 \in 1..(Len(cache) - 1) /\ ~ (i - 1 < k) /\ (i - 1) + 1 = i
            BY <1>1, <3>1, <3>6, <4>2
          <5>2. w[i - 1] = cache[i]
            BY <3>3, <5>1
          <5> QED  BY <3>4, <5>1, <5>2
        <4> QED  BY <4>1, <4>2
      <3>7. Range(w) \subseteq Range(cache)
        BY <3>4, <3>5
      <3>8. Range(cache) \subseteq Range(w) \cup {id}
        BY <3>1, <3>4, <3>6
      <3> QED  BY <3>3, <3>7, <3>8
    <2> QED  BY <2>1, <2>2
  <1> HIDE DEF w
  <1>3. Range(Append(w, id)) = Range(w) \cup {id}
    BY <1>2, RangeFacts
  <1>4. /\ Append(w, id) \in Seq(Ids) /\ Len(Append(w, id)) = Len(w) + 1
        /\ Append(w, id)[Len(w) + 1] = id /\ Len(w) \in Nat
    BY <1>2, AppendProperties, LenProperties
  <1>5. Len(w) + 1 \in Nat /\ Len(w) + 1 >= 1
    BY <1>4
  <1>6. Range(Append(w, id)) = Range(cache) \cup {id}
    <2>1. Range(Append(w, id)) \subseteq Range(cache) \cup {id}
      BY <1>2, <1>3
    <2>2. id \in Range(Append(w, id)) /\ Range(cache) \subseteq Range(Append(w, id))
      BY <1>2, <1>3
    <2> QED  BY <2>1, <2>2
  <1>7. Touch(cache, id) = Append(w, id)
    BY DEF Touch, w
  <1> QED  BY <1>4, <1>5, <1>6, <1>7

\* An id remembered is there, and whatever else is there was there before.
LEMMA RememberKeeps ==
    ASSUME NEW cache \in Seq(Ids), NEW id \in Ids
    PROVE  /\ Remember(cache, id) \in Seq(Ids)
           /\ Range(Remember(cache, id)) \subseteq Range(cache) \cup {id}
           /\ id \in Range(Remember(cache, id))
  <1> DEFINE grown == Touch(cache, id)
             n == IF Len(grown) > DedupCapacity THEN Len(grown) - DedupCapacity ELSE 0
  <1>1. /\ grown \in Seq(Ids) /\ Range(grown) = Range(cache) \cup {id}
        /\ Len(grown) \in Nat /\ Len(grown) >= 1 /\ grown[Len(grown)] = id
    BY TouchKeeps
  <1>2. Remember(cache, id) = SubSeq(grown, n + 1, Len(grown))
    <2>1. n + 1 = IF Len(grown) > DedupCapacity THEN Len(grown) - DedupCapacity + 1 ELSE 1
      BY <1>1, LimitsAssumption
    <2> QED  BY <2>1 DEF Remember
  <1> HIDE DEF grown
  <1>3. n \in 0..Len(grown) /\ Len(grown) - n \in 1..Len(grown) /\ n + (Len(grown) - n) = Len(grown)
    <2> DEFINE l == Len(grown)
    <2>1. l \in Nat /\ l >= 1 /\ DedupCapacity \in Nat /\ DedupCapacity >= 1
      BY <1>1, LimitsAssumption
    <2> HIDE DEF l
    <2>2. CASE l > DedupCapacity
      <3>1. l - DedupCapacity \in 0..l /\ l - (l - DedupCapacity) \in 1..l
            /\ (l - DedupCapacity) + (l - (l - DedupCapacity)) = l
        BY <2>1, <2>2
      <3> QED  BY <2>2, <3>1 DEF l
    <2>3. CASE ~ (l > DedupCapacity)
      <3>1. 0 \in 0..l /\ l - 0 \in 1..l /\ 0 + (l - 0) = l
        BY <2>1
      <3> QED  BY <2>3, <3>1 DEF l
    <2> QED  BY <2>2, <2>3
  <1> HIDE DEF n
  <1> DEFINE kept == SubSeq(grown, n + 1, Len(grown))
  <1>4. /\ kept \in Seq(Ids) /\ Len(kept) = Len(grown) - n
        /\ \A i \in 1..(Len(grown) - n) : kept[i] = grown[n + i]
    BY <1>1, <1>3, SplitSeq
  <1>5. Range(grown) = Range(SubSeq(grown, 1, n)) \cup Range(kept)
    BY <1>1, <1>3, RangeFacts
  <1> HIDE DEF kept
  <1>6. id \in Range(kept)
    <2>1. Len(grown) - n \in 1..(Len(grown) - n)
      BY <1>3
    <2>2. kept[Len(grown) - n] = grown[n + (Len(grown) - n)]
      BY <1>4, <2>1
    <2>3. kept[Len(grown) - n] = id
      BY <1>1, <1>3, <2>2
    <2>4. Range(kept) = {kept[i] : i \in 1..(Len(grown) - n)}
      BY <1>4, RangeFacts
    <2> QED  BY <2>1, <2>3, <2>4
  <1>7. Range(kept) \subseteq Range(cache) \cup {id}
    BY <1>1, <1>5
  <1> QED  BY <1>2, <1>4, <1>6, <1>7 DEF kept

LEMMA SeenIsInRange ==
    ASSUME NEW cache \in Seq(Ids), NEW id
    PROVE  Seen(cache, id) <=> id \in Range(cache)
  BY DEF Seen, Range

-----------------------------------------------------------------------------
(* The loop over the lines of a batch                                       *)

IdsOf(events) == {events[i].id : i \in 1..Len(events)}

LoopState ==
    [end : {"", "limit", "quota", "error"}, seen : Nat, cache : Seq(Ids), left : Nat,
     todo : Seq(Events), shed : SUBSET Events, rejected : Nat, lost : SUBSET Ids]

\* After n lines, started on the cache dedup.  What is remembered was remembered
\* before or is about to be published; what is about to be published is remembered
\* and was not before, nor is it published twice, unless the cache lost it on the way.
LoopOK(lines, n, st) ==
    /\ st \in LoopState
    /\ \A e \in st.shed : e.kind # "signal"
    /\ st.seen <= n
    /\ st.end = "limit" => n > MaxBatchEvents
    /\ Range(st.cache) \subseteq Range(dedup) \cup IdsOf(st.todo)
    /\ Range(dedup) \cup IdsOf(st.todo) \subseteq Range(st.cache) \cup st.lost
    /\ Range(dedup) \cap IdsOf(st.todo) \subseteq st.lost
    /\ \A i, j \in 1..Len(st.todo) :
           i # j /\ st.todo[i].id = st.todo[j].id => st.todo[i].id \in st.lost
    /\ \A k \in 1..Len(st.todo) : \E i \in 1..n : st.todo[k] = lines[i]
    /\ st.end = "" => \A i \in 1..n :
           lines[i].kind = "signal" => lines[i].id \in Range(dedup) \cup IdsOf(st.todo)
    /\ st.end = "quota" => \E q \in 1..n :
           /\ lines[q].kind = "signal"
           /\ \A k \in 1..Len(st.todo) : \E i \in 1..n : i # q /\ st.todo[k] = lines[i]
    /\ st.end = "error" => \E i \in 1..n : lines[i].kind = "broken"

LEMMA IdsOfEvents ==
    ASSUME NEW t \in Seq(Events)
    PROVE  /\ IdsOf(<< >>) = {}
           /\ IdsOf(t) \subseteq Ids
           /\ \A e \in Events : IdsOf(Append(t, e)) = IdsOf(t) \cup {e.id}
           /\ IdsOf(t) = {e.id : e \in Range(t)}
  <1>1. Len(t) \in Nat /\ \A i \in 1..Len(t) : t[i] \in Events
    BY LenProperties, ElementOfSeq
  <1>2. IdsOf(<< >>) = {}
    <2>1. Len(<< >>) = 0
      BY EmptySeq
    <2>2. 1..0 = {}
      OBVIOUS
    <2> QED  BY <2>1, <2>2 DEF IdsOf
  <1>3. IdsOf(t) \subseteq Ids
    BY <1>1 DEF IdsOf, Ids
  <1>4. ASSUME NEW e \in Events PROVE IdsOf(Append(t, e)) = IdsOf(t) \cup {e.id}
    <2>1. /\ Len(Append(t, e)) = Len(t) + 1
          /\ \A i \in 1..Len(t) : Append(t, e)[i] = t[i]
          /\ Append(t, e)[Len(t) + 1] = e
      BY AppendProperties
    <2>2. 1..(Len(t) + 1) = 1..Len(t) \cup {Len(t) + 1}
      BY <1>1
    <2>3. IdsOf(Append(t, e)) = {Append(t, e)[i].id : i \in 1..Len(t) \cup {Len(t) + 1}}
      BY <2>1, <2>2 DEF IdsOf
    <2> QED  BY <2>1, <2>3 DEF IdsOf
  <1>5. IdsOf(t) = {e.id : e \in Range(t)}
    <2>1. Range(t) = {t[i] : i \in 1..Len(t)}
      BY RangeFacts
    <2> QED  BY <2>1 DEF IdsOf
  <1> QED  BY <1>2, <1>3, <1>4, <1>5

\* The recursion is well founded: each line continues where the one before stopped.
LEMMA LoopSteps ==
    ASSUME NEW lines \in Seq(Events), NEW left
    PROVE  /\ Loop(lines, left)[0] = LoopStart(left)
           /\ \A n \in 1..Len(lines) :
                  Loop(lines, left)[n] = AdmitLine(Loop(lines, left)[n - 1], lines[n])
  <1>0. Len(lines) \in Nat
    BY LenProperties
  <1> DEFINE start == LoopStart(left)
             Body(f, n) == IF n = 0 THEN start ELSE AdmitLine(f[n - 1], lines[n])
             Runs(f, m) == f = [n \in 0..m |-> Body(f, n)]
             Stuck == {m \in 0..Len(lines) : ~ \E f : Runs(f, m)}
  <1>1. Stuck = {}
    <2> SUFFICES ASSUME Stuck # {} PROVE FALSE
      OBVIOUS
    <2>1. Stuck \in SUBSET Nat
      BY <1>0
    <2>2. PICK m \in Stuck : \A n \in Stuck : m <= n
      BY <2>1, SmallestNumber
    <2>3. m \in 0..Len(lines) /\ m \in Nat /\ ~ \E f : Runs(f, m)
      BY <1>0, <2>2
    <2>4. CASE m = 0
      <3> DEFINE f == [n \in 0..0 |-> start]
      <3>1. f = [n \in 0..0 |-> Body(f, n)]
        <4>1. \A n \in 0..0 : Body(f, n) = start
          OBVIOUS
        <4> QED  BY <4>1
      <3> HIDE DEF f
      <3> QED  BY <2>3, <2>4, <3>1
    <2>5. CASE m # 0
      <3>1. m - 1 \in 0..Len(lines) /\ m - 1 \in Nat /\ ~ (m <= m - 1)
        BY <1>0, <2>3, <2>5
      <3>2. m - 1 \notin Stuck
        BY <2>2, <3>1
      <3>3. PICK f : Runs(f, m - 1)
        BY <3>1, <3>2
      <3> DEFINE g == [n \in 0..m |-> IF n = m THEN AdmitLine(f[m - 1], lines[m]) ELSE f[n]]
      <3>4. \A n \in 0..(m - 1) : f[n] = Body(f, n)
        BY <3>3
      <3>5. \A n \in 0..m : n # m => n \in 0..(m - 1) /\ (n # 0 => n - 1 \in 0..m /\ n - 1 # m)
        BY <2>3
      <3>6. ASSUME NEW n \in 0..m PROVE g[n] = Body(g, n)
        <4>1. CASE n = m
          <5>1. g[m - 1] = f[m - 1]
            BY <2>3, <3>1
          <5>2. g[n] = AdmitLine(f[m - 1], lines[m])
            BY <4>1
          <5> QED  BY <2>5, <4>1, <5>1, <5>2
        <4>2. CASE n # m
          <5>1. g[n] = f[n] /\ f[n] = Body(f, n)
            BY <3>4, <3>5, <4>2
          <5>2. CASE n = 0
            BY <5>1, <5>2
          <5>3. CASE n # 0
            <6>1. n - 1 \in 0..m /\ n - 1 # m
              BY <3>5, <4>2, <5>3
            <6>2. g[n - 1] = f[n - 1]
              BY <6>1
            <6> QED  BY <5>1, <5>3, <6>2
          <5> QED  BY <5>2, <5>3
        <4> QED  BY <4>1, <4>2
      <3>7. g = [n \in 0..m |-> g[n]]
        OBVIOUS
      <3> HIDE DEF g, Body
      <3>8. Runs(g, m)
        BY <3>6, <3>7
      <3> QED  BY <2>3, <3>8
    <2> QED  BY <2>4, <2>5
  <1>2. \E f : Runs(f, Len(lines))
    BY <1>0, <1>1
  <1>3. Runs(Loop(lines, left), Len(lines))
    BY <1>2 DEF Loop
  <1> DEFINE l == Loop(lines, left)
  <1> HIDE DEF l
  <1>4. \A n \in 0..Len(lines) : l[n] = Body(l, n)
    BY <1>3 DEF l
  <1>5. l[0] = start
    BY <1>0, <1>4
  <1>6. ASSUME NEW n \in 1..Len(lines) PROVE l[n] = AdmitLine(l[n - 1], lines[n])
    <2>1. n \in 0..Len(lines) /\ n # 0
      BY <1>0
    <2> QED  BY <1>4, <2>1
  <1> QED  BY <1>5, <1>6 DEF l

\* A list of events with one more.
LEMMA AppendEvent ==
    ASSUME NEW t \in Seq(Events), NEW e \in Events
    PROVE  /\ Append(t, e) \in Seq(Events)
           /\ Len(Append(t, e)) = Len(t) + 1
           /\ \A k \in 1..Len(t) : Append(t, e)[k] = t[k]
           /\ Append(t, e)[Len(t) + 1] = e
           /\ Len(t) \in Nat
           /\ IdsOf(Append(t, e)) = IdsOf(t) \cup {e.id}
  <1>1. /\ Append(t, e) \in Seq(Events)
        /\ Len(Append(t, e)) = Len(t) + 1
        /\ \A k \in 1..Len(t) : Append(t, e)[k] = t[k]
        /\ Append(t, e)[Len(t) + 1] = e
    BY AppendProperties
  <1>2. Len(t) \in Nat
    BY LenProperties
  <1>3. IdsOf(Append(t, e)) = IdsOf(t) \cup {e.id}
    BY IdsOfEvents
  <1> QED  BY <1>1, <1>2, <1>3

\* A list of m with one more, and what a line takes from a bucket.
LEMMA OneMore ==
    ASSUME NEW m \in Nat
    PROVE  \A k \in 1..(m + 1) : k \in 1..m \/ k = m + 1
  OBVIOUS

LEMMA Spending ==
    ASSUME NEW left \in Nat, NEW cost \in Nat, left >= cost
    PROVE  left - cost \in Nat
  OBVIOUS

LEMMA Counting ==
    ASSUME NEW n \in Nat, NEW seen \in Nat, seen <= n - 1
    PROVE  seen + 1 \in Nat /\ seen + 1 <= n /\ seen <= n
  OBVIOUS

\* The lines up to the n-th are those before it, and itself.
LEMMA LinesUpTo ==
    ASSUME NEW lines \in Seq(Events), NEW n \in 1..Len(lines)
    PROVE  /\ Len(lines) \in Nat /\ n \in Nat /\ n - 1 \in Nat /\ n - 1 <= n
           /\ n \in 1..n /\ n \notin 1..(n - 1)
           /\ \A i \in 1..n : i \in 1..(n - 1) \/ i = n
           /\ \A i \in 1..(n - 1) : i \in 1..n
  <1>1. Len(lines) \in Nat
    BY LenProperties
  <1>2. n \in Nat /\ n >= 1
    BY <1>1
  <1>3. n - 1 \in Nat /\ n - 1 <= n /\ n \in 1..n /\ n \notin 1..(n - 1)
    BY <1>2
  <1>4. \A i \in 1..n : i \in 1..(n - 1) \/ i = n
    BY <1>2
  <1>5. \A i \in 1..(n - 1) : i \in 1..n
    BY <1>2
  <1> QED  BY <1>1, <1>2, <1>3, <1>4, <1>5

\* Before the first line.
LEMMA LoopStartOK ==
    ASSUME NEW lines \in Seq(Events), NEW left \in Nat, dedup \in Seq(Ids)
    PROVE  LoopOK(lines, 0, LoopStart(left))
  <1> DEFINE st == LoopStart(left)
  <1>1. << >> \in Seq(Events) /\ Len(<< >>) = 0
    BY EmptySeq
  <1>2. st \in LoopState
    BY <1>1 DEF LoopState, LoopStart
  <1>3. /\ st.end = "" /\ st.seen = 0 /\ st.cache = dedup /\ st.todo = << >>
        /\ st.shed = {} /\ st.lost = {}
    BY DEF LoopStart
  <1>4. IdsOf(st.todo) = {} /\ Len(st.todo) = 0
    BY <1>1, <1>3, IdsOfEvents
  <1> HIDE DEF st
  <1>5. 1..0 = {}
    OBVIOUS
  <1>6. \A k \in 1..Len(st.todo) : FALSE
    BY <1>4, <1>5
  <1>7. \A i \in 1..0 : FALSE
    BY <1>5
  <1>8. /\ st.end # "limit" /\ st.end # "quota" /\ st.end # "error" /\ st.seen <= 0
        /\ \A e \in st.shed : e.kind # "signal"
        /\ Range(st.cache) \subseteq Range(dedup) \cup IdsOf(st.todo)
        /\ Range(dedup) \cup IdsOf(st.todo) \subseteq Range(st.cache) \cup st.lost
        /\ Range(dedup) \cap IdsOf(st.todo) \subseteq st.lost
    <2>1. /\ st.end # "limit" /\ st.end # "quota" /\ st.end # "error"
          /\ \A e \in st.shed : e.kind # "signal"
      BY <1>3
    <2>2. 0 <= 0
      OBVIOUS
    <2>3. st.seen <= 0
      BY <1>3, <2>2
    <2>4. Range(st.cache) = Range(dedup)
      BY <1>3
    <2> HIDE <1>3
    <2> QED  BY <1>4, <2>1, <2>3, <2>4
  <1>9. LoopOK(lines, 0, st)
    BY <1>2, <1>6, <1>7, <1>8 DEF LoopOK
  <1> QED  BY <1>9 DEF st

\* A line that leaves what is to be published alone.
LEMMA QuietLineOK ==
    ASSUME NEW lines \in Seq(Events), NEW n \in 1..Len(lines), dedup \in Seq(Ids),
           NEW st, LoopOK(lines, n - 1, st),
           NEW new \in LoopState,
           new.todo = st.todo, new.lost = st.lost,
           Range(new.cache) = Range(st.cache),
           \A e \in new.shed : e.kind # "signal",
           new.seen <= n,
           new.end = "limit" => n > MaxBatchEvents,
           new.end = "" => /\ st.end = ""
                           /\ lines[n].kind = "signal" => lines[n].id \in Range(st.cache),
           new.end = "quota" => st.end = "quota" \/ lines[n].kind = "signal",
           new.end = "error" => st.end = "error" \/ lines[n].kind = "broken"
    PROVE  LoopOK(lines, n, new)
  <1>1. /\ n \in Nat /\ n - 1 \in Nat /\ n - 1 <= n /\ n \in 1..n /\ n \notin 1..(n - 1)
        /\ \A i \in 1..n : i \in 1..(n - 1) \/ i = n
    BY LinesUpTo
  <1>2. \A i \in 1..(n - 1) : i \in 1..n
    BY LinesUpTo
  <1>3. \A k \in 1..Len(st.todo) : \E i \in 1..(n - 1) : st.todo[k] = lines[i]
    BY DEF LoopOK
  <1>4. \A k \in 1..Len(new.todo) : \E i \in 1..n : new.todo[k] = lines[i]
    BY <1>2, <1>3
  <1>5. ASSUME new.end = "", NEW i \in 1..n, lines[i].kind = "signal"
        PROVE  lines[i].id \in Range(dedup) \cup IdsOf(new.todo)
    <2>1. CASE i \in 1..(n - 1)
      BY <1>5, <2>1 DEF LoopOK
    <2>2. CASE i = n
      BY <1>5, <2>2 DEF LoopOK
    <2> QED  BY <1>1, <2>1, <2>2
  <1>6. ASSUME new.end = "quota"
        PROVE  \E q \in 1..n :
                   /\ lines[q].kind = "signal"
                   /\ \A k \in 1..Len(new.todo) : \E i \in 1..n : i # q /\ new.todo[k] = lines[i]
    <2>1. CASE st.end = "quota"
      <3>1. PICK q \in 1..(n - 1) :
                   /\ lines[q].kind = "signal"
                   /\ \A k \in 1..Len(st.todo) :
                          \E i \in 1..(n - 1) : i # q /\ st.todo[k] = lines[i]
        BY <2>1 DEF LoopOK
      <3>2. q \in 1..n
        BY <1>2
      <3>3. \A k \in 1..Len(new.todo) : \E i \in 1..n : i # q /\ new.todo[k] = lines[i]
        BY <1>2, <3>1
      <3> QED  BY <3>1, <3>2, <3>3
    <2>2. CASE lines[n].kind = "signal"
      <3>1. \A k \in 1..Len(new.todo) : \E i \in 1..n : i # n /\ new.todo[k] = lines[i]
        BY <1>1, <1>2, <1>3
      <3> QED  BY <1>1, <2>2, <3>1
    <2> QED  BY <1>6, <2>1, <2>2
  <1>7. /\ Range(new.cache) \subseteq Range(dedup) \cup IdsOf(new.todo)
        /\ Range(dedup) \cup IdsOf(new.todo) \subseteq Range(new.cache) \cup new.lost
        /\ Range(dedup) \cap IdsOf(new.todo) \subseteq new.lost
        /\ \A i, j \in 1..Len(new.todo) :
               i # j /\ new.todo[i].id = new.todo[j].id => new.todo[i].id \in new.lost
    BY DEF LoopOK
  <1>8. ASSUME new.end = "error" PROVE \E i \in 1..n : lines[i].kind = "broken"
    <2>1. CASE st.end = "error"
      BY <1>2, <2>1 DEF LoopOK
    <2>2. CASE lines[n].kind = "broken"
      BY <1>1, <2>2
    <2> QED  BY <1>8, <2>1, <2>2
  <1> QED  BY <1>4, <1>5, <1>6, <1>7, <1>8 DEF LoopOK

\* A line admitted.
LEMMA AdmittedOK ==
    ASSUME NEW lines \in Seq(Events), NEW n \in 1..Len(lines), dedup \in Seq(Ids),
           NEW st, LoopOK(lines, n - 1, st), st.end = "",
           ~ Seen(st.cache, lines[n].id), st.left >= Cost(lines[n])
    PROVE  LoopOK(lines, n, Admitted(st, lines[n]))
  <1> DEFINE e == lines[n]
             new == Admitted(st, e)
             kept == Remember(st.cache, e.id)
  <1>1. /\ n \in Nat /\ n - 1 \in Nat /\ n - 1 <= n /\ n \in 1..n /\ n \notin 1..(n - 1)
        /\ \A i \in 1..n : i \in 1..(n - 1) \/ i = n
    BY LinesUpTo
  <1>2. \A i \in 1..(n - 1) : i \in 1..n
    BY LinesUpTo
  <1>3. e \in Events /\ e.id \in Ids
    BY ElementOfSeq DEF Ids
  <1>4. /\ st \in LoopState /\ st.seen \in Nat /\ st.seen <= n - 1 /\ st.left \in Nat
        /\ st.cache \in Seq(Ids) /\ st.todo \in Seq(Events) /\ st.lost \in SUBSET Ids
    BY DEF LoopOK, LoopState
  <1>5. /\ kept \in Seq(Ids) /\ Range(kept) \subseteq Range(st.cache) \cup {e.id}
        /\ e.id \in Range(kept)
    BY <1>3, <1>4, RememberKeeps
  <1>6. e.id \notin Range(st.cache) /\ Range(st.cache) \subseteq Ids
    <2>1. e.id \notin Range(st.cache)
      BY <1>4, SeenIsInRange
    <2>2. Range(st.cache) \subseteq Ids
      BY <1>4, RangeFacts
    <2> QED  BY <2>1, <2>2
  <1>7. /\ Append(st.todo, e) \in Seq(Events)
        /\ Len(Append(st.todo, e)) = Len(st.todo) + 1
        /\ \A k \in 1..Len(st.todo) : Append(st.todo, e)[k] = st.todo[k]
        /\ Append(st.todo, e)[Len(st.todo) + 1] = e
        /\ Len(st.todo) \in Nat
        /\ IdsOf(Append(st.todo, e)) = IdsOf(st.todo) \cup {e.id}
    BY <1>3, <1>4, AppendEvent
  <1>8. st.left - Cost(e) \in Nat /\ st.seen + 1 \in Nat /\ st.seen + 1 <= n
    <2>1. Cost(e) \in Nat /\ st.left >= Cost(e)
      BY DEF Cost
    <2>2. st.left - Cost(e) \in Nat
      BY <1>4, <2>1, Spending
    <2>3. st.seen + 1 \in Nat /\ st.seen + 1 <= n
      BY <1>1, <1>4, Counting
    <2> QED  BY <2>2, <2>3
  <1> HIDE DEF e, kept
  <1>9. /\ new \in LoopState
        /\ new.end = "" /\ new.seen = st.seen + 1 /\ new.cache = kept
        /\ new.todo = Append(st.todo, e) /\ new.shed = st.shed
        /\ new.lost = st.lost \cup (Range(st.cache) \ Range(kept))
    <2>1. st.lost \cup (Range(st.cache) \ Range(kept)) \in SUBSET Ids
      BY <1>4, <1>6
    <2> QED  BY <1>4, <1>5, <1>7, <1>8, <2>1 DEF Admitted, LoopState, kept
  <1> HIDE DEF new
  <1>10. /\ \A k \in 1..Len(new.todo) : k \in 1..Len(st.todo) \/ k = Len(st.todo) + 1
         /\ new.todo[Len(st.todo) + 1] = e
         /\ \A k \in 1..Len(st.todo) : new.todo[k] = st.todo[k]
    <2>1. \A k \in 1..(Len(st.todo) + 1) : k \in 1..Len(st.todo) \/ k = Len(st.todo) + 1
      BY <1>7, OneMore
    <2>2. Len(new.todo) = Len(st.todo) + 1
      BY <1>7, <1>9
    <2> QED  BY <1>7, <1>9, <2>1, <2>2
  <1>11. Range(new.cache) \subseteq Range(dedup) \cup IdsOf(new.todo)
    BY <1>5, <1>7, <1>9 DEF LoopOK
  <1>12. Range(dedup) \cup IdsOf(new.todo) \subseteq Range(new.cache) \cup new.lost
    <2>1. Range(dedup) \cup IdsOf(st.todo) \subseteq Range(st.cache) \cup st.lost
      BY DEF LoopOK
    <2> QED  BY <1>5, <1>7, <1>9, <2>1
  <1>13. e.id \in Range(dedup) \cup IdsOf(st.todo) => e.id \in st.lost
    BY <1>6 DEF LoopOK
  <1>14. Range(dedup) \cap IdsOf(new.todo) \subseteq new.lost
    <2>1. Range(dedup) \cap IdsOf(st.todo) \subseteq st.lost
      BY DEF LoopOK
    <2> QED  BY <1>7, <1>9, <1>13, <2>1
  <1>15. ASSUME NEW i \in 1..Len(new.todo), NEW j \in 1..Len(new.todo),
                i # j, new.todo[i].id = new.todo[j].id
         PROVE  new.todo[i].id \in new.lost
    <2>1. ASSUME NEW k \in 1..Len(st.todo), st.todo[k].id = e.id PROVE e.id \in new.lost
      <3>1. e.id \in IdsOf(st.todo)
        BY <2>1 DEF IdsOf
      <3> QED  BY <1>9, <1>13, <3>1
    <2>2. CASE i \in 1..Len(st.todo) /\ j \in 1..Len(st.todo)
      <3>1. st.todo[i].id \in st.lost
        BY <1>10, <1>15, <2>2 DEF LoopOK
      <3> QED  BY <1>9, <1>10, <2>2, <3>1
    <2>3. CASE i = Len(st.todo) + 1
      <3>1. j \in 1..Len(st.todo)
        BY <1>10, <1>15, <2>3
      <3> QED  BY <1>10, <1>15, <2>1, <2>3, <3>1
    <2>4. CASE j = Len(st.todo) + 1
      <3>1. i \in 1..Len(st.todo)
        BY <1>10, <1>15, <2>4
      <3> QED  BY <1>10, <1>15, <2>1, <2>4, <3>1
    <2> QED  BY <1>10, <2>2, <2>3, <2>4
  <1>16. ASSUME NEW k \in 1..Len(new.todo) PROVE \E i \in 1..n : new.todo[k] = lines[i]
    <2>1. CASE k \in 1..Len(st.todo)
      <3>1. \E i \in 1..(n - 1) : st.todo[k] = lines[i]
        BY <2>1 DEF LoopOK
      <3> QED  BY <1>2, <1>10, <2>1, <3>1
    <2>2. CASE k = Len(st.todo) + 1
      BY <1>1, <1>10, <2>2 DEF e
    <2> QED  BY <1>10, <2>1, <2>2
  <1>17. ASSUME NEW i \in 1..n, lines[i].kind = "signal"
         PROVE  lines[i].id \in Range(dedup) \cup IdsOf(new.todo)
    <2>1. CASE i \in 1..(n - 1)
      <3>1. lines[i].id \in Range(dedup) \cup IdsOf(st.todo)
        BY <1>17, <2>1 DEF LoopOK
      <3> QED  BY <1>7, <1>9, <3>1
    <2>2. CASE i = n
      BY <1>7, <1>9, <2>2 DEF e
    <2> QED  BY <1>1, <2>1, <2>2
  <1>18. (\A x \in new.shed : x.kind # "signal") /\ new.seen <= n
    BY <1>8, <1>9 DEF LoopOK
  <1>19. LoopOK(lines, n, new)
    BY <1>9, <1>11, <1>12, <1>14, <1>15, <1>16, <1>17, <1>18 DEF LoopOK
  <1> QED  BY <1>19 DEF new, e

\* Each line keeps the loop's promises.
LEMMA AdmitLineOK ==
    ASSUME NEW lines \in Seq(Events), NEW n \in 1..Len(lines), dedup \in Seq(Ids),
           NEW st, LoopOK(lines, n - 1, st)
    PROVE  LoopOK(lines, n, AdmitLine(st, lines[n]))
  <1> DEFINE e == lines[n]
  <1>1. n \in Nat /\ n - 1 \in Nat /\ n - 1 <= n
    BY LinesUpTo
  <1>2. e \in Events /\ e.id \in Ids
    BY ElementOfSeq DEF Ids
  <1>3. /\ st \in LoopState /\ st.seen \in Nat /\ st.rejected \in Nat /\ st.left \in Nat
        /\ st.cache \in Seq(Ids) /\ st.shed \in SUBSET Events
        /\ st.end \in {"", "limit", "quota", "error"}
    BY DEF LoopOK, LoopState
  <1>4. /\ st.seen <= n - 1 /\ \A x \in st.shed : x.kind # "signal"
        /\ st.end = "limit" => n - 1 > MaxBatchEvents
    BY DEF LoopOK
  <1>5. /\ st.seen <= n /\ st.seen + 1 <= n /\ st.seen + 1 \in Nat /\ st.rejected + 1 \in Nat
        /\ n - 1 > MaxBatchEvents => n > MaxBatchEvents
        /\ st.seen >= MaxBatchEvents => n > MaxBatchEvents
    <2> DEFINE seen == st.seen
               rejected == st.rejected
               most == MaxBatchEvents
    <2>1. seen \in Nat /\ seen <= n - 1 /\ rejected \in Nat /\ most \in Nat
      BY <1>3, <1>4, LimitsAssumption
    <2> HIDE DEF seen, rejected, most
    <2>2. /\ seen <= n /\ seen + 1 <= n /\ seen + 1 \in Nat /\ rejected + 1 \in Nat
          /\ n - 1 > most => n > most
          /\ seen >= most => n > most
      BY <1>1, <2>1
    <2> QED  BY <2>2 DEF seen, rejected, most
  <1> HIDE DEF e
  <1>6. CASE st.end # ""
    <2>1. LoopOK(lines, n, st)
      BY <1>3, <1>4, <1>5, <1>6, QuietLineOK
    <2> QED  BY <1>6, <2>1 DEF AdmitLine
  <1>7. CASE st.end = "" /\ st.seen >= MaxBatchEvents
    <2> DEFINE new == [st EXCEPT !.end = "limit", !.rejected = @ + 1]
    <2>1. new \in LoopState
      BY <1>3, <1>5 DEF LoopState
    <2>2. /\ new.end = "limit" /\ new.seen = st.seen /\ new.cache = st.cache
          /\ new.todo = st.todo /\ new.shed = st.shed /\ new.lost = st.lost
      BY <1>3 DEF LoopState
    <2> HIDE DEF new
    <2>3. LoopOK(lines, n, new)
      BY <1>4, <1>5, <1>7, <2>1, <2>2, QuietLineOK
    <2> QED  BY <1>7, <2>3 DEF AdmitLine, new
  <1>8. CASE st.end = "" /\ ~ (st.seen >= MaxBatchEvents)
    <2>0. CASE e.kind = "broken"
      <3> DEFINE new == [st EXCEPT !.seen = @ + 1, !.end = "error"]
      <3>1. new \in LoopState
        BY <1>3, <1>5 DEF LoopState
      <3>2. /\ new.end = "error" /\ new.seen = st.seen + 1 /\ new.cache = st.cache
            /\ new.todo = st.todo /\ new.shed = st.shed /\ new.lost = st.lost
        BY <1>3 DEF LoopState
      <3> HIDE DEF new
      <3>3. LoopOK(lines, n, new)
        BY <1>4, <1>5, <2>0, <3>1, <3>2, QuietLineOK DEF e
      <3>4. AdmitLine(st, e) = new
        BY <1>8, <2>0 DEF AdmitLine, new
      <3> QED  BY <3>3, <3>4 DEF e
    <2>1. CASE e.kind = "malformed"
      <3> DEFINE new == Rejected(st)
      <3>1. new \in LoopState
        BY <1>3, <1>5 DEF LoopState, Rejected
      <3>2. /\ new.end = "" /\ new.seen = st.seen + 1 /\ new.cache = st.cache
            /\ new.todo = st.todo /\ new.shed = st.shed /\ new.lost = st.lost
        BY <1>3, <1>8 DEF LoopState, Rejected
      <3> HIDE DEF new
      <3>3. LoopOK(lines, n, new)
        BY <1>4, <1>5, <1>8, <2>1, <3>1, <3>2, QuietLineOK DEF e
      <3> QED  BY <1>8, <2>1, <3>3 DEF AdmitLine, new, e
    <2>2. CASE e.kind # "broken" /\ e.kind # "malformed" /\ Seen(st.cache, e.id)
      <3> DEFINE new == Duplicate(st, e)
      <3>1. e.id \in Range(st.cache)
        BY <1>3, <2>2, SeenIsInRange
      <3>2. Touch(st.cache, e.id) \in Seq(Ids) /\ Range(Touch(st.cache, e.id)) = Range(st.cache)
        <4> DEFINE cache == st.cache
                   id == e.id
        <4>1. cache \in Seq(Ids) /\ id \in Ids /\ id \in Range(cache)
          BY <1>2, <1>3, <3>1
        <4> HIDE DEF cache, id
        <4>2. Touch(cache, id) \in Seq(Ids) /\ Range(Touch(cache, id)) = Range(cache) \cup {id}
          BY <4>1, TouchKeeps
        <4>3. Range(cache) \cup {id} = Range(cache)
          BY <4>1
        <4> QED  BY <4>2, <4>3 DEF cache, id
      <3>3. new \in LoopState
        BY <1>3, <1>5, <3>2 DEF LoopState, Duplicate
      <3>4. /\ new.end = "" /\ new.seen = st.seen + 1 /\ new.cache = Touch(st.cache, e.id)
            /\ new.todo = st.todo /\ new.shed = st.shed /\ new.lost = st.lost
        BY <1>3, <1>8 DEF LoopState, Duplicate
      <3> HIDE DEF new
      <3>5. LoopOK(lines, n, new)
        BY <1>4, <1>5, <1>8, <3>1, <3>2, <3>3, <3>4, QuietLineOK DEF e
      <3> QED  BY <1>8, <2>2, <3>5 DEF AdmitLine, new, e
    <2>3. CASE /\ e.kind # "broken" /\ e.kind # "malformed" /\ ~ Seen(st.cache, e.id)
               /\ ~ ShouldAccept(e, st.left) \/ st.left < Cost(e)
               /\ ShouldAccept(e, st.left) => e.kind # "signal"
      <3> DEFINE new == Shed(st, e)
      <3>1. e.kind # "signal"
        BY <2>3 DEF ShouldAccept
      <3>2. new \in LoopState
        BY <1>2, <1>3, <1>5 DEF LoopState, Shed
      <3>3. /\ new.end = "" /\ new.seen = st.seen + 1 /\ new.cache = st.cache
            /\ new.todo = st.todo /\ new.shed = st.shed \cup {e} /\ new.lost = st.lost
        BY <1>3, <1>8 DEF LoopState, Shed
      <3> HIDE DEF new
      <3>4. \A x \in new.shed : x.kind # "signal"
        BY <1>4, <3>1, <3>3
      <3>5. LoopOK(lines, n, new)
        BY <1>5, <1>8, <3>1, <3>2, <3>3, <3>4, QuietLineOK DEF e
      <3>6. AdmitLine(st, e) = new
        BY <1>8, <2>3, <3>1 DEF AdmitLine, new
      <3> QED  BY <3>5, <3>6 DEF e
    <2>4. CASE /\ e.kind # "broken" /\ e.kind # "malformed" /\ ~ Seen(st.cache, e.id) /\ ShouldAccept(e, st.left)
               /\ st.left < Cost(e) /\ e.kind = "signal"
      <3> DEFINE new == [st EXCEPT !.end = "quota"]
      <3>1. new \in LoopState
        BY <1>3 DEF LoopState
      <3>2. /\ new.end = "quota" /\ new.seen = st.seen /\ new.cache = st.cache
            /\ new.todo = st.todo /\ new.shed = st.shed /\ new.lost = st.lost
        BY <1>3 DEF LoopState
      <3> HIDE DEF new
      <3>3. LoopOK(lines, n, new)
        BY <1>4, <1>5, <2>4, <3>1, <3>2, QuietLineOK DEF e
      <3>4. AdmitLine(st, e) = new
        BY <1>8, <2>4 DEF AdmitLine, new
      <3> QED  BY <3>3, <3>4 DEF e
    <2>5. CASE /\ e.kind # "broken" /\ e.kind # "malformed" /\ ~ Seen(st.cache, e.id) /\ ShouldAccept(e, st.left)
               /\ ~ (st.left < Cost(e))
      <3>1. st.left >= Cost(e)
        <4> DEFINE left == st.left
                   cost == Cost(e)
        <4>1. left \in Nat /\ cost \in Nat /\ ~ (left < cost)
          BY <1>3, <2>5 DEF Cost
        <4> HIDE DEF left, cost
        <4>2. left >= cost
          BY <4>1
        <4> QED  BY <4>2 DEF left, cost
      <3>2. LoopOK(lines, n, Admitted(st, e))
        BY <1>8, <2>5, <3>1, AdmittedOK DEF e
      <3>3. AdmitLine(st, e) = Admitted(st, e)
        BY <1>8, <2>5 DEF AdmitLine
      <3> QED  BY <3>2, <3>3 DEF e
    <2> QED  BY <2>0, <2>1, <2>2, <2>3, <2>4, <2>5
  <1> QED  BY <1>6, <1>7, <1>8

\* And so at the end of the batch.
LEMMA LoopIsOK ==
    ASSUME NEW lines \in Seq(Events), NEW left \in Nat, dedup \in Seq(Ids)
    PROVE  LoopOK(lines, Len(lines), Loop(lines, left)[Len(lines)])
  <1> DEFINE at(n) == Loop(lines, left)[n]
             Bad == {n \in 0..Len(lines) : ~ LoopOK(lines, n, at(n))}
  <1>1. Len(lines) \in Nat
    BY LenProperties
  <1>2. at(0) = LoopStart(left) /\ \A n \in 1..Len(lines) : at(n) = AdmitLine(at(n - 1), lines[n])
    BY LoopSteps
  <1> HIDE DEF at
  <1>3. Bad = {}
    <2> SUFFICES ASSUME Bad # {} PROVE FALSE
      OBVIOUS
    <2>1. Bad \in SUBSET Nat
      BY <1>1
    <2>2. PICK m \in Bad : \A n \in Bad : m <= n
      BY <2>1, SmallestNumber
    <2>3. m \in 0..Len(lines) /\ ~ LoopOK(lines, m, at(m))
      BY <2>2
    <2>4. m # 0
      BY <1>2, <2>3, LoopStartOK
    <2>5. m \in 1..Len(lines) /\ m - 1 \in 0..Len(lines) /\ ~ (m <= m - 1)
      BY <1>1, <2>3, <2>4
    <2>6. LoopOK(lines, m - 1, at(m - 1))
      BY <2>2, <2>5
    <2>7. LoopOK(lines, m, AdmitLine(at(m - 1), lines[m]))
      BY <2>5, <2>6, AdmitLineOK
    <2> QED  BY <1>2, <2>3, <2>5, <2>7
  <1>4. Len(lines) \in 0..Len(lines)
    BY <1>1
  <1>5. LoopOK(lines, Len(lines), at(Len(lines)))
    BY <1>3, <1>4
  <1> QED  BY <1>5 DEF at

\* What the gateway makes of a request it has received.
LEMMA VerdictIsOK ==
    ASSUME TypeOK, NEW s \in Slot, req[s].state = "received"
    PROVE  /\ LoopOK(req[s].lines, Len(req[s].lines), Verdict(s))
           /\ req[s].agent \in Agent /\ Tenant[req[s].agent] \in Tenants
  <1>1. /\ req[s] \in Request /\ req[s].lines \in Seq(Events) /\ req[s].agent \in Agent
    BY DEF TypeOK, RequestsOK, Request
  <1>2. Tenant[req[s].agent] \in Tenants
    BY <1>1 DEF Tenants
  <1>3. tokens[Tenant[req[s].agent]] \in Nat /\ dedup \in Seq(Ids)
    BY <1>2 DEF TypeOK
  <1> QED  BY <1>1, <1>2, <1>3, LoopIsOK DEF Verdict

-----------------------------------------------------------------------------
(* Steps                                                                    *)

\* A run of a list, and the list without it.
LEMMA RunOf ==
    ASSUME NEW S, NEW s \in Seq(S), NEW i \in DOMAIN s, NEW j \in DOMAIN s
    PROVE  /\ SubSeq(s, i, j) \in Seq(S)
           /\ Len(SubSeq(s, i, j)) = IF i <= j THEN j - i + 1 ELSE 0
           /\ SubSeq(s, 1, i - 1) \o SubSeq(s, j + 1, Len(s)) \in Seq(S)
  <1>1. Len(s) \in Nat /\ i \in 1..Len(s) /\ j \in 1..Len(s) /\ \A k \in 1..Len(s) : s[k] \in S
    BY LenProperties, ElementOfSeq
  <1>2. /\ i \in Int /\ j \in Int /\ i - 1 \in 0..Len(s) /\ j \in 0..Len(s)
        /\ \A k \in i..j : k \in 1..Len(s)
    BY <1>1
  <1>3. \A k \in i..j : s[k] \in S
    BY <1>1, <1>2
  <1>4. SubSeq(s, i, j) \in Seq(S) /\ Len(SubSeq(s, i, j)) = IF i <= j THEN j - i + 1 ELSE 0
    BY <1>2, <1>3, SubSeqProperties
  <1>5. SubSeq(s, 1, i - 1) \in Seq(S) /\ SubSeq(s, j + 1, Len(s)) \in Seq(S)
    BY <1>2, SplitSeq
  <1>6. SubSeq(s, 1, i - 1) \o SubSeq(s, j + 1, Len(s)) \in Seq(S)
    BY <1>5, ConcatProperties
  <1> QED  BY <1>4, <1>6

LEMMA FreeIsRequest == Free \in Request /\ Free.state = "free" /\ Free.todo = << >> /\ Free.shed = {}
                       /\ Free.lines = << >>
  <1>1. << >> \in Seq(Events)
    BY EmptySeq
  <1> QED  BY <1>1 DEF Free, Request

\* A request that ends leaves a free slot and no agent waiting for it.
LEMMA ReleaseFacts ==
    ASSUME RequestsOK, NEW s \in Slot, Release(s)
    PROVE  /\ RequestsOK'
           /\ req'[s] = Free
           /\ \A r \in Slot : r # s => req'[r] = req[r]
  <1>1. req' = [req EXCEPT ![s] = Free] /\ req \in [Slot -> Request]
    BY DEF Release, RequestsOK
  <1>2. req'[s] = Free /\ \A r \in Slot : r # s => req'[r] = req[r]
    BY <1>1
  <1>3. req' \in [Slot -> Request]
    BY <1>1, FreeIsRequest
  <1>4. waiting' \in [Agent -> Slot \cup {None}]
    BY DEF Release, RequestsOK
  <1>5. \A r \in Slot : req'[r].state # "free" => req'[r].agent \in Agent
    BY <1>2, FreeIsRequest DEF RequestsOK
  <1>6. \A r \in Slot : req'[r].state # "publishing" => req'[r].todo = << >> /\ req'[r].shed = {}
    BY <1>2, FreeIsRequest DEF RequestsOK
  <1> QED  BY <1>2, <1>3, <1>4, <1>5, <1>6 DEF RequestsOK

\* A request that goes on, and still is one.
LEMMA RequestMoves ==
    ASSUME RequestsOK, NEW s \in Slot, NEW r \in Request, req' = [req EXCEPT ![s] = r],
           waiting' \in [Agent -> Slot \cup {None}],
           r.state # "free" => r.agent \in Agent,
           r.state # "publishing" => r.todo = << >> /\ r.shed = {}
    PROVE  RequestsOK' /\ req'[s] = r /\ \A u \in Slot : u # s => req'[u] = req[u]
  <1>1. req'[s] = r /\ \A u \in Slot : u # s => req'[u] = req[u]
    BY DEF RequestsOK
  <1>2. req' \in [Slot -> Request]
    BY DEF RequestsOK
  <1>3. \A u \in Slot : req'[u].state # "free" => req'[u].agent \in Agent
    BY <1>1 DEF RequestsOK
  <1>4. \A u \in Slot : req'[u].state # "publishing" => req'[u].todo = << >> /\ req'[u].shed = {}
    BY <1>1 DEF RequestsOK
  <1> QED  BY <1>1, <1>2, <1>3, <1>4 DEF RequestsOK

\* What each request is, spelled out.
LEMMA RequestFacts ==
    ASSUME RequestsOK, NEW s \in Slot
    PROVE  /\ req[s] \in Request
           /\ req[s].lines \in Seq(Events) /\ req[s].todo \in Seq(Events)
           /\ req[s].shed \in SUBSET Events /\ req[s].rejected \in Nat
           /\ req[s].state # "free" => req[s].agent \in Agent
           /\ req[s].state # "publishing" => req[s].todo = << >> /\ req[s].shed = {}
  BY DEF RequestsOK, Request

\* Post puts a run of the outbox into a free slot.
LEMMA PostFacts ==
    ASSUME TypeOK, NEW a \in Agent, NEW s \in Slot, Post(a, s)
    PROVE  /\ RequestsOK'
           /\ req[s].state = "free" /\ req'[s].state = "received"
           /\ req'[s].todo = << >> /\ req'[s].shed = {}
           /\ \A r \in Slot : r # s => req'[r] = req[r]
  <1>1. PICK i \in DOMAIN outbox[a], j \in DOMAIN outbox[a] :
           /\ i <= j /\ j - i < MaxPost
           /\ req' = [req EXCEPT ![s] =
                         [Free EXCEPT !.state = "received", !.agent = a,
                                      !.lines = SubSeq(outbox[a], i, j)]]
    BY DEF Post
  <1> DEFINE lines == SubSeq(outbox[a], i, j)
             r == [Free EXCEPT !.state = "received", !.agent = a, !.lines = lines]
  <1>2. outbox[a] \in Seq(Events) /\ RequestsOK
    BY DEF TypeOK
  <1>3. lines \in Seq(Events) /\ Len(lines) = j - i + 1
    BY <1>1, <1>2, RunOf
  <1> HIDE DEF lines
  <1>5. /\ r \in Request /\ r.state = "received" /\ r.agent = a /\ r.lines = lines
        /\ r.todo = << >> /\ r.shed = {}
    BY <1>3, FreeIsRequest DEF Request, Free
  <1>6. waiting' \in [Agent -> Slot \cup {None}]
    BY DEF Post, TypeOK, RequestsOK
  <1>7. req' = [req EXCEPT ![s] = r]
    BY <1>1 DEF lines
  <1> HIDE DEF r
  <1>8. RequestsOK' /\ req'[s] = r /\ \A u \in Slot : u # s => req'[u] = req[u]
    BY <1>2, <1>5, <1>6, <1>7, RequestMoves
  <1>9. req[s].state = "free"
    BY DEF Post
  <1> QED  BY <1>5, <1>8, <1>9

\* Admit puts what the loop has left into the request.
LEMMA AdmitFacts ==
    ASSUME TypeOK, NEW s \in Slot, Admit(s)
    PROVE  /\ RequestsOK'
           /\ req[s].state = "received" /\ req[s].todo = << >>
           /\ req'[s].state = "publishing" /\ req'[s].lines = req[s].lines
           /\ req'[s].todo = Verdict(s).todo /\ req'[s].shed = Verdict(s).shed
           /\ \A r \in Slot : r # s => req'[r] = req[r]
  <1> DEFINE v == Verdict(s)
             r == [req[s] EXCEPT !.state = "publishing", !.todo = v.todo,
                                 !.shed = v.shed, !.rejected = v.rejected]
  <1>1. req[s].state = "received" /\ req' = [req EXCEPT ![s] = r] /\ waiting' = waiting
    BY DEF Admit, clientVars, RequestsOK, TypeOK
  <1>2. v \in LoopState
    BY <1>1, VerdictIsOK DEF LoopOK
  <1>3. req[s] \in Request /\ req[s].agent \in Agent /\ RequestsOK /\ req[s].todo = << >>
    BY <1>1, RequestFacts DEF TypeOK
  <1> HIDE DEF v
  <1>4. /\ r \in Request /\ r.state = "publishing" /\ r.lines = req[s].lines
        /\ r.todo = v.todo /\ r.shed = v.shed /\ r.agent = req[s].agent
    BY <1>2, <1>3 DEF Request, LoopState
  <1>5. waiting' \in [Agent -> Slot \cup {None}]
    BY <1>1, <1>3 DEF RequestsOK
  <1> HIDE DEF r
  <1>6. RequestsOK' /\ req'[s] = r /\ \A u \in Slot : u # s => req'[u] = req[u]
    BY <1>1, <1>3, <1>4, <1>5, RequestMoves
  <1> QED  BY <1>1, <1>3, <1>4, <1>6 DEF v

\* PublishNext moves the first event of the request to the stream.
LEMMA PublishFacts ==
    ASSUME TypeOK, NEW s \in Slot, PublishNext(s)
    PROVE  /\ RequestsOK'
           /\ req[s].state = "publishing" /\ req'[s].state = "publishing"
           /\ req'[s].lines = req[s].lines /\ req'[s].shed = req[s].shed
           /\ req[s].todo # << >> /\ req'[s].todo = Tail(req[s].todo)
           /\ Head(req[s].todo) \in Events /\ stream' = Append(stream, Head(req[s].todo))
           /\ \A r \in Slot : r # s => req'[r] = req[r]
  <1> DEFINE r == [req[s] EXCEPT !.todo = Tail(@)]
  <1>1. /\ req[s].state = "publishing" /\ req[s].todo # << >>
        /\ stream' = Append(stream, Head(req[s].todo))
        /\ req' = [req EXCEPT ![s] = r] /\ waiting' = waiting
    BY DEF PublishNext, clientVars
  <1>2. req[s] \in Request /\ req[s].todo \in Seq(Events) /\ req[s].agent \in Agent /\ RequestsOK
    BY <1>1, RequestFacts DEF TypeOK
  <1>3. Tail(req[s].todo) \in Seq(Events) /\ Head(req[s].todo) \in Events
    BY <1>1, <1>2, HeadTailProperties
  <1>4. /\ r \in Request /\ r.state = "publishing" /\ r.lines = req[s].lines
        /\ r.todo = Tail(req[s].todo) /\ r.shed = req[s].shed /\ r.agent = req[s].agent
    BY <1>1, <1>2, <1>3 DEF Request
  <1>5. waiting' \in [Agent -> Slot \cup {None}]
    BY <1>1, <1>2 DEF RequestsOK
  <1> HIDE DEF r
  <1>6. RequestsOK' /\ req'[s] = r /\ \A u \in Slot : u # s => req'[u] = req[u]
    BY <1>1, <1>2, <1>4, <1>5, RequestMoves
  <1> QED  BY <1>1, <1>3, <1>4, <1>6

\* What the loop leaves behind is a cache, some lost ids and buckets.
LEMMA ChargeFacts ==
    ASSUME TypeOK, NEW s \in Slot, req[s].state = "received", Charge(s)
    PROVE  /\ dedup' \in Seq(Ids) /\ tokens' \in [Tenants -> Nat]
           /\ forgotten' \in SUBSET Ids
           /\ dedup' = Verdict(s).cache /\ forgotten' = forgotten \cup Verdict(s).lost
           /\ Verdict(s) \in LoopState
  <1> DEFINE v == Verdict(s)
             o == Tenant[req[s].agent]
  <1>1. v \in LoopState /\ o \in Tenants
    BY VerdictIsOK DEF LoopOK
  <1>2. dedup' = v.cache /\ forgotten' = forgotten \cup v.lost /\ tokens' = [tokens EXCEPT ![o] = v.left]
    BY DEF Charge
  <1> HIDE DEF v, o
  <1>3. v.cache \in Seq(Ids) /\ v.lost \in SUBSET Ids /\ v.left \in Nat
    BY <1>1 DEF LoopState
  <1>4. tokens' \in [Tenants -> Nat]
    BY <1>1, <1>2, <1>3 DEF TypeOK
  <1>5. forgotten' \in SUBSET Ids
    BY <1>2, <1>3 DEF TypeOK
  <1> QED  BY <1>1, <1>2, <1>3, <1>4, <1>5 DEF v

LEMMA ForgetFacts ==
    ASSUME TypeOK, NEW a \in Agent, NEW lines, Forget(a, lines)
    PROVE  outbox' \in [Agent -> Seq(Events)]
  <1>1. PICK i \in DOMAIN outbox[a], j \in DOMAIN outbox[a] :
            outbox' = [outbox EXCEPT ![a] = SubSeq(@, 1, i - 1) \o SubSeq(@, j + 1, Len(@))]
    BY DEF Forget
  <1> DEFINE rest == SubSeq(outbox[a], 1, i - 1) \o SubSeq(outbox[a], j + 1, Len(outbox[a]))
  <1>2. outbox[a] \in Seq(Events)
    BY DEF TypeOK
  <1>3. rest \in Seq(Events)
    BY <1>2, RunOf
  <1>4. outbox' = [outbox EXCEPT ![a] = rest]
    BY <1>1
  <1> HIDE DEF rest
  <1> QED  BY <1>3, <1>4 DEF TypeOK

LEMMA TypeInit == Init => TypeOK
  <1> SUFFICES ASSUME Init PROVE TypeOK
    OBVIOUS
  <1> USE DEF Init
  <1>1. << >> \in Seq(Ids) /\ << >> \in Seq(Events)
    BY EmptySeq
  <1>2. tokens \in [Tenants -> Nat]
    BY LimitsAssumption
  <1>3. \A s \in Slot : req[s] = Free
    OBVIOUS
  <1>4. RequestsOK
    BY <1>3, FreeIsRequest DEF RequestsOK
  <1>5. outbox \in [Agent -> Seq(Events)]
    BY OutboxAssumption
  <1> QED  BY <1>1, <1>2, <1>4, <1>5 DEF TypeOK

LEMMA TypeStep == TypeOK /\ [Next]_vars => TypeOK'
  <1> SUFFICES ASSUME TypeOK, [Next]_vars PROVE TypeOK'
    OBVIOUS
  <1>0. RequestsOK
    BY DEF TypeOK
  <1> DEFINE Served == \E s \in Slot : Serve(s)
  <1>1. ASSUME NEW a \in Agent, NEW s \in Slot, Post(a, s) PROVE TypeOK'
    <2>1. RequestsOK'
      BY <1>1, PostFacts
    <2> QED  BY <1>1, <2>1 DEF TypeOK, Post, history
  <1>2. ASSUME NEW a \in Agent, ClientTimeout(a) PROVE TypeOK'
    <2>1. waiting' \in [Agent -> Slot \cup {None}] /\ req' = req
      BY <1>0, <1>2 DEF ClientTimeout, serverVars, RequestsOK
    <2>2. RequestsOK'
      BY <1>0, <2>1 DEF RequestsOK
    <2>3. faults' \in Nat
      BY <1>2 DEF ClientTimeout, Fault, TypeOK
    <2> QED  BY <1>2, <2>2, <2>3 DEF TypeOK, ClientTimeout, serverVars, history
  <1>3. ASSUME NEW s \in Slot, RefuseTooLarge(s) PROVE TypeOK'
    <2>1. /\ RequestsOK' /\ req[s].agent \in Agent /\ req[s].lines \in Seq(Events)
      BY <1>0, <1>3, ReleaseFacts, RequestFacts DEF RefuseTooLarge
    <2>2. Range(req[s].lines) \subseteq Events
      BY <2>1, RangeFacts
    <2>3. outbox' \in [Agent -> Seq(Events)]
      BY <1>3, <2>1, ForgetFacts DEF RefuseTooLarge, TypeOK
    <2>4. dropped' \in SUBSET Events
      BY <1>3, <2>2 DEF RefuseTooLarge, TypeOK
    <2> QED  BY <1>3, <2>1, <2>3, <2>4 DEF RefuseTooLarge, TypeOK
  <1>4. ASSUME NEW s \in Slot, RefuseCredential(s) PROVE TypeOK'
    <2>1. RequestsOK'
      BY <1>0, <1>4, ReleaseFacts DEF RefuseCredential
    <2>2. faults' \in Nat
      BY <1>4 DEF RefuseCredential, Fault, TypeOK
    <2> QED  BY <1>4, <2>1, <2>2 DEF RefuseCredential, TypeOK, history
  <1>5. ASSUME NEW s \in Slot, RefuseBatch(s) PROVE TypeOK'
    <2>1. RequestsOK'
      BY <1>0, <1>5, ReleaseFacts DEF RefuseBatch
    <2>2. dedup' \in Seq(Ids) /\ tokens' \in [Tenants -> Nat] /\ forgotten' \in SUBSET Ids
      BY <1>5, ChargeFacts DEF RefuseBatch
    <2> QED  BY <1>5, <2>1, <2>2 DEF RefuseBatch, TypeOK
  <1>6. ASSUME NEW s \in Slot, Admit(s) PROVE TypeOK'
    <2>1. RequestsOK' /\ req[s].state = "received"
      BY <1>6, AdmitFacts
    <2>2. dedup' \in Seq(Ids) /\ tokens' \in [Tenants -> Nat] /\ forgotten' \in SUBSET Ids
      BY <1>6, <2>1, ChargeFacts DEF Admit
    <2> QED  BY <1>6, <2>1, <2>2 DEF Admit, TypeOK, clientVars
  <1>7. ASSUME NEW s \in Slot, PublishNext(s) PROVE TypeOK'
    <2>1. RequestsOK' /\ Head(req[s].todo) \in Events /\ stream' = Append(stream, Head(req[s].todo))
      BY <1>7, PublishFacts
    <2>2. stream' \in Seq(Events)
      BY <2>1, AppendProperties DEF TypeOK
    <2> QED  BY <1>7, <2>1, <2>2 DEF PublishNext, TypeOK, clientVars, history
  <1>8. ASSUME NEW s \in Slot, PublishFails(s) PROVE TypeOK'
    <2>1. RequestsOK'
      BY <1>0, <1>8, ReleaseFacts DEF PublishFails
    <2>2. req[s].todo \in Seq(Events) /\ req[s].todo # << >>
      BY <1>0, <1>8, RequestFacts DEF PublishFails
    <2>3. Head(req[s].todo) \in Events
      BY <2>2, HeadTailProperties
    <2>4. stream' \in Seq(Events)
      <3>1. stream \in Seq(Events) /\ stream' \in {stream, Append(stream, Head(req[s].todo))}
        BY <1>8 DEF PublishFails, TypeOK
      <3>2. Append(stream, Head(req[s].todo)) \in Seq(Events)
        BY <2>3, <3>1, AppendProperties
      <3> QED  BY <3>1, <3>2
    <2>5. faults' \in Nat
      BY <1>8 DEF PublishFails, Fault, TypeOK
    <2> QED  BY <1>8, <2>1, <2>4, <2>5 DEF PublishFails, TypeOK, history
  <1>9. ASSUME NEW s \in Slot, Respond(s) PROVE TypeOK'
    <2>1. /\ RequestsOK' /\ req[s].agent \in Agent /\ req[s].lines \in Seq(Events)
          /\ req[s].shed \in SUBSET Events
      BY <1>0, <1>9, ReleaseFacts, RequestFacts DEF Respond
    <2>2. Range(req[s].lines) \subseteq Events
      BY <2>1, RangeFacts
    <2>3. outbox' \in [Agent -> Seq(Events)]
      BY <1>9, <2>1, ForgetFacts DEF Respond, TypeOK
    <2>4. acked' \in SUBSET Events /\ shed' \in SUBSET Events
      BY <1>9, <2>1, <2>2 DEF Respond, TypeOK
    <2> QED  BY <1>9, <2>1, <2>3, <2>4 DEF Respond, TypeOK
  <1>10. ASSUME NEW o \in Tenants, Refill(o) PROVE TypeOK'
    <2>1. tokens' \in [Tenants -> Nat]
      BY <1>10 DEF Refill, TypeOK
    <2>2. RequestsOK'
      BY <1>0, <1>10 DEF Refill, RequestsOK, clientVars
    <2> QED  BY <1>10, <2>1, <2>2 DEF Refill, TypeOK, clientVars, history
  <1>11. ASSUME Restart PROVE TypeOK'
    <2>1. \A s \in Slot : req'[s] = Free
      BY <1>11 DEF Restart
    <2>2. req' \in [Slot -> Request] /\ waiting' \in [Agent -> Slot \cup {None}]
      BY <1>11, FreeIsRequest DEF Restart
    <2>3. RequestsOK'
      BY <2>1, <2>2, FreeIsRequest DEF RequestsOK
    <2>4. dedup' \in Seq(Ids) /\ tokens' \in [Tenants -> Nat]
      BY <1>11, EmptySeq, LimitsAssumption DEF Restart
    <2>5. forgotten' \in SUBSET Ids
      <3>1. Range(dedup) \subseteq Ids
        BY RangeFacts DEF TypeOK
      <3> QED  BY <1>11, <3>1 DEF Restart, TypeOK
    <2>6. faults' \in Nat
      BY <1>11 DEF Restart, Fault, TypeOK
    <2> QED  BY <1>11, <2>3, <2>4, <2>5, <2>6 DEF Restart, TypeOK
  <1>12. ASSUME UNCHANGED vars PROVE TypeOK'
    <2>1. RequestsOK'
      BY <1>0, <1>12 DEF RequestsOK, vars, clientVars, serverVars
    <2> QED  BY <1>12, <2>1 DEF TypeOK, vars, clientVars, serverVars, history
  <1>13. ASSUME Served PROVE TypeOK'
    BY <1>3, <1>4, <1>5, <1>6, <1>7, <1>8, <1>9, <1>13 DEF Serve
  <1>14. Next \/ UNCHANGED vars
    OBVIOUS
  <1> QED  BY <1>1, <1>2, <1>10, <1>11, <1>12, <1>13, <1>14 DEF Next

LEMMA TypeInvariance == Spec => []TypeOK
  BY TypeInit, TypeStep, PTL DEF Spec

-----------------------------------------------------------------------------
(* Pressure                                                                 *)

LEMMA ShedInit == Init => ShedOK
  BY FreeIsRequest DEF Init, ShedOK

LEMMA ShedStep == TypeOK /\ ShedOK /\ [Next]_vars => ShedOK'
  <1> SUFFICES ASSUME TypeOK, ShedOK, [Next]_vars PROVE ShedOK'
    OBVIOUS
  <1>0. RequestsOK /\ \A s \in Slot : \A e \in req[s].shed : e.kind # "signal"
    BY DEF TypeOK, ShedOK
  <1>1. ASSUME NEW s \in Slot, Release(s), shed' = shed PROVE ShedOK'
    <2>1. req'[s].shed = {} /\ \A r \in Slot : r # s => req'[r] = req[r]
      BY <1>0, <1>1, ReleaseFacts, FreeIsRequest
    <2> QED  BY <1>1, <2>1 DEF ShedOK
  <1>2. ASSUME NEW a \in Agent, NEW s \in Slot, Post(a, s) PROVE ShedOK'
    <2>1. req'[s].shed = {} /\ \A r \in Slot : r # s => req'[r] = req[r]
      BY <1>2, PostFacts
    <2>2. shed' = shed
      BY <1>2 DEF Post, history
    <2> QED  BY <2>1, <2>2 DEF ShedOK
  <1>3. ASSUME NEW s \in Slot, Admit(s) PROVE ShedOK'
    <2>1. /\ req[s].state = "received" /\ req'[s].shed = Verdict(s).shed
          /\ \A r \in Slot : r # s => req'[r] = req[r]
      BY <1>3, AdmitFacts
    <2>2. \A e \in Verdict(s).shed : e.kind # "signal"
      BY <2>1, VerdictIsOK DEF LoopOK
    <2>3. shed' = shed
      BY <1>3 DEF Admit
    <2> QED  BY <2>1, <2>2, <2>3 DEF ShedOK
  <1>4. ASSUME NEW s \in Slot, PublishNext(s) PROVE ShedOK'
    <2>1. req'[s].shed = req[s].shed /\ \A r \in Slot : r # s => req'[r] = req[r]
      BY <1>4, PublishFacts
    <2>2. shed' = shed
      BY <1>4 DEF PublishNext, history
    <2> QED  BY <2>1, <2>2 DEF ShedOK
  <1>5. ASSUME NEW s \in Slot, Respond(s) PROVE ShedOK'
    <2>1. req'[s].shed = {} /\ \A r \in Slot : r # s => req'[r] = req[r]
      BY <1>0, <1>5, ReleaseFacts, FreeIsRequest DEF Respond
    <2>2. shed' = shed \cup req[s].shed
      BY <1>5 DEF Respond
    <2> QED  BY <2>1, <2>2 DEF ShedOK
  <1>6. ASSUME Restart PROVE ShedOK'
    BY <1>6, FreeIsRequest DEF Restart, ShedOK
  <1>7. ASSUME req' = req, shed' = shed PROVE ShedOK'
    BY <1>7 DEF ShedOK
  <1>8. ASSUME NEW s \in Slot, Serve(s) PROVE ShedOK'
    BY <1>1, <1>3, <1>4, <1>5, <1>8
       DEF Serve, RefuseTooLarge, RefuseCredential, RefuseBatch, PublishFails, history
  <1>9. ASSUME NEW a \in Agent, ClientTimeout(a) PROVE ShedOK'
    BY <1>7, <1>9 DEF ClientTimeout, serverVars, history
  <1>10. ASSUME NEW o \in Tenants, Refill(o) PROVE ShedOK'
    BY <1>7, <1>10 DEF Refill, history
  <1>11. CASE UNCHANGED vars
    BY <1>7, <1>11 DEF vars, serverVars, history
  <1> QED  BY <1>2, <1>6, <1>8, <1>9, <1>10, <1>11 DEF Next

(***************************************************************************)
(* "security signal is never shed": whatever the sizes of the buckets, the *)
(* caches and the batches, and however many agents drain one bucket, the   *)
(* gateway discards telemetry only.  What it discards comes from one       *)
(* request's loop, whose every line keeps LoopOK.                          *)
(***************************************************************************)
THEOREM PressureSparesSignals == Spec => []SignalNeverShed
  <1>1. ShedOK => SignalNeverShed
    BY DEF ShedOK, SignalNeverShed, Signals
  <1> QED  BY <1>1, TypeInvariance, ShedInit, ShedStep, PTL DEF Spec

-----------------------------------------------------------------------------
(* Replays                                                                  *)

LEMMA OnceInit == Init => OnceOK
  <1> SUFFICES ASSUME Init PROVE OnceOK
    OBVIOUS
  <1>1. Len(stream) = 0 /\ \A s \in Slot : Len(req[s].todo) = 0
    BY EmptySeq, FreeIsRequest DEF Init
  <1>2. 1..0 = {}
    OBVIOUS
  <1> QED  BY <1>1, <1>2 DEF OnceOK

\* Two places in the requests that hold one id.
LEMMA OncePending ==
    ASSUME OnceOK, NEW s \in Slot, NEW r \in Slot, NEW k \in 1..Len(req[s].todo),
           NEW l \in 1..Len(req[r].todo), <<s, k>> # <<r, l>>,
           req[s].todo[k].id = req[r].todo[l].id
    PROVE  req[s].todo[k].id \in forgotten
  BY DEF OnceOK

\* Ending requests, remembering more and forgetting more publish nothing twice.
LEMMA OnceQuietly ==
    ASSUME OnceOK, stream' = stream, forgotten \subseteq forgotten',
           Range(dedup) \subseteq Range(dedup') \cup forgotten',
           \A s \in Slot : req'[s].todo \in {req[s].todo, << >>}
    PROVE  OnceOK'
  <1>1. Len(<< >>) = 0 /\ 1..0 = {}
    BY EmptySeq
  <1>2. \A s \in Slot : \A k \in 1..Len(req'[s].todo) :
            k \in 1..Len(req[s].todo) /\ req'[s].todo[k] = req[s].todo[k]
    BY <1>1
  <1>3. \A i, j \in 1..Len(stream) :
           i # j /\ stream[i].id = stream[j].id => stream[i].id \in forgotten'
    BY DEF OnceOK
  <1>4. \A s \in Slot : \A k \in 1..Len(req'[s].todo), i \in 1..Len(stream) :
           stream[i].id = req'[s].todo[k].id => stream[i].id \in forgotten'
    BY <1>2 DEF OnceOK
  <1>5. ASSUME NEW s \in Slot, NEW r \in Slot, NEW k \in 1..Len(req'[s].todo),
               NEW l \in 1..Len(req'[r].todo), <<s, k>> # <<r, l>>,
               req'[s].todo[k].id = req'[r].todo[l].id
        PROVE  req'[s].todo[k].id \in forgotten'
    <2>1. /\ k \in 1..Len(req[s].todo) /\ l \in 1..Len(req[r].todo)
          /\ req'[s].todo[k] = req[s].todo[k] /\ req'[r].todo[l] = req[r].todo[l]
      BY <1>2
    <2>2. req[s].todo[k].id \in forgotten
      BY <1>5, <2>1, OncePending
    <2> QED  BY <2>1, <2>2
  <1>6. \A i \in 1..Len(stream) : stream[i].id \in Range(dedup') \cup forgotten'
    BY DEF OnceOK
  <1>7. \A s \in Slot : \A k \in 1..Len(req'[s].todo) :
           req'[s].todo[k].id \in Range(dedup') \cup forgotten'
    BY <1>2 DEF OnceOK
  <1> QED  BY <1>3, <1>4, <1>5, <1>6, <1>7 DEF OnceOK

\* The first event of a request goes to the stream: it leaves the request.
LEMMA OncePublished ==
    ASSUME TypeOK, OnceOK, NEW s \in Slot, req[s].todo # << >>,
           stream' = Append(stream, Head(req[s].todo)),
           dedup' = dedup, forgotten' = forgotten,
           req'[s].todo \in {Tail(req[s].todo), << >>},
           \A r \in Slot : r # s => req'[r] = req[r]
    PROVE  OnceOK'
  <1> DEFINE td == req[s].todo
             m == Len(stream)
  <1>1. td \in Seq(Events) /\ td # << >> /\ stream \in Seq(Events)
    BY RequestFacts DEF TypeOK
  <1>2. Head(td) = td[1] /\ Head(td) \in Events /\ Len(td) \in Nat /\ Len(td) >= 1
    BY <1>1, HeadTailProperties, LenProperties, EmptySeq
  <1>3. 1 \in 1..Len(td)
    BY <1>2
  <1>4. ASSUME NEW k \in 1..Len(req'[s].todo)
        PROVE  k + 1 \in 1..Len(td) /\ k + 1 # 1 /\ req'[s].todo[k] = td[k + 1]
    <2>1. CASE req'[s].todo = << >>
      <3>1. 1..Len(req'[s].todo) = {}
        BY <2>1, EmptySeq
      <3> QED  BY <3>1
    <2>2. CASE req'[s].todo = Tail(td)
      <3>1. /\ Len(Tail(td)) = Len(td) - 1
            /\ \A i \in 1..Len(Tail(td)) : Tail(td)[i] = td[i + 1]
        BY <1>1, HeadTailProperties
      <3>2. k \in 1..(Len(td) - 1)
        BY <2>2, <3>1
      <3>3. k + 1 \in 1..Len(td) /\ k + 1 # 1
        BY <1>2, <3>2
      <3> QED  BY <2>2, <3>1, <3>3
    <2> QED  BY <2>1, <2>2
  <1>5. /\ m \in Nat /\ Len(stream') = m + 1 /\ stream'[m + 1] = td[1]
        /\ \A i \in 1..m : stream'[i] = stream[i]
    BY <1>1, <1>2, AppendProperties, LenProperties
  <1>6. \A i \in 1..Len(stream') : i \in 1..m \/ i = m + 1
    BY <1>5, OneMore
  <1> HIDE DEF m
  <1>7. \A i \in 1..m, k \in 1..Len(td) : stream[i].id = td[k].id => stream[i].id \in forgotten
    BY DEF OnceOK, m
  <1>8. ASSUME NEW i \in 1..Len(stream'), NEW j \in 1..Len(stream'),
               i # j, stream'[i].id = stream'[j].id
        PROVE  stream'[i].id \in forgotten
    <2>1. CASE i \in 1..m /\ j \in 1..m
      BY <1>5, <1>8, <2>1 DEF OnceOK, m
    <2>2. CASE i = m + 1 /\ j \in 1..m
      BY <1>3, <1>5, <1>7, <1>8, <2>2
    <2>3. CASE i \in 1..m /\ j = m + 1
      BY <1>3, <1>5, <1>7, <1>8, <2>3
    <2> QED  BY <1>6, <1>8, <2>1, <2>2, <2>3
  <1>9. ASSUME NEW r \in Slot, NEW k \in 1..Len(req'[r].todo), NEW i \in 1..Len(stream'),
               stream'[i].id = req'[r].todo[k].id
        PROVE  stream'[i].id \in forgotten
    <2>1. CASE i \in 1..m /\ r # s
      <3>1. /\ i \in 1..Len(stream) /\ stream'[i] = stream[i] /\ req'[r] = req[r]
            /\ k \in 1..Len(req[r].todo) /\ stream[i].id = req[r].todo[k].id
        BY <1>5, <1>9, <2>1 DEF m
      <3> QED  BY <3>1 DEF OnceOK
    <2>2. CASE i \in 1..m /\ r = s
      <3>1. /\ stream'[i] = stream[i] /\ k + 1 \in 1..Len(td)
            /\ stream[i].id = td[k + 1].id
        BY <1>4, <1>5, <1>9, <2>2
      <3> QED  BY <1>7, <2>2, <3>1
    <2>3. CASE i = m + 1 /\ r # s
      <3>1. /\ req'[r] = req[r] /\ <<s, 1>> # <<r, k>> /\ stream'[i] = td[1]
            /\ td[1].id = req[r].todo[k].id
        BY <1>5, <1>9, <2>3
      <3> QED  BY <1>3, <1>9, <3>1 DEF OnceOK
    <2>4. CASE i = m + 1 /\ r = s
      <3>1. /\ stream'[i] = td[1] /\ <<s, 1>> # <<s, k + 1>> /\ k + 1 \in 1..Len(td)
            /\ td[1].id = td[k + 1].id
        BY <1>4, <1>5, <1>9, <2>4
      <3> QED  BY <1>3, <3>1 DEF OnceOK
    <2> QED  BY <1>6, <2>1, <2>2, <2>3, <2>4
  <1>10. ASSUME NEW u \in Slot, NEW r \in Slot, NEW k \in 1..Len(req'[u].todo),
                NEW l \in 1..Len(req'[r].todo), <<u, k>> # <<r, l>>,
                req'[u].todo[k].id = req'[r].todo[l].id
         PROVE  req'[u].todo[k].id \in forgotten
    <2> DEFINE before(x, n) == IF x = s THEN n + 1 ELSE n
    <2>1. \A x \in Slot : \A n \in 1..Len(req'[x].todo) :
              /\ before(x, n) \in 1..Len(req[x].todo)
              /\ req'[x].todo[n] = req[x].todo[before(x, n)]
      BY <1>4
    <2>2. <<u, before(u, k)>> # <<r, before(r, l)>>
      <3>1. CASE u # r
        BY <3>1
      <3>2. CASE u = r
        <4>1. k # l /\ k \in Int /\ l \in Int
          BY <1>10, <3>2
        <4>2. k + 1 # l + 1
          BY <4>1
        <4> QED  BY <3>2, <4>1, <4>2
      <3> QED  BY <3>1, <3>2
    <2> DEFINE bk == before(u, k)
               bl == before(r, l)
    <2>3. /\ bk \in 1..Len(req[u].todo) /\ bl \in 1..Len(req[r].todo)
          /\ req'[u].todo[k] = req[u].todo[bk] /\ req'[r].todo[l] = req[r].todo[bl]
      BY <2>1
    <2>4. <<u, bk>> # <<r, bl>>
      BY <2>2
    <2> HIDE DEF before, bk, bl
    <2>5. req[u].todo[bk].id \in forgotten
      BY <1>10, <2>3, <2>4, OncePending
    <2> QED  BY <2>3, <2>5
  <1>11. ASSUME NEW i \in 1..Len(stream') PROVE stream'[i].id \in Range(dedup) \cup forgotten
    <2>1. CASE i \in 1..m
      BY <1>5, <2>1 DEF OnceOK, m
    <2>2. CASE i = m + 1
      BY <1>3, <1>5, <2>2 DEF OnceOK
    <2> QED  BY <1>6, <2>1, <2>2
  <1>12. ASSUME NEW r \in Slot, NEW k \in 1..Len(req'[r].todo)
         PROVE  req'[r].todo[k].id \in Range(dedup) \cup forgotten
    <2>1. CASE r # s
      BY <2>1 DEF OnceOK
    <2>2. CASE r = s
      BY <1>4, <2>2 DEF OnceOK
    <2> QED  BY <2>1, <2>2
  <1> QED  BY <1>8, <1>9, <1>10, <1>11, <1>12 DEF OnceOK

\* What is admitted is nowhere yet, unless the cache has lost it.
LEMMA OnceAdmitted ==
    ASSUME TypeOK, OnceOK, NEW s \in Slot, Admit(s)
    PROVE  OnceOK'
  <1> DEFINE v == Verdict(s)
  <1>1. /\ req[s].state = "received" /\ req'[s].todo = v.todo
        /\ \A r \in Slot : r # s => req'[r] = req[r]
    BY AdmitFacts
  <1>2. LoopOK(req[s].lines, Len(req[s].lines), v)
    BY <1>1, VerdictIsOK
  <1>3. dedup' = v.cache /\ forgotten' = forgotten \cup v.lost /\ stream' = stream
    BY DEF Admit, Charge
  <1> HIDE DEF v
  <1>4. /\ Range(dedup) \cup IdsOf(v.todo) \subseteq Range(dedup') \cup forgotten'
        /\ Range(dedup) \cap IdsOf(v.todo) \subseteq forgotten'
        /\ \A i, j \in 1..Len(v.todo) :
               i # j /\ v.todo[i].id = v.todo[j].id => v.todo[i].id \in forgotten'
    BY <1>2, <1>3 DEF LoopOK
  <1>5. \A k \in 1..Len(v.todo) : v.todo[k].id \in IdsOf(v.todo)
    BY DEF IdsOf
  <1>6. ASSUME NEW k \in 1..Len(v.todo), v.todo[k].id \in Range(dedup) \cup forgotten
        PROVE  v.todo[k].id \in forgotten'
    BY <1>3, <1>4, <1>5, <1>6
  <1>7. \A i, j \in 1..Len(stream) :
           i # j /\ stream[i].id = stream[j].id => stream[i].id \in forgotten'
    BY <1>3 DEF OnceOK
  <1>8. ASSUME NEW r \in Slot, NEW k \in 1..Len(req'[r].todo), NEW i \in 1..Len(stream),
               stream[i].id = req'[r].todo[k].id
        PROVE  stream[i].id \in forgotten'
    <2>1. CASE r = s
      <3>1. stream[i].id \in Range(dedup) \cup forgotten
        BY DEF OnceOK
      <3> QED  BY <1>1, <1>6, <1>8, <2>1, <3>1
    <2>2. CASE r # s
      BY <1>1, <1>3, <1>8, <2>2 DEF OnceOK
    <2> QED  BY <2>1, <2>2
  <1>9. ASSUME NEW u \in Slot, NEW r \in Slot, NEW k \in 1..Len(req'[u].todo),
               NEW l \in 1..Len(req'[r].todo), <<u, k>> # <<r, l>>,
               req'[u].todo[k].id = req'[r].todo[l].id
        PROVE  req'[u].todo[k].id \in forgotten'
    <2>1. CASE u = s /\ r = s
      BY <1>1, <1>4, <1>9, <2>1
    <2>2. CASE u = s /\ r # s
      <3>1. req[r].todo[l].id \in Range(dedup) \cup forgotten
        BY <1>1, <2>2 DEF OnceOK
      <3> QED  BY <1>1, <1>6, <1>9, <2>2, <3>1
    <2>3. CASE u # s /\ r = s
      <3>1. req[u].todo[k].id \in Range(dedup) \cup forgotten
        BY <1>1, <2>3 DEF OnceOK
      <3> QED  BY <1>1, <1>6, <1>9, <2>3, <3>1
    <2>4. CASE u # s /\ r # s
      <3>1. req'[u] = req[u] /\ req'[r] = req[r]
        BY <1>1, <2>4
      <3>2. req[u].todo[k].id \in forgotten
        BY <1>9, <3>1, OncePending
      <3> QED  BY <1>3, <3>1, <3>2
    <2> QED  BY <2>1, <2>2, <2>3, <2>4
  <1>10. \A i \in 1..Len(stream) : stream[i].id \in Range(dedup') \cup forgotten'
    BY <1>3, <1>4 DEF OnceOK
  <1>11. ASSUME NEW r \in Slot, NEW k \in 1..Len(req'[r].todo)
         PROVE  req'[r].todo[k].id \in Range(dedup') \cup forgotten'
    <2>1. CASE r = s
      BY <1>1, <1>4, <1>5, <2>1
    <2>2. CASE r # s
      BY <1>1, <1>3, <1>4, <2>2 DEF OnceOK
    <2> QED  BY <2>1, <2>2
  <1> QED  BY <1>3, <1>7, <1>8, <1>9, <1>10, <1>11 DEF OnceOK

LEMMA OnceStep == TypeOK /\ OnceOK /\ [Next]_vars => OnceOK'
  <1> SUFFICES ASSUME TypeOK, OnceOK, [Next]_vars PROVE OnceOK'
    OBVIOUS
  <1>0. RequestsOK
    BY DEF TypeOK
  <1>1. ASSUME NEW s \in Slot, Release(s)
        PROVE  \A r \in Slot : req'[r].todo \in {req[r].todo, << >>}
    <2>1. req'[s].todo = << >> /\ \A r \in Slot : r # s => req'[r] = req[r]
      BY <1>0, <1>1, ReleaseFacts, FreeIsRequest
    <2> QED  BY <2>1
  <1>2. ASSUME NEW a \in Agent, NEW s \in Slot, Post(a, s) PROVE OnceOK'
    <2>1. req'[s].todo = << >> /\ \A r \in Slot : r # s => req'[r] = req[r]
      BY <1>2, PostFacts
    <2>2. \A r \in Slot : req'[r].todo \in {req[r].todo, << >>}
      BY <2>1
    <2>3. stream' = stream /\ dedup' = dedup /\ forgotten' = forgotten
      BY <1>2 DEF Post, history
    <2> QED  BY <2>2, <2>3, OnceQuietly
  <1>3. ASSUME NEW s \in Slot, RefuseTooLarge(s) \/ RefuseCredential(s) \/ Respond(s) PROVE OnceOK'
    <2>1. stream' = stream /\ dedup' = dedup /\ forgotten' = forgotten /\ Release(s)
      BY <1>3 DEF RefuseTooLarge, RefuseCredential, Respond, history
    <2> QED  BY <1>1, <2>1, OnceQuietly
  <1>4. ASSUME NEW s \in Slot, RefuseBatch(s) PROVE OnceOK'
    <2>1. /\ stream' = stream /\ Release(s) /\ req[s].state = "received"
          /\ dedup' = Verdict(s).cache /\ forgotten' = forgotten \cup Verdict(s).lost
      BY <1>4 DEF RefuseBatch, Charge
    <2>2. Range(dedup) \subseteq Range(Verdict(s).cache) \cup Verdict(s).lost
      BY <2>1, VerdictIsOK DEF LoopOK
    <2>3. Range(dedup) \subseteq Range(dedup') \cup forgotten' /\ forgotten \subseteq forgotten'
      BY <2>1, <2>2
    <2> QED  BY <1>1, <2>1, <2>3, OnceQuietly
  <1>5. ASSUME NEW s \in Slot, PublishNext(s) PROVE OnceOK'
    <2>1. dedup' = dedup /\ forgotten' = forgotten
      BY <1>5 DEF PublishNext, history
    <2>2. /\ req[s].todo # << >> /\ req'[s].todo = Tail(req[s].todo)
          /\ stream' = Append(stream, Head(req[s].todo))
          /\ \A r \in Slot : r # s => req'[r] = req[r]
      BY <1>5, PublishFacts
    <2> QED  BY <2>1, <2>2, OncePublished
  <1>6. ASSUME NEW s \in Slot, PublishFails(s) PROVE OnceOK'
    <2>1. /\ dedup' = dedup /\ forgotten' = forgotten /\ req[s].todo # << >>
          /\ stream' = stream \/ stream' = Append(stream, Head(req[s].todo))
      BY <1>6 DEF PublishFails, history
    <2>2. req'[s] = Free /\ \A r \in Slot : r # s => req'[r] = req[r]
      BY <1>0, <1>6, ReleaseFacts DEF PublishFails
    <2>3. CASE stream' = stream
      <3>1. Release(s)
        BY <1>6 DEF PublishFails
      <3> QED  BY <1>1, <2>1, <2>3, <3>1, OnceQuietly
    <2>4. CASE stream' = Append(stream, Head(req[s].todo))
      <3>1. req'[s].todo = << >>
        BY <2>2, FreeIsRequest
      <3> QED  BY <2>1, <2>2, <2>4, <3>1, OncePublished
    <2> QED  BY <2>1, <2>3, <2>4
  <1>7. ASSUME Restart PROVE OnceOK'
    <2>1. /\ stream' = stream /\ forgotten' = forgotten \cup Range(dedup)
          /\ \A s \in Slot : req'[s] = Free
      BY <1>7 DEF Restart
    <2>2. \A s \in Slot : req'[s].todo \in {req[s].todo, << >>}
      BY <2>1, FreeIsRequest
    <2> QED  BY <2>1, <2>2, OnceQuietly
  <1>8. ASSUME req' = req, stream' = stream, dedup' = dedup, forgotten' = forgotten PROVE OnceOK'
    BY <1>8, OnceQuietly
  <1>9. ASSUME NEW s \in Slot, Serve(s) PROVE OnceOK'
    BY <1>3, <1>4, <1>5, <1>6, <1>9, OnceAdmitted DEF Serve
  <1>10. ASSUME NEW a \in Agent, ClientTimeout(a) PROVE OnceOK'
    BY <1>8, <1>10 DEF ClientTimeout, serverVars, history
  <1>11. ASSUME NEW o \in Tenants, Refill(o) PROVE OnceOK'
    BY <1>8, <1>11 DEF Refill, history
  <1>12. CASE UNCHANGED vars
    BY <1>8, <1>12 DEF vars, serverVars, history
  <1> QED  BY <1>2, <1>7, <1>9, <1>10, <1>11, <1>12 DEF Next

(***************************************************************************)
(* "Replays are absorbed": for any number of agents and requests in        *)
(* flight, an event whose id the cache has never lost is published at most *)
(* once.  That it is in the stream once is not inductive: while its first  *)
(* request still publishes, a retry must find it in the cache (OnceOK).    *)
(***************************************************************************)
THEOREM ReplaysAreAbsorbed == Spec => []DuplicateOnlyIfForgotten
  <1>1. TypeOK /\ OnceOK => DuplicateOnlyIfForgotten
    <2> SUFFICES ASSUME TypeOK, OnceOK, NEW id \in Ids \ forgotten PROVE Copies(id) <= 1
      BY DEF DuplicateOnlyIfForgotten
    <2> DEFINE at == {i \in DOMAIN stream : stream[i].id = id}
    <2>1. DOMAIN stream = 1..Len(stream)
      BY LenProperties DEF TypeOK
    <2>2. \A i, j \in at : i = j
      BY <2>1 DEF OnceOK
    <2>3. at = {} \/ \E i : at = {i}
      BY <2>2
    <2> HIDE DEF at
    <2>4. Cardinality(at) = 0 \/ Cardinality(at) = 1
      BY <2>3, FS_EmptySet, FS_Singleton
    <2>5. Cardinality(at) <= 1
      BY <2>4
    <2> QED  BY <2>5 DEF Copies, at
  <1> QED  BY <1>1, TypeInvariance, OnceInit, OnceStep, PTL DEF Spec

-----------------------------------------------------------------------------
(* Acknowledgements                                                         *)

\* What is safe stays so when a request only gives events away to the stream.
LEMMA SafeGrows ==
    ASSUME Range(stream) \subseteq Range(stream'),
           \A s \in Slot : Range(req[s].todo) \subseteq Range(req'[s].todo) \cup Range(stream')
    PROVE  Safe \subseteq Safe'
  BY DEF Safe, InFlight

\* A step that remembers no new signal and answers 200 to none that is not safe.
LEMMA DurableQuietly ==
    ASSUME DurableOK, Safe \subseteq Safe',
           \A e \in OwnSignals : e.id \in Range(dedup') => e.id \in Range(dedup) \/ e \in Safe',
           \A s \in Slot : req'[s].state = "publishing"
               => \/ req[s].state = "publishing" /\ req'[s].lines = req[s].lines
                  \/ Range(req'[s].lines) \cap OwnSignals \subseteq Safe',
           (acked' \ acked) \cap OwnSignals \subseteq Safe'
    PROVE  DurableOK'
  <1>1. \A e \in OwnSignals : e.id \in Range(dedup') => e \in Safe'
    BY DEF DurableOK
  <1>2. ASSUME NEW s \in Slot, req'[s].state = "publishing"
        PROVE  Range(req'[s].lines) \cap OwnSignals \subseteq Safe'
    <2>1. CASE req[s].state = "publishing" /\ req'[s].lines = req[s].lines
      <3>1. Range(req[s].lines) \cap OwnSignals \subseteq Safe
        BY <2>1 DEF DurableOK
      <3> QED  BY <2>1, <3>1
    <2>2. CASE ~ (req[s].state = "publishing" /\ req'[s].lines = req[s].lines)
      BY <1>2, <2>2
    <2> QED  BY <2>1, <2>2
  <1>3. AckedIsDurableOrInFlight'
    <2>1. acked \cap OwnSignals \subseteq Safe
      BY DEF DurableOK, AckedIsDurableOrInFlight, Safe
    <2>2. acked' \cap OwnSignals \subseteq Safe'
      BY <2>1
    <2> QED  BY <2>2 DEF AckedIsDurableOrInFlight, Safe
  <1> QED  BY <1>1, <1>2, <1>3 DEF DurableOK

LEMMA DurableInit == Init => DurableOK
  <1> SUFFICES ASSUME Init PROVE DurableOK
    OBVIOUS
  <1>2. Range(dedup) = {}
    BY RangeFacts, EmptySeq DEF Init
  <1>3. \A s \in Slot : req[s].state # "publishing"
    BY FreeIsRequest DEF Init
  <1>4. AckedIsDurableOrInFlight
    BY DEF Init, AckedIsDurableOrInFlight
  <1> QED  BY <1>2, <1>3, <1>4 DEF DurableOK

\* A request that ends with nothing left to publish takes nothing with it.
LEMMA ReleaseIsSafe ==
    ASSUME TypeOK, DurableOK, NEW s \in Slot, Release(s), req[s].todo = << >>, stream' = stream
    PROVE  /\ Safe \subseteq Safe'
           /\ \A r \in Slot : req'[r].state = "publishing"
                  => req[r].state = "publishing" /\ req'[r].lines = req[r].lines
  <1>1. req'[s] = Free /\ \A r \in Slot : r # s => req'[r] = req[r]
    BY ReleaseFacts DEF TypeOK
  <1>2. Range(req[s].todo) = {}
    BY RangeFacts, EmptySeq
  <1>3. \A r \in Slot : Range(req[r].todo) \subseteq Range(req'[r].todo) \cup Range(stream')
    BY <1>1, <1>2
  <1>4. Safe \subseteq Safe'
    BY <1>3, SafeGrows
  <1>7. \A r \in Slot : req'[r].state = "publishing"
            => req[r].state = "publishing" /\ req'[r].lines = req[r].lines
    BY <1>1, FreeIsRequest
  <1> QED  BY <1>4, <1>7

\* Every signal of an admitted batch is remembered from before or about to be published.
LEMMA AdmittedSignals ==
    ASSUME TypeOK, EveryLineIsRead, NEW s \in Slot, Admit(s)
    PROVE  /\ Safe \subseteq Safe' /\ Range(Verdict(s).todo) \subseteq Safe'
           /\ \A e \in Range(req[s].lines) \cap OwnSignals :
                  e.id \in Range(dedup) \cup IdsOf(Verdict(s).todo)
  <1> DEFINE v == Verdict(s)
             lines == req[s].lines
  <1>1. /\ req[s].state = "received" /\ req'[s].todo = v.todo /\ req[s].todo = << >>
        /\ \A r \in Slot : r # s => req'[r] = req[r]
    BY AdmitFacts
  <1>2. LoopOK(lines, Len(lines), v) /\ lines \in Seq(Events)
    BY <1>1, VerdictIsOK, RequestFacts DEF TypeOK
  <1>3. Range(req[s].todo) = {} /\ stream' = stream
    BY <1>1, RangeFacts, EmptySeq DEF Admit
  <1>4. Safe \subseteq Safe'
    <2>1. \A r \in Slot : Range(req[r].todo) \subseteq Range(req'[r].todo) \cup Range(stream')
      BY <1>1, <1>3
    <2> QED  BY <1>3, <2>1, SafeGrows
  <1>5. Range(v.todo) \subseteq Safe'
    BY <1>1 DEF Safe, InFlight
  <1>7. v.end = ""
    <2>1. v.end \in {"", "limit", "quota", "error"}
      BY <1>2 DEF LoopOK, LoopState
    <2>2. v.end \notin {"quota", "error"}
      BY DEF Admit
    <2>3. v.end # "limit"
      BY <1>1 DEF EveryLineIsRead
    <2> QED  BY <2>1, <2>2, <2>3
  <1> HIDE DEF v, lines
  <1>8. ASSUME NEW e \in Range(lines) \cap OwnSignals PROVE e.id \in Range(dedup) \cup IdsOf(v.todo)
    <2>1. PICK i \in 1..Len(lines) : lines[i] = e
      BY <1>2, RangeFacts
    <2>2. lines[i].kind = "signal"
      BY <2>1 DEF OwnSignals, Signals
    <2> QED  BY <1>2, <1>7, <2>1, <2>2 DEF LoopOK
  <1> QED  BY <1>4, <1>5, <1>8 DEF v, lines

LEMMA DurableStep ==
    ASSUME Calm
    PROVE  /\ TypeOK /\ RefusalsSpareSignals /\ EveryLineIsRead /\ DurableOK /\ [Next]_vars
           => DurableOK'
  <1> SUFFICES ASSUME TypeOK, RefusalsSpareSignals, EveryLineIsRead, DurableOK, [Next]_vars PROVE DurableOK'
    OBVIOUS
  <1>0. RequestsOK
    BY DEF TypeOK
  <1>1. ASSUME NEW a \in Agent, NEW s \in Slot, Post(a, s) PROVE DurableOK'
    <2>1. /\ req[s].state = "free" /\ req'[s].state = "received"
          /\ \A r \in Slot : r # s => req'[r] = req[r]
      BY <1>1, PostFacts
    <2>2. stream' = stream /\ dedup' = dedup /\ acked' = acked
      BY <1>1 DEF Post, history
    <2>3. Range(req[s].todo) = {}
      BY <1>0, <2>1, RequestFacts, RangeFacts, EmptySeq
    <2>4. \A r \in Slot : Range(req[r].todo) \subseteq Range(req'[r].todo) \cup Range(stream')
      BY <2>1, <2>3
    <2>5. Safe \subseteq Safe'
      BY <2>2, <2>4, SafeGrows
    <2> QED  BY <2>1, <2>2, <2>5, DurableQuietly
  <1>2. ASSUME NEW s \in Slot, RefuseTooLarge(s) \/ RefuseCredential(s) PROVE DurableOK'
    <2>1. /\ Release(s) /\ req[s].state = "received" /\ stream' = stream /\ dedup' = dedup
          /\ acked' = acked
      BY <1>2 DEF RefuseTooLarge, RefuseCredential, history
    <2>2. req[s].todo = << >>
      BY <1>0, <2>1, RequestFacts
    <2> QED  BY <2>1, <2>2, ReleaseIsSafe, DurableQuietly
  <1>3. ASSUME NEW s \in Slot, RefuseBatch(s) PROVE DurableOK'
    <2> DEFINE v == Verdict(s)
    <2>1. /\ Release(s) /\ req[s].state = "received" /\ stream' = stream /\ acked' = acked
          /\ dedup' = v.cache /\ v.end \in {"quota", "error"}
      BY <1>3 DEF RefuseBatch, Charge, Calm
    <2>2. req[s].todo = << >>
      BY <1>0, <2>1, RequestFacts
    <2>3. v.todo \in Seq(Events) /\ Range(v.cache) \subseteq Range(dedup) \cup IdsOf(v.todo)
      BY <2>1, VerdictIsOK DEF LoopOK, LoopState
    <2>4. \A e \in Range(v.todo) : e.kind # "signal" /\ e \in Events
      <3>1. Range(v.todo) \subseteq Events /\ Range(v.todo) = {v.todo[k] : k \in 1..Len(v.todo)}
        BY <2>3, RangeFacts
      <3>2. \A k \in 1..Len(v.todo) : v.todo[k].kind # "signal"
        BY <2>1, <2>3, LenProperties DEF RefusalsSpareSignals
      <3> QED  BY <3>1, <3>2
    <2>5. IdsOf(v.todo) = {e.id : e \in Range(v.todo)}
      BY <2>3, IdsOfEvents
    <2> HIDE DEF v
    <2>6. \A e \in OwnSignals : e.id \notin IdsOf(v.todo)
      BY <2>4, <2>5 DEF OwnSignals, Signals
    <2>7. \A e \in OwnSignals : e.id \in Range(dedup') => e.id \in Range(dedup)
      BY <2>1, <2>3, <2>6
    <2> QED  BY <2>1, <2>2, <2>7, ReleaseIsSafe, DurableQuietly
  <1>4. ASSUME NEW s \in Slot, Admit(s) PROVE DurableOK'
    <2> DEFINE v == Verdict(s)
    <2>1. /\ req[s].state = "received" /\ req'[s].lines = req[s].lines /\ req'[s].todo = v.todo
          /\ \A r \in Slot : r # s => req'[r] = req[r]
      BY <1>4, AdmitFacts
    <2>2. /\ Safe \subseteq Safe' /\ Range(v.todo) \subseteq Safe'
          /\ \A e \in Range(req[s].lines) \cap OwnSignals : e.id \in Range(dedup) \cup IdsOf(v.todo)
      BY <1>4, AdmittedSignals
    <2>3. v.todo \in Seq(Events) /\ Range(v.cache) \subseteq Range(dedup) \cup IdsOf(v.todo)
      BY <2>1, VerdictIsOK DEF LoopOK, LoopState
    <2>4. dedup' = v.cache /\ acked' = acked
      BY <1>4 DEF Admit, Charge
    <2>5. IdsOf(v.todo) = {e.id : e \in Range(v.todo)} /\ Range(v.todo) \subseteq Events
      BY <2>3, IdsOfEvents, RangeFacts
    <2> HIDE DEF v
    <2>6. \A e \in OwnSignals : e.id \in IdsOf(v.todo) => e \in Safe'
      BY <2>2, <2>5 DEF OwnSignals, Signals
    <2>7. \A e \in OwnSignals : e.id \in Range(dedup) => e \in Safe'
      BY <2>2 DEF DurableOK
    <2>8. \A e \in OwnSignals : e.id \in Range(dedup') => e.id \in Range(dedup) \/ e \in Safe'
      BY <2>3, <2>4, <2>6
    <2>9. Range(req'[s].lines) \cap OwnSignals \subseteq Safe'
      BY <2>1, <2>2, <2>6, <2>7
    <2> QED  BY <2>1, <2>2, <2>4, <2>8, <2>9, DurableQuietly
  <1>5. ASSUME NEW s \in Slot, PublishNext(s) PROVE DurableOK'
    <2> DEFINE td == req[s].todo
    <2>1. /\ td # << >> /\ req'[s].todo = Tail(td) /\ Head(td) \in Events
          /\ stream' = Append(stream, Head(td))
          /\ req'[s].lines = req[s].lines /\ req[s].state = "publishing"
          /\ \A r \in Slot : r # s => req'[r] = req[r]
      BY <1>5, PublishFacts
    <2>2. td \in Seq(Events) /\ stream \in Seq(Events)
      BY RequestFacts DEF TypeOK
    <2> HIDE DEF td
    <2>3. Range(stream') = Range(stream) \cup {Head(td)} /\ Range(td) = {Head(td)} \cup Range(Tail(td))
      BY <2>1, <2>2, RangeFacts
    <2>4. \A r \in Slot : Range(req[r].todo) \subseteq Range(req'[r].todo) \cup Range(stream')
      BY <2>1, <2>3 DEF td
    <2>5. Safe \subseteq Safe'
      BY <2>3, <2>4, SafeGrows
    <2>6. dedup' = dedup /\ acked' = acked
      BY <1>5 DEF PublishNext, history
    <2>7. \A r \in Slot : req'[r].state = "publishing"
              => req[r].state = "publishing" /\ req'[r].lines = req[r].lines
      BY <2>1
    <2> QED  BY <2>5, <2>6, <2>7, DurableQuietly
  <1>6. ASSUME NEW s \in Slot, PublishFails(s) PROVE DurableOK'
    BY <1>6 DEF PublishFails, Fault, Calm
  <1>7. ASSUME NEW s \in Slot, Respond(s) PROVE DurableOK'
    <2>1. /\ Release(s) /\ req[s].state = "publishing" /\ req[s].todo = << >>
          /\ stream' = stream /\ dedup' = dedup
          /\ acked' \subseteq acked \cup Range(req[s].lines)
      BY <1>7 DEF Respond
    <2>2. Safe \subseteq Safe'
      BY <2>1, ReleaseIsSafe
    <2>3. Range(req[s].lines) \cap OwnSignals \subseteq Safe
      BY <2>1 DEF DurableOK
    <2>4. (acked' \ acked) \cap OwnSignals \subseteq Safe'
      BY <2>1, <2>2, <2>3
    <2> QED  BY <2>1, <2>4, ReleaseIsSafe, DurableQuietly
  <1>8. ASSUME req' = req, stream' = stream, dedup' = dedup, acked' = acked PROVE DurableOK'
    <2>1. Safe \subseteq Safe'
      BY <1>8, SafeGrows
    <2> QED  BY <1>8, <2>1, DurableQuietly
  <1>9. ASSUME NEW s \in Slot, Serve(s) PROVE DurableOK'
    BY <1>2, <1>3, <1>4, <1>5, <1>6, <1>7, <1>9 DEF Serve
  <1>10. ASSUME NEW a \in Agent, ClientTimeout(a) PROVE DurableOK'
    BY <1>8, <1>10 DEF ClientTimeout, serverVars, history
  <1>11. ASSUME NEW o \in Tenants, Refill(o) PROVE DurableOK'
    BY <1>8, <1>11 DEF Refill, history
  <1>12. CASE Restart
    BY <1>12 DEF Restart, Fault, Calm
  <1>13. CASE UNCHANGED vars
    BY <1>8, <1>13 DEF vars, serverVars, history
  <1> QED  BY <1>1, <1>9, <1>10, <1>11, <1>12, <1>13 DEF Next

(***************************************************************************)
(* An answer of 200 is kept, unless one of the gateway's three ways to     *)
(* lose a signal it has acknowledged happens: the sink or the process      *)
(* fails; a batch is refused, for want of quota or for a broken line,      *)
(* after an earlier signal of it has been remembered (RefusalsSpareSignals *)
(* fails: the retry finds a duplicate); or a batch is longer than the      *)
(* gateway reads (EveryLineIsRead fails).  The code prevents none of them. *)
(* Without them, whatever times out and however requests and retries       *)
(* interleave, every signal answered 200 whose event_id no other event     *)
(* bears is in the stream or in a request still publishing it.             *)
(***************************************************************************)
THEOREM AnswersAreKept ==
    ASSUME Calm
    PROVE  Spec /\ []RefusalsSpareSignals /\ []EveryLineIsRead => []AckedIsDurableOrInFlight
  <1>1. DurableOK => AckedIsDurableOrInFlight
    BY DEF DurableOK
  <1>2. TypeOK /\ RefusalsSpareSignals /\ EveryLineIsRead /\ DurableOK /\ [Next]_vars => DurableOK'
    BY DurableStep
  <1> QED  BY <1>1, <1>2, TypeInvariance, DurableInit, PTL DEF Spec

\* A run of a list with one signal, and the list without the run, have no more.
LEMMA OneSignalRun ==
    ASSUME NEW s \in Seq(Events), OneSignal(s), NEW i \in DOMAIN s, NEW j \in DOMAIN s, i <= j
    PROVE  /\ OneSignal(SubSeq(s, i, j))
           /\ OneSignal(SubSeq(s, 1, i - 1) \o SubSeq(s, j + 1, Len(s)))
  <1>1. /\ Len(s) \in Nat /\ DOMAIN s = 1..Len(s) /\ i \in 1..Len(s) /\ j \in 1..Len(s)
        /\ \A k \in 1..Len(s) : s[k] \in Events
    BY LenProperties, ElementOfSeq
  <1>2. OneSignal(SubSeq(s, i, j))
    <2> DEFINE r == SubSeq(s, i, j)
    <2>1. i \in Int /\ j \in Int /\ \A k \in i..j : s[k] \in Events
      BY <1>1
    <2>2. /\ r \in Seq(Events) /\ Len(r) = j - i + 1
          /\ \A k \in 1..(j - i + 1) : r[k] = s[i + k - 1]
      BY <2>1, SubSeqProperties
    <2>3. DOMAIN r = 1..(j - i + 1)
      BY <2>2, LenProperties
    <2> HIDE DEF r
    <2>4. ASSUME NEW k \in DOMAIN r, NEW l \in DOMAIN r, r[k].kind = "signal", r[l].kind = "signal"
          PROVE  k = l
      <3>1. k \in 1..(j - i + 1) /\ l \in 1..(j - i + 1)
        BY <2>3
      <3>2. /\ i + k - 1 \in DOMAIN s /\ i + l - 1 \in DOMAIN s
            /\ i + k - 1 = i + l - 1 => k = l
        BY <1>1, <3>1
      <3>3. i + k - 1 = i + l - 1
        BY <2>2, <2>4, <3>1, <3>2 DEF OneSignal
      <3> QED  BY <3>2, <3>3
    <2>5. OneSignal(r)
      BY <2>4 DEF OneSignal
    <2> QED  BY <2>5 DEF r
  <1>3. OneSignal(SubSeq(s, 1, i - 1) \o SubSeq(s, j + 1, Len(s)))
    <2> DEFINE left == SubSeq(s, 1, i - 1)
               right == SubSeq(s, j + 1, Len(s))
               rest == left \o right
               at(k) == IF k <= i - 1 THEN k ELSE j + (k - (i - 1))
    <2>1. i - 1 \in 0..Len(s) /\ j \in 0..Len(s)
      BY <1>1
    <2>2. /\ left \in Seq(Events) /\ Len(left) = i - 1
          /\ \A k \in 1..(i - 1) : left[k] = s[k]
          /\ right \in Seq(Events) /\ Len(right) = Len(s) - j
          /\ \A k \in 1..(Len(s) - j) : right[k] = s[j + k]
      <3>1. /\ left \in Seq(Events) /\ Len(left) = i - 1
            /\ \A k \in 1..(i - 1) : left[k] = s[k]
        BY <2>1, SplitSeq
      <3>2. /\ right \in Seq(Events) /\ Len(right) = Len(s) - j
            /\ \A k \in 1..(Len(s) - j) : right[k] = s[j + k]
        BY <2>1, SplitSeq
      <3> QED  BY <3>1, <3>2
    <2> HIDE DEF left, right
    <2>3. /\ rest \in Seq(Events) /\ Len(rest) = Len(left) + Len(right)
          /\ \A k \in 1..(Len(left) + Len(right)) :
                 rest[k] = IF k <= Len(left) THEN left[k] ELSE right[k - Len(left)]
      BY <2>2, ConcatProperties
    <2>4. DOMAIN rest = 1..((i - 1) + (Len(s) - j))
      BY <2>2, <2>3, LenProperties
    <2> HIDE DEF rest
    <2>5. ASSUME NEW k \in DOMAIN rest PROVE rest[k] = s[at(k)] /\ at(k) \in DOMAIN s
      <3>1. /\ k \in 1..((i - 1) + (Len(s) - j)) /\ k \in 1..(Len(left) + Len(right)) /\ k \in Int
        BY <2>2, <2>3, <2>4, <1>1
      <3>2. CASE k <= i - 1
        <4>1. k \in 1..(i - 1) /\ k \in 1..Len(s)
          BY <1>1, <3>1, <3>2
        <4> QED  BY <1>1, <2>2, <2>3, <3>1, <3>2, <4>1
      <3>3. CASE ~ (k <= i - 1)
        <4>1. k - (i - 1) \in 1..(Len(s) - j) /\ j + (k - (i - 1)) \in 1..Len(s)
          BY <1>1, <3>1, <3>3
        <4>2. right[k - (i - 1)] = s[j + (k - (i - 1))]
          BY <2>2, <4>1
        <4>3. rest[k] = right[k - (i - 1)]
          BY <2>2, <2>3, <3>1, <3>3
        <4> QED  BY <1>1, <3>3, <4>1, <4>2, <4>3
      <3> QED  BY <3>2, <3>3
    <2>6. ASSUME NEW k \in DOMAIN rest, NEW l \in DOMAIN rest, at(k) = at(l) PROVE k = l
      <3>1. k \in Int /\ l \in Int /\ i \in Int /\ j \in Int
        BY <1>1, <2>4
      <3> QED  BY <2>6, <3>1
    <2> HIDE DEF at
    <2>7. ASSUME NEW k \in DOMAIN rest, NEW l \in DOMAIN rest,
                 rest[k].kind = "signal", rest[l].kind = "signal"
          PROVE  k = l
      <3>1. at(k) = at(l)
        BY <2>5, <2>7 DEF OneSignal
      <3> QED  BY <2>6, <3>1
    <2>8. OneSignal(rest)
      BY <2>7 DEF OneSignal
    <2> QED  BY <2>8 DEF rest, left, right
  <1> QED  BY <1>2, <1>3

LEMMA PacedStep == TypeOK /\ PacedOK /\ [Next]_vars => PacedOK'
  <1> SUFFICES ASSUME TypeOK, PacedOK, [Next]_vars PROVE PacedOK'
    OBVIOUS
  <1>0. RequestsOK /\ outbox \in [Agent -> Seq(Events)] /\ OneSignal(Free.lines)
    <2>1. DOMAIN << >> = {}
      OBVIOUS
    <2> QED  BY <2>1, FreeIsRequest DEF TypeOK, OneSignal
  <1>1. ASSUME NEW s \in Slot, Release(s) PROVE \A r \in Slot : OneSignal(req'[r].lines)
    <2>1. req'[s] = Free /\ \A r \in Slot : r # s => req'[r] = req[r]
      BY <1>0, <1>1, ReleaseFacts
    <2> QED  BY <1>0, <2>1 DEF PacedOK
  <1>2. ASSUME NEW a \in Agent, NEW lines, Forget(a, lines) PROVE \A b \in Agent : OneSignal(outbox'[b])
    <2>1. PICK i \in DOMAIN outbox[a], j \in DOMAIN outbox[a] :
              /\ i <= j
              /\ outbox' = [outbox EXCEPT ![a] = SubSeq(@, 1, i - 1) \o SubSeq(@, j + 1, Len(@))]
      BY <1>2 DEF Forget
    <2>2. OneSignal(SubSeq(outbox[a], 1, i - 1) \o SubSeq(outbox[a], j + 1, Len(outbox[a])))
      BY <1>0, <2>1, OneSignalRun DEF PacedOK
    <2>3. /\ outbox'[a] = SubSeq(outbox[a], 1, i - 1) \o SubSeq(outbox[a], j + 1, Len(outbox[a]))
          /\ \A b \in Agent : b # a => outbox'[b] = outbox[b]
      BY <1>0, <2>1
    <2> QED  BY <2>2, <2>3 DEF PacedOK
  <1>3. ASSUME NEW a \in Agent, NEW s \in Slot, Post(a, s) PROVE PacedOK'
    <2>1. PICK i \in DOMAIN outbox[a], j \in DOMAIN outbox[a] :
             /\ i <= j
             /\ req' = [req EXCEPT ![s] =
                           [Free EXCEPT !.state = "received", !.agent = a,
                                        !.lines = SubSeq(outbox[a], i, j)]]
      BY <1>3 DEF Post
    <2>2. OneSignal(SubSeq(outbox[a], i, j))
      BY <1>0, <2>1, OneSignalRun DEF PacedOK
    <2>3. req'[s].lines = SubSeq(outbox[a], i, j) /\ \A r \in Slot : r # s => req'[r] = req[r]
      BY <1>0, <2>1 DEF RequestsOK, Free
    <2>4. outbox' = outbox
      BY <1>3 DEF Post
    <2> QED  BY <2>2, <2>3, <2>4 DEF PacedOK
  <1>4. ASSUME NEW s \in Slot, RefuseTooLarge(s) \/ Respond(s) PROVE PacedOK'
    <2>1. Release(s) /\ req[s].agent \in Agent
      BY <1>0, <1>4, RequestFacts DEF RefuseTooLarge, Respond
    <2>2. outbox' = outbox \/ Forget(req[s].agent, req[s].lines)
      BY <1>4 DEF RefuseTooLarge, Respond
    <2> QED  BY <1>1, <1>2, <2>1, <2>2 DEF PacedOK
  <1>5. ASSUME NEW s \in Slot, RefuseCredential(s) \/ RefuseBatch(s) \/ PublishFails(s) PROVE PacedOK'
    <2>1. Release(s) /\ outbox' = outbox
      BY <1>5 DEF RefuseCredential, RefuseBatch, PublishFails
    <2> QED  BY <1>1, <2>1 DEF PacedOK
  <1>6. ASSUME NEW s \in Slot, Admit(s) \/ PublishNext(s) PROVE PacedOK'
    <2>1. req'[s].lines = req[s].lines /\ \A r \in Slot : r # s => req'[r] = req[r]
      BY <1>6, AdmitFacts, PublishFacts
    <2>2. outbox' = outbox
      BY <1>6 DEF Admit, PublishNext, clientVars
    <2> QED  BY <2>1, <2>2 DEF PacedOK
  <1>7. CASE Restart
    BY <1>0, <1>7 DEF Restart, PacedOK
  <1>8. ASSUME req' = req, outbox' = outbox PROVE PacedOK'
    BY <1>8 DEF PacedOK
  <1>9. ASSUME NEW s \in Slot, Serve(s) PROVE PacedOK'
    BY <1>4, <1>5, <1>6, <1>9 DEF Serve
  <1>10. ASSUME NEW a \in Agent, ClientTimeout(a) PROVE PacedOK'
    BY <1>8, <1>10 DEF ClientTimeout, serverVars
  <1>11. ASSUME NEW o \in Tenants, Refill(o) PROVE PacedOK'
    BY <1>8, <1>11 DEF Refill, clientVars
  <1>12. CASE UNCHANGED vars
    BY <1>8, <1>12 DEF vars, clientVars, serverVars
  <1> QED  BY <1>3, <1>7, <1>9, <1>10, <1>11, <1>12 DEF Next

\* The line that ends the loop for want of quota is the batch's one signal; no line is broken.
LEMMA PacedSpares ==
    ASSUME TypeOK, PacedOK, \A e \in Events : e.kind # "broken"
    PROVE  RefusalsSpareSignals
  <1> SUFFICES ASSUME NEW s \in Slot, req[s].state = "received", Verdict(s).end \in {"quota", "error"},
                      NEW k \in DOMAIN Verdict(s).todo
               PROVE  Verdict(s).todo[k].kind # "signal"
    BY DEF RefusalsSpareSignals
  <1> DEFINE v == Verdict(s)
             lines == req[s].lines
  <1>1. LoopOK(lines, Len(lines), v) /\ lines \in Seq(Events) /\ OneSignal(lines)
    BY VerdictIsOK, RequestFacts DEF TypeOK, PacedOK
  <1>2. DOMAIN lines = 1..Len(lines)
    BY <1>1, LenProperties
  <1>3. k \in 1..Len(v.todo)
    BY <1>1, LenProperties DEF LoopOK, LoopState
  <1>4. v.end = "quota"
    <2>1. v.end \in {"quota", "error"}
      OBVIOUS
    <2> HIDE DEF v, lines
    <2>2. \A i \in 1..Len(lines) : lines[i].kind # "broken"
      BY <1>1, ElementOfSeq
    <2>3. v.end # "error"
      BY <1>1, <2>2 DEF LoopOK
    <2> QED  BY <2>1, <2>3
  <1> HIDE DEF v, lines
  <1>5. PICK q \in 1..Len(lines) :
            /\ lines[q].kind = "signal"
            /\ \A l \in 1..Len(v.todo) : \E i \in 1..Len(lines) : i # q /\ v.todo[l] = lines[i]
    BY <1>1, <1>4 DEF LoopOK
  <1>6. PICK i \in 1..Len(lines) : i # q /\ v.todo[k] = lines[i]
    BY <1>3, <1>5
  <1>7. lines[i].kind # "signal"
    BY <1>1, <1>2, <1>5, <1>6 DEF OneSignal
  <1> QED  BY <1>6, <1>7 DEF v

(***************************************************************************)
(* Where every agent has one signal to deliver, whatever telemetry goes    *)
(* with it, and no line is broken, no refused batch has remembered a       *)
(* signal.  Then only the length of the batches is left to assume: as      *)
(* long as the gateway reads every line it is sent, answers are kept.      *)
(***************************************************************************)
THEOREM PacedAnswersAreKept ==
    ASSUME Calm, \A a \in Agent : OneSignal(Outbox[a]), \A e \in Events : e.kind # "broken"
    PROVE  Spec /\ []EveryLineIsRead => []AckedIsDurableOrInFlight
  <1>1. Init => PacedOK
    <2>1. DOMAIN << >> = {}
      OBVIOUS
    <2>2. OneSignal(Free.lines)
      BY <2>1, FreeIsRequest DEF OneSignal
    <2> QED  BY <2>2 DEF Init, PacedOK
  <1>2. TypeOK /\ PacedOK => RefusalsSpareSignals
    BY PacedSpares
  <1>3. Spec /\ []RefusalsSpareSignals /\ []EveryLineIsRead => []AckedIsDurableOrInFlight
    BY AnswersAreKept
  <1>4. Spec => []TypeOK
    BY TypeInvariance
  <1>5. TypeOK /\ PacedOK /\ [Next]_vars => PacedOK'
    BY PacedStep
  <1> QED  BY <1>1, <1>2, <1>3, <1>4, <1>5, PTL DEF Spec
=============================================================================
