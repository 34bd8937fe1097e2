------------------------- MODULE RequestFlowProofs -------------------------
(***************************************************************************)
(* Four arguments that meet in a request.  The arithmetic of ranges        *)
(* neither loses a character nor invents one, at any offset and of any     *)
(* length.  No thread works for one request while it reports for another,  *)
(* whatever the number of threads, requests, tasks and nested servlets,    *)
(* and whatever the application does with its values meanwhile.  So what   *)
(* the tables of a request know is true and complete, but for the losses   *)
(* the model names: its flows are caught and its evidence is of its own.   *)
(* And then blocking lets nothing through that AttackSignatures looks at.  *)
(***************************************************************************)
EXTENDS RequestFlow, SequenceTheorems, FiniteSetTheorems, NaturalsInduction, TLAPS

(***************************************************************************)
(* Ranges                                                                  *)
(***************************************************************************)
\* The character at offset i is in r.
Marks(r, i) == r.start <= i /\ i < End(r)

\* The characters a list of ranges marks.
Marked(ranges, i) == \E n \in DOMAIN ranges : Marks(ranges[n], i)

-----------------------------------------------------------------------------
\* A range has numbers for its ends, and ends after it starts.
LEMMA RangeFacts ==
    ASSUME NEW r \in TaintRange
    PROVE  /\ r.start \in Nat /\ r.length \in Nat /\ r.length > 0
           /\ End(r) \in Nat /\ r.start < End(r)
  BY DEF TaintRange, End

\* A range moved and cut is a range, and says the same of its characters.
LEMMA ReboundIsRange ==
    ASSUME NEW r \in TaintRange, NEW s \in Nat, NEW n \in Nat, n > 0
    PROVE  /\ Rebound(r, s, n) \in TaintRange
           /\ Rebound(r, s, n).start = s
           /\ End(Rebound(r, s, n)) = s + n
           /\ Rebound(r, s, n).source = r.source
           /\ Rebound(r, s, n).cleared = r.cleared
  <1>1. Rebound(r, s, n) \in TaintRange
    BY DEF Rebound, TaintRange
  <1> QED
    BY <1>1 DEF Rebound, End

\* Two lists of one range make a list of two.
LEMMA PairOfRanges == \A a, b : <<a>> \o <<b>> = <<a, b>>
  <1> TAKE a, b
  <1> DEFINE S == {a, b}
  <1>1. <<a>> \in Seq(S) /\ <<b>> \in Seq(S) /\ <<a, b>> \in Seq(S)
    OBVIOUS
  <1>2. /\ Len(<<a>>) = 1 /\ Len(<<b>>) = 1 /\ Len(<<a, b>>) = 2
        /\ <<a>>[1] = a /\ <<b>>[1] = b /\ <<a, b>>[1] = a /\ <<a, b>>[2] = b
    OBVIOUS
  <1>3. /\ <<a>> \o <<b>> \in Seq(S) /\ Len(<<a>> \o <<b>>) = 2
        /\ (<<a>> \o <<b>>)[1] = a /\ (<<a>> \o <<b>>)[2] = b
    BY <1>1, <1>2, ConcatProperties
  <1>4. \A i \in 1..2 : (<<a>> \o <<b>>)[i] = <<a, b>>[i]
    BY <1>2, <1>3
  <1> QED
    BY <1>1, <1>2, <1>3, <1>4, SeqEqual

\* The ends of the window a range is clipped to.
LEMMA WindowFacts ==
    ASSUME NEW r \in TaintRange, NEW from \in Nat, NEW to \in Nat
    PROVE  /\ Larger(r.start, from) \in Nat /\ Smaller(End(r), to) \in Nat
           /\ Larger(r.start, from) >= from /\ Larger(r.start, from) >= r.start
           /\ Smaller(End(r), to) <= to /\ Smaller(End(r), to) <= End(r)
           /\ \A i \in Nat :
                 (Larger(r.start, from) <= i /\ i < Smaller(End(r), to))
                     <=> (from <= i /\ i < to /\ Marks(r, i))
  BY RangeFacts DEF Larger, Smaller, Marks

-----------------------------------------------------------------------------
\* TaintRange.clip: what is left of a range in a window marks exactly the
\* characters it marked there, counted from the window, and says the same of
\* them; nothing is left exactly when the range does not reach the window.
THEOREM ClipIsExact ==
    ASSUME NEW r \in TaintRange, NEW from \in Nat, NEW to \in Nat
    PROVE  /\ \A i \in Nat :
                 Marked(Clip(r, from, to), i) <=> (from + i < to /\ Marks(r, from + i))
           /\ \A n \in DOMAIN Clip(r, from, to) :
                 /\ Clip(r, from, to)[n] \in TaintRange
                 /\ Clip(r, from, to)[n].source = r.source
                 /\ Clip(r, from, to)[n].cleared = r.cleared
  <1> DEFINE first == Larger(r.start, from)
             last == Smaller(End(r), to)
             rest == Rebound(r, first - from, last - first)
  <1>1. first \in Nat /\ last \in Nat /\ first >= from
    BY WindowFacts
  <1>2. \A i \in Nat : (first <= i /\ i < last) <=> (from <= i /\ i < to /\ Marks(r, i))
    BY WindowFacts
  <1>3. CASE last <= first
    <2>1. Clip(r, from, to) = << >>
      BY <1>3 DEF Clip
    <2>2. ASSUME NEW i \in Nat PROVE ~(from + i < to /\ Marks(r, from + i))
      <3>1. from + i \in Nat /\ from <= from + i
        OBVIOUS
      <3>2. ~(first <= from + i /\ from + i < last)
        BY <1>1, <1>3, <3>1
      <3> HIDE DEF first, last
      <3> QED
        BY <1>2, <3>1, <3>2
    <2> QED
      BY <2>1, <2>2 DEF Marked
  <1>4. CASE ~(last <= first)
    <2>1. Clip(r, from, to) = <<rest>>
      BY <1>4 DEF Clip
    <2>2. /\ rest \in TaintRange /\ rest.start = first - from
          /\ End(rest) = (first - from) + (last - first)
          /\ rest.source = r.source /\ rest.cleared = r.cleared
      <3>1. first - from \in Nat /\ last - first \in Nat /\ last - first > 0
        BY <1>1, <1>4
      <3> DEFINE at == first - from
                 n == last - first
      <3>2. at \in Nat /\ n \in Nat /\ n > 0
        BY <3>1
      <3> HIDE DEF first, last, at, n
      <3>3. /\ Rebound(r, at, n) \in TaintRange /\ Rebound(r, at, n).start = at
            /\ End(Rebound(r, at, n)) = at + n
            /\ Rebound(r, at, n).source = r.source /\ Rebound(r, at, n).cleared = r.cleared
        BY <3>2, ReboundIsRange
      <3> QED
        BY <3>3 DEF at, n
    <2> HIDE DEF rest
    <2>3. ASSUME NEW i \in Nat
          PROVE  Marks(rest, i) <=> (from + i < to /\ Marks(r, from + i))
      <3>1. from + i \in Nat /\ from <= from + i
        OBVIOUS
      <3> HIDE DEF first, last
      <3>2. Marks(rest, i) <=> (first <= from + i /\ from + i < last)
        BY <1>1, <2>2 DEF Marks
      <3> QED
        BY <1>2, <3>1, <3>2
    <2>4. \A i \in Nat : Marked(Clip(r, from, to), i) <=> Marks(rest, i)
      BY <2>1 DEF Marked
    <2> QED
      BY <2>1, <2>2, <2>3, <2>4
  <1> QED
    BY <1>3, <1>4

\* TaintRange.mergeableWith and mergeWith: two ranges that are merged make one
\* that marks the characters of both and no other, and says what each of them
\* said.
THEOREM MergeIsExact ==
    ASSUME NEW r \in TaintRange, NEW other \in TaintRange, MergeableWith(r, other)
    PROVE  /\ MergeWith(r, other) \in TaintRange
           /\ MergeWith(r, other).source = other.source
           /\ MergeWith(r, other).cleared = other.cleared
           /\ \A i \in Nat : Marks(MergeWith(r, other), i) <=> Marks(r, i) \/ Marks(other, i)
  <1> DEFINE first == Smaller(r.start, other.start)
             last == Larger(End(r), End(other))
             all == Rebound(r, first, last - first)
  <1>1. /\ r.start \in Nat /\ other.start \in Nat /\ End(r) \in Nat /\ End(other) \in Nat
        /\ r.start < End(r) /\ other.start < End(other)
    BY RangeFacts
  <1>2. /\ r.start <= End(other) /\ other.start <= End(r)
        /\ r.source = other.source /\ r.cleared = other.cleared
    BY DEF MergeableWith
  <1>3. first \in Nat /\ last \in Nat /\ last - first \in Nat /\ last - first > 0
    BY <1>1 DEF Smaller, Larger
  <1>4. \A i \in Nat : (first <= i /\ i < last) <=> Marks(r, i) \/ Marks(other, i)
    BY <1>1, <1>2 DEF Smaller, Larger, Marks
  <1>5. MergeWith(r, other) = all
    BY DEF MergeWith
  <1> HIDE DEF first, last
  <1>6. /\ all \in TaintRange /\ all.start = first /\ End(all) = first + (last - first)
        /\ all.source = r.source /\ all.cleared = r.cleared
    BY <1>3, ReboundIsRange
  <1> HIDE DEF all
  <1>7. \A i \in Nat : Marks(all, i) <=> (first <= i /\ i < last)
    BY <1>3, <1>6 DEF Marks
  <1> QED
    BY <1>2, <1>4, <1>5, <1>6, <1>7

\* TaintedValue.replace on one range: outside the window that is replaced
\* every character keeps its mark, those after it at the place they moved to,
\* and the replacement itself is not marked.
THEOREM ReplaceKeepsTheRest ==
    ASSUME NEW r \in TaintRange, NEW from \in Nat, NEW to \in Nat, from <= to, NEW n \in Nat
    PROVE  /\ \A i \in Nat : i < from => (Marked(OutsideWindow(r, from, to, n), i) <=> Marks(r, i))
           /\ \A i \in Nat : i >= to =>
                 (Marked(OutsideWindow(r, from, to, n), (i + n) - (to - from)) <=> Marks(r, i))
           /\ \A i \in Nat : (from <= i /\ i < from + n)
                 => ~Marked(OutsideWindow(r, from, to, n), i)
  <1>1. /\ r.start \in Nat /\ r.length \in Nat /\ End(r) \in Nat
        /\ r.start < End(r) /\ End(r) = r.start + r.length
    BY RangeFacts DEF End
  <1> DEFINE out == OutsideWindow(r, from, to, n)
             head == Rebound(r, r.start, from - r.start)
             tail == Rebound(r, from + n, End(r) - to)
             moved == Rebound(r, (r.start + n) - (to - from), r.length)
  <1>2. CASE End(r) <= from
    <2>1. out = <<r>>
      BY <1>2 DEF OutsideWindow
    <2>2. \A i \in Nat : Marked(out, i) <=> Marks(r, i)
      BY <2>1 DEF Marked
    <2> HIDE DEF out
    <2>3. \A i \in Nat : i >= to => (i + n) - (to - from) \in Nat /\ (i + n) - (to - from) >= from
      OBVIOUS
    <2>4. \A i \in Nat : i >= from => ~Marks(r, i)
      BY <1>1, <1>2 DEF Marks
    <2>5. \A i \in Nat : i >= to => ~Marked(out, (i + n) - (to - from)) /\ ~Marks(r, i)
      BY <2>2, <2>3, <2>4
    <2>6. \A i \in Nat : (from <= i /\ i < from + n) => ~Marked(out, i)
      BY <2>2, <2>4
    <2> QED
      BY <2>2, <2>5, <2>6 DEF out
  <1>3. CASE ~(End(r) <= from) /\ r.start >= to
    <2>1. out = <<moved>>
      BY <1>3 DEF OutsideWindow
    <2>2. moved.start = (r.start + n) - (to - from) /\ End(moved) = (r.start + n) - (to - from) + r.length
      BY <1>1 DEF Rebound, End
    <2>3. \A i : Marked(out, i) <=> Marks(moved, i)
      BY <2>1 DEF Marked
    <2> HIDE DEF out, moved
    <2>4. \A i \in Nat : i < from + n => ~Marks(moved, i)
      BY <1>1, <1>3, <2>2 DEF Marks
    <2>5. \A i \in Nat : i < from => ~Marks(r, i)
      BY <1>1, <1>3 DEF Marks
    <2>6. \A i \in Nat : i >= to => (Marks(moved, (i + n) - (to - from)) <=> Marks(r, i))
      BY <1>1, <1>3, <2>2 DEF Marks
    <2> QED
      BY <2>3, <2>4, <2>5, <2>6 DEF out
  <1>4. CASE ~(End(r) <= from) /\ ~(r.start >= to)
    <2>1. out = (IF r.start < from THEN <<head>> ELSE << >>)
                \o (IF End(r) > to THEN <<tail>> ELSE << >>)
      BY <1>4 DEF OutsideWindow
    <2>2. /\ r.start < from => head.start = r.start /\ End(head) = from
          /\ End(r) > to => tail.start = from + n /\ End(tail) = (from + n) + (End(r) - to)
      BY <1>1 DEF Rebound, End
    <2>3. \A i : Marked(out, i) <=> \/ r.start < from /\ Marks(head, i)
                                    \/ End(r) > to /\ Marks(tail, i)
      <3> HIDE DEF out, head, tail
      <3>1. CASE r.start < from /\ End(r) > to
        <4>1. out = <<head>> \o <<tail>>
          BY <2>1, <3>1, Zenon
        <4>2. <<head>> \o <<tail>> = <<head, tail>>
          BY PairOfRanges
        <4>3. out = <<head, tail>>
          BY <4>1, <4>2
        <4> QED
          BY <3>1, <4>3 DEF Marked
      <3>2. CASE r.start < from /\ ~(End(r) > to)
        <4>1. out = <<head>>
          BY <2>1, <3>2
        <4> QED
          BY <3>2, <4>1 DEF Marked
      <3>3. CASE ~(r.start < from) /\ End(r) > to
        <4>1. out = <<tail>>
          BY <2>1, <3>3
        <4> QED
          BY <3>3, <4>1 DEF Marked
      <3>4. CASE ~(r.start < from) /\ ~(End(r) > to)
        <4>1. out = << >>
          BY <2>1, <3>4
        <4> QED
          BY <3>4, <4>1 DEF Marked
      <3> QED
        BY <3>1, <3>2, <3>3, <3>4
    <2> HIDE DEF out, head, tail
    <2>4. \A i \in Nat : i < from => (Marks(r, i) <=> r.start < from /\ Marks(head, i))
      BY <1>1, <1>4, <2>2 DEF Marks
    <2>5. \A i \in Nat : i < from + n => ~(End(r) > to /\ Marks(tail, i))
      BY <1>1, <2>2 DEF Marks
    <2>6. \A i \in Nat : i >= from => ~(r.start < from /\ Marks(head, i))
      BY <1>1, <2>2 DEF Marks
    <2>7. \A i \in Nat : i >= to =>
              /\ (i + n) - (to - from) \in Nat /\ (i + n) - (to - from) >= from
              /\ Marks(r, i) <=> (End(r) > to /\ Marks(tail, (i + n) - (to - from)))
      BY <1>1, <1>4, <2>2 DEF Marks
    <2>8. \A i \in Nat : i < from => (Marked(out, i) <=> Marks(r, i))
      BY <2>3, <2>4, <2>5
    <2>9. \A i \in Nat : i >= to => (Marked(out, (i + n) - (to - from)) <=> Marks(r, i))
      BY <2>3, <2>6, <2>7
    <2>10. \A i \in Nat : (from <= i /\ i < from + n) => ~Marked(out, i)
      BY <2>3, <2>5, <2>6
    <2> QED
      BY <2>8, <2>9, <2>10 DEF out
  <1> QED
    BY <1>2, <1>3, <1>4

(***************************************************************************)
(* Tainted values                                                          *)
(***************************************************************************)
-----------------------------------------------------------------------------
(* Recursion, sums and lists                                               *)

-----------------------------------------------------------------------------
(* Recursive functions: there is one, and what two of them compute          *)

\* A set of numbers that is not empty has a smallest one.
LEMMA SmallestNumber ==
    ASSUME NEW T \in SUBSET Nat, T # {}
    PROVE  \E m \in T : \A n \in T : m <= n
  <1>1. PICK m \in T : \A n \in T : ~ (<<n, m>> \in OpToRel(<, Nat))
    BY NatLessThanWellFounded, WFMin
  <1>2. \A n \in T : ~ (n < m)
    BY <1>1 DEF OpToRel
  <1> QED BY <1>2

\* g is computed from a on, step by step, as long as it stays in S.
Computes(g, n, S, a, G) ==
    g[0] = a /\ \A i \in 1..n : g[i - 1] \in S => g[i] = G[i][g[i - 1]]

\* A computation that stays in S all along.
Stays(f, n, S, a, G) == Computes(f, n, S, a, G) /\ \A i \in 0..n : f[i] \in S

\* A computation is defined, and there is one.
LEMMA Recursion ==
    ASSUME NEW S, NEW a \in S, NEW N \in Nat, NEW G \in [1..N -> [S -> S]]
    PROVE  \A n \in 0..N : \E f : Stays(f, n, S, a, G)
  <1> DEFINE Stuck == {n \in 0..N : ~ \E f \in [0..n -> S] : Computes(f, n, S, a, G)}
  <1> SUFFICES ASSUME Stuck # {} PROVE FALSE
    BY DEF Stays
  <1>1. Stuck \in SUBSET Nat
    OBVIOUS
  <1>2. PICK m \in Stuck : \A n \in Stuck : m <= n
    BY <1>1, SmallestNumber
  <1>3. m \in 0..N /\ m \in Nat /\ ~ \E f \in [0..m -> S] : Computes(f, m, S, a, G)
    BY <1>2
  <1>4. CASE m = 0
    <2> DEFINE f == [i \in 0..0 |-> a]
    <2>1. f \in [0..m -> S] /\ f[0] = a
      BY <1>4
    <2>2. 1..m = {}
      BY <1>4
    <2>3. Computes(f, m, S, a, G)
      BY <2>1, <2>2 DEF Computes
    <2> QED BY <1>3, <2>1, <2>3
  <1>5. CASE m # 0
    <2>1. m - 1 \in 0..N /\ m - 1 \in Nat /\ ~ (m <= m - 1)
      BY <1>3, <1>5
    <2>2. m - 1 \notin Stuck
      BY <1>2, <2>1
    <2>3. PICK f \in [0..(m - 1) -> S] : Computes(f, m - 1, S, a, G)
      BY <2>1, <2>2
    <2> DEFINE g == [i \in 0..m |-> IF i = m THEN G[m][f[m - 1]] ELSE f[i]]
    <2>4. f[m - 1] \in S /\ m \in 1..N
      BY <1>3, <1>5, <2>1, <2>3
    <2>5. G[m][f[m - 1]] \in S
      BY <2>4
    <2>6. \A i \in 0..m : i # m => i \in 0..(m - 1)
      BY <1>3
    <2>7. g \in [0..m -> S]
      BY <2>3, <2>5, <2>6
    <2>8. \A i \in 0..(m - 1) : g[i] = f[i]
      BY <1>3
    <2>9. g[m] = G[m][f[m - 1]]
      BY <1>3
    <2> HIDE DEF g
    <2>10. g[0] = a
      BY <2>1, <2>3, <2>8 DEF Computes
    <2>11. ASSUME NEW i \in 1..m PROVE g[i] = G[i][g[i - 1]]
      <3>1. CASE i = m
        BY <1>3, <1>5, <2>1, <2>8, <2>9, <3>1
      <3>2. CASE i # m
        <4>1. i \in 1..(m - 1) /\ i \in 0..(m - 1) /\ i - 1 \in 0..(m - 1)
          BY <1>3, <3>2
        <4>2. f[i] = G[i][f[i - 1]]
          BY <2>3, <4>1 DEF Computes
        <4> QED BY <2>8, <4>1, <4>2
      <3> QED BY <3>1, <3>2
    <2>12. Computes(g, m, S, a, G)
      BY <2>10, <2>11 DEF Computes
    <2> QED BY <1>3, <2>7, <2>12
  <1> QED BY <1>4, <1>5

\* It is the only one.
LEMMA OneComputation ==
    ASSUME NEW S, NEW a, NEW n \in Nat, NEW G,
           NEW f, Stays(f, n, S, a, G), NEW g, Computes(g, n, S, a, G)
    PROVE  \A i \in 0..n : g[i] = f[i]
  <1> DEFINE Wrong == {i \in 0..n : g[i] # f[i]}
  <1> SUFFICES ASSUME Wrong # {} PROVE FALSE
    OBVIOUS
  <1>1. Wrong \in SUBSET Nat
    OBVIOUS
  <1>2. PICK m \in Wrong : \A i \in Wrong : m <= i
    BY <1>1, SmallestNumber
  <1>3. m \in 0..n /\ m \in Nat /\ g[m] # f[m]
    BY <1>2
  <1>4. m # 0
    BY <1>3 DEF Stays, Computes
  <1>5. m - 1 \in 0..n /\ ~ (m <= m - 1) /\ m \in 1..n
    BY <1>3, <1>4
  <1>6. m - 1 \notin Wrong
    BY <1>2, <1>5
  <1>7. g[m - 1] = f[m - 1] /\ f[m - 1] \in S
    BY <1>5, <1>6 DEF Stays
  <1> QED BY <1>3, <1>5, <1>7 DEF Stays, Computes

\* What holds of 0 and goes on from number to number holds up to any.
LEMMA UpTo ==
    ASSUME NEW X, NEW N \in Nat, 0 \in X, \A n \in 1..N : n - 1 \in X => n \in X
    PROVE  0..N \subseteq X
  <1> DEFINE Wrong == {n \in 0..N : n \notin X}
  <1> SUFFICES ASSUME Wrong # {} PROVE FALSE
    OBVIOUS
  <1>1. Wrong \in SUBSET Nat
    OBVIOUS
  <1>2. PICK m \in Wrong : \A n \in Wrong : m <= n
    BY <1>1, SmallestNumber
  <1>3. m \in 1..N /\ m - 1 \in 0..N /\ ~(m <= m - 1)
    BY <1>2
  <1>4. m - 1 \in X
    BY <1>2, <1>3
  <1> QED BY <1>2, <1>3, <1>4
\* Lists joined one after the other.
Joins(f, s, T) ==
    /\ \A i \in 0..Len(s) : f[i] \in Seq(T)
    /\ f[0] = <<>> /\ \A i \in 1..Len(s) : f[i] = f[i - 1] \o s[i]

\* That is what FlattenSeq computes.
LEMMA Flattening ==
    ASSUME NEW T, NEW s \in Seq(Seq(T))
    PROVE  /\ \E f : Joins(f, s, T)
           /\ \A f : Joins(f, s, T) => FlattenSeq(s) = f[Len(s)]
  <1> DEFINE N == Len(s)
             S == Seq(T)
             G == [i \in 1..N |-> [x \in S |-> x \o s[i]]]
  <1>1. N \in Nat /\ <<>> \in S /\ \A i \in 1..N : s[i] \in S
    OBVIOUS
  <1>2. \A i \in 1..N, x \in S : x \o s[i] \in S
    BY <1>1
  <1>3. G \in [1..N -> [S -> S]]
    BY <1>2
  <1>4. \A i \in 1..N, x \in S : G[i][x] = x \o s[i]
    OBVIOUS
  <1> HIDE DEF G
  <1>5. ASSUME NEW f PROVE Stays(f, N, S, <<>>, G) <=> Joins(f, s, T)
    <2>1. \A i \in 1..N : i - 1 \in 0..N
      BY <1>1
    <2> HIDE DEF N, S
    <2>2. (\A i \in 0..N : f[i] \in S) =>
              (Computes(f, N, S, <<>>, G) <=> (f[0] = <<>> /\ \A i \in 1..N : f[i] = f[i - 1] \o s[i]))
      BY <1>4, <2>1 DEF Computes
    <2> QED BY <2>2 DEF Stays, Joins, N, S
  <1>6. \E f : Joins(f, s, T)
    <2>1. \A n \in 0..N : \E f : Stays(f, n, S, <<>>, G)
      BY <1>1, <1>3, Recursion
    <2>2. N \in 0..N
      BY <1>1
    <2> QED BY <1>5, <2>1, <2>2
  <1>7. ASSUME NEW f, Joins(f, s, T) PROVE FlattenSeq(s) = f[N]
    <2>1. f[0] = <<>> /\ \A i \in 1..N : f[i] = f[i - 1] \o s[i]
      BY <1>7 DEF Joins
    <2>2. CASE N = 0
      <3>1. s = <<>>
        BY <2>2
      <3>2. FlattenSeq(s) = <<>>
        BY <3>1 DEF FlattenSeq
      <3> QED BY <2>1, <2>2, <3>2
    <2>3. CASE N # 0
      <3> DEFINE Body(h, i) == IF i = 1 THEN s[i] ELSE h[i - 1] \o s[i]
                 h == [i \in 1..N |-> f[i]]
                 F == CHOOSE q : q = [i \in 1..N |-> Body(q, i)]
      <3>1. ASSUME NEW i \in 1..N PROVE f[i] = Body(h, i)
        <4>1. CASE i = 1
          <5>1. 1 \in 1..N /\ 1 - 1 = 0
            BY <4>1
          <5>2. <<>> \o s[1] = s[1]
            BY <1>1, <4>1
          <5> HIDE DEF N
          <5>3. f[1] = s[1]
            BY <2>1, <5>1, <5>2
          <5> QED BY <4>1, <5>3
        <4>2. CASE i # 1
          <5>1. i - 1 \in 1..N
            BY <1>1, <4>2
          <5> QED BY <2>1, <4>2, <5>1
        <4> QED BY <4>1, <4>2
      <3>2. h = [i \in 1..N |-> Body(h, i)]
        BY <3>1
      <3>3. F = [i \in 1..N |-> Body(F, i)]
        <4> HIDE DEF h, Body
        <4> QED BY <3>2
      <3>4. FlattenSeq(s) = F[N]
        BY <2>3 DEF FlattenSeq
      <3> DEFINE g == [i \in 0..N |-> IF i = 0 THEN <<>> ELSE F[i]]
      <3> HIDE DEF F
      <3>5. \A i \in 1..N : F[i] = Body(F, i)
        BY <3>3
      <3>6. Computes(g, N, S, <<>>, G)
        <4>1. g[0] = <<>> /\ \A i \in 1..N : g[i] = F[i]
          BY <1>1
        <4> HIDE DEF g
        <4>2. ASSUME NEW i \in 1..N, g[i - 1] \in S PROVE g[i] = G[i][g[i - 1]]
          <5>1. G[i][g[i - 1]] = g[i - 1] \o s[i]
            BY <1>4, <4>2
          <5>2. CASE i = 1
            <6>1. g[i - 1] = <<>> /\ g[i] = s[i]
              BY <3>5, <4>1, <5>2
            <6>2. <<>> \o s[i] = s[i]
              BY <1>1
            <6> QED BY <5>1, <6>1, <6>2
          <5>3. CASE i # 1
            <6>1. i - 1 \in 1..N
              BY <1>1, <5>3
            <6> QED BY <3>5, <4>1, <5>1, <5>3, <6>1
          <5> QED BY <5>2, <5>3
        <4> QED BY <4>1, <4>2 DEF Computes
      <3>7. \A i \in 0..N : g[i] = f[i]
        <4>1. N \in Nat /\ Stays(f, N, S, <<>>, G)
          BY <1>1, <1>5, <1>7
        <4> HIDE DEF g, N, S
        <4> QED BY <3>6, <4>1, OneComputation
      <3>8. g[N] = F[N] /\ N \in 0..N
        BY <1>1, <2>3
      <3> HIDE DEF g
      <3> QED BY <3>4, <3>7, <3>8
    <2> QED BY <2>2, <2>3
  <1> QED BY <1>6, <1>7

\* What is in a list put behind another was in one of them.
LEMMA RangeOfConcat ==
    ASSUME NEW T, NEW a \in Seq(T), NEW b \in Seq(T)
    PROVE  a \o b \in Seq(T) /\ Range(a \o b) = Range(a) \cup Range(b)
  <1>1. /\ Len(a) \in Nat /\ Len(b) \in Nat /\ DOMAIN a = 1..Len(a) /\ DOMAIN b = 1..Len(b)
        /\ a \o b \in Seq(T) /\ Len(a \o b) = Len(a) + Len(b)
        /\ DOMAIN (a \o b) = 1..(Len(a) + Len(b))
        /\ \A i \in 1..(Len(a) + Len(b)) :
               (a \o b)[i] = IF i <= Len(a) THEN a[i] ELSE b[i - Len(a)]
    BY ConcatProperties, LenProperties
  <1> DEFINE c == a \o b
  <1> HIDE DEF c
  <1>2. ASSUME NEW i \in DOMAIN c PROVE c[i] \in Range(a) \cup Range(b)
    <2>1. CASE i <= Len(a)
      <3>1. i \in DOMAIN a /\ c[i] = a[i]
        BY <1>1, <1>2, <2>1 DEF c
      <3> QED BY <3>1 DEF Range
    <2>2. CASE ~(i <= Len(a))
      <3>1. i - Len(a) \in DOMAIN b /\ c[i] = b[i - Len(a)]
        BY <1>1, <1>2, <2>2 DEF c
      <3> QED BY <3>1 DEF Range
    <2> QED BY <2>1, <2>2
  <1>3. ASSUME NEW i \in DOMAIN a PROVE a[i] \in Range(c)
    <2>1. i \in DOMAIN c /\ c[i] = a[i]
      BY <1>1 DEF c
    <2> QED BY <2>1 DEF Range
  <1>4. ASSUME NEW i \in DOMAIN b PROVE b[i] \in Range(c)
    <2>1. i + Len(a) \in DOMAIN c /\ c[i + Len(a)] = b[i]
      BY <1>1 DEF c
    <2> QED BY <2>1 DEF Range
  <1>5. Range(c) = Range(a) \cup Range(b)
    BY <1>2, <1>3, <1>4 DEF Range
  <1> QED BY <1>1, <1>5 DEF c

\* What an empty list and a list of one hold.
LEMMA RangeOfOne ==
    /\ Range(<< >>) = {} /\ \A x : Range(<<x>>) = {x}
    /\ \A T : \A s \in Seq(T) : Range(s) \subseteq T /\ (s # << >> => Range(s) # {})
  <1>1. \A T : \A s \in Seq(T) : Range(s) \subseteq T
    BY LenProperties, ElementOfSeq DEF Range
  <1>2. \A x : Range(<<x>>) = {x}
    BY DEF Range
  <1>3. ASSUME NEW T, NEW s \in Seq(T), s # << >> PROVE Range(s) # {}
    <2>1. 1 \in DOMAIN s
      BY <1>3, EmptySeq, LenProperties
    <2> QED BY <2>1 DEF Range
  <1> QED BY <1>1, <1>2, <1>3 DEF Range

\* FlattenSeq keeps what is in the lists, and adds nothing.
LEMMA FlattenRange ==
    ASSUME NEW T, NEW s \in Seq(Seq(T))
    PROVE  /\ FlattenSeq(s) \in Seq(T)
           /\ \A x : x \in Range(FlattenSeq(s)) <=> \E i \in DOMAIN s : x \in Range(s[i])
  <1> DEFINE N == Len(s)
  <1>1. N \in Nat /\ DOMAIN s = 1..N /\ \A i \in 1..N : s[i] \in Seq(T)
    OBVIOUS
  <1>2. PICK f : Joins(f, s, T)
    BY Flattening
  <1>3. FlattenSeq(s) = f[N]
    BY <1>2, Flattening
  <1>4. /\ \A i \in 0..N : f[i] \in Seq(T)
        /\ f[0] = << >> /\ \A i \in 1..N : f[i] = f[i - 1] \o s[i]
    BY <1>2 DEF Joins
  <1> HIDE DEF N
  <1> DEFINE X == {n \in 0..N : \A x : x \in Range(f[n]) <=> \E i \in 1..n : x \in Range(s[i])}
  <1>5. 0 \in X
    <2>1. Range(f[0]) = {} /\ 1..0 = {} /\ 0 \in 0..N
      BY <1>1, <1>4, RangeOfOne
    <2> QED BY <2>1
  <1>6. ASSUME NEW n \in 1..N, n - 1 \in X PROVE n \in X
    <2>1. n - 1 \in 0..N /\ n \in 0..N /\ 1..n = 1..(n - 1) \cup {n}
      BY <1>1
    <2>2. f[n - 1] \in Seq(T) /\ s[n] \in Seq(T) /\ f[n] = f[n - 1] \o s[n]
      BY <1>1, <1>4, <2>1
    <2>3. Range(f[n]) = Range(f[n - 1]) \cup Range(s[n])
      BY <2>2, RangeOfConcat
    <2> QED BY <1>6, <2>1, <2>3
  <1>7. N \in X
    <2> HIDE DEF X
    <2>1. 0..N \subseteq X
      BY <1>1, <1>5, <1>6, UpTo
    <2> QED BY <1>1, <2>1
  <1>8. N \in 0..N
    BY <1>1
  <1> QED BY <1>1, <1>3, <1>4, <1>7, <1>8

\* Lists of one element each become one list.
LEMMA FlattenSingles ==
    ASSUME NEW T, NEW s \in Seq(Seq(T)), \A i \in DOMAIN s : Len(s[i]) = 1
    PROVE  FlattenSeq(s) = [i \in DOMAIN s |-> s[i][1]]
  <1> DEFINE N == Len(s)
  <1>1. N \in Nat /\ DOMAIN s = 1..N /\ \A i \in 1..N : s[i] \in Seq(T) /\ Len(s[i]) = 1
    OBVIOUS
  <1>2. PICK f : Joins(f, s, T)
    BY Flattening
  <1>3. FlattenSeq(s) = f[N]
    BY <1>2, Flattening
  <1>4. /\ \A i \in 0..N : f[i] \in Seq(T)
        /\ f[0] = << >> /\ \A i \in 1..N : f[i] = f[i - 1] \o s[i]
    BY <1>2 DEF Joins
  <1> HIDE DEF N
  <1> DEFINE X == {n \in 0..N : Len(f[n]) = n /\ \A i \in 1..n : f[n][i] = s[i][1]}
  <1>5. 0 \in X
    <2>1. f[0] = << >> /\ 1..0 = {} /\ 0 \in 0..N
      BY <1>1, <1>4
    <2> QED BY <2>1
  <1>6. ASSUME NEW n \in 1..N, n - 1 \in X PROVE n \in X
    <2>1. n - 1 \in 0..N /\ n \in 0..N /\ n \in Nat
      BY <1>1
    <2>2. f[n - 1] \in Seq(T) /\ s[n] \in Seq(T) /\ Len(s[n]) = 1 /\ Len(f[n - 1]) = n - 1
          /\ f[n] = f[n - 1] \o s[n]
      BY <1>1, <1>4, <1>6, <2>1
    <2>3. /\ Len(f[n]) = (n - 1) + 1
          /\ \A i \in 1..((n - 1) + 1) :
                 f[n][i] = IF i <= n - 1 THEN f[n - 1][i] ELSE s[n][i - (n - 1)]
      <3> DEFINE a == f[n - 1]
                 b == s[n]
                 k == n - 1
      <3>1. a \in Seq(T) /\ b \in Seq(T) /\ Len(a) = k /\ Len(b) = 1 /\ f[n] = a \o b
        BY <2>2
      <3> HIDE DEF a, b, k
      <3>2. /\ Len(a \o b) = k + 1
            /\ \A i \in 1..(k + 1) : (a \o b)[i] = IF i <= k THEN a[i] ELSE b[i - k]
        <4>1. a \in Seq(T) /\ b \in Seq(T)
          BY <3>1
        <4>2. /\ Len(a \o b) = Len(a) + Len(b)
              /\ \A i \in 1..Len(a) + Len(b) : (a \o b)[i] = IF i <= Len(a) THEN a[i] ELSE b[i - Len(a)]
          BY <4>1, ConcatProperties
        <4> QED BY <3>1, <4>2
      <3> QED BY <3>1, <3>2 DEF a, b, k
    <2>4. ASSUME NEW i \in 1..n PROVE f[n][i] = s[i][1]
      <3>1. CASE i = n
        <4>1. ~(i <= n - 1) /\ i - (n - 1) = 1 /\ i \in 1..((n - 1) + 1)
          BY <2>1, <3>1
        <4>2. f[n][i] = s[n][1]
          BY <2>3, <4>1
        <4> QED BY <3>1, <4>2
      <3>2. CASE i # n
        <4>1. i <= n - 1 /\ i \in 1..(n - 1) /\ i \in 1..((n - 1) + 1)
          BY <2>1, <3>2
        <4> QED BY <1>6, <2>3, <4>1
      <3> QED BY <3>1, <3>2
    <2> QED BY <2>1, <2>3, <2>4
  <1>7. N \in X /\ N \in 0..N
    <2> HIDE DEF X
    <2>1. 0..N \subseteq X
      BY <1>1, <1>5, <1>6, UpTo
    <2> QED BY <1>1, <2>1
  <1>8. f[N] \in Seq(T) /\ Len(f[N]) = N /\ \A i \in 1..N : f[N][i] = s[i][1]
    BY <1>4, <1>7
  <1>9. f[N] = [i \in 1..N |-> f[N][i]]
    <2> DEFINE a == f[N]
    <2>1. a \in Seq(T) /\ Len(a) = N
      BY <1>8
    <2> HIDE DEF a
    <2>2. a = [i \in 1..N |-> a[i]]
      BY <2>1
    <2> QED BY <2>2 DEF a
  <1> QED BY <1>1, <1>3, <1>8, <1>9

-----------------------------------------------------------------------------
(* Sorted and merged lists of ranges                                        *)

\* In a finite set where of two elements one has all before it that the other
\* has, and the other too, every rank is taken.  B[i] is what comes before i.
LEMMA EveryRankIsTaken ==
    ASSUME NEW S, IsFiniteSet(S), NEW B,
           \A i \in S : B[i] \subseteq S /\ i \notin B[i],
           \A i, j \in S : i # j => \/ i \in B[j] /\ B[i] \subseteq B[j]
                                    \/ j \in B[i] /\ B[j] \subseteq B[i],
           NEW k \in 1..Cardinality(S)
    PROVE  \E i \in S : Cardinality(B[i]) + 1 = k
  <1> DEFINE n == Cardinality(S)
             f == [i \in S |-> Cardinality(B[i]) + 1]
  <1>1. n \in Nat
    BY FS_CardinalityType
  <1>2. ASSUME NEW i \in S PROVE IsFiniteSet(B[i]) /\ Cardinality(B[i]) \in 0..(n - 1)
    <2>1. B[i] \subseteq S /\ B[i] # S
      OBVIOUS
    <2>2. IsFiniteSet(B[i]) /\ Cardinality(B[i]) <= n /\ Cardinality(B[i]) # n
      BY <2>1, FS_Subset
    <2>3. Cardinality(B[i]) \in Nat
      BY <2>2, FS_CardinalityType
    <2> QED  BY <1>1, <2>2, <2>3
  <1>3. ASSUME NEW i \in S, NEW j \in S, i \in B[j], B[i] \subseteq B[j]
        PROVE  Cardinality(B[i]) # Cardinality(B[j])
    <2>1. B[i] # B[j]
      BY <1>3
    <2> QED  BY <1>2, <1>3, <2>1, FS_Subset
  <1>4. \A i, j \in S : i # j => f[i] # f[j]
    <2>1. ASSUME NEW i \in S, NEW j \in S, i # j PROVE Cardinality(B[i]) # Cardinality(B[j])
      BY <1>3, <2>1
    <2>2. \A i \in S : Cardinality(B[i]) \in Nat
      BY <1>1, <1>2
    <2> QED  BY <2>1, <2>2
  <1>5. SUFFICES ASSUME \A i \in S : Cardinality(B[i]) + 1 # k PROVE FALSE
    OBVIOUS
  <1>6. f \in [S -> (1..n) \ {k}]
    BY <1>1, <1>2, <1>5
  <1>7. IsFiniteSet(1..n) /\ Cardinality(1..n) = n
    BY <1>1, FS_Interval
  <1>8. IsFiniteSet((1..n) \ {k}) /\ Cardinality((1..n) \ {k}) = n - 1
    BY <1>7, FS_RemoveElement
  <1>9. Cardinality((1..n) \ {k}) < Cardinality(S)
    BY <1>1, <1>8
  <1> HIDE DEF n, f
  <1>10. \E i, j \in S : i # j /\ f[i] = f[j]
    BY <1>6, <1>8, <1>9, FS_PigeonHole DEF n
  <1> QED  BY <1>4, <1>10

\* What the ranges say of the character at offset i: it came from source and is cleared.
Says(R, i, source, cleared) ==
    \E r \in R : Marks(r, i) /\ r.source = source /\ r.cleared = cleared

\* ... that it is dangerous for a rule.
Warns(R, i, rule) == \E r \in R : Marks(r, i) /\ rule \notin r.cleared

\* Two sets of ranges say the same.
Agree(R, Q) == \A i \in Nat : \A source, cleared : Says(R, i, source, cleared) <=> Says(Q, i, source, cleared)

\* Agreement is reflexive and transitive, is kept by joining more ranges, and keeps every warning.
LEMMA AgreeFacts ==
    /\ \A R : Agree(R, R)
    /\ \A R, Q, P : Agree(R, Q) /\ Agree(Q, P) => Agree(R, P)
    /\ \A R, Q, P : Agree(R, Q) => Agree(R \cup P, Q \cup P)
    /\ \A R, Q : Agree(R, Q) => \A i \in Nat : \A rule : Warns(R, i, rule) => Warns(Q, i, rule)
  <1>1. \A R : Agree(R, R)
    BY DEF Agree
  <1>2. \A R, Q, P : Agree(R, Q) /\ Agree(Q, P) => Agree(R, P)
    BY DEF Agree
  <1>3. ASSUME NEW R, NEW Q, NEW P, Agree(R, Q) PROVE Agree(R \cup P, Q \cup P)
    <2>1. \A S, i, source, cleared : Says(S \cup P, i, source, cleared)
              <=> Says(S, i, source, cleared) \/ Says(P, i, source, cleared)
      BY DEF Says
    <2> QED BY <1>3, <2>1 DEF Agree
  <1>4. ASSUME NEW R, NEW Q, Agree(R, Q), NEW i \in Nat, NEW rule, Warns(R, i, rule)
        PROVE  Warns(Q, i, rule)
    <2>1. PICK r \in R : Marks(r, i) /\ rule \notin r.cleared
      BY <1>4 DEF Warns
    <2>2. Says(R, i, r.source, r.cleared)
      BY <2>1 DEF Says
    <2>3. Says(Q, i, r.source, r.cleared)
      BY <1>4, <2>2 DEF Agree
    <2> QED BY <2>1, <2>3 DEF Says, Warns
  <1> QED BY <1>1, <1>2, <1>3, <1>4

-----------------------------------------------------------------------------
(* Sorting, merging, collapsing                                             *)

\* Ranges are ordered by where they start, then by where they end.
LEMMA BeforeIsOrder ==
    /\ \A a, b \in TaintRange : ~(Before(a, b) /\ Before(b, a)) /\ ~Before(a, a)
    /\ \A a, b, c \in TaintRange : Before(a, b) /\ Before(b, c) => Before(a, c)
    /\ \A a, b, c \in TaintRange : ~Before(a, b) /\ ~Before(b, c) => ~Before(a, c)
  BY RangeFacts DEF Before

\* What stands before the ranges of a list: no two have the same before them, and
\* every number of ranges stands before one.
LEMMA PrecedingFacts ==
    ASSUME NEW ranges \in Seq(TaintRange)
    PROVE  /\ IsFiniteSet(DOMAIN ranges) /\ Cardinality(DOMAIN ranges) = Len(ranges)
           /\ \A i \in DOMAIN ranges : Preceding(ranges, i) \subseteq DOMAIN ranges /\ i \notin Preceding(ranges, i)
           /\ \A i, j \in DOMAIN ranges : i # j =>
                  \/ i \in Preceding(ranges, j) /\ Preceding(ranges, i) \subseteq Preceding(ranges, j)
                  \/ j \in Preceding(ranges, i) /\ Preceding(ranges, j) \subseteq Preceding(ranges, i)
           /\ \A n \in DOMAIN ranges : \E i \in DOMAIN ranges : Cardinality(Preceding(ranges, i)) + 1 = n
  <1> PICK S : S = DOMAIN ranges
    OBVIOUS
  <1> PICK B : B = [i \in S |-> Preceding(ranges, i)]
    OBVIOUS
  <1>1. /\ Len(ranges) \in Nat /\ S = 1..Len(ranges) /\ \A i \in S : ranges[i] \in TaintRange
    BY LenProperties, ElementOfSeq
  <1>2. IsFiniteSet(S) /\ Cardinality(S) = Len(ranges)
    <2>1. IsFiniteSet(1..Len(ranges)) /\ Cardinality(1..Len(ranges)) = Len(ranges)
      <3>1. Len(ranges) \in Int /\ 1 \in Int
        BY <1>1
      <3>2. /\ IsFiniteSet(1..Len(ranges))
            /\ Cardinality(1..Len(ranges)) = IF 1 > Len(ranges) THEN 0 ELSE Len(ranges) - 1 + 1
        BY <3>1, FS_Interval, Zenon
      <3> QED BY <1>1, <3>2
    <2> QED BY <1>1, <2>1
  <1>3. \A i \in S : B[i] \subseteq S /\ i \notin B[i] /\ B[i] = Preceding(ranges, i)
    BY <1>1, BeforeIsOrder DEF Preceding
  <1>4. \A i, j \in S : i # j => \/ i \in B[j] /\ B[i] \subseteq B[j]
                                 \/ j \in B[i] /\ B[j] \subseteq B[i]
    <2> SUFFICES ASSUME NEW i \in S, NEW j \in S, i # j
                 PROVE  \/ i \in B[j] /\ B[i] \subseteq B[j]
                        \/ j \in B[i] /\ B[j] \subseteq B[i]
      OBVIOUS
    <2>1. ASSUME NEW a \in S, NEW b \in S, a \in B[b] PROVE B[a] \subseteq B[b]
      <3> SUFFICES ASSUME NEW x \in B[a] PROVE x \in B[b]
        OBVIOUS
      <3>1. x \in S /\ (Before(ranges[x], ranges[a]) \/ (~Before(ranges[a], ranges[x]) /\ x < a))
        BY <1>3 DEF Preceding
      <3>2. Before(ranges[a], ranges[b]) \/ (~Before(ranges[b], ranges[a]) /\ a < b)
        BY <1>3, <2>1 DEF Preceding
      <3>3. ranges[x] \in TaintRange /\ ranges[a] \in TaintRange /\ ranges[b] \in TaintRange
        BY <1>1, <3>1
      <3>4. Before(ranges[x], ranges[b]) \/ (~Before(ranges[b], ranges[x]) /\ x < b)
        <4>1. CASE Before(ranges[x], ranges[a])
          <5>1. ~Before(ranges[b], ranges[a])
            BY <3>2, <3>3, BeforeIsOrder
          <5>2. ASSUME ~Before(ranges[x], ranges[b]) PROVE FALSE
            BY <3>3, <4>1, <5>1, <5>2, BeforeIsOrder
          <5> QED BY <5>2
        <4>2. CASE ~Before(ranges[a], ranges[x]) /\ x < a
          <5>1. CASE Before(ranges[a], ranges[b])
            <6>1. ASSUME ~Before(ranges[x], ranges[b]) PROVE FALSE
              BY <3>3, <4>2, <5>1, <6>1, BeforeIsOrder
            <6> QED BY <6>1
          <5>2. CASE ~Before(ranges[b], ranges[a]) /\ a < b
            <6>1. ~Before(ranges[b], ranges[x])
              BY <3>3, <4>2, <5>2, BeforeIsOrder
            <6>2. x < b
              BY <1>1, <3>1, <4>2, <5>2
            <6> QED BY <6>1, <6>2
          <5> QED BY <3>2, <5>1, <5>2
        <4> QED BY <3>1, <4>1, <4>2
      <3> QED BY <1>3, <3>1, <3>4 DEF Preceding
    <2>2. i \in B[j] \/ j \in B[i]
      <3>1. i < j \/ j < i
        BY <1>1
      <3>2. ~(Before(ranges[i], ranges[j]) /\ Before(ranges[j], ranges[i]))
        BY <1>1, BeforeIsOrder
      <3> QED BY <1>3, <3>1, <3>2 DEF Preceding
    <2> QED BY <2>1, <2>2
  <1>5. ASSUME NEW n \in S PROVE \E i \in S : Cardinality(B[i]) + 1 = n
    <2>1. n \in 1..Cardinality(S)
      BY <1>1, <1>2
    <2>2. \A i \in S : B[i] \subseteq S /\ i \notin B[i]
      BY <1>3
    <2> QED BY <1>2, <1>4, <2>1, <2>2, EveryRankIsTaken
  <1>6. \A n \in DOMAIN ranges : \E i \in DOMAIN ranges : Cardinality(Preceding(ranges, i)) + 1 = n
    BY <1>3, <1>5
  <1>7. \A i, j \in DOMAIN ranges : i # j =>
            \/ i \in Preceding(ranges, j) /\ Preceding(ranges, i) \subseteq Preceding(ranges, j)
            \/ j \in Preceding(ranges, i) /\ Preceding(ranges, j) \subseteq Preceding(ranges, i)
    BY <1>3, <1>4
  <1> QED BY <1>2, <1>3, <1>6, <1>7

\* Each range has its place in the sorted list.
LEMMA SortedFacts ==
    ASSUME NEW ranges \in Seq(TaintRange)
    PROVE  /\ Sorted(ranges) \in Seq(TaintRange) /\ Len(Sorted(ranges)) = Len(ranges)
           /\ Range(Sorted(ranges)) = Range(ranges)
  <1> PICK S : S = DOMAIN ranges
    OBVIOUS
  <1> PICK B : B = [i \in S |-> Preceding(ranges, i)]
    OBVIOUS
  <1> DEFINE at(n) == CHOOSE i \in S : Cardinality(Preceding(ranges, i)) + 1 = n
  <1>1. /\ Len(ranges) \in Nat /\ S = 1..Len(ranges) /\ \A i \in S : ranges[i] \in TaintRange
    BY LenProperties, ElementOfSeq
  <1>2. IsFiniteSet(S) /\ Cardinality(S) = Len(ranges)
    BY PrecedingFacts
  <1>3. \A i \in S : B[i] \subseteq S /\ i \notin B[i] /\ B[i] = Preceding(ranges, i)
    BY PrecedingFacts
  <1>4. ASSUME NEW i \in S, NEW j \in S, i # j
        PROVE  \/ i \in B[j] /\ B[i] \subseteq B[j]
               \/ j \in B[i] /\ B[j] \subseteq B[i]
    <2>1. \/ i \in Preceding(ranges, j) /\ Preceding(ranges, i) \subseteq Preceding(ranges, j)
          \/ j \in Preceding(ranges, i) /\ Preceding(ranges, j) \subseteq Preceding(ranges, i)
      BY <1>4, PrecedingFacts
    <2> QED BY <1>3, <2>1
  <1>5. ASSUME NEW n \in S PROVE at(n) \in S /\ Cardinality(Preceding(ranges, at(n))) + 1 = n
    <2>1. \E i \in S : Cardinality(Preceding(ranges, i)) + 1 = n
      BY PrecedingFacts
    <2> QED BY <2>1
  <1>6. Sorted(ranges) = [n \in S |-> ranges[at(n)]]
    BY DEF Sorted
  <1> HIDE DEF at
  <1>7. Sorted(ranges) \in Seq(TaintRange) /\ Len(Sorted(ranges)) = Len(ranges)
        /\ DOMAIN Sorted(ranges) = S
    BY <1>1, <1>5, <1>6
  <1>8. ASSUME NEW i \in S PROVE \E n \in S : at(n) = i
    <2> DEFINE n == Cardinality(Preceding(ranges, i)) + 1
    <2>1. IsFiniteSet(B[i]) /\ Cardinality(B[i]) <= Cardinality(S) /\ (Cardinality(B[i]) = Cardinality(S) => B[i] = S)
      BY <1>2, <1>3, FS_Subset
    <2>2. Cardinality(B[i]) \in Nat /\ Cardinality(B[i]) # Cardinality(S)
      BY <1>3, <2>1, FS_CardinalityType
    <2>3. n \in S
      BY <1>1, <1>2, <1>3, <2>1, <2>2
    <2>4. at(n) \in S /\ Cardinality(Preceding(ranges, at(n))) + 1 = n
      BY <1>5, <2>3
    <2>5. ASSUME at(n) # i PROVE FALSE
      <3> DEFINE k == at(n)
      <3>1. k \in S /\ IsFiniteSet(B[k]) /\ Cardinality(B[k]) = Cardinality(B[i])
        <4>1. B[k] \subseteq S /\ B[k] = Preceding(ranges, k)
          BY <1>3, <2>4
        <4>2. IsFiniteSet(B[k]) /\ Cardinality(B[k]) \in Nat
          BY <1>2, <4>1, FS_Subset, FS_CardinalityType
        <4> QED BY <1>3, <2>2, <2>4, <4>1, <4>2
      <3> HIDE DEF k
      <3>2. (i \in B[k] /\ B[i] \subseteq B[k]) \/ (k \in B[i] /\ B[k] \subseteq B[i])
        BY <1>4, <2>5, <3>1 DEF k
      <3>3. B[i] # B[k]
        BY <1>3, <3>1, <3>2
      <3> QED BY <2>1, <2>2, <3>1, <3>2, <3>3, FS_Subset
    <2> QED BY <2>3, <2>5
  <1>9. Range(Sorted(ranges)) = Range(ranges)
    <2>1. \A x : x \in Range(Sorted(ranges)) <=> \E n \in S : x = ranges[at(n)]
      BY <1>6, <1>7 DEF Range
    <2>2. \A x : x \in Range(ranges) <=> \E i \in S : x = ranges[i]
      BY DEF Range
    <2> QED BY <1>5, <1>8, <2>1, <2>2
  <1> QED BY <1>7, <1>9

\* A list is all but its last element, and that one.
LEMMA FrontAndLast ==
    ASSUME NEW T, NEW s \in Seq(T), s # << >>
    PROVE  /\ Front(s) \in Seq(T) /\ Last(s) \in T
           /\ Range(s) = Range(Front(s)) \cup {Last(s)}
  <1>1. Len(s) \in Nat /\ Len(s) > 0 /\ DOMAIN s = 1..Len(s)
    OBVIOUS
  <1>2. \A i \in 1..Len(s) - 1 : s[i] \in T
    BY <1>1
  <1>3. Front(s) = [i \in 1..Len(s) - 1 |-> s[i]]
    BY <1>1 DEF Front
  <1>4. Front(s) \in Seq(T) /\ DOMAIN Front(s) = 1..Len(s) - 1
    BY <1>1, <1>2, <1>3
  <1>5. Last(s) = s[Len(s)] /\ Len(s) \in DOMAIN s /\ s[Len(s)] \in T
    BY <1>1 DEF Last
  <1>6. ASSUME NEW i \in DOMAIN s PROVE s[i] \in Range(Front(s)) \cup {Last(s)}
    <2>1. i = Len(s) \/ i \in DOMAIN Front(s)
      BY <1>1, <1>4
    <2>2. ASSUME i \in DOMAIN Front(s) PROVE s[i] \in Range(Front(s))
      BY <1>3, <1>4, <2>2 DEF Range
    <2> QED BY <1>5, <2>1, <2>2
  <1>7. ASSUME NEW i \in DOMAIN Front(s) PROVE Front(s)[i] \in Range(s)
    <2>1. i \in DOMAIN s /\ Front(s)[i] = s[i]
      BY <1>1, <1>3, <1>4
    <2> QED BY <2>1 DEF Range
  <1>8. Last(s) \in Range(s)
    BY <1>5 DEF Range
  <1> QED BY <1>4, <1>5, <1>6, <1>7, <1>8 DEF Range

\* One range more is merged or appended: what the list says grows by what it says.
LEMMA MergeIntoFacts ==
    ASSUME NEW merged \in Seq(TaintRange), merged # << >>, NEW r \in TaintRange
    PROVE  /\ MergeInto(merged, r) \in Seq(TaintRange) /\ MergeInto(merged, r) # << >>
           /\ Agree(Range(MergeInto(merged, r)), Range(merged) \cup {r})
  <1> DEFINE l == Last(merged)
             one == MergeWith(l, r)
  <1>1. Front(merged) \in Seq(TaintRange) /\ l \in TaintRange
        /\ Range(merged) = Range(Front(merged)) \cup {l}
    BY FrontAndLast
  <1>2. CASE MergeableWith(l, r)
    <2>1. MergeInto(merged, r) = Front(merged) \o <<one>>
      BY <1>2 DEF MergeInto
    <2>2. /\ one \in TaintRange /\ one.source = r.source /\ one.cleared = r.cleared
          /\ \A i \in Nat : Marks(one, i) <=> Marks(l, i) \/ Marks(r, i)
      BY <1>1, <1>2, MergeIsExact
    <2>3. l.source = r.source /\ l.cleared = r.cleared
      BY <1>2 DEF MergeableWith
    <2> HIDE DEF l, one
    <2>4. <<one>> \in Seq(TaintRange) /\ Range(<<one>>) = {one}
      BY <2>2, RangeOfOne
    <2>5. MergeInto(merged, r) \in Seq(TaintRange) /\ MergeInto(merged, r) # << >>
          /\ Range(MergeInto(merged, r)) = Range(Front(merged)) \cup {one}
      <3> DEFINE a == Front(merged)
                 b == <<one>>
      <3>0. a \in Seq(TaintRange) /\ b \in Seq(TaintRange) /\ Range(b) = {one}
        BY <1>1, <2>4
      <3> HIDE DEF a, b
      <3>1. a \o b \in Seq(TaintRange) /\ Range(a \o b) = Range(a) \cup {one}
        BY <3>0, RangeOfConcat
      <3> USE DEF a, b
      <3>2. Range(Front(merged) \o <<one>>) # {}
        BY <3>1
      <3> QED BY <2>1, <3>1, <3>2, RangeOfOne
    <2>6. Agree({one}, {l} \cup {r})
      BY <2>2, <2>3 DEF Agree, Says
    <2>7. Agree({one} \cup Range(Front(merged)), ({l} \cup {r}) \cup Range(Front(merged)))
      BY <2>6, AgreeFacts
    <2>8. /\ {one} \cup Range(Front(merged)) = Range(Front(merged)) \cup {one}
          /\ ({l} \cup {r}) \cup Range(Front(merged)) = Range(merged) \cup {r}
      BY <1>1 DEF l
    <2> QED BY <2>5, <2>7, <2>8
  <1>3. CASE ~MergeableWith(l, r)
    <2>1. MergeInto(merged, r) = Append(merged, r)
      BY <1>3 DEF MergeInto
    <2>2. Append(merged, r) = merged \o <<r>> /\ <<r>> \in Seq(TaintRange)
      OBVIOUS
    <2>3. /\ MergeInto(merged, r) \in Seq(TaintRange)
          /\ Range(MergeInto(merged, r)) = Range(merged) \cup {r}
      <3> DEFINE b == <<r>>
      <3>1. b \in Seq(TaintRange) /\ Range(b) = {r}
        BY <2>2, RangeOfOne
      <3> HIDE DEF b
      <3>2. merged \o b \in Seq(TaintRange) /\ Range(merged \o b) = Range(merged) \cup {r}
        BY <3>1, RangeOfConcat
      <3> QED BY <2>1, <2>2, <3>2 DEF b
    <2>4. MergeInto(merged, r) # << >>
      BY <2>3, RangeOfOne
    <2> QED BY <2>3, <2>4, AgreeFacts
  <1> QED BY <1>2, <1>3

\* The whole pass: the merged list says what the sorted one said.
LEMMA MergedFacts ==
    ASSUME NEW sorted \in Seq(TaintRange), sorted # << >>
    PROVE  /\ Merged(sorted) \in Seq(TaintRange) /\ Merged(sorted) # << >>
           /\ Agree(Range(Merged(sorted)), Range(sorted))
  <1> DEFINE N == Len(sorted) - 1
             S == Seq(TaintRange) \ {<< >>}
             a == <<sorted[1]>>
             G == [n \in 1..N |-> [m \in S |-> MergeInto(m, sorted[n + 1])]]
             Body(h, n) == IF n = 0 THEN <<sorted[1]>> ELSE MergeInto(h[n - 1], sorted[n + 1])
             F == CHOOSE h : h = [n \in 0..N |-> Body(h, n)]
  <1>1. Len(sorted) \in Nat /\ Len(sorted) > 0 /\ N \in Nat /\ DOMAIN sorted = 1..Len(sorted)
        /\ \A n \in 0..N : sorted[n + 1] \in TaintRange
    BY EmptySeq, ElementOfSeq, LenProperties
  <1>2. Merged(sorted) = F[N]
    BY DEF Merged
  <1>3. a \in S
    <2>1. sorted[1] \in TaintRange
      BY <1>1
    <2> QED BY <2>1
  <1>4. ASSUME NEW n \in 1..N, NEW m \in S PROVE MergeInto(m, sorted[n + 1]) \in S
    <2>1. sorted[n + 1] \in TaintRange
      BY <1>1
    <2> QED BY <2>1, MergeIntoFacts
  <1>5. G \in [1..N -> [S -> S]] /\ \A n \in 1..N : \A m \in S : G[n][m] = MergeInto(m, sorted[n + 1])
    BY <1>4
  <1> HIDE DEF S, a, G, N
  <1>6. PICK f : Stays(f, N, S, a, G)
    <2>1. N \in 0..N
      BY <1>1
    <2> QED BY <1>1, <1>3, <1>5, <2>1, Recursion
  <1>7. /\ f[0] = a /\ \A n \in 0..N : f[n] \in S
        /\ \A n \in 1..N : n - 1 \in 0..N /\ f[n] = MergeInto(f[n - 1], sorted[n + 1])
    <2>1. \A n \in 1..N : n - 1 \in 0..N
      BY <1>1
    <2> QED BY <1>5, <1>6, <2>1 DEF Stays, Computes
  <1>8. F = [n \in 0..N |-> Body(F, n)]
    <2> DEFINE h == [n \in 0..N |-> f[n]]
    <2>1. ASSUME NEW n \in 0..N PROVE f[n] = Body(h, n)
      <3>1. CASE n = 0
        BY <1>7, <3>1 DEF a
      <3>2. CASE n # 0
        <4>1. n \in 1..N
          BY <1>1, <3>2
        <4> QED BY <1>7, <3>2, <4>1
      <3> QED BY <3>1, <3>2
    <2>2. h = [n \in 0..N |-> Body(h, n)]
      BY <2>1
    <2> HIDE DEF h, Body
    <2> QED BY <2>2
  <1> HIDE DEF F
  <1>9. Computes(F, N, S, a, G)
    <2>1. 0 \in 0..N
      BY <1>1
    <2>2. F[0] = a
      BY <1>8, <2>1 DEF a
    <2>3. ASSUME NEW n \in 1..N, F[n - 1] \in S PROVE F[n] = G[n][F[n - 1]]
      <3>1. n \in 0..N /\ n # 0
        BY <1>1
      <3>2. F[n] = MergeInto(F[n - 1], sorted[n + 1])
        BY <1>8, <3>1
      <3> QED BY <1>5, <2>3, <3>2
    <2> QED BY <2>2, <2>3 DEF Computes
  <1>10. F[N] = f[N]
    <2>1. N \in 0..N
      BY <1>1
    <2> QED BY <1>1, <1>6, <1>9, <2>1, OneComputation
  <1> DEFINE First(n) == {sorted[i] : i \in 1..(n + 1)}
             X == {n \in 0..N : Agree(Range(f[n]), First(n))}
  <1>11. 0 \in X
    <2>1. 0 \in 0..N /\ 1..(0 + 1) = {1}
      BY <1>1
    <2>2. First(0) = {sorted[1]} /\ Range(f[0]) = {sorted[1]}
      BY <1>7, <2>1, RangeOfOne DEF a
    <2> QED BY <2>1, <2>2, AgreeFacts
  <1>12. ASSUME NEW n \in 1..N, n - 1 \in X PROVE n \in X
    <2> DEFINE r == sorted[n + 1]
               m == f[n - 1]
    <2>1. n \in 0..N /\ r \in TaintRange /\ 1..(n + 1) = 1..((n - 1) + 1) \cup {n + 1}
      BY <1>1
    <2>2. m \in Seq(TaintRange) /\ m # << >> /\ f[n] = MergeInto(m, r)
      BY <1>7 DEF S
    <2>3. Agree(Range(m), First(n - 1))
      BY <1>12
    <2>4. First(n) = First(n - 1) \cup {r}
      BY <2>1
    <2> HIDE DEF First, r, m
    <2>5. Agree(Range(f[n]), Range(m) \cup {r})
      BY <2>1, <2>2, MergeIntoFacts
    <2>6. Agree(Range(m) \cup {r}, First(n - 1) \cup {r})
      <3> DEFINE R == Range(m)
                 Q == First(n - 1)
      <3>1. Agree(R, Q)
        BY <2>3
      <3> HIDE DEF R, Q
      <3>2. Agree(R \cup {r}, Q \cup {r})
        BY <3>1, AgreeFacts
      <3> QED BY <3>2 DEF R, Q
    <2>7. Agree(Range(f[n]), First(n))
      BY <2>4, <2>5, <2>6, AgreeFacts
    <2> QED BY <2>1, <2>7
  <1>13. N \in X
    <2> HIDE DEF X
    <2>1. 0..N \subseteq X
      BY <1>1, <1>11, <1>12, UpTo
    <2>2. N \in 0..N
      BY <1>1
    <2> QED BY <2>1, <2>2
  <1>14. First(N) = Range(sorted)
    <2>1. N + 1 = Len(sorted)
      BY <1>1 DEF N
    <2> QED BY <1>1, <2>1 DEF Range
  <1>15. f[N] \in S /\ Agree(Range(f[N]), Range(sorted))
    <2>1. N \in 0..N
      BY <1>1
    <2> HIDE DEF First
    <2> QED BY <1>7, <1>13, <1>14, <2>1
  <1> QED BY <1>2, <1>10, <1>15 DEF S

-----------------------------------------------------------------------------
(* Tainted values                                                           *)

\* Of finitely many numbers one is the greatest.
LEMMA GreatestOf ==
    ASSUME NEW n \in Nat, n > 0, NEW f, \A i \in 1..n : f[i] \in Nat
    PROVE  \E k \in 1..n : \A i \in 1..n : f[i] <= f[k]
  <1> DEFINE X == {m \in 0..n - 1 : \E k \in 1..m + 1 : \A i \in 1..m + 1 : f[i] <= f[k]}
  <1>1. n - 1 \in Nat /\ n - 1 \in 0..n - 1
    OBVIOUS
  <1>2. 0 \in X
    <2>1. 1..0 + 1 = {1} /\ 1 \in 1..n
      OBVIOUS
    <2>2. f[1] <= f[1]
      BY <2>1
    <2> QED BY <1>1, <2>1, <2>2
  <1>3. ASSUME NEW m \in 1..n - 1, m - 1 \in X PROVE m \in X
    <2>1. m - 1 + 1 = m /\ m + 1 \in 1..n /\ 1..m + 1 = 1..m \cup {m + 1}
      BY <1>3
    <2>2. PICK k \in 1..m : \A i \in 1..m : f[i] <= f[k]
      BY <1>3, <2>1
    <2>3. \A i \in 1..m + 1 : f[i] \in Nat
      BY <2>1
    <2>4. CASE f[k] <= f[m + 1]
      <3>1. \A i \in 1..m + 1 : f[i] <= f[m + 1]
        BY <2>1, <2>2, <2>3, <2>4
      <3> QED BY <3>1
    <2>5. CASE ~(f[k] <= f[m + 1])
      <3>1. \A i \in 1..m + 1 : f[i] <= f[k]
        BY <2>1, <2>2, <2>3, <2>5
      <3> QED BY <2>1, <2>2, <3>1
    <2> QED BY <2>4, <2>5
  <1>4. n - 1 \in X
    <2> HIDE DEF X
    <2>1. 0..(n - 1) \subseteq X
      BY <1>1, <1>2, <1>3, UpTo
    <2> QED BY <1>1, <2>1
  <1> QED BY <1>4

\* The covering range is one, imprecise, and marks whatever a part marked.
LEMMA CoveringFacts ==
    ASSUME NEW ranges \in Seq(TaintRange), ranges # << >>, NEW cleared \in SUBSET RuleClass
    PROVE  \E r \in TaintRange :
              /\ Covering(ranges, cleared) = [ranges |-> <<r>>, imprecise |-> TRUE]
              /\ r.cleared = cleared
              /\ \A p \in Range(ranges) : \A i \in Nat : Marks(p, i) => Marks(r, i)
  <1> DEFINE n == Len(ranges)
             starts == {ranges[i].start : i \in DOMAIN ranges}
             ends == {End(ranges[i]) : i \in DOMAIN ranges}
             f == [i \in 1..n |-> End(ranges[i])]
  <1>1. n \in Nat /\ n > 0 /\ DOMAIN ranges = 1..n /\ \A i \in 1..n : ranges[i] \in TaintRange
    BY EmptySeq, LenProperties, ElementOfSeq
  <1>2. \A i \in 1..n : /\ ranges[i].start \in Nat /\ End(ranges[i]) \in Nat
                        /\ ranges[i].start < End(ranges[i])
    BY <1>1, RangeFacts
  <1>3. Min(starts) \in starts /\ \A y \in starts : Min(starts) <= y
    <2>1. starts \in SUBSET Nat /\ starts # {}
      BY <1>1, <1>2
    <2> HIDE DEF starts
    <2>2. \E m \in starts : \A k \in starts : m <= k
      BY <2>1, SmallestNumber
    <2> QED BY <2>2 DEF Min
  <1>4. Max(ends) \in ends /\ \A y \in ends : Max(ends) >= y
    <2>1. \A i \in 1..n : f[i] \in Nat
      BY <1>2
    <2> HIDE DEF n, f
    <2>2. \E k \in 1..n : \A i \in 1..n : f[i] <= f[k]
      BY <1>1, <2>1, GreatestOf
    <2> USE DEF n, f
    <2>3. \E m \in ends : \A k \in ends : m >= k
      BY <1>1, <1>2, <2>2
    <2> HIDE DEF ends
    <2> QED BY <2>3 DEF Max
  <1> DEFINE first == Min(starts)
             last == Max(ends)
             r == [start |-> first, length |-> last - first, source |-> ranges[1].source,
                   cleared |-> cleared]
  <1>5. Covering(ranges, cleared) = [ranges |-> <<r>>, imprecise |-> TRUE]
    BY DEF Covering
  <1> HIDE DEF first, last
  <1>6. \A i \in 1..n : first <= ranges[i].start /\ End(ranges[i]) <= last
    BY <1>1, <1>3, <1>4 DEF first, last
  <1>7. first \in Nat /\ last \in Nat
    BY <1>1, <1>2, <1>3, <1>4 DEF first, last
  <1>8. last - first \in Nat \ {0}
    <2>1. 1 \in 1..n
      BY <1>1
    <2> QED BY <1>2, <1>6, <1>7, <2>1
  <1>9. r \in TaintRange /\ r.cleared = cleared /\ r.start = first /\ End(r) = last
    <2>1. ranges[1].source \in Source
      BY <1>1 DEF TaintRange
    <2>2. r \in TaintRange
      BY <1>7, <1>8, <2>1 DEF TaintRange
    <2>3. first + (last - first) = last
      BY <1>7
    <2> QED BY <2>2, <2>3 DEF End
  <1> HIDE DEF r
  <1>10. ASSUME NEW p \in Range(ranges), NEW i \in Nat, Marks(p, i) PROVE Marks(r, i)
    <2>1. PICK k \in 1..n : p = ranges[k]
      BY <1>1, <1>10 DEF Range
    <2>2. first <= p.start /\ End(p) <= last /\ p.start \in Nat /\ End(p) \in Nat
      BY <1>2, <1>6, <2>1
    <2> QED BY <1>7, <1>9, <1>10, <2>2 DEF Marks
  <1> QED BY <1>5, <1>9, <1>10

\* What the agent keeps of a value: ranges, and whether they are only a warning.
Taints == [ranges : Seq(TaintRange), imprecise : BOOLEAN]
\* The ranges of a taint as a set.
Ranges(taint) == Range(taint.ranges)

\* The rules cleared for all ranges are cleared for each.
LEMMA ClearedForAllFacts ==
    ASSUME NEW ranges \in Seq(TaintRange), ranges # << >>
    PROVE  /\ ClearedForAll(ranges) \in SUBSET RuleClass
           /\ \A r \in Range(ranges) : ClearedForAll(ranges) \subseteq r.cleared
  <1>1. Len(ranges) \in Nat /\ Len(ranges) > 0 /\ DOMAIN ranges = 1..Len(ranges)
        /\ \A i \in 1..Len(ranges) : ranges[i] \in TaintRange
    BY EmptySeq, LenProperties, ElementOfSeq
  <1>2. ranges[1].cleared \in SUBSET RuleClass
    BY <1>1 DEF TaintRange
  <1>3. ClearedForAll(ranges) \in SUBSET RuleClass
    BY <1>2 DEF ClearedForAll
  <1>4. \A r \in Range(ranges) : ClearedForAll(ranges) \subseteq r.cleared
    BY DEF ClearedForAll, Range
  <1> QED BY <1>3, <1>4

\* Normalizing drops no warning, and says what the list said unless it marks itself imprecise.
LEMMA NormalizeFacts ==
    ASSUME NEW ranges \in Seq(TaintRange), NEW imprecise \in BOOLEAN
    PROVE  LET t == Normalize(ranges, imprecise)
           IN  /\ t \in Taints
               /\ \A i \in Nat : \A rule : Warns(Range(ranges), i, rule) => Warns(Ranges(t), i, rule)
               /\ ~t.imprecise => ~imprecise /\ Agree(Ranges(t), Range(ranges))
               /\ imprecise => t.imprecise
  <1> DEFINE t == Normalize(ranges, imprecise)
             merged == Merged(Sorted(ranges))
  <1>1. CASE ranges = << >>
    <2>1. t = [ranges |-> ranges, imprecise |-> imprecise]
      BY <1>1 DEF Normalize
    <2> HIDE DEF t
    <2>2. t \in Taints /\ Ranges(t) = Range(ranges) /\ t.imprecise = imprecise
      BY <2>1 DEF Taints, Ranges
    <2>3. Agree(Ranges(t), Range(ranges))
      BY <2>2, AgreeFacts
    <2> QED BY <2>2, <2>3 DEF t
  <1>2. CASE ranges # << >>
    <2>1. /\ Sorted(ranges) \in Seq(TaintRange) /\ Sorted(ranges) # << >>
          /\ Range(Sorted(ranges)) = Range(ranges)
      <3>1. /\ Sorted(ranges) \in Seq(TaintRange) /\ Len(Sorted(ranges)) = Len(ranges)
            /\ Range(Sorted(ranges)) = Range(ranges)
        BY SortedFacts
      <3>2. Len(ranges) # 0 /\ Len(<< >>) = 0
        BY <1>2, EmptySeq
      <3> QED BY <3>1, <3>2
    <2>2. merged \in Seq(TaintRange) /\ merged # << >> /\ Agree(Range(merged), Range(ranges))
      BY <2>1, MergedFacts
    <2>3. t = IF Len(merged) <= MaxRanges THEN [ranges |-> merged, imprecise |-> imprecise]
              ELSE Collapse(merged)
      BY <1>2 DEF Normalize
    <2> HIDE DEF merged, t
    <2>4. Agree(Range(ranges), Range(merged))
      BY <2>2 DEF Agree
    <2>5. CASE Len(merged) <= MaxRanges
      <3>1. t \in Taints /\ Ranges(t) = Range(merged) /\ t.imprecise = imprecise
        BY <2>2, <2>3, <2>5 DEF Taints, Ranges
      <3>2. \A i \in Nat : \A rule : Warns(Range(ranges), i, rule) => Warns(Range(merged), i, rule)
        BY <2>4, AgreeFacts
      <3> QED BY <2>2, <3>1, <3>2 DEF t
    <2>6. CASE ~(Len(merged) <= MaxRanges)
      <3> DEFINE cleared == ClearedForAll(merged)
      <3>1. t = Covering(merged, cleared)
        BY <2>3, <2>6 DEF Collapse
      <3>2. cleared \in SUBSET RuleClass /\ \A r \in Range(merged) : cleared \subseteq r.cleared
        BY <2>2, ClearedForAllFacts
      <3> HIDE DEF cleared
      <3>3. PICK r \in TaintRange :
              /\ t = [ranges |-> <<r>>, imprecise |-> TRUE]
              /\ r.cleared = cleared
              /\ \A p \in Range(merged) : \A i \in Nat : Marks(p, i) => Marks(r, i)
        BY <2>2, <3>1, <3>2, CoveringFacts
      <3>4. t \in Taints /\ t.imprecise = TRUE /\ Ranges(t) = {r}
        <4>1. <<r>> \in Seq(TaintRange) /\ Range(<<r>>) = {r}
          BY RangeOfOne
        <4> QED BY <3>3, <4>1 DEF Taints, Ranges
      <3>5. ASSUME NEW i \in Nat, NEW rule, Warns(Range(ranges), i, rule)
            PROVE  Warns(Ranges(t), i, rule)
        <4>1. Warns(Range(merged), i, rule)
          BY <2>4, <3>5, AgreeFacts
        <4>2. PICK p \in Range(merged) : Marks(p, i) /\ rule \notin p.cleared
          BY <4>1 DEF Warns
        <4>3. Marks(r, i) /\ rule \notin r.cleared
          BY <3>2, <3>3, <4>2
        <4> QED BY <3>4, <4>3 DEF Warns
      <3> QED BY <3>4, <3>5 DEF t
    <2> QED BY <2>5, <2>6
  <1> QED BY <1>1, <1>2

\* t is what Normalize makes of a list: it warns wherever the list does, and if
\* it is precise the list was, and said all that it says.
Normal(t, ranges, imprecise) ==
    /\ t \in Taints
    /\ \A i \in Nat : \A rule : Warns(Range(ranges), i, rule) => Warns(Ranges(t), i, rule)
    /\ ~t.imprecise =>
           \A i \in Nat : \A source, cleared :
               Says(Ranges(t), i, source, cleared) => ~imprecise /\ Says(Range(ranges), i, source, cleared)

\* A warning is a range over the character that the rule is not cleared for.
LEMMA WarnsSays ==
    \A R, i, rule : Warns(R, i, rule) <=> \E source, cleared : Says(R, i, source, cleared) /\ rule \notin cleared
  <1>1. ASSUME NEW R, NEW i, NEW rule, Warns(R, i, rule)
        PROVE  \E source, cleared : Says(R, i, source, cleared) /\ rule \notin cleared
    <2>1. PICK r \in R : Marks(r, i) /\ rule \notin r.cleared
      BY <1>1 DEF Warns
    <2>2. Says(R, i, r.source, r.cleared)
      BY <2>1 DEF Says
    <2> QED BY <2>1, <2>2
  <1>2. ASSUME NEW R, NEW i, NEW rule, NEW source, NEW cleared, Says(R, i, source, cleared), rule \notin cleared
        PROVE  Warns(R, i, rule)
    BY <1>2 DEF Says, Warns
  <1> QED BY <1>1, <1>2

\* What is said by a list of parts is said by one of them.
LEMMA SaysOfUnion ==
    \A R, Q, i, source, cleared :
        Says(R \cup Q, i, source, cleared) <=> Says(R, i, source, cleared) \/ Says(Q, i, source, cleared)
  BY DEF Says

\* No range says nothing.
LEMMA NothingSaid ==
    /\ \A i, source, cleared : ~Says({}, i, source, cleared)
    /\ \A i, rule : ~Warns({}, i, rule)
  BY DEF Says, Warns

\* What normalizing gives is normal for the list.
LEMMA NormalizeIsNormal ==
    ASSUME NEW ranges \in Seq(TaintRange), NEW imprecise \in BOOLEAN
    PROVE  Normal(Normalize(ranges, imprecise), ranges, imprecise)
  <1> DEFINE t == Normalize(ranges, imprecise)
  <1>1. /\ t \in Taints
        /\ \A i \in Nat : \A rule : Warns(Range(ranges), i, rule) => Warns(Ranges(t), i, rule)
        /\ ~t.imprecise => ~imprecise /\ Agree(Ranges(t), Range(ranges))
    BY NormalizeFacts
  <1> HIDE DEF t
  <1>2. Normal(t, ranges, imprecise)
    BY <1>1 DEF Normal, Agree
  <1> QED BY <1>2 DEF t

\* The empty taint is normal for a list without ranges.
LEMMA EmptyIsNormal ==
    ASSUME NEW ranges, Range(ranges) = {}, NEW imprecise
    PROVE  Normal(Empty, ranges, imprecise) /\ Empty \in Taints /\ Ranges(Empty) = {}
  <1>1. Empty \in Taints /\ Ranges(Empty) = {}
    BY RangeOfOne DEF Empty, Taints, Ranges
  <1> QED BY <1>1, NothingSaid DEF Normal

\* The parts of a taint, and when it is tainted.
LEMMA TaintFacts ==
    ASSUME NEW t \in Taints
    PROVE  /\ t.ranges \in Seq(TaintRange) /\ t.imprecise \in BOOLEAN
           /\ Ranges(t) \subseteq TaintRange
           /\ ~IsTainted(t) <=> Ranges(t) = {}
  <1>1. t.ranges \in Seq(TaintRange) /\ t.imprecise \in BOOLEAN
    BY DEF Taints
  <1>2. Ranges(t) \subseteq TaintRange /\ (t.ranges # << >> => Ranges(t) # {})
    BY <1>1, RangeOfOne DEF Ranges
  <1>3. t.ranges = << >> => Ranges(t) = {}
    BY RangeOfOne DEF Ranges
  <1> QED BY <1>1, <1>2, <1>3 DEF IsTainted

\* Shifted ranges say at an offset what they said before it was shifted.
LEMMA ShiftAllFacts ==
    ASSUME NEW ranges \in Seq(TaintRange), NEW d \in Nat
    PROVE  /\ ShiftAll(ranges, d) \in Seq(TaintRange)
           /\ \A i \in Nat : \A source, cleared :
                  Says(Range(ShiftAll(ranges, d)), i, source, cleared)
                      <=> i >= d /\ Says(Range(ranges), i - d, source, cleared)
  <1> DEFINE s == ShiftAll(ranges, d)
  <1>1. Len(ranges) \in Nat /\ DOMAIN ranges = 1..Len(ranges) /\ \A n \in DOMAIN ranges : ranges[n] \in TaintRange
    BY LenProperties, ElementOfSeq
  <1>2. ASSUME NEW r \in TaintRange
        PROVE  /\ Shift(r, d) \in TaintRange /\ Shift(r, d).source = r.source
               /\ Shift(r, d).cleared = r.cleared
               /\ \A i \in Nat : Marks(Shift(r, d), i) <=> i >= d /\ Marks(r, i - d)
    <2>1. /\ Shift(r, d) = [start |-> r.start + d, length |-> r.length, source |-> r.source, cleared |-> r.cleared]
          /\ r.start \in Nat /\ r.length \in Nat \ {0} /\ r.source \in Source /\ r.cleared \in SUBSET RuleClass
      BY DEF TaintRange, Shift
    <2>2. Shift(r, d) \in TaintRange
      BY <2>1 DEF TaintRange
    <2>3. Shift(r, d).start = r.start + d /\ Shift(r, d).length = r.length
      BY <2>1
    <2>4. \A i \in Nat : Marks(Shift(r, d), i) <=> i >= d /\ Marks(r, i - d)
      BY <2>1, <2>3 DEF Marks, End
    <2> QED BY <2>1, <2>2, <2>4
  <1>3. s = [n \in 1..Len(ranges) |-> Shift(ranges[n], d)]
    BY <1>1 DEF ShiftAll
  <1>4. s \in Seq(TaintRange) /\ DOMAIN s = DOMAIN ranges /\ \A n \in DOMAIN ranges : s[n] = Shift(ranges[n], d)
    BY <1>1, <1>2, <1>3
  <1> HIDE DEF s
  <1>5. ASSUME NEW i \in Nat, NEW source, NEW cleared
        PROVE  Says(Range(s), i, source, cleared) <=> i >= d /\ Says(Range(ranges), i - d, source, cleared)
    <2>1. Says(Range(s), i, source, cleared) <=>
              \E n \in DOMAIN ranges : Marks(s[n], i) /\ s[n].source = source /\ s[n].cleared = cleared
      BY <1>4 DEF Says, Range
    <2>2. Says(Range(ranges), i - d, source, cleared) <=>
              \E n \in DOMAIN ranges : Marks(ranges[n], i - d) /\ ranges[n].source = source /\ ranges[n].cleared = cleared
      BY DEF Says, Range
    <2>3. \A n \in DOMAIN ranges : /\ s[n].source = ranges[n].source /\ s[n].cleared = ranges[n].cleared
                                   /\ Marks(s[n], i) <=> i >= d /\ Marks(ranges[n], i - d)
      BY <1>1, <1>2, <1>4
    <2> QED BY <2>1, <2>2, <2>3
  <1> QED BY <1>4, <1>5 DEF s

\* A concatenation says of the left part what the left taint says, and of the right part what the right one does.
LEMMA ConcatIsNormal ==
    ASSUME NEW left \in Taints, NEW n \in Nat, NEW right \in Taints
    PROVE  /\ left.ranges \o ShiftAll(right.ranges, n) \in Seq(TaintRange)
           /\ Normal(Concat(left, n, right), left.ranges \o ShiftAll(right.ranges, n),
                     left.imprecise \/ right.imprecise)
           /\ \A i \in Nat : \A source, cleared :
                  Says(Range(left.ranges \o ShiftAll(right.ranges, n)), i, source, cleared) <=>
                      \/ Says(Ranges(left), i, source, cleared)
                      \/ i >= n /\ Says(Ranges(right), i - n, source, cleared)
  <1> DEFINE a == left.ranges
             b == ShiftAll(right.ranges, n)
             imprecise == left.imprecise \/ right.imprecise
  <1>1. a \in Seq(TaintRange) /\ b \in Seq(TaintRange) /\ imprecise \in BOOLEAN
    <2>1. right.ranges \in Seq(TaintRange) /\ left.ranges \in Seq(TaintRange)
      BY TaintFacts
    <2> QED BY <2>1, TaintFacts, ShiftAllFacts
  <1> HIDE DEF a, b, imprecise
  <1>2. a \o b \in Seq(TaintRange) /\ Range(a \o b) = Range(a) \cup Range(b)
    BY <1>1, RangeOfConcat
  <1>3. Range(a) = Ranges(left)
    BY DEF a, Ranges
  <1>4. \A i \in Nat : \A source, cleared :
            Says(Range(b), i, source, cleared) <=> i >= n /\ Says(Ranges(right), i - n, source, cleared)
    <2>1. right.ranges \in Seq(TaintRange)
      BY TaintFacts
    <2> QED BY <2>1, ShiftAllFacts DEF b, Ranges
  <1>5. \A i \in Nat : \A source, cleared :
            Says(Range(a \o b), i, source, cleared) <=>
                \/ Says(Ranges(left), i, source, cleared)
                \/ i >= n /\ Says(Ranges(right), i - n, source, cleared)
    BY <1>2, <1>3, <1>4, SaysOfUnion
  <1>6. Normal(Concat(left, n, right), a \o b, imprecise)
    <2>1. CASE ~IsTainted(left) /\ ~IsTainted(right)
      <3>1. Concat(left, n, right) = Empty
        BY <2>1 DEF Concat
      <3>2. a = << >> /\ right.ranges = << >>
        BY <2>1 DEF IsTainted, a
      <3>3. Range(a) = {} /\ Range(b) = {}
        <4>1. DOMAIN b = {}
          BY <3>2 DEF b, ShiftAll
        <4> QED BY <3>2, <4>1, RangeOfOne DEF Range
      <3>4. Range(a \o b) = {}
        BY <1>2, <3>3
      <3> QED BY <3>1, <3>4, EmptyIsNormal
    <2>2. CASE ~(~IsTainted(left) /\ ~IsTainted(right))
      <3>1. Concat(left, n, right) = Normalize(a \o b, imprecise)
        BY <2>2 DEF Concat, a, b, imprecise
      <3> QED BY <1>1, <1>2, <3>1, NormalizeIsNormal
    <2> QED BY <2>1, <2>2
  <1> QED BY <1>2, <1>5, <1>6 DEF a, b, imprecise

\* Marks and Marked agree on what a list of pieces of one range says.
LEMMA SaysOfPieces ==
    ASSUME NEW r \in TaintRange, NEW pieces,
           \A n \in DOMAIN pieces : pieces[n].source = r.source /\ pieces[n].cleared = r.cleared,
           NEW i, NEW source, NEW cleared
    PROVE  Says(Range(pieces), i, source, cleared)
               <=> Marked(pieces, i) /\ r.source = source /\ r.cleared = cleared
  BY DEF Says, Marked, Range

\* What the ranges of a list become, each by itself, and then joined.
LEMMA SaysOfFlattened ==
    ASSUME NEW ranges \in Seq(TaintRange), NEW parts, DOMAIN parts = DOMAIN ranges,
           \A n \in DOMAIN ranges :
               /\ parts[n] \in Seq(TaintRange)
               /\ \A k \in DOMAIN parts[n] : /\ parts[n][k].source = ranges[n].source
                                             /\ parts[n][k].cleared = ranges[n].cleared,
           parts = [n \in DOMAIN parts |-> parts[n]]
    PROVE  /\ FlattenSeq(parts) \in Seq(TaintRange)
           /\ \A i, source, cleared :
                  Says(Range(FlattenSeq(parts)), i, source, cleared) <=>
                      \E n \in DOMAIN ranges :
                          Marked(parts[n], i) /\ ranges[n].source = source /\ ranges[n].cleared = cleared
  <1>1. Len(ranges) \in Nat /\ DOMAIN ranges = 1..Len(ranges) /\ \A n \in DOMAIN ranges : ranges[n] \in TaintRange
    BY LenProperties, ElementOfSeq
  <1>2. parts \in Seq(Seq(TaintRange))
    <2> DEFINE S == Seq(TaintRange)
    <2>1. \A n \in 1..Len(ranges) : parts[n] \in S
      BY <1>1
    <2> HIDE DEF S
    <2>2. parts \in [1..Len(ranges) -> S]
      BY <1>1, <2>1
    <2>3. parts \in Seq(S)
      BY <1>1, <2>2
    <2> QED BY <2>3 DEF S
  <1>3. /\ FlattenSeq(parts) \in Seq(TaintRange)
        /\ \A x : x \in Range(FlattenSeq(parts)) <=> \E n \in DOMAIN parts : x \in Range(parts[n])
    BY <1>2, FlattenRange
  <1>4. ASSUME NEW i, NEW source, NEW cleared
        PROVE  Says(Range(FlattenSeq(parts)), i, source, cleared) <=>
                   \E n \in DOMAIN ranges :
                       Marked(parts[n], i) /\ ranges[n].source = source /\ ranges[n].cleared = cleared
    <2>1. Says(Range(FlattenSeq(parts)), i, source, cleared) <=>
              \E n \in DOMAIN ranges : Says(Range(parts[n]), i, source, cleared)
      BY <1>3 DEF Says
    <2>2. \A n \in DOMAIN ranges :
              Says(Range(parts[n]), i, source, cleared)
                  <=> Marked(parts[n], i) /\ ranges[n].source = source /\ ranges[n].cleared = cleared
      BY <1>1, SaysOfPieces
    <2> QED BY <2>1, <2>2
  <1> QED BY <1>3, <1>4

\* A substring says of each character what the whole says of it.
LEMMA SubstringIsNormal ==
    ASSUME NEW v \in Taints, NEW from \in Nat, NEW to \in Nat
    PROVE  \E list \in Seq(TaintRange) :
              /\ Normal(Substring(v, from, to), list, v.imprecise)
              /\ \A i \in Nat : \A source, cleared :
                     Says(Range(list), i, source, cleared) <=>
                         from + i < to /\ Says(Ranges(v), from + i, source, cleared)
  <1> DEFINE ranges == v.ranges
             parts == [n \in DOMAIN ranges |-> Clip(ranges[n], from, to)]
             list == FlattenSeq(parts)
  <1>1. ranges \in Seq(TaintRange) /\ v.imprecise \in BOOLEAN /\ Range(ranges) = Ranges(v)
    BY TaintFacts DEF Ranges
  <1>2. DOMAIN ranges = 1..Len(ranges) /\ Len(ranges) \in Nat /\ \A n \in DOMAIN ranges : ranges[n] \in TaintRange
    BY <1>1, LenProperties, ElementOfSeq
  <1> HIDE DEF ranges
  <1>3. \A n \in DOMAIN ranges :
            /\ parts[n] \in Seq(TaintRange)
            /\ \A k \in DOMAIN parts[n] : /\ parts[n][k].source = ranges[n].source
                                          /\ parts[n][k].cleared = ranges[n].cleared
            /\ \A i \in Nat : Marked(parts[n], i) <=> (from + i < to /\ Marks(ranges[n], from + i))
    <2> TAKE n \in DOMAIN ranges
    <2> DEFINE r == ranges[n]
               c == Clip(r, from, to)
    <2>1. r \in TaintRange /\ parts[n] = c
      BY <1>2
    <2> HIDE DEF r
    <2>2. /\ \A i \in Nat : Marked(c, i) <=> (from + i < to /\ Marks(r, from + i))
          /\ \A k \in DOMAIN c : c[k] \in TaintRange /\ c[k].source = r.source /\ c[k].cleared = r.cleared
      BY <2>1, ClipIsExact
    <2>3. c \in Seq(TaintRange)
      <3>1. c = << >> \/ \E x : c = <<x>>
        BY DEF Clip
      <3>2. CASE c = << >>
        BY <3>2
      <3>3. CASE \E x : c = <<x>>
        <4>1. PICK x : c = <<x>>
          BY <3>3
        <4>2. 1 \in DOMAIN c /\ c[1] = x
          BY <4>1
        <4>3. x \in TaintRange
          BY <2>2, <4>2
        <4> QED BY <4>1, <4>3
      <3> QED BY <3>1, <3>2, <3>3
    <2> QED BY <2>1, <2>2, <2>3 DEF r
  <1>4. DOMAIN parts = DOMAIN ranges /\ parts = [n \in DOMAIN parts |-> parts[n]]
    OBVIOUS
  <1> HIDE DEF parts
  <1>5. /\ list \in Seq(TaintRange)
        /\ \A i, source, cleared :
               Says(Range(list), i, source, cleared) <=>
                   \E n \in DOMAIN ranges :
                       Marked(parts[n], i) /\ ranges[n].source = source /\ ranges[n].cleared = cleared
    BY <1>1, <1>3, <1>4, SaysOfFlattened
  <1>6. ASSUME NEW i \in Nat, NEW source, NEW cleared
        PROVE  Says(Range(list), i, source, cleared) <=>
                   from + i < to /\ Says(Ranges(v), from + i, source, cleared)
    <2>1. Says(Ranges(v), from + i, source, cleared) <=>
              \E n \in DOMAIN ranges :
                  Marks(ranges[n], from + i) /\ ranges[n].source = source /\ ranges[n].cleared = cleared
      BY <1>1 DEF Says, Range
    <2> QED BY <1>3, <1>5, <2>1
  <1> HIDE DEF list
  <1>7. Normal(Substring(v, from, to), list, v.imprecise)
    <2>1. CASE ~IsTainted(v) \/ to <= from
      <3>1. Substring(v, from, to) = Empty
        BY <2>1 DEF Substring
      <3>2. \A i \in Nat : \A source, cleared : ~Says(Range(list), i, source, cleared)
        <4>1. ASSUME NEW i \in Nat, NEW source, NEW cleared PROVE ~(from + i < to /\ Says(Ranges(v), from + i, source, cleared))
          <5>1. CASE ~IsTainted(v)
            BY <5>1, TaintFacts, NothingSaid
          <5>2. CASE to <= from
            BY <5>2
          <5> QED BY <2>1, <5>1, <5>2
        <4> QED BY <1>6, <4>1
      <3>3. \A i \in Nat : \A rule : ~Warns(Range(list), i, rule)
        BY <3>2, WarnsSays
      <3>4. Empty \in Taints /\ Ranges(Empty) = {}
        BY RangeOfOne DEF Empty, Taints, Ranges
      <3> QED BY <3>1, <3>3, <3>4, NothingSaid DEF Normal
    <2>2. CASE ~(~IsTainted(v) \/ to <= from)
      <3>1. Substring(v, from, to) = Normalize(list, v.imprecise)
        BY <2>2 DEF Substring, list, parts, ranges
      <3> QED BY <1>1, <1>5, <3>1, NormalizeIsNormal
    <2> QED BY <2>1, <2>2
  <1> QED BY <1>5, <1>6, <1>7

\* What is left of a range outside a window are ranges that say what it said.
LEMMA OutsideIsRanges ==
    ASSUME NEW r \in TaintRange, NEW from \in Nat, NEW to \in Nat, from <= to, NEW n \in Nat
    PROVE  /\ OutsideWindow(r, from, to, n) \in Seq(TaintRange)
           /\ \A k \in DOMAIN OutsideWindow(r, from, to, n) :
                  /\ OutsideWindow(r, from, to, n)[k].source = r.source
                  /\ OutsideWindow(r, from, to, n)[k].cleared = r.cleared
  <1> DEFINE out == OutsideWindow(r, from, to, n)
             head == Rebound(r, r.start, from - r.start)
             tail == Rebound(r, from + n, End(r) - to)
             moved == Rebound(r, (r.start + n) - (to - from), r.length)
             S == {x \in TaintRange : x.source = r.source /\ x.cleared = r.cleared}
  <1>1. /\ r.start \in Nat /\ r.length \in Nat /\ r.length > 0 /\ End(r) \in Nat
        /\ r.start < End(r) /\ End(r) = r.start + r.length
    BY RangeFacts DEF End
  <1>2. \A s \in Nat : \A k \in Nat : k > 0 => Rebound(r, s, k) \in S
    BY ReboundIsRange
  <1>3. SUFFICES out \in Seq(S)
    <2> HIDE DEF out
    <2>1. /\ DOMAIN out = 1..Len(out) /\ \A k \in 1..Len(out) : out[k] \in S
      BY LenProperties, ElementOfSeq
    <2>2. S \subseteq TaintRange
      OBVIOUS
    <2>3. out \in Seq(TaintRange)
      BY <2>2, SeqMonotonic
    <2> QED BY <2>1, <2>3 DEF out
  <1>4. CASE End(r) <= from
    <2>1. out = <<r>> /\ r \in S
      BY <1>4 DEF OutsideWindow
    <2> QED BY <2>1
  <1>5. CASE ~(End(r) <= from) /\ r.start >= to
    <2>1. out = <<moved>>
      BY <1>5 DEF OutsideWindow
    <2>2. (r.start + n) - (to - from) \in Nat
      BY <1>1, <1>5
    <2>3. moved \in S
      BY <1>1, <1>2, <2>2
    <2> HIDE DEF moved, S
    <2> QED BY <2>1, <2>3
  <1>6. CASE ~(End(r) <= from) /\ ~(r.start >= to)
    <2> DEFINE a == IF r.start < from THEN <<head>> ELSE << >>
               b == IF End(r) > to THEN <<tail>> ELSE << >>
    <2>1. out = a \o b
      BY <1>6 DEF OutsideWindow
    <2>2. r.start < from => head \in S
      BY <1>1, <1>2
    <2>3. End(r) > to => tail \in S
      BY <1>1, <1>2
    <2> HIDE DEF head, tail, S
    <2>4. a \in Seq(S)
      BY <2>2
    <2>5. b \in Seq(S)
      BY <2>3
    <2> HIDE DEF a, b
    <2> QED BY <2>1, <2>4, <2>5, ConcatProperties
  <1> QED BY <1>4, <1>5, <1>6

\* The list of Replace: before the window as it was, in it what the replacement
\* says, after it what stood there before the rest moved.
LEMMA ReplaceIsNormal ==
    ASSUME NEW v \in Taints, NEW from \in Nat, NEW to \in Nat, from <= to,
           NEW w \in Taints, NEW n \in Nat
    PROVE  \E list \in Seq(TaintRange) :
              /\ Normal(Replace(v, from, to, w, n), list, v.imprecise \/ w.imprecise)
              /\ \A i \in Nat : \A source, cleared :
                     Says(Range(list), i, source, cleared) <=>
                         \/ i < from /\ Says(Ranges(v), i, source, cleared)
                         \/ i >= from + n /\ Says(Ranges(v), (i - n) + (to - from), source, cleared)
                         \/ i >= from /\ Says(Ranges(w), i - from, source, cleared)
  <1> DEFINE ranges == v.ranges
             parts == [k \in DOMAIN ranges |-> OutsideWindow(ranges[k], from, to, n)]
             outside == FlattenSeq(parts)
             inside == ShiftAll(w.ranges, from)
             list == outside \o inside
             imprecise == v.imprecise \/ w.imprecise
  <1>1. /\ ranges \in Seq(TaintRange) /\ Range(ranges) = Ranges(v)
        /\ w.ranges \in Seq(TaintRange) /\ Range(w.ranges) = Ranges(w)
        /\ imprecise \in BOOLEAN
    BY TaintFacts DEF Ranges
  <1>2. DOMAIN ranges = 1..Len(ranges) /\ Len(ranges) \in Nat /\ \A k \in DOMAIN ranges : ranges[k] \in TaintRange
    BY <1>1, LenProperties, ElementOfSeq
  <1> HIDE DEF ranges, imprecise
  <1>3. \A k \in DOMAIN ranges :
            /\ parts[k] \in Seq(TaintRange)
            /\ \A j \in DOMAIN parts[k] : /\ parts[k][j].source = ranges[k].source
                                          /\ parts[k][j].cleared = ranges[k].cleared
            /\ \A i \in Nat : Marked(parts[k], i) <=>
                   \/ i < from /\ Marks(ranges[k], i)
                   \/ i >= from + n /\ Marks(ranges[k], (i - n) + (to - from))
    <2> TAKE k \in DOMAIN ranges
    <2> DEFINE r == ranges[k]
               o == OutsideWindow(r, from, to, n)
    <2>1. r \in TaintRange /\ parts[k] = o
      BY <1>2
    <2> HIDE DEF r
    <2>2. /\ o \in Seq(TaintRange)
          /\ \A j \in DOMAIN o : o[j].source = r.source /\ o[j].cleared = r.cleared
      <3>1. OutsideWindow(r, from, to, n) \in Seq(TaintRange)
        BY ONLY from \in Nat, to \in Nat, from <= to, n \in Nat, <2>1, OutsideIsRanges
      <3>2. \A j \in DOMAIN OutsideWindow(r, from, to, n) :
                /\ OutsideWindow(r, from, to, n)[j].source = r.source
                /\ OutsideWindow(r, from, to, n)[j].cleared = r.cleared
        BY ONLY from \in Nat, to \in Nat, from <= to, n \in Nat, <2>1, OutsideIsRanges
      <3> QED BY <3>1, <3>2
    <2>3. /\ \A i \in Nat : i < from => (Marked(o, i) <=> Marks(r, i))
          /\ \A i \in Nat : i >= to => (Marked(o, (i + n) - (to - from)) <=> Marks(r, i))
          /\ \A i \in Nat : (from <= i /\ i < from + n) => ~Marked(o, i)
      BY <2>1, ReplaceKeepsTheRest
    <2> HIDE DEF o
    <2>4. ASSUME NEW i \in Nat
          PROVE  Marked(o, i) <=> \/ i < from /\ Marks(r, i)
                                  \/ i >= from + n /\ Marks(r, (i - n) + (to - from))
      <3>1. CASE i < from
        BY <2>3, <3>1
      <3>2. CASE from <= i /\ i < from + n
        BY <2>3, <3>2
      <3>3. CASE i >= from + n
        <4> DEFINE j == (i - n) + (to - from)
        <4>1. j \in Nat /\ j >= to /\ (j + n) - (to - from) = i
          BY <3>3
        <4> HIDE DEF j
        <4>2. Marked(o, i) <=> Marks(r, j)
          BY <2>3, <4>1
        <4>3. ~(i < from)
          BY <3>3
        <4> QED BY <3>3, <4>2, <4>3 DEF j
      <3> QED BY <3>1, <3>2, <3>3
    <2> QED BY <2>1, <2>2, <2>4 DEF r
  <1>4. DOMAIN parts = DOMAIN ranges /\ parts = [k \in DOMAIN parts |-> parts[k]]
    OBVIOUS
  <1> HIDE DEF parts
  <1>5. /\ outside \in Seq(TaintRange)
        /\ \A i, source, cleared :
               Says(Range(outside), i, source, cleared) <=>
                   \E k \in DOMAIN ranges :
                       Marked(parts[k], i) /\ ranges[k].source = source /\ ranges[k].cleared = cleared
    <2>1. \A k \in DOMAIN ranges :
              /\ parts[k] \in Seq(TaintRange)
              /\ \A j \in DOMAIN parts[k] : /\ parts[k][j].source = ranges[k].source
                                            /\ parts[k][j].cleared = ranges[k].cleared
      BY <1>3
    <2>2. ranges \in Seq(TaintRange)
      BY <1>1
    <2> QED BY <1>4, <2>1, <2>2, SaysOfFlattened
  <1>6. ASSUME NEW i \in Nat, NEW source, NEW cleared
        PROVE  Says(Range(outside), i, source, cleared) <=>
                   \/ i < from /\ Says(Ranges(v), i, source, cleared)
                   \/ i >= from + n /\ Says(Ranges(v), (i - n) + (to - from), source, cleared)
    <2>1. \A j : Says(Ranges(v), j, source, cleared) <=>
              \E k \in DOMAIN ranges :
                  Marks(ranges[k], j) /\ ranges[k].source = source /\ ranges[k].cleared = cleared
      BY <1>1 DEF Says, Range
    <2> DEFINE j == (i - n) + (to - from)
    <2> HIDE DEF j
    <2>2. \A k \in DOMAIN ranges : Marked(parts[k], i) <=> \/ i < from /\ Marks(ranges[k], i)
                                                           \/ i >= from + n /\ Marks(ranges[k], j)
      BY <1>3 DEF j
    <2>3. Says(Range(outside), i, source, cleared) <=>
                   \/ i < from /\ Says(Ranges(v), i, source, cleared)
                   \/ i >= from + n /\ Says(Ranges(v), j, source, cleared)
      BY <1>5, <2>1, <2>2
    <2> QED BY <2>3 DEF j
  <1> HIDE DEF outside
  <1>7. /\ inside \in Seq(TaintRange)
        /\ \A i \in Nat : \A source, cleared :
               Says(Range(inside), i, source, cleared) <=> i >= from /\ Says(Ranges(w), i - from, source, cleared)
    <2> DEFINE ws == w.ranges
    <2>1. ws \in Seq(TaintRange) /\ Range(ws) = Ranges(w)
      BY <1>1
    <2> HIDE DEF ws
    <2>2. /\ ShiftAll(ws, from) \in Seq(TaintRange)
          /\ \A i \in Nat : \A source, cleared :
               Says(Range(ShiftAll(ws, from)), i, source, cleared) <=> i >= from /\ Says(Range(ws), i - from, source, cleared)
      BY <2>1, ShiftAllFacts
    <2> QED BY <2>1, <2>2 DEF ws
  <1> HIDE DEF inside
  <1>8. list \in Seq(TaintRange) /\ Range(list) = Range(outside) \cup Range(inside)
    BY <1>5, <1>7, RangeOfConcat
  <1>9. \A i \in Nat : \A source, cleared :
            Says(Range(list), i, source, cleared) <=>
                \/ i < from /\ Says(Ranges(v), i, source, cleared)
                \/ i >= from + n /\ Says(Ranges(v), (i - n) + (to - from), source, cleared)
                \/ i >= from /\ Says(Ranges(w), i - from, source, cleared)
    <2> TAKE i \in Nat
    <2> TAKE source, cleared
    <2>1. Says(Range(list), i, source, cleared) <=>
              Says(Range(outside), i, source, cleared) \/ Says(Range(inside), i, source, cleared)
      BY <1>8, SaysOfUnion
    <2> HIDE DEF list
    <2> QED BY <1>6, <1>7, <2>1
  <1>10. Normal(Replace(v, from, to, w, n), list, imprecise)
    <2>1. CASE ~IsTainted(v) /\ ~IsTainted(w)
      <3>1. Replace(v, from, to, w, n) = Empty
        BY <2>1 DEF Replace
      <3>2. Ranges(v) = {} /\ Ranges(w) = {}
        BY <2>1, TaintFacts
      <3> HIDE DEF list
      <3>3. \A i \in Nat : \A source, cleared : ~Says(Range(list), i, source, cleared)
        BY <1>9, <3>2, NothingSaid
      <3>4. \A i \in Nat : \A rule : ~Warns(Range(list), i, rule)
        BY <3>3, WarnsSays
      <3>5. Empty \in Taints /\ Ranges(Empty) = {}
        BY RangeOfOne DEF Empty, Taints, Ranges
      <3> QED BY <3>1, <3>4, <3>5, NothingSaid DEF Normal
    <2>2. CASE ~(~IsTainted(v) /\ ~IsTainted(w))
      <3>1. Replace(v, from, to, w, n) = Normalize(list, imprecise)
        BY <2>2 DEF Replace, list, outside, inside, parts, ranges, imprecise
      <3> HIDE DEF list
      <3> QED BY <1>1, <1>8, <3>1, NormalizeIsNormal
    <2> QED BY <2>1, <2>2
  <1> HIDE DEF list
  <1> QED BY <1>8, <1>9, <1>10 DEF imprecise

\* A rewrite of the whole warns everywhere of what any part was dangerous for.
LEMMA ReshapedFacts ==
    ASSUME NEW v \in Taints, NEW length \in Nat
    PROVE  /\ Reshaped(v, length) \in Taints
           /\ \A i \in 0..length - 1 : \A j, rule :
                  Warns(Ranges(v), j, rule) => Warns(Ranges(Reshaped(v, length)), i, rule)
           /\ Reshaped(v, length).imprecise \/ Ranges(Reshaped(v, length)) = {}
  <1>1. CASE ~IsTainted(v) \/ length = 0
    <2>1. Reshaped(v, length) = Empty
      BY <1>1 DEF Reshaped
    <2>2. Empty \in Taints /\ Ranges(Empty) = {}
      BY RangeOfOne DEF Empty, Taints, Ranges
    <2>3. ASSUME NEW i \in 0..length - 1, NEW j, NEW rule, Warns(Ranges(v), j, rule) PROVE FALSE
      <3>1. IsTainted(v)
        BY <2>3, TaintFacts, NothingSaid
      <3> QED BY <1>1, <3>1
    <2> QED BY <2>1, <2>2, <2>3
  <1>2. CASE ~(~IsTainted(v) \/ length = 0)
    <2> DEFINE cleared == ClearedForAll(v.ranges)
               r == [start |-> 0, length |-> length, source |-> v.ranges[1].source, cleared |-> cleared]
    <2>1. v.ranges \in Seq(TaintRange) /\ v.ranges # << >> /\ Range(v.ranges) = Ranges(v)
      BY <1>2, TaintFacts DEF IsTainted, Ranges
    <2>2. cleared \in SUBSET RuleClass /\ \A p \in Ranges(v) : cleared \subseteq p.cleared
      BY <2>1, ClearedForAllFacts
    <2>3. v.ranges[1] \in TaintRange
      <3>1. 1 \in 1..Len(v.ranges)
        BY <2>1, EmptySeq
      <3> QED BY <2>1, <3>1, ElementOfSeq
    <2>4. Reshaped(v, length) = Normalize(<<r>>, TRUE)
      BY <1>2 DEF Reshaped
    <2> HIDE DEF cleared
    <2>5. r \in TaintRange /\ r.cleared = cleared /\ \A i \in 0..length - 1 : Marks(r, i)
      <3>1. r \in TaintRange
        BY <1>2, <2>2, <2>3 DEF TaintRange
      <3>2. \A i \in 0..length - 1 : Marks(r, i)
        BY DEF Marks, End
      <3> QED BY <3>1, <3>2
    <2> HIDE DEF r
    <2>6. <<r>> \in Seq(TaintRange) /\ Range(<<r>>) = {r} /\ TRUE \in BOOLEAN
      BY <2>5, RangeOfOne
    <2> DEFINE list == <<r>>
    <2>7. list \in Seq(TaintRange) /\ Range(list) = {r}
      BY <2>6
    <2> HIDE DEF list
    <2>8. /\ Normalize(list, TRUE) \in Taints /\ Normalize(list, TRUE).imprecise
          /\ \A i \in Nat : \A rule : Warns({r}, i, rule) => Warns(Ranges(Normalize(list, TRUE)), i, rule)
      BY <2>7, NormalizeFacts
    <2>9. ASSUME NEW i \in 0..length - 1, NEW j, NEW rule, Warns(Ranges(v), j, rule)
          PROVE  Warns({r}, i, rule)
      <3>1. rule \notin cleared
        BY <2>2, <2>9 DEF Warns
      <3> QED BY <2>5, <3>1 DEF Warns
    <2>10. \A i \in 0..length - 1 : i \in Nat
      OBVIOUS
    <2> QED BY <2>4, <2>8, <2>9, <2>10 DEF list
  <1> QED BY <1>1, <1>2

\* A reversed value says of a character what it said of its mirror image.
LEMMA ReversedFacts ==
    ASSUME NEW v \in Taints, NEW length \in Nat
    PROVE  /\ Reversed(v, length) \in Taints
           /\ \A i \in 0..length - 1 : \A rule :
                  Warns(Ranges(v), (length - 1) - i, rule) => Warns(Ranges(Reversed(v, length)), i, rule)
           /\ ~Reversed(v, length).imprecise =>
                  \A i \in Nat : \A source, cleared :
                      Says(Ranges(Reversed(v, length)), i, source, cleared) =>
                          ~v.imprecise /\ i < length /\ Says(Ranges(v), (length - 1) - i, source, cleared)
  <1>1. CASE ~IsTainted(v) \/ length = 0
    <2>1. Reversed(v, length) = Empty
      BY <1>1 DEF Reversed
    <2>2. Empty \in Taints /\ Ranges(Empty) = {}
      BY RangeOfOne DEF Empty, Taints, Ranges
    <2>3. ASSUME NEW i \in 0..length - 1, NEW j, NEW rule, Warns(Ranges(v), j, rule) PROVE FALSE
      <3>1. IsTainted(v)
        BY <2>3, TaintFacts, NothingSaid
      <3> QED BY <1>1, <3>1
    <2> QED BY <2>1, <2>2, <2>3, NothingSaid
  <1>2. CASE /\ ~(~IsTainted(v) \/ length = 0)
             /\ \E i \in DOMAIN v.ranges : End(v.ranges[i]) > length
    <2>1. Reversed(v, length) = Reshaped(v, length)
      BY <1>2 DEF Reversed
    <2> DEFINE t == Reshaped(v, length)
    <2>2. /\ t \in Taints
          /\ \A i \in 0..length - 1 : \A j, rule : Warns(Ranges(v), j, rule) => Warns(Ranges(t), i, rule)
          /\ t.imprecise \/ Ranges(t) = {}
      BY ReshapedFacts
    <2> HIDE DEF t
    <2>3. ~t.imprecise => \A i, source, cleared : ~Says(Ranges(t), i, source, cleared)
      BY <2>2, NothingSaid
    <2> QED BY <2>1, <2>2, <2>3 DEF t
  <1>3. CASE /\ ~(~IsTainted(v) \/ length = 0)
             /\ ~ \E i \in DOMAIN v.ranges : End(v.ranges[i]) > length
    <2> DEFINE ranges == v.ranges
               s == [k \in DOMAIN ranges |-> [ranges[k] EXCEPT !.start = length - End(ranges[k])]]
    <2>1. Reversed(v, length) = Normalize(s, v.imprecise)
      BY <1>3 DEF Reversed
    <2>2. ranges \in Seq(TaintRange) /\ v.imprecise \in BOOLEAN /\ Range(ranges) = Ranges(v)
      BY TaintFacts DEF Ranges
    <2>3. \A k \in DOMAIN ranges : ~(End(ranges[k]) > length)
      BY <1>3
    <2> HIDE DEF ranges
    <2>4. DOMAIN ranges = 1..Len(ranges) /\ Len(ranges) \in Nat /\ \A k \in DOMAIN ranges : ranges[k] \in TaintRange
      BY <2>2, LenProperties, ElementOfSeq
    <2>5. \A k \in DOMAIN ranges :
              /\ s[k] \in TaintRange /\ s[k].source = ranges[k].source /\ s[k].cleared = ranges[k].cleared
              /\ \A i \in Nat : Marks(s[k], i) <=> i < length /\ Marks(ranges[k], (length - 1) - i)
      <3> TAKE k \in DOMAIN ranges
      <3> DEFINE r == ranges[k]
      <3>1. r \in TaintRange /\ End(r) <= length /\ End(r) \in Nat
        <4>1. r \in TaintRange /\ ~(End(r) > length)
          BY <2>3, <2>4
        <4>2. End(r) \in Nat
          BY <4>1, RangeFacts
        <4> QED BY <4>1, <4>2
      <3>2. s[k] = [r EXCEPT !.start = length - End(r)]
        OBVIOUS
      <3> HIDE DEF r
      <3>3. /\ s[k] = [start |-> length - End(r), length |-> r.length, source |-> r.source, cleared |-> r.cleared]
            /\ r.start \in Nat /\ r.length \in Nat \ {0} /\ r.source \in Source /\ r.cleared \in SUBSET RuleClass
        BY <3>1, <3>2 DEF TaintRange
      <3> HIDE DEF s
      <3>4. length - End(r) \in Nat
        BY <3>1
      <3>5. s[k] \in TaintRange
        BY <3>3, <3>4 DEF TaintRange
      <3>6. s[k].start = length - End(r) /\ s[k].length = r.length /\ s[k].source = r.source /\ s[k].cleared = r.cleared
        BY <3>3
      <3>7. \A i \in Nat : Marks(s[k], i) <=> i < length /\ Marks(r, (length - 1) - i)
        BY <3>1, <3>3, <3>6 DEF Marks, End
      <3> QED BY <3>5, <3>6, <3>7 DEF r
    <2>6. s \in Seq(TaintRange) /\ DOMAIN s = DOMAIN ranges
      BY <2>4, <2>5
    <2> HIDE DEF s
    <2>7. ASSUME NEW i \in Nat, NEW source, NEW cleared
          PROVE  Says(Range(s), i, source, cleared)
                     <=> i < length /\ Says(Ranges(v), (length - 1) - i, source, cleared)
      <3>1. Says(Range(s), i, source, cleared) <=>
                \E k \in DOMAIN ranges : Marks(s[k], i) /\ s[k].source = source /\ s[k].cleared = cleared
        BY <2>6 DEF Says, Range
      <3>2. Says(Ranges(v), (length - 1) - i, source, cleared) <=>
                \E k \in DOMAIN ranges : /\ Marks(ranges[k], (length - 1) - i)
                                         /\ ranges[k].source = source /\ ranges[k].cleared = cleared
        BY <2>2 DEF Says, Range
      <3> QED BY <2>5, <3>1, <3>2
    <2>8. Normal(Normalize(s, v.imprecise), s, v.imprecise)
      BY <2>2, <2>6, NormalizeIsNormal
    <2>9. ASSUME NEW i \in 0..length - 1, NEW rule, Warns(Ranges(v), (length - 1) - i, rule)
          PROVE  Warns(Range(s), i, rule)
      <3>1. PICK source, cleared : Says(Ranges(v), (length - 1) - i, source, cleared) /\ rule \notin cleared
        BY <2>9, WarnsSays
      <3>2. i \in Nat /\ i < length
        OBVIOUS
      <3>3. Says(Range(s), i, source, cleared)
        BY <2>7, <3>1, <3>2
      <3> QED BY <3>1, <3>3, WarnsSays
    <2>10. \A i \in 0..length - 1 : i \in Nat
      OBVIOUS
    <2> QED BY <2>1, <2>7, <2>8, <2>9, <2>10 DEF Normal
  <1> QED BY <1>1, <1>2, <1>3

(***************************************************************************)
(* Characters                                                              *)
(***************************************************************************)
\* t says of v's characters that they are cleared for rules too, and nothing else.
Sanitizes(t, v, rules) ==
    /\ t \in Taints
    /\ \A i \in Nat : \A rule : rule \notin rules /\ Warns(Ranges(v), i, rule) => Warns(Ranges(t), i, rule)
    /\ ~t.imprecise =>
           \A i \in Nat : \A source, cleared :
               Says(Ranges(t), i, source, cleared) =>
                   /\ ~v.imprecise
                   /\ \E before : Says(Ranges(v), i, source, before) /\ cleared = before \cup rules

\* Clearing one rule sanitizes for that rule.
LEMMA SanitizedForFacts ==
    ASSUME NEW v \in Taints, NEW rule \in RuleClass
    PROVE  Sanitizes(SanitizedFor(v, rule), v, {rule})
  <1>1. CASE ~IsTainted(v)
    <2>1. SanitizedFor(v, rule) = v /\ Ranges(v) = {}
      BY <1>1, TaintFacts DEF SanitizedFor
    <2> QED BY <2>1, NothingSaid DEF Sanitizes
  <1>2. CASE IsTainted(v)
    <2> DEFINE ranges == v.ranges
               s == [k \in DOMAIN ranges |-> ClearFor(ranges[k], rule)]
    <2>1. SanitizedFor(v, rule) = Normalize(s, v.imprecise)
      BY <1>2 DEF SanitizedFor
    <2>2. ranges \in Seq(TaintRange) /\ v.imprecise \in BOOLEAN /\ Range(ranges) = Ranges(v)
      BY TaintFacts DEF Ranges
    <2> HIDE DEF ranges
    <2>3. DOMAIN ranges = 1..Len(ranges) /\ Len(ranges) \in Nat /\ \A k \in DOMAIN ranges : ranges[k] \in TaintRange
      BY <2>2, LenProperties, ElementOfSeq
    <2>4. \A k \in DOMAIN ranges :
              /\ s[k] \in TaintRange /\ s[k].source = ranges[k].source
              /\ s[k].cleared = ranges[k].cleared \cup {rule}
              /\ \A i : Marks(s[k], i) <=> Marks(ranges[k], i)
      <3> TAKE k \in DOMAIN ranges
      <3> DEFINE r == ranges[k]
      <3>1. r \in TaintRange /\ s[k] = ClearFor(r, rule)
        BY <2>3
      <3> HIDE DEF r, s
      <3>2. /\ s[k] = [start |-> r.start, length |-> r.length, source |-> r.source, cleared |-> r.cleared \cup {rule}]
            /\ r.start \in Nat /\ r.length \in Nat \ {0} /\ r.source \in Source /\ r.cleared \in SUBSET RuleClass
        BY <3>1 DEF TaintRange, ClearFor
      <3>3. s[k] \in TaintRange
        BY <3>2 DEF TaintRange
      <3>4. \A i : Marks(s[k], i) <=> Marks(r, i)
        BY <3>2 DEF Marks, End
      <3> QED BY <3>2, <3>3, <3>4 DEF r
    <2>5. s \in Seq(TaintRange) /\ DOMAIN s = DOMAIN ranges
      BY <2>3, <2>4
    <2> HIDE DEF s
    <2>6. ASSUME NEW i \in Nat, NEW other, other # rule, Warns(Ranges(v), i, other)
          PROVE  Warns(Range(s), i, other)
      <3>1. PICK k \in DOMAIN ranges : Marks(ranges[k], i) /\ other \notin ranges[k].cleared
        BY <2>2, <2>6 DEF Warns, Range
      <3>2. Marks(s[k], i) /\ other \notin s[k].cleared /\ s[k] \in Range(s)
        BY <2>4, <2>5, <2>6, <3>1 DEF Range
      <3> QED BY <3>2 DEF Warns
    <2>7. ASSUME NEW i \in Nat, NEW source, NEW cleared, Says(Range(s), i, source, cleared)
          PROVE  \E before : Says(Ranges(v), i, source, before) /\ cleared = before \cup {rule}
      <3>1. PICK k \in DOMAIN ranges : Marks(s[k], i) /\ s[k].source = source /\ s[k].cleared = cleared
        BY <2>5, <2>7 DEF Says, Range
      <3>2. Says(Ranges(v), i, source, ranges[k].cleared) /\ cleared = ranges[k].cleared \cup {rule}
        BY <2>2, <2>4, <3>1 DEF Says, Range
      <3> QED BY <3>2
    <2>8. Normal(Normalize(s, v.imprecise), s, v.imprecise)
      BY <2>2, <2>5, NormalizeIsNormal
    <2> QED BY <2>1, <2>6, <2>7, <2>8 DEF Normal, Sanitizes
  <1> QED BY <1>1, <1>2

\* Sanitizing rule by rule sanitizes for all of them.
LEMMA SanitizesSteps ==
    ASSUME NEW v, NEW x, NEW rules, Sanitizes(x, v, rules), NEW t, NEW rule, Sanitizes(t, x, {rule})
    PROVE  Sanitizes(t, v, rules \cup {rule})
  <1>1. \A i \in Nat : \A other :
            other \notin rules \cup {rule} /\ Warns(Ranges(v), i, other) => Warns(Ranges(t), i, other)
    BY DEF Sanitizes
  <1>2. ASSUME ~t.imprecise, NEW i \in Nat, NEW source, NEW cleared, Says(Ranges(t), i, source, cleared)
        PROVE  /\ ~v.imprecise
               /\ \E before : Says(Ranges(v), i, source, before) /\ cleared = before \cup (rules \cup {rule})
    <2>1. ~x.imprecise
      BY <1>2 DEF Sanitizes
    <2>2. PICK between : Says(Ranges(x), i, source, between) /\ cleared = between \cup {rule}
      BY <1>2 DEF Sanitizes
    <2>3. PICK before : ~v.imprecise /\ Says(Ranges(v), i, source, before) /\ between = before \cup rules
      BY <2>1, <2>2 DEF Sanitizes
    <2>4. cleared = before \cup (rules \cup {rule})
      BY <2>2, <2>3
    <2> QED BY <2>3, <2>4
  <1> QED BY <1>1, <1>2 DEF Sanitizes

\* An encoder clears the rule classes of its list, one after the other.
LEMMA SanitizedForAllFacts ==
    ASSUME NEW v \in Taints, NEW rules \in Seq(RuleClass)
    PROVE  Sanitizes(SanitizedForAll(v, rules), v, Range(rules))
  <1> DEFINE N == Len(rules)
             S == Taints
             G == [n \in 1..N |-> [x \in S |-> SanitizedFor(x, rules[n])]]
             Body(h, n) == IF n = 0 THEN v ELSE SanitizedFor(h[n - 1], rules[n])
             F == CHOOSE h : h = [n \in 0..N |-> Body(h, n)]
  <1>1. N \in Nat /\ N \in 0..N /\ 0 \in 0..N /\ DOMAIN rules = 1..N /\ \A n \in 1..N : rules[n] \in RuleClass
    BY LenProperties, ElementOfSeq
  <1>2. SanitizedForAll(v, rules) = F[N]
    BY DEF SanitizedForAll
  <1>3. \A n \in 1..N : \A x \in S : SanitizedFor(x, rules[n]) \in S
    BY <1>1, SanitizedForFacts DEF Sanitizes
  <1>4. G \in [1..N -> [S -> S]] /\ \A n \in 1..N : \A x \in S : G[n][x] = SanitizedFor(x, rules[n])
    BY <1>3
  <1>5. v \in S
    OBVIOUS
  <1> HIDE DEF S, G, N
  <1>6. PICK f : Stays(f, N, S, v, G)
    BY <1>1, <1>4, <1>5, Recursion
  <1>7. /\ f[0] = v /\ \A n \in 0..N : f[n] \in S
        /\ \A n \in 1..N : n - 1 \in 0..N /\ f[n] = SanitizedFor(f[n - 1], rules[n])
    <2>1. \A n \in 1..N : n - 1 \in 0..N
      BY <1>1
    <2> QED BY <1>4, <1>6, <2>1 DEF Stays, Computes
  <1>8. F = [n \in 0..N |-> Body(F, n)]
    <2> DEFINE h == [n \in 0..N |-> f[n]]
    <2>1. ASSUME NEW n \in 0..N PROVE f[n] = Body(h, n)
      <3>1. CASE n = 0
        BY <1>7, <3>1
      <3>2. CASE n # 0
        <4>1. n \in 1..N
          BY <1>1, <3>2
        <4> QED BY <1>7, <3>2, <4>1
      <3> QED BY <3>1, <3>2
    <2>2. h = [n \in 0..N |-> Body(h, n)]
      BY <2>1
    <2> HIDE DEF h, Body
    <2> QED BY <2>2
  <1> HIDE DEF F
  <1>9. Computes(F, N, S, v, G)
    <2>1. F[0] = v
      BY <1>1, <1>8
    <2>2. ASSUME NEW n \in 1..N, F[n - 1] \in S PROVE F[n] = G[n][F[n - 1]]
      <3>1. n \in 0..N /\ n # 0
        BY <1>1
      <3>2. F[n] = SanitizedFor(F[n - 1], rules[n])
        BY <1>8, <3>1
      <3> QED BY <1>4, <2>2, <3>2
    <2> QED BY <2>1, <2>2 DEF Computes
  <1>10. F[N] = f[N]
    BY <1>1, <1>6, <1>9, OneComputation
  <1> DEFINE First(n) == {rules[i] : i \in 1..n}
             X == {n \in 0..N : Sanitizes(f[n], v, First(n))}
  <1>11. 0 \in X
    <2>1. 1..0 = {} /\ First(0) = {}
      OBVIOUS
    <2>2. Sanitizes(v, v, {})
      <3>1. \A i, source, cleared : Says(Ranges(v), i, source, cleared) =>
                \E before : Says(Ranges(v), i, source, before) /\ cleared = before \cup {}
        OBVIOUS
      <3>2. ~v.imprecise => \A i \in Nat : \A source, cleared :
                Says(Ranges(v), i, source, cleared) =>
                    /\ ~v.imprecise
                    /\ \E before : Says(Ranges(v), i, source, before) /\ cleared = before \cup {}
        BY <3>1
      <3> QED BY <3>2 DEF Sanitizes
    <2> QED BY <1>1, <1>7, <2>1, <2>2
  <1>12. ASSUME NEW n \in 1..N, n - 1 \in X PROVE n \in X
    <2>1. n \in 0..N /\ 1..n = 1..(n - 1) \cup {n}
      BY <1>1
    <2>2. First(n) = First(n - 1) \cup {rules[n]}
      BY <2>1
    <2>3. Sanitizes(f[n - 1], v, First(n - 1)) /\ f[n - 1] \in Taints
      BY <1>7, <1>12 DEF S
    <2> HIDE DEF First
    <2>4. Sanitizes(SanitizedFor(f[n - 1], rules[n]), f[n - 1], {rules[n]})
      BY <1>1, <2>3, SanitizedForFacts
    <2>5. Sanitizes(f[n], v, First(n))
      <3> DEFINE x == f[n - 1]
                 A == First(n - 1)
                 rule == rules[n]
      <3>1. /\ Sanitizes(x, v, A) /\ Sanitizes(SanitizedFor(x, rule), x, {rule})
            /\ f[n] = SanitizedFor(x, rule) /\ First(n) = A \cup {rule}
        BY <1>7, <2>2, <2>3, <2>4
      <3> HIDE DEF x, A, rule
      <3>2. Sanitizes(SanitizedFor(x, rule), v, A \cup {rule})
        BY <3>1, SanitizesSteps
      <3> QED BY <3>1, <3>2
    <2> QED BY <2>1, <2>5
  <1>13. N \in X
    <2> HIDE DEF X
    <2>1. 0..N \subseteq X
      BY <1>1, <1>11, <1>12, UpTo
    <2> QED BY <1>1, <2>1
  <1>14. First(N) = Range(rules)
    BY <1>1 DEF Range
  <1> HIDE DEF First
  <1> QED BY <1>2, <1>10, <1>13, <1>14

-----------------------------------------------------------------------------
(* What a taint must know of the characters it belongs to                   *)

\* What a character of a value is: who sent it, from which source, what it was escaped for.
Characters == [by : Nat, source : Source, cleared : SUBSET RuleClass, hostile : BOOLEAN, blank : BOOLEAN]

\* A character a request sent, and no sanitizer has cleared for the rule.
Threatens(ch, rule) == ch.by # 0 /\ rule \notin ch.cleared

\* Every such character is warned of.
Caught(t, chars) ==
    \A i \in 1..Len(chars) : \A rule : Threatens(chars[i], rule) => Warns(Ranges(t), i - 1, rule)

\* What a precise taint says is true of the characters, which request q sent.
Backed(t, chars, q) ==
    ~t.imprecise =>
        \A i \in Nat : \A source, cleared :
            Says(Ranges(t), i, source, cleared) =>
                /\ i + 1 <= Len(chars)
                /\ chars[i + 1].by = q /\ chars[i + 1].source = source /\ chars[i + 1].cleared = cleared

\* The empty taint claims nothing of any value.
LEMMA EmptyIsBacked == Empty \in Taints /\ \A chars, q : Backed(Empty, chars, q)
  <1>1. Empty \in Taints /\ Ranges(Empty) = {}
    BY RangeOfOne DEF Empty, Taints, Ranges
  <1> QED BY <1>1, NothingSaid DEF Backed

\* FullyTainted covers what one source sent.
LEMMA FullyTaintedFacts ==
    ASSUME NEW chars \in Seq(Characters), NEW source \in Source, NEW q,
           \A i \in 1..Len(chars) : /\ chars[i].by = q /\ chars[i].source = source
                                    /\ chars[i].cleared = {}
    PROVE  /\ FullyTainted(Len(chars), source) \in Taints
           /\ Caught(FullyTainted(Len(chars), source), chars)
           /\ Backed(FullyTainted(Len(chars), source), chars, q)
  <1> DEFINE n == Len(chars)
             t == FullyTainted(n, source)
             r == [start |-> 0, length |-> n, source |-> source, cleared |-> {}]
  <1>1. n \in Nat
    BY LenProperties
  <1>2. CASE n = 0
    <2>1. t = Empty
      BY <1>2 DEF FullyTainted
    <2>2. Caught(Empty, chars)
      BY <1>2 DEF Caught
    <2> QED BY <2>1, <2>2, EmptyIsBacked
  <1>3. CASE n # 0
    <2>1. t = [ranges |-> <<r>>, imprecise |-> FALSE]
      BY <1>3 DEF FullyTainted
    <2>2. r \in TaintRange
      BY <1>1, <1>3 DEF TaintRange
    <2>3. \A i \in Nat : Marks(r, i) <=> i < n
      BY <1>1 DEF Marks, End
    <2>4. r.source = source /\ r.cleared = {}
      OBVIOUS
    <2> HIDE DEF r
    <2>5. <<r>> \in Seq(TaintRange) /\ Range(<<r>>) = {r}
      BY <2>2, RangeOfOne
    <2>6. t \in Taints /\ Ranges(t) = {r} /\ ~t.imprecise
      BY <2>1, <2>5 DEF Taints, Ranges
    <2> HIDE DEF t, n
    <2>7. Caught(t, chars)
      <3> SUFFICES ASSUME NEW i \in 1..n, NEW rule PROVE Warns({r}, i - 1, rule)
        BY <2>6 DEF Caught, n
      <3>1. i - 1 \in Nat /\ i - 1 < n
        BY <1>1
      <3> QED BY <2>3, <2>4, <3>1 DEF Warns
    <2>8. Backed(t, chars, q)
      <3> SUFFICES ASSUME NEW i \in Nat, NEW s, NEW cleared, Says({r}, i, s, cleared)
                   PROVE  i + 1 <= n /\ chars[i + 1].by = q /\ chars[i + 1].source = s /\ chars[i + 1].cleared = cleared
        BY <2>6 DEF Backed, n
      <3>1. i < n /\ s = source /\ cleared = {}
        BY <2>3, <2>4 DEF Says
      <3>2. i + 1 \in 1..n
        BY <1>1, <3>1
      <3> QED BY <1>1, <3>1, <3>2 DEF n
    <2> QED BY <2>6, <2>7, <2>8 DEF t, n
  <1> QED BY <1>2, <1>3

\* Concat follows the characters of two values.
LEMMA ConcatFacts ==
    ASSUME NEW left \in Taints, NEW a \in Seq(Characters), NEW right \in Taints, NEW b \in Seq(Characters)
    PROVE  /\ Concat(left, Len(a), right) \in Taints
           /\ Caught(left, a) /\ Caught(right, b) => Caught(Concat(left, Len(a), right), a \o b)
           /\ \A q : Backed(left, a, q) /\ Backed(right, b, q) => Backed(Concat(left, Len(a), right), a \o b, q)
  <1> DEFINE n == Len(a)
             t == Concat(left, n, right)
             list == left.ranges \o ShiftAll(right.ranges, n)
             c == a \o b
  <1>1. /\ n \in Nat /\ Len(b) \in Nat /\ Len(c) = n + Len(b)
        /\ \A i \in 1..n + Len(b) : c[i] = IF i <= n THEN a[i] ELSE b[i - n]
    BY LenProperties, ConcatProperties
  <1> HIDE DEF c, n
  <1>2. /\ Normal(t, list, left.imprecise \/ right.imprecise)
        /\ \A i \in Nat : \A source, cleared :
                  Says(Range(list), i, source, cleared) <=>
                      \/ Says(Ranges(left), i, source, cleared)
                      \/ i >= n /\ Says(Ranges(right), i - n, source, cleared)
    BY <1>1, ConcatIsNormal
  <1> HIDE DEF t, list
  <1>3. ASSUME Caught(left, a), Caught(right, b) PROVE Caught(t, c)
    <2> SUFFICES ASSUME NEW i \in 1..Len(c), NEW rule, Threatens(c[i], rule) PROVE Warns(Ranges(t), i - 1, rule)
      BY DEF Caught
    <2>1. i - 1 \in Nat
      BY <1>1
    <2>2. Warns(Range(list), i - 1, rule)
      <3>1. CASE i <= n
        <4>1. i \in 1..Len(a) /\ c[i] = a[i]
          BY <1>1, <3>1 DEF n
        <4>2. Warns(Ranges(left), i - 1, rule)
          BY <1>3, <4>1 DEF Caught
        <4> QED BY <1>2, <2>1, <4>2, WarnsSays
      <3>2. CASE ~(i <= n)
        <4>1. i - n \in 1..Len(b) /\ c[i] = b[i - n] /\ (i - n) - 1 = (i - 1) - n /\ i - 1 >= n
          BY <1>1, <3>2
        <4>2. Warns(Ranges(right), (i - 1) - n, rule)
          BY <1>3, <4>1 DEF Caught
        <4> QED BY <1>2, <2>1, <4>1, <4>2, WarnsSays
      <3> QED BY <3>1, <3>2
    <2> QED BY <1>2, <2>1, <2>2 DEF Normal
  <1>4. ASSUME NEW q, Backed(left, a, q), Backed(right, b, q) PROVE Backed(t, c, q)
    <2> SUFFICES ASSUME ~t.imprecise, NEW i \in Nat, NEW source, NEW cleared, Says(Ranges(t), i, source, cleared)
                 PROVE  /\ i + 1 <= Len(c)
                        /\ c[i + 1].by = q /\ c[i + 1].source = source /\ c[i + 1].cleared = cleared
      BY DEF Backed
    <2>1. ~left.imprecise /\ ~right.imprecise /\ Says(Range(list), i, source, cleared)
      BY <1>2 DEF Normal
    <2>2. CASE Says(Ranges(left), i, source, cleared)
      <3>1. i + 1 <= n /\ a[i + 1].by = q /\ a[i + 1].source = source /\ a[i + 1].cleared = cleared
        BY <1>4, <2>1, <2>2 DEF Backed, n
      <3>2. i + 1 \in 1..n + Len(b) /\ c[i + 1] = a[i + 1]
        BY <1>1, <3>1
      <3> QED BY <1>1, <3>1, <3>2
    <2>3. CASE i >= n /\ Says(Ranges(right), i - n, source, cleared)
      <3> DEFINE j == i - n
      <3>0. j \in Nat /\ i = j + n
        BY <1>1, <2>3
      <3> HIDE DEF j
      <3>1. j + 1 <= Len(b) /\ b[j + 1].by = q /\ b[j + 1].source = source /\ b[j + 1].cleared = cleared
        BY <1>4, <2>1, <2>3, <3>0 DEF Backed, j
      <3>2. i + 1 \in 1..n + Len(b) /\ c[i + 1] = b[j + 1]
        BY <1>1, <3>0, <3>1
      <3> QED BY <1>1, <3>1, <3>2
    <2> QED BY <1>2, <2>1, <2>2, <2>3
  <1>5. t \in Taints
    BY <1>2 DEF Normal
  <1> QED BY <1>3, <1>4, <1>5 DEF t, c, n

\* A substring, counted from 0 to an exclusive end.
LEMMA PartOf ==
    ASSUME NEW T, NEW chars \in Seq(T), NEW from \in 0..Len(chars), NEW to \in from..Len(chars)
    PROVE  /\ SubSeq(chars, from + 1, to) \in Seq(T)
           /\ Len(SubSeq(chars, from + 1, to)) = to - from
           /\ \A i \in 1..(to - from) : SubSeq(chars, from + 1, to)[i] = chars[from + i]
  <1>1. Len(chars) \in Nat /\ \A i \in 1..Len(chars) : chars[i] \in T
    BY LenProperties, ElementOfSeq
  <1>2. from \in Nat /\ to \in Nat /\ from <= to /\ to <= Len(chars) /\ from + 1 \in Int /\ to \in Int
    BY <1>1
  <1>3. \A i \in (from + 1)..to : chars[i] \in T
    BY <1>1, <1>2
  <1> DEFINE m == from + 1
             s == SubSeq(chars, m, to)
  <1> HIDE DEF m
  <1>4. /\ s \in Seq(T) /\ Len(s) = (IF m <= to THEN to - m + 1 ELSE 0)
        /\ \A i \in 1..(to - m + 1) : s[i] = chars[m + i - 1]
    <2>1. m \in Int /\ to \in Int /\ \A i \in m..to : chars[i] \in T
      BY <1>2, <1>3 DEF m
    <2> QED BY <2>1, SubSeqProperties
  <1> HIDE DEF s
  <1>5. m = from + 1
    BY DEF m
  <1>6. Len(s) = to - from
    BY <1>2, <1>4, <1>5
  <1>7. \A i \in 1..(to - from) : s[i] = chars[from + i]
    <2> TAKE i \in 1..(to - from)
    <2>1. i \in 1..(to - m + 1) /\ m + i - 1 = from + i
      BY <1>2, <1>5
    <2> QED BY <1>4, <2>1
  <1> QED BY <1>4, <1>6, <1>7 DEF s, m

\* Substring follows the characters of a part.
LEMMA SubstringFacts ==
    ASSUME NEW v \in Taints, NEW chars \in Seq(Characters),
           NEW from \in 0..Len(chars), NEW to \in from..Len(chars)
    PROVE  /\ Substring(v, from, to) \in Taints
           /\ Caught(v, chars) => Caught(Substring(v, from, to), SubSeq(chars, from + 1, to))
           /\ \A q : Backed(v, chars, q) => Backed(Substring(v, from, to), SubSeq(chars, from + 1, to), q)
  <1> DEFINE t == Substring(v, from, to)
             c == SubSeq(chars, from + 1, to)
  <1>1. /\ from \in Nat /\ to \in Nat /\ from <= to /\ to <= Len(chars) /\ Len(chars) \in Nat
        /\ Len(c) = to - from /\ \A i \in 1..(to - from) : c[i] = chars[from + i]
    BY PartOf, LenProperties
  <1>2. PICK list \in Seq(TaintRange) :
              /\ Normal(t, list, v.imprecise)
              /\ \A i \in Nat : \A source, cleared :
                     Says(Range(list), i, source, cleared) <=>
                         from + i < to /\ Says(Ranges(v), from + i, source, cleared)
    BY <1>1, SubstringIsNormal
  <1> HIDE DEF t, c
  <1>3. ASSUME Caught(v, chars) PROVE Caught(t, c)
    <2> SUFFICES ASSUME NEW i \in 1..Len(c), NEW rule, Threatens(c[i], rule) PROVE Warns(Ranges(t), i - 1, rule)
      BY DEF Caught
    <2>1. i - 1 \in Nat /\ from + i \in 1..Len(chars) /\ c[i] = chars[from + i] /\ (from + i) - 1 = from + (i - 1)
          /\ from + (i - 1) < to
      BY <1>1
    <2>2. Warns(Ranges(v), from + (i - 1), rule)
      <3>1. Warns(Ranges(v), (from + i) - 1, rule)
        BY <1>3, <2>1 DEF Caught
      <3> QED BY <2>1, <3>1
    <2>3. Warns(Range(list), i - 1, rule)
      BY <1>2, <2>1, <2>2, WarnsSays
    <2> QED BY <1>2, <2>1, <2>3 DEF Normal
  <1>4. ASSUME NEW q, Backed(v, chars, q) PROVE Backed(t, c, q)
    <2> SUFFICES ASSUME ~t.imprecise, NEW i \in Nat, NEW source, NEW cleared, Says(Ranges(t), i, source, cleared)
                 PROVE  /\ i + 1 <= Len(c)
                        /\ c[i + 1].by = q /\ c[i + 1].source = source /\ c[i + 1].cleared = cleared
      BY DEF Backed
    <2>1. ~v.imprecise /\ Says(Range(list), i, source, cleared)
      BY <1>2 DEF Normal
    <2>2. from + i < to /\ Says(Ranges(v), from + i, source, cleared)
      BY <1>2, <2>1
    <2> DEFINE j == from + i
    <2>3. j \in Nat /\ j < to
      BY <1>1, <2>2
    <2>4. chars[j + 1].by = q /\ chars[j + 1].source = source /\ chars[j + 1].cleared = cleared
      BY <1>4, <2>1, <2>2, <2>3 DEF Backed
    <2>5. i + 1 \in 1..(to - from) /\ from + (i + 1) = j + 1
      BY <1>1, <2>3
    <2>6. c[i + 1] = chars[j + 1] /\ i + 1 <= Len(c)
      BY <1>1, <2>5
    <2> QED BY <2>4, <2>6
  <1>5. t \in Taints
    BY <1>2 DEF Normal
  <1> QED BY <1>3, <1>4, <1>5 DEF t, c

\* The characters of a builder after replace.
Spliced(b, from, to, w) == SubSeq(b, 1, from) \o w \o SubSeq(b, to + 1, Len(b))

\* The characters of a value with a part replaced.
LEMMA ReplacedChars ==
    ASSUME NEW b \in Seq(Characters), NEW from \in 0..Len(b), NEW to \in from..Len(b), NEW w \in Seq(Characters)
    PROVE  /\ Spliced(b, from, to, w) \in Seq(Characters)
           /\ Len(Spliced(b, from, to, w)) = from + Len(w) + (Len(b) - to)
           /\ \A i \in 1..Len(Spliced(b, from, to, w)) :
                  Spliced(b, from, to, w)[i] = IF i <= from THEN b[i]
                         ELSE IF i <= from + Len(w) THEN w[i - from]
                         ELSE b[(i - Len(w)) + (to - from)]
  <1> DEFINE head == SubSeq(b, 1, from)
             tail == SubSeq(b, to + 1, Len(b))
             hw == head \o w
             c == Spliced(b, from, to, w)
  <1>0. c = hw \o tail
    BY DEF Spliced
  <1> HIDE DEF c
  <1>1. /\ Len(b) \in Nat /\ Len(w) \in Nat /\ from \in Nat /\ to \in Nat /\ from <= to /\ to <= Len(b)
    BY LenProperties
  <1>2. /\ head \in Seq(Characters) /\ Len(head) = from /\ \A i \in 1..from : head[i] = b[i]
    <2> DEFINE z == 0
    <2>1. z \in 0..Len(b) /\ from \in z..Len(b)
      BY <1>1
    <2> HIDE DEF z
    <2>2. /\ SubSeq(b, z + 1, from) \in Seq(Characters) /\ Len(SubSeq(b, z + 1, from)) = from - z
          /\ \A i \in 1..(from - z) : SubSeq(b, z + 1, from)[i] = b[z + i]
      BY <2>1, PartOf
    <2>3. z + 1 = 1 /\ from - z = from /\ \A i \in 1..from : z + i = i
      BY <1>1 DEF z
    <2> QED BY <2>2, <2>3
  <1>3. /\ tail \in Seq(Characters) /\ Len(tail) = Len(b) - to /\ \A i \in 1..(Len(b) - to) : tail[i] = b[to + i]
    <2>1. to \in 0..Len(b) /\ Len(b) \in to..Len(b)
      BY <1>1
    <2> QED BY <2>1, PartOf
  <1> HIDE DEF head, tail
  <1>4. /\ hw \in Seq(Characters) /\ Len(hw) = from + Len(w)
        /\ \A i \in 1..(from + Len(w)) : hw[i] = IF i <= from THEN head[i] ELSE w[i - from]
    BY <1>2, ConcatProperties
  <1> HIDE DEF hw
  <1>5. /\ c \in Seq(Characters) /\ Len(c) = Len(hw) + Len(tail)
        /\ \A i \in 1..Len(hw) + Len(tail) : c[i] = IF i <= Len(hw) THEN hw[i] ELSE tail[i - Len(hw)]
    <2>1. /\ hw \o tail \in Seq(Characters) /\ Len(hw \o tail) = Len(hw) + Len(tail)
          /\ \A i \in 1..Len(hw) + Len(tail) : (hw \o tail)[i] = IF i <= Len(hw) THEN hw[i] ELSE tail[i - Len(hw)]
      BY <1>3, <1>4, ConcatProperties
    <2> QED BY <1>0, <2>1
  <1>6. Len(c) = from + Len(w) + (Len(b) - to)
    BY <1>1, <1>3, <1>4, <1>5
  <1>7. ASSUME NEW i \in 1..Len(c)
        PROVE  c[i] = IF i <= from THEN b[i]
                      ELSE IF i <= from + Len(w) THEN w[i - from]
                      ELSE b[(i - Len(w)) + (to - from)]
    <2>0. c[i] = IF i <= from + Len(w) THEN hw[i] ELSE tail[i - (from + Len(w))]
      BY <1>3, <1>4, <1>5, <1>6
    <2>1. CASE i <= from
      <3>1. i <= from + Len(w) /\ i \in 1..(from + Len(w)) /\ i \in 1..from
        BY <1>1, <2>1
      <3> QED BY <1>2, <1>4, <2>0, <2>1, <3>1
    <2>2. CASE ~(i <= from) /\ i <= from + Len(w)
      <3>1. i \in 1..(from + Len(w))
        BY <1>1, <2>2
      <3> QED BY <1>4, <2>0, <2>2, <3>1
    <2>3. CASE ~(i <= from) /\ ~(i <= from + Len(w))
      <3> DEFINE j == i - (from + Len(w))
      <3>1. j \in 1..(Len(b) - to) /\ to + j = (i - Len(w)) + (to - from)
        <4> DEFINE lb == Len(b)
                   lc == Len(c)
                   n == Len(w)
        <4>1. n \in Nat /\ lb \in Nat /\ to <= lb /\ lc = from + n + (lb - to) /\ i \in 1..lc
              /\ ~(i <= from) /\ ~(i <= from + n) /\ j = i - (from + n)
          BY <1>1, <1>6, <2>3
        <4> HIDE DEF lb, lc, n, j
        <4>2. lc \in Nat
          BY <1>1, <4>1
        <4>3. j \in 1..(lb - to) /\ to + j = (i - n) + (to - from)
          BY <1>1, <4>1, <4>2
        <4> QED BY <4>3 DEF lb, n
      <3> HIDE DEF j
      <3>2. c[i] = tail[j] /\ tail[j] = b[to + j]
        BY <1>3, <2>0, <2>3, <3>1 DEF j
      <3> QED BY <2>3, <3>1, <3>2
    <2> QED BY <2>1, <2>2, <2>3
  <1> QED BY <1>5, <1>6, <1>7 DEF c

\* Replace follows the characters of a replacement inside a value.
LEMMA ReplaceFacts ==
    ASSUME NEW v \in Taints, NEW b \in Seq(Characters), NEW from \in 0..Len(b), NEW to \in from..Len(b),
           NEW w \in Taints, NEW u \in Seq(Characters), NEW c,
           c = Spliced(b, from, to, u)
    PROVE  /\ c \in Seq(Characters)
           /\ Replace(v, from, to, w, Len(u)) \in Taints
           /\ Caught(v, b) /\ Caught(w, u) => Caught(Replace(v, from, to, w, Len(u)), c)
           /\ \A q : Backed(v, b, q) /\ Backed(w, u, q) => Backed(Replace(v, from, to, w, Len(u)), c, q)
  <1> DEFINE n == Len(u)
             t == Replace(v, from, to, w, n)
  <1>1. /\ n \in Nat /\ Len(b) \in Nat /\ from \in Nat /\ to \in Nat /\ from <= to /\ to <= Len(b)
    BY LenProperties
  <1>2. /\ c \in Seq(Characters) /\ Len(c) = from + n + (Len(b) - to)
        /\ \A i \in 1..Len(c) : c[i] = IF i <= from THEN b[i]
                                       ELSE IF i <= from + n THEN u[i - from]
                                       ELSE b[(i - n) + (to - from)]
    BY ReplacedChars
  <1> DEFINE lb == Len(b)
             lc == Len(c)
  <1>7. lb \in Nat /\ lc \in Nat /\ to <= lb /\ lc = from + n + (lb - to)
    <2>1. lb \in Nat /\ to <= lb /\ lc = from + n + (lb - to)
      BY <1>1, <1>2
    <2> HIDE DEF n, lb, lc
    <2> QED BY <1>1, <2>1
  <1>8. ASSUME NEW i \in 1..lc
        PROVE  /\ i <= from => i \in 1..lb /\ i - 1 < from
               /\ ~(i <= from) /\ i <= from + n =>
                      i - from \in 1..n /\ i - 1 >= from /\ (i - from) - 1 = (i - 1) - from
               /\ ~(i <= from) /\ ~(i <= from + n) =>
                      /\ (i - n) + (to - from) \in 1..lb /\ i - 1 >= from + n
                      /\ ((i - n) + (to - from)) - 1 = ((i - 1) - n) + (to - from)
    <2> HIDE DEF lb, lc, n
    <2> QED BY <1>1, <1>7
  <1>3. PICK list \in Seq(TaintRange) :
              /\ Normal(t, list, v.imprecise \/ w.imprecise)
              /\ \A i \in Nat : \A source, cleared :
                     Says(Range(list), i, source, cleared) <=>
                         \/ i < from /\ Says(Ranges(v), i, source, cleared)
                         \/ i >= from + n /\ Says(Ranges(v), (i - n) + (to - from), source, cleared)
                         \/ i >= from /\ Says(Ranges(w), i - from, source, cleared)
    <2> HIDE DEF n
    <2> QED BY <1>1, ReplaceIsNormal
  <1> HIDE DEF t
  <1>4. ASSUME Caught(v, b), Caught(w, u) PROVE Caught(t, c)
    <2> SUFFICES ASSUME NEW i \in 1..Len(c), NEW rule, Threatens(c[i], rule) PROVE Warns(Ranges(t), i - 1, rule)
      BY DEF Caught
    <2>1. i - 1 \in Nat
      BY <1>1, <1>2
    <2> SUFFICES Warns(Range(list), i - 1, rule)
      BY <1>3, <2>1 DEF Normal
    <2>2. CASE i <= from
      <3>1. i \in 1..Len(b) /\ c[i] = b[i] /\ i - 1 < from
        BY <1>2, <1>8, <2>2
      <3>2. Warns(Ranges(v), i - 1, rule)
        BY <1>4, <3>1 DEF Caught
      <3> QED BY <1>3, <2>1, <3>1, <3>2, WarnsSays
    <2>3. CASE ~(i <= from) /\ i <= from + n
      <3>1. i - from \in 1..Len(u) /\ c[i] = u[i - from] /\ i - 1 >= from /\ (i - from) - 1 = (i - 1) - from
        BY <1>2, <1>8, <2>3
      <3>2. Warns(Ranges(w), (i - 1) - from, rule)
        BY <1>4, <3>1 DEF Caught
      <3> QED BY <1>3, <2>1, <3>1, <3>2, WarnsSays
    <2>4. CASE ~(i <= from) /\ ~(i <= from + n)
      <3> DEFINE j == (i - n) + (to - from)
      <3>1. j \in 1..Len(b) /\ j - 1 = ((i - 1) - n) + (to - from) /\ i - 1 >= from + n
        BY <1>8, <2>4
      <3>2. c[i] = b[j]
        BY <1>2, <2>4
      <3> HIDE DEF j
      <3>3. Warns(Ranges(v), j - 1, rule)
        BY <1>4, <3>1, <3>2 DEF Caught
      <3>4. Warns(Ranges(v), ((i - 1) - n) + (to - from), rule)
        BY <3>1, <3>3
      <3> QED BY <1>3, <2>1, <3>1, <3>4, WarnsSays
    <2> QED BY <2>2, <2>3, <2>4
  <1>5. ASSUME NEW q, Backed(v, b, q), Backed(w, u, q) PROVE Backed(t, c, q)
    <2> SUFFICES ASSUME ~t.imprecise, NEW i \in Nat, NEW source, NEW cleared, Says(Ranges(t), i, source, cleared)
                 PROVE  /\ i + 1 <= Len(c)
                        /\ c[i + 1].by = q /\ c[i + 1].source = source /\ c[i + 1].cleared = cleared
      BY DEF Backed
    <2>1. ~v.imprecise /\ ~w.imprecise /\ Says(Range(list), i, source, cleared)
      BY <1>3 DEF Normal
    <2>2. CASE i < from /\ Says(Ranges(v), i, source, cleared)
      <3>1. b[i + 1].by = q /\ b[i + 1].source = source /\ b[i + 1].cleared = cleared
        BY <1>5, <2>1, <2>2 DEF Backed
      <3>2. i + 1 \in 1..Len(c) /\ i + 1 <= from /\ i + 1 <= Len(c)
        <4> HIDE DEF n, lb, lc
        <4>1. i + 1 \in 1..lc /\ i + 1 <= from /\ i + 1 <= lc
          BY <1>1, <1>7, <2>2
        <4> QED BY <4>1 DEF lc
      <3>3. c[i + 1] = b[i + 1]
        BY <1>2, <3>2
      <3> QED BY <3>1, <3>2, <3>3
    <2>3. CASE i >= from + n /\ Says(Ranges(v), (i - n) + (to - from), source, cleared)
      <3> DEFINE j == (i - n) + (to - from)
      <3>1. j \in Nat
        BY <1>1, <2>3
      <3>2. j + 1 <= Len(b) /\ b[j + 1].by = q /\ b[j + 1].source = source /\ b[j + 1].cleared = cleared
        <4>1. Says(Ranges(v), j, source, cleared)
          BY <2>3
        <4> HIDE DEF j
        <4> QED BY <1>5, <2>1, <3>1, <4>1 DEF Backed
      <3>3. /\ i + 1 \in 1..Len(c) /\ i + 1 <= Len(c) /\ ~(i + 1 <= from) /\ ~(i + 1 <= from + n)
            /\ ((i + 1) - n) + (to - from) = j + 1
        <4> HIDE DEF n, lb, lc
        <4>1. /\ i + 1 \in 1..lc /\ i + 1 <= lc /\ ~(i + 1 <= from) /\ ~(i + 1 <= from + n)
              /\ ((i + 1) - n) + (to - from) = j + 1
          <5>1. j + 1 <= lb
            BY <3>2 DEF lb
          <5> QED BY <1>1, <1>7, <2>3, <5>1
        <4> QED BY <4>1 DEF lc
      <3>4. c[i + 1] = b[j + 1]
        BY <1>2, <3>3
      <3> QED BY <3>2, <3>3, <3>4
    <2>4. CASE i >= from /\ Says(Ranges(w), i - from, source, cleared)
      <3> DEFINE j == i - from
      <3>1. j \in Nat
        BY <1>1, <2>4
      <3>2. j + 1 <= n /\ u[j + 1].by = q /\ u[j + 1].source = source /\ u[j + 1].cleared = cleared
        <4>1. Says(Ranges(w), j, source, cleared)
          BY <2>4
        <4> HIDE DEF j
        <4> QED BY <1>5, <2>1, <3>1, <4>1 DEF Backed
      <3>3. /\ i + 1 \in 1..Len(c) /\ i + 1 <= Len(c) /\ ~(i + 1 <= from) /\ i + 1 <= from + n
            /\ (i + 1) - from = j + 1
        <4> HIDE DEF n, lb, lc
        <4>1. /\ i + 1 \in 1..lc /\ i + 1 <= lc /\ ~(i + 1 <= from) /\ i + 1 <= from + n
              /\ (i + 1) - from = j + 1
          BY <1>1, <1>7, <2>4, <3>2
        <4> QED BY <4>1 DEF lc
      <3>4. c[i + 1] = u[j + 1]
        BY <1>2, <3>3
      <3> QED BY <3>2, <3>3, <3>4
    <2> QED BY <1>3, <2>1, <2>2, <2>3, <2>4
  <1>6. t \in Taints
    BY <1>3 DEF Normal
  <1> QED BY <1>2, <1>4, <1>5, <1>6 DEF t

\* Reversed follows the characters of a value turned around.
LEMMA ReverseFacts ==
    ASSUME NEW v \in Taints, NEW chars \in Seq(Characters)
    PROVE  /\ Reverse(chars) \in Seq(Characters)
           /\ Reversed(v, Len(chars)) \in Taints
           /\ Caught(v, chars) => Caught(Reversed(v, Len(chars)), Reverse(chars))
           /\ \A q : Backed(v, chars, q) => Backed(Reversed(v, Len(chars)), Reverse(chars), q)
  <1> DEFINE n == Len(chars)
             t == Reversed(v, n)
             c == Reverse(chars)
  <1>1. n \in Nat /\ \A i \in 1..n : chars[i] \in Characters
    BY LenProperties, ElementOfSeq
  <1>2. c = [i \in 1..n |-> chars[(n - i) + 1]]
    BY DEF Reverse
  <1>3. \A i \in 1..n : (n - i) + 1 \in 1..n
    BY <1>1
  <1> HIDE DEF n, c
  <1>4. c \in Seq(Characters) /\ Len(c) = n /\ \A i \in 1..n : c[i] = chars[(n - i) + 1]
    BY <1>1, <1>2, <1>3
  <1>5. /\ t \in Taints
        /\ \A i \in 0..n - 1 : \A rule : Warns(Ranges(v), (n - 1) - i, rule) => Warns(Ranges(t), i, rule)
        /\ ~t.imprecise =>
               \A i \in Nat : \A source, cleared :
                   Says(Ranges(t), i, source, cleared) =>
                       ~v.imprecise /\ i < n /\ Says(Ranges(v), (n - 1) - i, source, cleared)
    BY <1>1, ReversedFacts
  <1> HIDE DEF t
  <1>6. ASSUME Caught(v, chars) PROVE Caught(t, c)
    <2> SUFFICES ASSUME NEW i \in 1..n, NEW rule, Threatens(c[i], rule) PROVE Warns(Ranges(t), i - 1, rule)
      BY <1>4 DEF Caught
    <2> DEFINE j == (n - i) + 1
    <2>1. j \in 1..n /\ i - 1 \in 0..n - 1 /\ j - 1 = (n - 1) - (i - 1)
      BY <1>1
    <2>2. Threatens(chars[j], rule)
      BY <1>4
    <2> HIDE DEF j
    <2>3. Warns(Ranges(v), j - 1, rule)
      BY <1>6, <2>1, <2>2 DEF Caught, n
    <2>4. Warns(Ranges(v), (n - 1) - (i - 1), rule)
      BY <2>1, <2>3
    <2> QED BY <1>5, <2>1, <2>4
  <1>7. ASSUME NEW q, Backed(v, chars, q) PROVE Backed(t, c, q)
    <2> SUFFICES ASSUME ~t.imprecise, NEW i \in Nat, NEW source, NEW cleared, Says(Ranges(t), i, source, cleared)
                 PROVE  /\ i + 1 <= n
                        /\ c[i + 1].by = q /\ c[i + 1].source = source /\ c[i + 1].cleared = cleared
      BY <1>4 DEF Backed
    <2> DEFINE j == (n - 1) - i
    <2>1. ~v.imprecise /\ i < n /\ Says(Ranges(v), j, source, cleared)
      BY <1>5
    <2>2. j \in Nat /\ i + 1 \in 1..n /\ (n - (i + 1)) + 1 = j + 1
      BY <1>1, <2>1
    <2> HIDE DEF j
    <2>3. chars[j + 1].by = q /\ chars[j + 1].source = source /\ chars[j + 1].cleared = cleared
      BY <1>7, <2>1, <2>2 DEF Backed
    <2>4. c[i + 1] = chars[j + 1]
      <3>1. c[i + 1] = chars[(n - (i + 1)) + 1]
        BY <1>4, <2>2
      <3> QED BY <2>2, <3>1
    <2> QED BY <1>1, <2>2, <2>3, <2>4
  <1> QED BY <1>4, <1>5, <1>6, <1>7 DEF t, c, n

\* A rewrite is caught wherever the original was dangerous at all.
LEMMA RewriteFacts ==
    ASSUME NEW v \in Taints, NEW chars \in Seq(Characters)
    PROVE  /\ Reshaped(v, Len(chars)) \in Taints
           /\ (\A i \in 1..Len(chars) : \A rule :
                  Threatens(chars[i], rule) => \E j : Warns(Ranges(v), j, rule))
              => Caught(Reshaped(v, Len(chars)), chars)
           /\ \A q : Backed(Reshaped(v, Len(chars)), chars, q)
  <1> DEFINE n == Len(chars)
             t == Reshaped(v, n)
  <1>1. n \in Nat
    BY LenProperties
  <1> HIDE DEF n
  <1>2. /\ t \in Taints
        /\ \A i \in 0..n - 1 : \A j, rule : Warns(Ranges(v), j, rule) => Warns(Ranges(t), i, rule)
        /\ t.imprecise \/ Ranges(t) = {}
    BY <1>1, ReshapedFacts
  <1> HIDE DEF t
  <1>3. ASSUME \A i \in 1..n : \A rule : Threatens(chars[i], rule) => \E j : Warns(Ranges(v), j, rule)
        PROVE  Caught(t, chars)
    <2> SUFFICES ASSUME NEW i \in 1..n, NEW rule, Threatens(chars[i], rule) PROVE Warns(Ranges(t), i - 1, rule)
      BY DEF Caught, n
    <2>1. i - 1 \in 0..n - 1
      BY <1>1
    <2> QED BY <1>2, <1>3, <2>1
  <1>4. \A q : Backed(t, chars, q)
    BY <1>2, NothingSaid DEF Backed
  <1> QED BY <1>2, <1>3, <1>4 DEF t, n

\* What the program adds at the end changes nothing.
LEMMA AddedFacts ==
    ASSUME NEW t \in Taints, NEW a \in Seq(Characters), NEW b \in Seq(Characters),
           \A i \in 1..Len(b) : b[i].by = 0
    PROVE  /\ Caught(t, a) => Caught(t, a \o b)
           /\ \A q : Backed(t, a, q) => Backed(t, a \o b, q)
  <1> DEFINE c == a \o b
  <1>1. /\ Len(a) \in Nat /\ Len(b) \in Nat /\ Len(c) = Len(a) + Len(b)
        /\ \A i \in 1..Len(a) + Len(b) : c[i] = IF i <= Len(a) THEN a[i] ELSE b[i - Len(a)]
    BY LenProperties, ConcatProperties
  <1> HIDE DEF c
  <1>2. ASSUME Caught(t, a) PROVE Caught(t, c)
    <2> SUFFICES ASSUME NEW i \in 1..Len(c), NEW rule, Threatens(c[i], rule) PROVE Warns(Ranges(t), i - 1, rule)
      BY DEF Caught
    <2>1. CASE i <= Len(a)
      <3>1. i \in 1..Len(a) /\ c[i] = a[i]
        BY <1>1, <2>1
      <3> QED BY <1>2, <3>1 DEF Caught
    <2>2. CASE ~(i <= Len(a))
      <3>1. i - Len(a) \in 1..Len(b) /\ c[i] = b[i - Len(a)]
        BY <1>1, <2>2
      <3> QED BY <3>1 DEF Threatens
    <2> QED BY <2>1, <2>2
  <1>3. ASSUME NEW q, Backed(t, a, q) PROVE Backed(t, c, q)
    <2> SUFFICES ASSUME ~t.imprecise, NEW i \in Nat, NEW source, NEW cleared, Says(Ranges(t), i, source, cleared)
                 PROVE  /\ i + 1 <= Len(c)
                        /\ c[i + 1].by = q /\ c[i + 1].source = source /\ c[i + 1].cleared = cleared
      BY DEF Backed
    <2>1. i + 1 <= Len(a) /\ a[i + 1].by = q /\ a[i + 1].source = source /\ a[i + 1].cleared = cleared
      BY <1>3 DEF Backed
    <2>2. i + 1 \in 1..Len(a) + Len(b) /\ c[i + 1] = a[i + 1] /\ i + 1 <= Len(c)
      BY <1>1, <2>1
    <2> QED BY <2>1, <2>2
  <1> QED BY <1>2, <1>3 DEF c

\* The escaped characters, cleared for what the encoder clears.
Safe(ch, rules) == [ch EXCEPT !.cleared = @ \cup rules]

\* A character escaped keeps who sent it and gains the rules.
LEMMA SafeFacts ==
    ASSUME NEW ch \in Characters, NEW rules \in SUBSET RuleClass
    PROVE  /\ Safe(ch, rules) \in Characters /\ Safe(ch, rules).by = ch.by
           /\ Safe(ch, rules).source = ch.source /\ Safe(ch, rules).cleared = ch.cleared \cup rules
  <1>1. ch = [by |-> ch.by, source |-> ch.source, cleared |-> ch.cleared, hostile |-> ch.hostile, blank |-> ch.blank]
        /\ ch.by \in Nat /\ ch.source \in Source /\ ch.cleared \in SUBSET RuleClass
        /\ ch.hostile \in BOOLEAN /\ ch.blank \in BOOLEAN
    BY DEF Characters
  <1>2. Safe(ch, rules) = [by |-> ch.by, source |-> ch.source, cleared |-> ch.cleared \cup rules,
                           hostile |-> ch.hostile, blank |-> ch.blank]
    BY <1>1 DEF Safe
  <1>3. Safe(ch, rules) \in Characters
    BY <1>1, <1>2 DEF Characters
  <1> QED BY <1>2, <1>3

\* Each character as the encoder writes it: a hostile one takes two.
Escapes(chars, rules) ==
    [i \in 1..Len(chars) |->
        IF chars[i].hostile THEN <<Safe(chars[i], rules), Safe(chars[i], rules)>>
        ELSE <<Safe(chars[i], rules)>>]

\* A value without a hostile character keeps its length when it is escaped.
LEMMA EscapedFacts ==
    ASSUME NEW chars \in Seq(Characters), NEW rules \in SUBSET RuleClass
    PROVE  /\ FlattenSeq(Escapes(chars, rules)) \in Seq(Characters)
           /\ (\A i \in 1..Len(chars) : ~chars[i].hostile) =>
                  FlattenSeq(Escapes(chars, rules)) = [i \in 1..Len(chars) |-> Safe(chars[i], rules)]
  <1> DEFINE S == Seq(Characters)
  <1> PICK parts : parts = Escapes(chars, rules)
    OBVIOUS
  <1>0. parts = [i \in 1..Len(chars) |->
                    IF chars[i].hostile THEN <<Safe(chars[i], rules), Safe(chars[i], rules)>>
                    ELSE <<Safe(chars[i], rules)>>]
    BY DEF Escapes
  <1>1. Len(chars) \in Nat /\ \A i \in 1..Len(chars) : chars[i] \in Characters
    BY LenProperties, ElementOfSeq
  <1>2. \A i \in 1..Len(chars) : Safe(chars[i], rules) \in Characters
    BY <1>1, SafeFacts
  <1>3. \A i \in 1..Len(chars) : parts[i] \in S
    <2> TAKE i \in 1..Len(chars)
    <2> DEFINE x == Safe(chars[i], rules)
    <2>1. x \in Characters
      BY <1>2
    <2>2. parts[i] = <<x, x>> \/ parts[i] = <<x>>
      BY <1>0
    <2>3. \A p \in Characters : <<p, p>> \in S /\ <<p>> \in S
      OBVIOUS
    <2> HIDE DEF x, S
    <2> QED BY <2>1, <2>2, <2>3
  <1>4. parts \in Seq(S) /\ DOMAIN parts = 1..Len(chars)
    <2> HIDE DEF S
    <2>1. parts \in [1..Len(chars) -> S]
      BY <1>0, <1>3
    <2> QED BY <1>1, <2>1
  <1>5. FlattenSeq(parts) \in Seq(Characters)
    BY <1>4, FlattenRange
  <1>6. ASSUME \A i \in 1..Len(chars) : ~chars[i].hostile
        PROVE  FlattenSeq(parts) = [i \in 1..Len(chars) |-> Safe(chars[i], rules)]
    <2>1. \A i \in DOMAIN parts : parts[i] = <<Safe(chars[i], rules)>>
      BY <1>0, <1>4, <1>6
    <2>2. \A i \in DOMAIN parts : Len(parts[i]) = 1 /\ parts[i][1] = Safe(chars[i], rules)
      BY <2>1
    <2>3. FlattenSeq(parts) = [i \in DOMAIN parts |-> parts[i][1]]
      BY <1>4, <2>2, FlattenSingles
    <2> QED BY <1>4, <2>2, <2>3
  <1> QED BY <1>5, <1>6

\* SanitizedForAll follows the characters of a value escaped in place.
LEMMA SanitizeFacts ==
    ASSUME NEW v \in Taints, NEW chars \in Seq(Characters), NEW rules \in Seq(RuleClass), NEW c,
           c = [i \in 1..Len(chars) |-> Safe(chars[i], Range(rules))]
    PROVE  /\ SanitizedForAll(v, rules) \in Taints
           /\ Caught(v, chars) => Caught(SanitizedForAll(v, rules), c)
           /\ \A q : Backed(v, chars, q) => Backed(SanitizedForAll(v, rules), c, q)
  <1> DEFINE t == SanitizedForAll(v, rules)
             R == Range(rules)
             n == Len(chars)
  <1>1. Sanitizes(t, v, R)
    BY SanitizedForAllFacts
  <1>2. n \in Nat /\ \A i \in 1..n : chars[i] \in Characters
    BY LenProperties, ElementOfSeq
  <1>3. R \in SUBSET RuleClass
    BY RangeOfOne
  <1> HIDE DEF t, R
  <1>4. c \in Seq(Characters) /\ Len(c) = n
        /\ \A i \in 1..n : /\ c[i].by = chars[i].by /\ c[i].source = chars[i].source
                           /\ c[i].cleared = chars[i].cleared \cup R
    <2>1. c = [i \in 1..n |-> Safe(chars[i], R)]
      BY DEF R
    <2>2. \A i \in 1..n : c[i] = Safe(chars[i], R)
      BY <2>1
    <2>3. \A i \in 1..n : c[i] \in Characters
      BY <1>2, <1>3, <2>2, SafeFacts
    <2>4. c \in Seq(Characters) /\ Len(c) = n
      BY <1>2, <2>1, <2>3
    <2> QED BY <1>2, <1>3, <2>2, <2>4, SafeFacts
  <1> HIDE DEF n
  <1>5. ASSUME Caught(v, chars) PROVE Caught(t, c)
    <2> SUFFICES ASSUME NEW i \in 1..n, NEW rule, Threatens(c[i], rule) PROVE Warns(Ranges(t), i - 1, rule)
      BY <1>4 DEF Caught
    <2>1. rule \notin R /\ Threatens(chars[i], rule) /\ i - 1 \in Nat
      <3>1. c[i].by = chars[i].by /\ c[i].cleared = chars[i].cleared \cup R
        BY <1>4
      <3>2. c[i].by # 0 /\ rule \notin c[i].cleared
        BY DEF Threatens
      <3>3. chars[i].by # 0 /\ rule \notin chars[i].cleared /\ rule \notin R
        BY <3>1, <3>2
      <3>4. i - 1 \in Nat
        BY <1>2
      <3> QED BY <3>3, <3>4 DEF Threatens
    <2>2. Warns(Ranges(v), i - 1, rule)
      BY <1>5, <2>1 DEF Caught, n
    <2> QED BY <1>1, <2>1, <2>2 DEF Sanitizes
  <1>6. ASSUME NEW q, Backed(v, chars, q) PROVE Backed(t, c, q)
    <2> SUFFICES ASSUME ~t.imprecise, NEW i \in Nat, NEW source, NEW cleared, Says(Ranges(t), i, source, cleared)
                 PROVE  /\ i + 1 <= Len(c)
                        /\ c[i + 1].by = q /\ c[i + 1].source = source /\ c[i + 1].cleared = cleared
      BY DEF Backed
    <2>1. ~v.imprecise
      BY <1>1 DEF Sanitizes
    <2>2. PICK before : Says(Ranges(v), i, source, before) /\ cleared = before \cup R
      BY <1>1 DEF Sanitizes
    <2>3. i + 1 <= n /\ chars[i + 1].by = q /\ chars[i + 1].source = source /\ chars[i + 1].cleared = before
      BY <1>6, <2>1, <2>2 DEF Backed, n
    <2>4. i + 1 \in 1..n
      BY <1>2, <2>3
    <2> QED BY <1>4, <2>2, <2>3, <2>4
  <1>7. t \in Taints
    BY <1>1 DEF Sanitizes
  <1> QED BY <1>5, <1>6, <1>7 DEF t

\* What trim leaves is a string.
LEMMA StrippedFacts ==
    ASSUME NEW chars \in Seq(Characters)
    PROVE  Stripped(chars) \in Seq(Characters)
  <1> DEFINE n == Len(chars)
             inked == {i \in DOMAIN chars : ~chars[i].blank}
  <1>1. n \in Nat /\ DOMAIN chars = 1..n /\ \A i \in 1..n : chars[i] \in Characters
    BY LenProperties, ElementOfSeq
  <1>2. CASE inked = {}
    BY <1>2 DEF Stripped
  <1>3. CASE inked # {}
    <2>1. Min(inked) \in inked
      <3>1. inked \in SUBSET Nat
        BY <1>1
      <3> HIDE DEF inked
      <3>2. \E m \in inked : \A k \in inked : m <= k
        BY <1>3, <3>1, SmallestNumber
      <3> QED BY <3>2 DEF Min
    <2>2. Max(inked) \in inked
      <3> DEFINE T == {n - i : i \in inked}
      <3>1. T \in SUBSET Nat /\ T # {}
        BY <1>1, <1>3
      <3>2. \E m \in T : \A k \in T : m <= k
        <4> HIDE DEF T
        <4> QED BY <3>1, SmallestNumber
      <3>3. PICK g \in inked : \A k \in inked : n - g <= n - k
        BY <3>2
      <3>4. \A k \in inked : g >= k
        BY <1>1, <3>3
      <3> HIDE DEF inked
      <3> QED BY <3>3, <3>4 DEF Max
    <2> DEFINE a == Min(inked)
               z == Max(inked)
    <2>3. a \in 1..n /\ z \in 1..n
      BY <1>1, <2>1, <2>2
    <2>4. Stripped(chars) = SubSeq(chars, a, z)
      BY <1>3 DEF Stripped
    <2> HIDE DEF a, z
    <2>5. a \in Int /\ z \in Int /\ \A i \in a..z : chars[i] \in Characters
      BY <1>1, <2>3
    <2> QED BY <2>4, <2>5, SubSeqProperties
  <1> QED BY <1>2, <1>3

\* Characters written in other widths are still characters.
LEMMA RecodedFacts ==
    ASSUME NEW chars \in Seq(Characters), NEW widths \in SUBSET Nat, NEW copy \in Recoded(chars, widths)
    PROVE  copy \in Seq(Characters)
  <1> DEFINE S == Seq(Characters)
  <1>1. /\ Len(chars) \in Nat /\ DOMAIN chars = 1..Len(chars)
        /\ \A i \in 1..Len(chars) : chars[i] \in Characters
    BY LenProperties, ElementOfSeq
  <1>2. PICK width \in [DOMAIN chars -> widths] :
            copy = FlattenSeq([i \in DOMAIN chars |-> [k \in 1..width[i] |-> chars[i]]])
    BY DEF Recoded
  <1> PICK parts : parts = [i \in DOMAIN chars |-> [k \in 1..width[i] |-> chars[i]]]
    OBVIOUS
  <1>3. ASSUME NEW i \in 1..Len(chars) PROVE parts[i] \in S
    <2>1. width[i] \in Nat /\ chars[i] \in Characters /\ parts[i] = [k \in 1..width[i] |-> chars[i]]
      BY <1>1
    <2> PICK n \in Nat : n = width[i]
      BY <2>1
    <2> PICK part : part = parts[i]
      OBVIOUS
    <2>2. part \in [1..n -> Characters]
      BY <2>1
    <2>3. part \in Seq(Characters)
      <3>1. \A T : \A m \in Nat : [1..m -> T] \subseteq Seq(T)
        OBVIOUS
      <3> QED BY <2>2, <3>1
    <2> QED BY <2>3
  <1>4. parts \in Seq(S)
    <2> HIDE DEF S
    <2>1. parts \in [1..Len(chars) -> S]
      BY <1>1, <1>3
    <2> QED BY <1>1, <2>1
  <1> QED BY <1>2, <1>4, FlattenRange

\* What a case mapping, trim or strip leaves are characters.
LEMMA MappedFacts ==
    ASSUME NEW chars \in Seq(Characters), NEW method, NEW copy \in Mapped(method, chars)
    PROVE  copy \in Seq(Characters)
  <1>1. CASE method \in {"trim", "strip"}
    BY <1>1, StrippedFacts DEF Mapped
  <1>2. CASE method \notin {"trim", "strip"}
    <2>1. {1, 2} \in SUBSET Nat
      OBVIOUS
    <2> QED BY <1>2, <2>1, RecodedFacts DEF Mapped
  <1> QED BY <1>1, <1>2

\* What there is to read of a copy are characters.
LEMMA CopiesFacts ==
    ASSUME NEW chars \in Seq(Characters), NEW method, NEW copy \in Copies(method, chars)
    PROVE  copy \in Seq(Characters)
  <1>1. {0, 1} \in SUBSET Nat /\ {1, 2} \in SUBSET Nat
    OBVIOUS
  <1>2. CASE \E from \in 0..Len(chars), to \in 0..Len(chars) : copy = SubSeq(chars, from + 1, to)
    <2>1. PICK from \in 0..Len(chars), to \in 0..Len(chars) : copy = SubSeq(chars, from + 1, to)
      BY <1>2
    <2>2. from + 1 \in Int /\ to \in Int /\ \A i \in from + 1..to : chars[i] \in Characters
      BY ElementOfSeq
    <2> QED BY <2>1, <2>2, SubSeqProperties
  <1>3. CASE copy \in Recoded(chars, {1, 2}) \/ copy \in Recoded(chars, {0, 1})
    BY <1>1, <1>3, RecodedFacts
  <1>4. CASE copy = chars
    BY <1>4
  <1> QED BY <1>2, <1>3, <1>4 DEF Copies

(***************************************************************************)
(* Contexts                                                                *)
(***************************************************************************)
Holds(frame) == frame.kind \in {"owner", "wrapped"}

\* A frame will take the context away, and the thread has worked for r since.
Carries(s, r) ==
    \E i \in DOMAIN s : Holds(s[i]) /\ \A j \in i + 1..Len(s) : s[j].back = r

\* What a context number may say: none, or one begun for request r, or one gone astray.
Home(c, r) == c # 0 => c \in DOMAIN of /\ (of[c] = r \/ c \in strayed)

\* The types of the threads and their contexts.
Typed ==
    /\ stack \in [Thread -> Seq(Frame)]
    /\ req \in [Thread -> Nat]
    /\ ctx \in [Thread -> Nat]
    /\ of \in Seq(Nat)
    /\ arrived \in Nat
    /\ \A task \in tasks : task.context \in Nat /\ task.req \in Nat
\* The context on a thread is that of the request it works for.
ThreadsAtHome == \A t \in Thread : Home(ctx[t], req[t])
\* The context a task took along is that of the request that submitted it.
TasksAtHome == \A task \in tasks : Home(task.context, task.req)
\* A thread carries a context only under a frame that will take it away.
Held == \A t \in Thread : ctx[t] # 0 /\ ctx[t] \notin strayed => Carries(stack[t], req[t])

\* The inductive invariant of the threads.
IInv == Typed /\ ThreadsAtHome /\ TasksAtHome /\ Held

-----------------------------------------------------------------------------
(* Lemmas about the stack                                                   *)

\* Popping keeps every frame but the last.
LEMMA PopFacts ==
    ASSUME NEW s \in Seq(Frame), s # << >>
    PROVE  /\ Front(s) \in Seq(Frame)
           /\ Len(s) \in Nat \ {0}
           /\ Len(Front(s)) = Len(s) - 1
           /\ \A i \in 1..Len(s) - 1 : Front(s)[i] = s[i]
           /\ Last(s) = s[Len(s)] /\ Last(s) \in Frame
  <1>1. Len(s) \in Nat \ {0}
    OBVIOUS
  <1>2. Len(s) - 1 \in 0..Len(s)
    BY <1>1
  <1>3. \A i \in 1..Len(s) - 1 : s[i] \in Frame
    BY <1>1
  <1>4. Front(s) = [i \in 1..Len(s) - 1 |-> s[i]]
    BY <1>1, <1>2 DEF Front
  <1>5. Front(s) \in Seq(Frame) /\ Len(Front(s)) = Len(s) - 1
    BY <1>1, <1>2, <1>3, <1>4
  <1>6. s[Len(s)] \in Frame
    BY <1>1
  <1> QED
    BY <1>1, <1>4, <1>5, <1>6 DEF Last

\* Pushing keeps every frame and adds one.
LEMMA PushFacts ==
    ASSUME NEW s \in Seq(Frame), NEW f \in Frame
    PROVE  /\ Append(s, f) \in Seq(Frame)
           /\ Len(Append(s, f)) = Len(s) + 1
           /\ \A i \in 1..Len(s) : Append(s, f)[i] = s[i]
           /\ Append(s, f)[Len(s) + 1] = f
  OBVIOUS

\* A frame that goes back to the same request leaves the context held.
LEMMA PushCarries ==
    ASSUME NEW s \in Seq(Frame), NEW f \in Frame, NEW r, Carries(s, r), f.back = r
    PROVE  Carries(Append(s, f), r)
  <1>1. PICK i \in DOMAIN s : Holds(s[i]) /\ \A j \in i + 1..Len(s) : s[j].back = r
    BY DEF Carries
  <1>2. PICK n \in Nat : n = Len(s)
    OBVIOUS
  <1>3. PICK e \in Seq(Frame) : /\ e = Append(s, f) /\ Len(e) = n + 1 /\ DOMAIN e = 1..n + 1
                                /\ \A j \in 1..n : e[j] = s[j]
                                /\ e[n + 1] = f
    <2> DEFINE e == Append(s, f)
    <2>1. e \in Seq(Frame) /\ Len(e) = n + 1 /\ (\A j \in 1..n : e[j] = s[j]) /\ e[n + 1] = f
      BY <1>2, PushFacts
    <2> HIDE DEF e
    <2>2. DOMAIN e = 1..n + 1
      BY <2>1
    <2> QED BY <2>1, <2>2 DEF e
  <1>4. i \in 1..n /\ i \in DOMAIN e /\ Holds(e[i])
    BY <1>1, <1>2, <1>3
  <1>5. ASSUME NEW j \in i + 1..n + 1 PROVE e[j].back = r
    <2>1. CASE j = n + 1
      BY <1>3, <2>1
    <2>2. CASE j # n + 1
      BY <1>1, <1>2, <1>3, <1>4, <2>2
    <2> QED BY <2>1, <2>2
  <1>6. Carries(e, r)
    BY <1>3, <1>4, <1>5 DEF Carries
  <1> QED BY <1>3, <1>6

\* A frame that holds the context holds it whatever the thread works for.
LEMMA PushHolds ==
    ASSUME NEW s \in Seq(Frame), NEW f \in Frame, NEW r, Holds(f)
    PROVE  Carries(Append(s, f), r)
  <1>1. PICK n \in Nat : n = Len(s)
    OBVIOUS
  <1>2. PICK e \in Seq(Frame) : e = Append(s, f) /\ Len(e) = n + 1 /\ DOMAIN e = 1..n + 1 /\ e[n + 1] = f
    <2> DEFINE e == Append(s, f)
    <2>1. e \in Seq(Frame) /\ Len(e) = n + 1 /\ e[n + 1] = f
      BY <1>1, PushFacts
    <2> HIDE DEF e
    <2>2. DOMAIN e = 1..n + 1
      BY <2>1
    <2> QED BY <2>1, <2>2 DEF e
  <1>3. Carries(e, r)
    BY <1>2 DEF Carries
  <1> QED BY <1>2, <1>3

\* A context is still held after a pop, unless the frame was the one that held it.
LEMMA PopCarries ==
    ASSUME NEW s \in Seq(Frame), NEW r, Carries(s, r), ~Holds(Last(s))
    PROVE  Last(s).back = r /\ Carries(Front(s), r)
  <1>1. PICK i \in DOMAIN s : Holds(s[i]) /\ \A j \in i + 1..Len(s) : s[j].back = r
    BY DEF Carries
  <1>2. PICK n \in Nat : n = Len(s)
    OBVIOUS
  <1>3. s # << >> /\ i \in 1..n
    BY <1>1, <1>2
  <1>4. PICK e \in Seq(Frame) : /\ e = Front(s) /\ Len(e) = n - 1 /\ DOMAIN e = 1..n - 1
                                /\ \A j \in 1..n - 1 : e[j] = s[j]
    BY <1>2, <1>3, PopFacts
  <1>5. Last(s) = s[n]
    BY <1>2, <1>3, PopFacts
  <1>6. i # n
    BY <1>1, <1>5
  <1>7. Last(s).back = r
    BY <1>1, <1>2, <1>3, <1>5, <1>6
  <1>8. i \in DOMAIN e /\ Holds(e[i])
    BY <1>1, <1>3, <1>4, <1>6
  <1>9. \A j \in i + 1..Len(e) : e[j].back = r
    BY <1>1, <1>2, <1>3, <1>4
  <1>10. Carries(e, r)
    BY <1>8, <1>9 DEF Carries
  <1> QED BY <1>4, <1>7, <1>10

-----------------------------------------------------------------------------
(* One lemma per group of actions                                           *)

\* What is at home stays at home when no context is begun.
LEMMA HomeStays ==
    ASSUME of' = of, strayed \subseteq strayed'
    PROVE  \A c, q : Home(c, q) => Home(c, q)'
  BY DEF Home

\* A begun context is at home and takes nothing from the others.
LEMMA BegunIsHome ==
    ASSUME of \in Seq(Nat), NEW r \in Nat, of' = Append(of, r), strayed \subseteq strayed'
    PROVE  /\ of' \in Seq(Nat)
           /\ Len(of) + 1 \in DOMAIN of' /\ of'[Len(of) + 1] = r
           /\ \A c \in Nat, q \in Nat : Home(c, q) => Home(c, q)'
  <1>1. /\ Append(of, r) \in Seq(Nat)
        /\ DOMAIN of = 1..Len(of) /\ DOMAIN Append(of, r) = 1..Len(of) + 1
        /\ Append(of, r)[Len(of) + 1] = r
        /\ \A c \in 1..Len(of) : Append(of, r)[c] = of[c]
    OBVIOUS
  <1>2. Len(of) + 1 \in DOMAIN of' /\ of'[Len(of) + 1] = r
    BY <1>1
  <1>3. ASSUME NEW c \in Nat, NEW q \in Nat, Home(c, q) PROVE Home(c, q)'
    BY <1>1, <1>3 DEF Home
  <1> QED
    BY <1>1, <1>2, <1>3

\* A thread other than the one that steps is held as before.
LEMMA OthersHeld ==
    ASSUME IInv, NEW t \in Thread, NEW u \in Thread, u # t, strayed \subseteq strayed',
           stack'[u] = stack[u], req'[u] = req[u], ctx'[u] = ctx[u]
    PROVE  (ctx[u] # 0 /\ ctx[u] \notin strayed)' => Carries(stack[u], req[u])'
  BY DEF IInv, Held

\* A servlet is entered: the thread gets the context of the request it begins to work for.
LEMMA EnterKeeps ==
    ASSUME IInv, NEW t \in Thread, NEW r \in Nat, OnRequestEnter(t, r),
           r = req'[t], req' \in [Thread -> Nat], arrived' \in Nat, tasks' = tasks,
           \A u \in Thread : u # t => req'[u] = req[u],
           ctx[t] # 0 => r = req[t] \/ ctx[t] \in strayed
    PROVE  IInv'
  <1> DEFINE Called(kind) == [kind |-> kind, back |-> req[t]]
  <1>1. /\ stack \in [Thread -> Seq(Frame)]
        /\ of \in Seq(Nat) /\ Len(of) \in Nat
        /\ ctx \in [Thread -> Nat] /\ req \in [Thread -> Nat]
    BY DEF IInv, Typed
  <1>2. Called("owner") \in Frame /\ Called("nested") \in Frame /\ Holds(Called("owner"))
    BY <1>1 DEF Frame, Servlet, Task, Holds
  <1>3. CASE ctx[t] # 0 /\ Push(t, "nested") /\ UNCHANGED <<ctx, of, live, strayed>>
    <2> PICK f \in Frame : f = Called("nested")
      BY <1>2
    <2>1. stack' = [stack EXCEPT ![t] = Append(@, f)] /\ f.back = req[t]
      BY <1>3 DEF Push
    <2>2. Typed'
      BY <1>1, <1>3, <2>1, PushFacts DEF IInv, Typed
    <2>3. ThreadsAtHome'
      <3>1. SUFFICES ASSUME NEW u \in Thread PROVE Home(ctx[u], req[u])'
        BY DEF ThreadsAtHome
      <3> QED BY <1>3 DEF IInv, ThreadsAtHome, Home
    <2>4. TasksAtHome'
      BY <1>3, HomeStays DEF IInv, TasksAtHome
    <2>5. ASSUME NEW u \in Thread PROVE (ctx[u] # 0 /\ ctx[u] \notin strayed)' => Carries(stack[u], req[u])'
      <3>1. CASE u # t
        <4>1. stack'[u] = stack[u]
          BY <1>1, <2>1, <3>1
        <4> QED BY <1>3, <3>1, <4>1, OthersHeld
      <3>2. CASE u = t
        <4>1. SUFFICES ASSUME ctx[t] # 0, ctx[t] \notin strayed
                       PROVE  Carries(stack'[t], req'[t])
          BY <1>3, <3>2
        <4>2. Carries(stack[t], req[t]) /\ req'[t] = req[t]
          BY <4>1 DEF IInv, Held
        <4>3. stack'[t] = Append(stack[t], f) /\ stack[t] \in Seq(Frame)
          BY <1>1, <2>1
        <4> QED BY <2>1, <4>2, <4>3, PushCarries
      <3> QED BY <3>1, <3>2
    <2> QED
      BY <2>2, <2>3, <2>4, <2>5 DEF IInv, Held
  <1>4. ASSUME NEW f \in Frame, BeginContext(t, r), stack' = [stack EXCEPT ![t] = Append(@, f)],
               strayed \subseteq strayed', Holds(f) \/ Len(of) + 1 \in strayed'
        PROVE  IInv'
    <2>1. of' = Append(of, r) /\ ctx' = [ctx EXCEPT ![t] = Len(of) + 1]
      BY <1>4 DEF BeginContext
    <2>2. Typed'
      BY <1>1, <1>4, <2>1, BegunIsHome, PushFacts DEF IInv, Typed
    <2>3. ThreadsAtHome'
      <3>1. SUFFICES ASSUME NEW u \in Thread PROVE Home(ctx[u], req[u])'
        BY DEF ThreadsAtHome
      <3>2. CASE u = t
        BY <1>1, <1>4, <2>1, <3>2, BegunIsHome DEF Home
      <3>3. CASE u # t
        BY <1>1, <1>4, <2>1, <3>3, BegunIsHome DEF IInv, ThreadsAtHome, Home
      <3> QED
        BY <3>2, <3>3
    <2>4. TasksAtHome'
      BY <1>1, <1>4, <2>1, BegunIsHome DEF IInv, Typed, TasksAtHome
    <2>5. ASSUME NEW u \in Thread PROVE (ctx[u] # 0 /\ ctx[u] \notin strayed)' => Carries(stack[u], req[u])'
      <3>1. CASE u # t
        <4>1. stack'[u] = stack[u] /\ ctx'[u] = ctx[u] /\ req'[u] = req[u]
          BY <1>1, <1>4, <2>1, <3>1
        <4> QED BY <1>4, <3>1, <4>1, OthersHeld
      <3>2. CASE u = t
        <4>1. ctx'[t] = Len(of) + 1 /\ stack'[t] = Append(stack[t], f) /\ stack[t] \in Seq(Frame)
          BY <1>1, <1>4, <2>1
        <4>2. Holds(f) => Carries(stack'[t], req'[t])
          BY <4>1, PushHolds
        <4> QED BY <1>4, <3>2, <4>1, <4>2
      <3> QED BY <3>1, <3>2
    <2> QED
      BY <2>2, <2>3, <2>4, <2>5 DEF IInv, Held
  <1>5. CASE BeginContext(t, r) /\ Push(t, "owner") /\ UNCHANGED strayed
    BY <1>2, <1>4, <1>5 DEF Push
  <1>6. CASE BeginContext(t, r) /\ Push(t, "nested") /\ strayed' = strayed \cup {Len(of) + 1}
    BY <1>2, <1>4, <1>6 DEF Push
  <1> QED
    BY <1>3, <1>5, <1>6 DEF OnRequestEnter

\* A frame is popped; the context goes with it when the frame held it.
LEMMA PopKeeps ==
    ASSUME IInv, NEW t \in Thread, ~Idle(t), Pop(t), of' = of, tasks' = tasks, arrived' = arrived,
           strayed' = strayed,
           ctx' = IF Holds(Last(stack[t])) THEN [ctx EXCEPT ![t] = 0] ELSE ctx
    PROVE  IInv'
  <1> DEFINE s == stack[t]
  <1>1. /\ s \in Seq(Frame) /\ s # << >> /\ Last(s).back \in Nat
        /\ stack \in [Thread -> Seq(Frame)]
        /\ ctx \in [Thread -> Nat] /\ req \in [Thread -> Nat]
        /\ stack' = [stack EXCEPT ![t] = Front(s)]
        /\ req' = [req EXCEPT ![t] = Last(s).back]
    <2>1. s \in Seq(Frame) /\ s # << >>
      BY DEF IInv, Typed, Idle
    <2>2. Last(s).back \in Nat
      BY <2>1, PopFacts DEF Frame
    <2> QED
      BY <2>1, <2>2 DEF IInv, Typed, Pop, Top
  <1>2. Typed'
    BY <1>1, PopFacts DEF IInv, Typed
  <1>3. ASSUME ctx'[t] # 0, ctx'[t] \notin strayed
        PROVE  /\ ~Holds(Last(s)) /\ ctx'[t] = ctx[t]
               /\ req'[t] = req[t] /\ Carries(stack'[t], req'[t])
    <2>1. ~Holds(Last(s)) /\ ctx'[t] = ctx[t]
      BY <1>1, <1>3
    <2>2. Carries(s, req[t])
      BY <1>3, <2>1 DEF IInv, Held
    <2>3. Last(s).back = req[t] /\ Carries(Front(s), req[t])
      BY <1>1, <2>1, <2>2, PopCarries
    <2> QED BY <1>1, <2>1, <2>3
  <1>4. ThreadsAtHome'
    <2>1. SUFFICES ASSUME NEW u \in Thread PROVE Home(ctx[u], req[u])'
      BY DEF ThreadsAtHome
    <2>2. CASE u # t
      BY <1>1, <2>2 DEF IInv, ThreadsAtHome, Home
    <2>3. CASE u = t
      BY <1>1, <1>3, <2>3 DEF IInv, ThreadsAtHome, Home
    <2> QED
      BY <2>2, <2>3
  <1>5. TasksAtHome'
    BY HomeStays DEF IInv, TasksAtHome
  <1>6. ASSUME NEW u \in Thread PROVE (ctx[u] # 0 /\ ctx[u] \notin strayed)' => Carries(stack[u], req[u])'
    <2>1. CASE u # t
      <3>1. stack'[u] = stack[u] /\ ctx'[u] = ctx[u] /\ req'[u] = req[u]
        BY <1>1, <2>1
      <3> QED BY <2>1, <3>1, OthersHeld
    <2>2. CASE u = t
      BY <1>3, <2>2
    <2> QED
      BY <2>1, <2>2
  <1> QED
    BY <1>2, <1>4, <1>5, <1>6 DEF IInv, Held

\* A task's frame is pushed: it holds the context the thread now carries, or the
\* thread goes on for the same request, or its context is astray.
LEMMA TaskFrameKeeps ==
    ASSUME IInv, NEW t \in Thread, NEW c \in Nat, NEW r \in Nat, Home(c, r)',
           NEW kind \in Task, Push(t, kind), strayed \subseteq strayed',
           ctx' = [ctx EXCEPT ![t] = c], req' = [req EXCEPT ![t] = r],
           of' = of, arrived' = arrived, tasks' \subseteq tasks,
           \/ c = 0 \/ c \in strayed' \/ kind = "wrapped"
           \/ c = ctx[t] /\ r = req[t]
    PROVE  IInv'
  <1>1. /\ stack \in [Thread -> Seq(Frame)]
        /\ ctx \in [Thread -> Nat] /\ req \in [Thread -> Nat]
    BY DEF IInv, Typed
  <1> PICK f \in Frame : f = [kind |-> kind, back |-> req[t]]
    BY <1>1 DEF Frame
  <1>2. stack' = [stack EXCEPT ![t] = Append(@, f)] /\ f.back = req[t] /\ f.kind = kind
    BY DEF Push
  <1>3. Typed'
    BY <1>1, <1>2, PushFacts DEF IInv, Typed
  <1>4. ThreadsAtHome'
    <2>1. SUFFICES ASSUME NEW u \in Thread PROVE Home(ctx[u], req[u])'
      BY DEF ThreadsAtHome
    <2>2. CASE u = t
      BY <1>1, <2>2 DEF Home
    <2>3. CASE u # t
      BY <1>1, <2>3 DEF IInv, ThreadsAtHome, Home
    <2> QED BY <2>2, <2>3
  <1>5. TasksAtHome'
    BY HomeStays DEF IInv, TasksAtHome
  <1>6. ASSUME NEW u \in Thread PROVE (ctx[u] # 0 /\ ctx[u] \notin strayed)' => Carries(stack[u], req[u])'
    <2>1. CASE u # t
      <3>1. stack'[u] = stack[u] /\ ctx'[u] = ctx[u] /\ req'[u] = req[u]
        BY <1>1, <1>2, <2>1
      <3> QED BY <2>1, <3>1, OthersHeld
    <2>2. CASE u = t
      <3>1. /\ ctx'[t] = c /\ req'[t] = r
            /\ stack'[t] = Append(stack[t], f) /\ stack[t] \in Seq(Frame)
        BY <1>1, <1>2
      <3>2. CASE kind = "wrapped"
        <4>1. Holds(f)
          BY <1>2, <3>2 DEF Holds
        <4> QED BY <2>2, <3>1, <4>1, PushHolds
      <3>3. CASE c = ctx[t] /\ r = req[t]
        <4>1. SUFFICES ASSUME c # 0, c \notin strayed PROVE Carries(stack'[t], r)
          BY <2>2, <3>1
        <4>2. Carries(stack[t], r)
          BY <3>3, <4>1 DEF IInv, Held
        <4> QED BY <1>2, <3>1, <3>3, <4>2, PushCarries
      <3> QED BY <2>2, <3>1, <3>2, <3>3
    <2> QED
      BY <2>1, <2>2
  <1> QED
    BY <1>3, <1>4, <1>5, <1>6 DEF IInv, Held

-----------------------------------------------------------------------------
(* The invariant                                                            *)

\* It holds before any thread has begun.
LEMMA InitHolds == LifeInit => IInv
  BY DEF LifeInit, IInv, Typed, ThreadsAtHome, TasksAtHome, Held, Home

\* Every step of the threads keeps the invariant.
LEMMA StepKeeps == IInv /\ [LifeNext]_lifecycle => IInv'
  <1> SUFFICES ASSUME IInv, [LifeNext]_lifecycle PROVE IInv'
    OBVIOUS
  <1> USE DEF Idle
  <1>1. ASSUME NEW t \in Thread, EnterRequest(t) PROVE IInv'
    <2>1. ctx[t] # 0 => ctx[t] \in strayed
      BY <1>1 DEF EnterRequest, IInv, Held, Carries, Typed
    <2>2. /\ req \in [Thread -> Nat] /\ arrived \in Nat
          /\ req' = [req EXCEPT ![t] = arrived + 1]
      BY <1>1 DEF EnterRequest, IInv, Typed
    <2> QED
      BY <1>1, <2>1, <2>2, EnterKeeps DEF EnterRequest
  <1>2. ASSUME NEW t \in Thread, EnterNested(t) PROVE IInv'
    <2>1. req[t] \in Nat /\ req' = req /\ arrived' \in Nat /\ req' \in [Thread -> Nat]
      BY <1>2 DEF EnterNested, IInv, Typed
    <2> QED
      BY <1>2, <2>1, EnterKeeps DEF EnterNested
  <1>3. ASSUME NEW t \in Thread, LeaveServlet(t) PROVE IInv'
    <2>1. ctx' = IF Holds(Last(stack[t])) THEN [ctx EXCEPT ![t] = 0] ELSE ctx
      BY <1>3 DEF LeaveServlet, Holds, Top, Servlet
    <2> QED
      BY <1>3, <2>1, PopKeeps DEF LeaveServlet
  <1>4. ASSUME NEW t \in Thread, HandOff(t) PROVE IInv'
    <2>1. /\ ctx[t] \in Nat /\ req[t] \in Nat /\ Home(ctx[t], req[t])
          /\ UNCHANGED <<req, stack, ctx, of, arrived, strayed>>
          /\ tasks' = tasks \cup {[id |-> submitted + 1, context |-> ctx[t], req |-> req[t]]}
      BY <1>4 DEF HandOff, IInv, Typed, ThreadsAtHome
    <2>2. Typed' /\ ThreadsAtHome' /\ Held'
      BY <2>1 DEF IInv, Typed, ThreadsAtHome, Held, Home
    <2>3. TasksAtHome'
      BY <2>1 DEF IInv, TasksAtHome, Home
    <2> QED
      BY <2>2, <2>3 DEF IInv
  <1>5. ASSUME NEW t \in Thread, NEW task \in tasks, StartTask(t, task) PROVE IInv'
    <2>1. /\ task.context \in Nat /\ task.req \in Nat /\ Home(task.context, task.req)
          /\ ctx[t] \in Nat /\ req[t] \in Nat /\ Home(ctx[t], req[t])
          /\ ctx = [ctx EXCEPT ![t] = ctx[t]]
      BY DEF IInv, Typed, TasksAtHome, ThreadsAtHome
    <2>2. CASE task.context # 0
      <3>1. Push(t, "wrapped") /\ Home(task.context, task.req)'
        BY <1>5, <2>1, <2>2 DEF StartTask, KindOf, Home
      <3> QED BY <1>5, <2>1, <2>2, <3>1, TaskFrameKeeps DEF StartTask, Task
    <2>3. CASE task.context = 0
      <3>1. /\ Push(t, "raw") /\ ctx' = ctx /\ of' = of
            /\ strayed' = strayed \cup {c \in {ctx[t]} \ {0} : of[c] # task.req}
        BY <1>5, <2>3 DEF StartTask, KindOf
      <3>2. ctx[t] # 0 => of[ctx[t]] = task.req \/ ctx[t] \in strayed'
        BY <3>1
      <3>3. Home(ctx[t], task.req)'
        BY <2>1, <3>1, <3>2 DEF Home
      <3>4. ctx[t] = 0 \/ ctx[t] \in strayed' \/ task.req = req[t]
        BY <2>1, <3>1, <3>2 DEF Home
      <3>5. /\ strayed \subseteq strayed' /\ ctx' = [ctx EXCEPT ![t] = ctx[t]]
            /\ "raw" \in Task
        BY <2>1, <3>1 DEF Task
      <3> QED BY <1>5, <2>1, <3>1, <3>3, <3>4, <3>5, TaskFrameKeeps DEF StartTask
    <2> QED
      BY <2>2, <2>3
  <1>6. ASSUME NEW t \in Thread, RunInPlace(t) PROVE IInv'
    <2>1. /\ ctx[t] \in Nat /\ req[t] \in Nat /\ Home(ctx[t], req[t])
          /\ ctx = [ctx EXCEPT ![t] = ctx[t]] /\ req = [req EXCEPT ![t] = req[t]]
      BY DEF IInv, Typed, ThreadsAtHome
    <2>2. Home(ctx[t], req[t])'
      BY <1>6, <2>1 DEF RunInPlace, Home
    <2>3. KindOf(ctx[t]) \in Task
      BY DEF KindOf, Task
    <2> QED
      BY <1>6, <2>1, <2>2, <2>3, TaskFrameKeeps DEF RunInPlace
  <1>7. ASSUME NEW t \in Thread, FinishTask(t) PROVE IInv'
    <2>1. ctx' = IF Holds(Last(stack[t])) THEN [ctx EXCEPT ![t] = 0] ELSE ctx
      BY <1>7 DEF FinishTask, Holds, Top, Task
    <2> QED
      BY <1>7, <2>1, PopKeeps DEF FinishTask
  <1>8. CASE UNCHANGED lifecycle
    BY <1>8 DEF lifecycle, IInv, Typed, ThreadsAtHome, TasksAtHome, Held, Home
  <1> QED
    BY <1>1, <1>2, <1>3, <1>4, <1>5, <1>6, <1>7, <1>8 DEF LifeNext

\* The invariant says more than the property.
LEMMA InvariantIsHome == IInv => ContextIsHome
  BY DEF IInv, ThreadsAtHome, Home, ContextIsHome

\* A context is carried by a thread only while it works for that context's
\* request, unless an error of describe() or another request's task led it
\* astray (RequestContext.begin, end, adopt, detach).
THEOREM ContextStaysHome == LifeSpec => []ContextIsHome
  <1>1. LifeInit => IInv
    BY InitHolds
  <1>2. IInv /\ [LifeNext]_lifecycle => IInv'
    BY StepKeeps
  <1>3. IInv => ContextIsHome
    BY InvariantIsHome
  <1> QED
    BY <1>1, <1>2, <1>3, PTL DEF LifeSpec

(***************************************************************************)
(* Requests                                                                *)
(***************************************************************************)
\* A hook that makes, changes or checks a value leaves the threads alone.
LEMMA HooksLeaveThreads ==
    ASSUME Sources \/ OverStrings \/ OverBuilders \/ Others
    PROVE  UNCHANGED lifecycle
  <1>1. ASSUME NEW t, NEW new, NEW taints, Make(t, new, taints) PROVE UNCHANGED lifecycle
    BY <1>1 DEF Make
  <1>2. ASSUME NEW t, NEW b, NEW method, NEW chars, NEW from, NEW moved, NEW taint,
               Mutate(t, b, method, chars, from, moved, taint)
        PROVE  UNCHANGED lifecycle
    BY <1>2 DEF Mutate
  <1>3. ASSUME NEW t, NEW v, NEW rule, NEW site, BlockingSink(t, v, rule, site)
        PROVE  UNCHANGED lifecycle
    BY <1>3 DEF BlockingSink
  <1>4. CASE Sources
    BY <1>1, <1>4, Zenon DEF Sources, Read, ReadBody, Literal
  <1>5. CASE OverStrings
    <2>1. ASSUME NEW t, NEW v, NEW r, ConcatOf(t, v, r) PROVE UNCHANGED lifecycle
      BY <1>1, <2>1 DEF ConcatOf
    <2>2. ASSUME NEW t, NEW v, NEW r, NEW operands, IndyConcat(t, v, r, operands) PROVE UNCHANGED lifecycle
      BY <1>1, <2>2 DEF IndyConcat
    <2>3. ASSUME NEW t, NEW v, NEW from, NEW to, SubstringOf(t, v, from, to) PROVE UNCHANGED lifecycle
      BY <1>1, <2>3 DEF SubstringOf
    <2>4. ASSUME NEW t, NEW v, NEW method, Preserve(t, v, method) PROVE UNCHANGED lifecycle
      BY <1>1, <2>4 DEF Preserve
    <2>5. ASSUME NEW t, NEW v, NEW r, Format(t, v, r) PROVE UNCHANGED lifecycle
      BY <1>1, <2>5 DEF Format
    <2>6. ASSUME NEW t, NEW v, Decode(t, v) PROVE UNCHANGED lifecycle
      BY <1>1, <2>6 DEF Decode
    <2>7. ASSUME NEW t, NEW v, NEW k, Split(t, v, k) PROVE UNCHANGED lifecycle
      BY <1>1, <2>7 DEF Split
    <2>8. ASSUME NEW t, NEW v, NEW encoder, Sanitize(t, v, encoder) PROVE UNCHANGED lifecycle
      BY <1>1, <2>8 DEF Sanitize
    <2>9. ASSUME NEW t, NEW v, NEW w, Intern(t, v, w) PROVE UNCHANGED lifecycle
      BY <2>9 DEF Intern
    <2> QED
      BY <1>5, <2>1, <2>2, <2>3, <2>4, <2>5, <2>6, <2>7, <2>8, <2>9, Zenon DEF OverStrings
  <1>6. CASE OverBuilders
    <2>1. ASSUME NEW t, NEW b, NEW v, BuilderAppend(t, b, v) PROVE UNCHANGED lifecycle
      BY <1>2, <2>1 DEF BuilderAppend
    <2>2. ASSUME NEW t, NEW b, NEW from, NEW to, NEW v, BuilderReplace(t, b, from, to, v) PROVE UNCHANGED lifecycle
      BY <1>2, <2>2 DEF BuilderReplace
    <2>3. ASSUME NEW t, NEW b, BuilderReverse(t, b) PROVE UNCHANGED lifecycle
      BY <1>2, <2>3 DEF BuilderReverse
    <2>4. ASSUME NEW t, NEW b, NEW n, SetLength(t, b, n) PROVE UNCHANGED lifecycle
      BY <1>2, <2>4 DEF SetLength
    <2>5. ASSUME NEW t, NEW b, BuilderToString(t, b) PROVE UNCHANGED lifecycle
      BY <1>1, <2>5 DEF BuilderToString
    <2> QED
      BY <1>6, <2>1, <2>2, <2>3, <2>4, <2>5, Zenon DEF OverBuilders
  <1>7. CASE Others
    <2>1. ASSUME NEW t, NewBuilder(t) PROVE UNCHANGED lifecycle
      BY <1>1, <2>1 DEF NewBuilder
    <2>2. ASSUME NEW t, NEW v, NEW method, Derive(t, v, method) PROVE UNCHANGED lifecycle
      BY <1>1, <2>2, Zenon DEF Derive
    <2>3. ASSUME NEW t, GetWriter(t) PROVE UNCHANGED lifecycle
      BY <2>3 DEF GetWriter
    <2>4. ASSUME NEW t, NEW v, NEW advice, Sink(t, v, advice) PROVE UNCHANGED lifecycle
      BY <1>3, <2>4 DEF Sink
    <2>5. ASSUME NEW t, NEW v, ResponseWrite(t, v) PROVE UNCHANGED lifecycle
      BY <1>3, <2>5 DEF ResponseWrite
    <2>6. ASSUME NEW t, NEW v, NEW advice, ObjectSink(t, v, advice) PROVE UNCHANGED lifecycle
      BY <2>6 DEF ObjectSink
    <2> QED
      BY <1>7, <2>1, <2>2, <2>3, <2>4, <2>5, <2>6, Zenon DEF Others
  <1> QED
    BY <1>4, <1>5, <1>6, <1>7

\* Every step is a step of the threads or leaves them alone.
LEMMA StepIsLifeStep == [Next]_vars => [LifeNext]_lifecycle
  <1>1. CASE Threads
    BY <1>1, Zenon
       DEF Threads, Arrive, Forward, Return, Submit, Start, RunInline, Finish, LifeNext
  <1>2. CASE Sources \/ OverStrings \/ OverBuilders \/ Others
    BY <1>2, HooksLeaveThreads
  <1>3. CASE UNCHANGED vars
    BY <1>3 DEF vars
  <1> QED
    BY <1>1, <1>2, <1>3 DEF Next

\* RequestFlow implements RequestContexts.
THEOREM FlowRunsContexts == Spec => LifeSpec
  <1>1. Init => LifeInit
    BY DEF Init
  <1>2. [Next]_vars => [LifeNext]_lifecycle
    BY StepIsLifeStep
  <1> QED
    BY <1>1, <1>2, PTL DEF Spec, LifeSpec

\* Whatever hooks run in whatever order, what a thread reports is reported for
\* the request it works for, and a thread in its pool reports for none.
THEOREM FindingsStayHome == Spec => []ContextIsHome
  BY FlowRunsContexts, ContextStaysHome, PTL

(***************************************************************************)
(* What the tables know                                                    *)
(***************************************************************************)
IsList(s) == \E n \in Nat : s = [i \in 1..n |-> s[i]]

\* Short tuples are lists.
LEMMA ListsAreLists ==
    /\ IsList(<< >>)
    /\ \A x : IsList(<<x>>)
    /\ \A x, y : IsList(<<x, y>>)
  <1>1. ASSUME NEW S, NEW s \in Seq(S) PROVE IsList(s)
    <2>1. Len(s) \in Nat /\ s \in [1..Len(s) -> S]
      BY LenProperties
    <2> QED
      BY <2>1 DEF IsList
  <1>2. IsList(<< >>)
    BY <1>1, EmptySeq
  <1>3. ASSUME NEW x PROVE IsList(<<x>>)
    <2>1. <<x>> \in Seq({x})
      OBVIOUS
    <2> QED
      BY <1>1, <2>1
  <1>4. ASSUME NEW x, NEW y PROVE IsList(<<x, y>>)
    <2>1. <<x, y>> \in Seq({x, y})
      OBVIOUS
    <2> QED
      BY <1>1, <2>1
  <1> QED
    BY <1>2, <1>3, <1>4

\* A list put behind another leaves it as it was.
LEMMA ListGrows ==
    ASSUME NEW s, NEW r, IsList(s), IsList(r)
    PROVE  /\ IsList(s \o r)
           /\ \A i \in DOMAIN s : i \in DOMAIN (s \o r) /\ (s \o r)[i] = s[i]
  <1>1. PICK n \in Nat : s = [i \in 1..n |-> s[i]]
    BY DEF IsList
  <1>2. PICK m \in Nat : r = [i \in 1..m |-> r[i]]
    BY DEF IsList
  <1> DEFINE S == {s[i] : i \in 1..n} \cup {r[i] : i \in 1..m}
  <1>3. s \in [1..n -> S] /\ r \in [1..m -> S]
    BY <1>1, <1>2
  <1> HIDE DEF S
  <1>4. s \in Seq(S) /\ r \in Seq(S)
    BY <1>3
  <1>5. /\ s \o r \in Seq(S) /\ Len(s \o r) = Len(s) + Len(r)
        /\ \A i \in 1..(Len(s) + Len(r)) :
               (s \o r)[i] = IF i <= Len(s) THEN s[i] ELSE r[i - Len(s)]
    BY <1>4, ConcatProperties
  <1>6. /\ Len(s) \in Nat /\ Len(r) \in Nat /\ DOMAIN s = 1..Len(s)
        /\ DOMAIN (s \o r) = 1..(Len(s) + Len(r)) /\ s \o r \in [1..Len(s \o r) -> S]
        /\ Len(s \o r) \in Nat
    BY <1>4, <1>5, LenProperties
  <1>7. IsList(s \o r)
    BY <1>6 DEF IsList
  <1>8. ASSUME NEW i \in DOMAIN s PROVE i \in DOMAIN (s \o r) /\ (s \o r)[i] = s[i]
    <2>1. i \in 1..(Len(s) + Len(r)) /\ i <= Len(s)
      BY <1>6
    <2> QED
      BY <1>5, <1>6, <2>1
  <1> QED
    BY <1>7, <1>8

\* The memory of a context over the values in D.
Memo(m, D) ==
    /\ m = [table |-> m.table, overflowed |-> m.overflowed, raced |-> m.raced,
            reported |-> m.reported, responseChannels |-> m.responseChannels]
    /\ m.overflowed \in BOOLEAN /\ m.raced \in BOOLEAN
    /\ DOMAIN m.table \subseteq D
    /\ \A v \in DOMAIN m.table : m.table[v] \in Taints /\ IsTainted(m.table[v])

\* After m, n knows the values of X by their new taints and the others as m did;
\* it has lost one only if it says so.
Takes(n, m, X, taints) ==
    /\ m.overflowed => n.overflowed
    /\ m.raced => n.raced
    /\ \A y \in DOMAIN n.table :
           IF y \in X THEN n.table[y] = taints[y]
           ELSE y \in DOMAIN m.table /\ n.table[y] = m.table[y]
    /\ ~n.raced /\ ~n.overflowed =>
           /\ \A y \in DOMAIN m.table : y \notin X => y \in DOMAIN n.table
           /\ \A y \in X : IsTainted(taints[y]) => y \in DOMAIN n.table

\* Tracking a value puts its taint in the table, or marks what it loses.
LEMMA TrackTakes ==
    ASSUME NEW D, NEW m, Memo(m, D), NEW x \in D, NEW taint \in Taints, NEW taints, taints[x] = taint
    PROVE  Memo(Track(m, x, taint), D) /\ Takes(Track(m, x, taint), m, {x}, taints)
  <1> DEFINE n == Track(m, x, taint)
  <1>0. /\ m = [table |-> m.table, overflowed |-> m.overflowed, raced |-> m.raced,
                reported |-> m.reported, responseChannels |-> m.responseChannels]
        /\ m.overflowed \in BOOLEAN /\ m.raced \in BOOLEAN
        /\ DOMAIN m.table \subseteq D
        /\ \A v \in DOMAIN m.table : m.table[v] \in Taints /\ IsTainted(m.table[v])
    BY DEF Memo
  <1>1. CASE ~IsTainted(taint)
    <2> DEFINE table == [y \in DOMAIN m.table \ {x} |-> m.table[y]]
    <2>1. n = [m EXCEPT !.table = table]
      BY <1>1 DEF Track
    <2>2. n = [table |-> table, overflowed |-> m.overflowed, raced |-> m.raced,
               reported |-> m.reported, responseChannels |-> m.responseChannels]
      <3> HIDE DEF table, n
      <3> QED BY <1>0, <2>1
    <2>3. /\ n.table = table /\ n.overflowed = m.overflowed /\ n.raced = m.raced
          /\ n.reported = m.reported /\ n.responseChannels = m.responseChannels
      BY <2>2
    <2>4. DOMAIN table = DOMAIN m.table \ {x} /\ \A y \in DOMAIN table : table[y] = m.table[y]
      OBVIOUS
    <2> HIDE DEF table, n
    <2>5. Memo(n, D)
      BY <1>0, <2>2, <2>3, <2>4 DEF Memo
    <2>6. Takes(n, m, {x}, taints)
      BY <1>1, <2>3, <2>4 DEF Takes
    <2> QED BY <2>5, <2>6 DEF n
  <1>2. CASE IsTainted(taint) /\ Cardinality(DOMAIN m.table) >= MaxTracked /\ x \notin DOMAIN m.table
    <2>1. n = [m EXCEPT !.overflowed = TRUE]
      BY <1>2 DEF Track
    <2>2. n = [table |-> m.table, overflowed |-> TRUE, raced |-> m.raced,
               reported |-> m.reported, responseChannels |-> m.responseChannels]
      <3> HIDE DEF n
      <3> QED BY <1>0, <2>1
    <2>3. /\ n.table = m.table /\ n.overflowed = TRUE /\ n.raced = m.raced
          /\ n.reported = m.reported /\ n.responseChannels = m.responseChannels
      BY <2>2
    <2> HIDE DEF n
    <2>4. Memo(n, D)
      BY <1>0, <2>2, <2>3 DEF Memo
    <2>5. Takes(n, m, {x}, taints)
      BY <1>2, <2>3 DEF Takes
    <2> QED BY <2>4, <2>5 DEF n
  <1>3. CASE IsTainted(taint) /\ ~(Cardinality(DOMAIN m.table) >= MaxTracked /\ x \notin DOMAIN m.table)
    <2> DEFINE table == [y \in DOMAIN m.table \cup {x} |-> IF y = x THEN taint ELSE m.table[y]]
    <2>1. n = [m EXCEPT !.table = table]
      BY <1>3 DEF Track
    <2>2. n = [table |-> table, overflowed |-> m.overflowed, raced |-> m.raced,
               reported |-> m.reported, responseChannels |-> m.responseChannels]
      <3> HIDE DEF table, n
      <3> QED BY <1>0, <2>1
    <2>3. /\ n.table = table /\ n.overflowed = m.overflowed /\ n.raced = m.raced
          /\ n.reported = m.reported /\ n.responseChannels = m.responseChannels
      BY <2>2
    <2>4. /\ DOMAIN table = DOMAIN m.table \cup {x} /\ table[x] = taint
          /\ \A y \in DOMAIN table : y # x => y \in DOMAIN m.table /\ table[y] = m.table[y]
      OBVIOUS
    <2> HIDE DEF table, n
    <2>5. Memo(n, D)
      BY <1>0, <1>3, <2>2, <2>3, <2>4 DEF Memo
    <2>6. Takes(n, m, {x}, taints)
      BY <1>3, <2>3, <2>4 DEF Takes
    <2> QED BY <2>5, <2>6 DEF n
  <1> QED BY <1>1, <1>2, <1>3

\* Tracking one set of values after another tracks both.
LEMMA TakesSteps ==
    ASSUME NEW m, NEW k, NEW n, NEW X, NEW Y, NEW taints, Takes(k, m, X, taints), Takes(n, k, Y, taints),
           k.overflowed \in BOOLEAN, k.raced \in BOOLEAN
    PROVE  Takes(n, m, X \cup Y, taints)
  <1>1. (m.overflowed => n.overflowed) /\ (m.raced => n.raced)
    BY DEF Takes
  <1>2. ASSUME NEW y \in DOMAIN n.table
        PROVE  IF y \in X \cup Y THEN n.table[y] = taints[y]
               ELSE y \in DOMAIN m.table /\ n.table[y] = m.table[y]
    <2>1. CASE y \in Y
      BY <2>1 DEF Takes
    <2>2. CASE y \notin Y
      <3>1. y \in DOMAIN k.table /\ n.table[y] = k.table[y]
        BY <2>2 DEF Takes
      <3>2. IF y \in X THEN k.table[y] = taints[y] ELSE y \in DOMAIN m.table /\ k.table[y] = m.table[y]
        BY <3>1 DEF Takes
      <3> QED BY <2>2, <3>1, <3>2
    <2> QED BY <2>1, <2>2
  <1>3. ASSUME ~n.raced, ~n.overflowed
        PROVE  /\ \A y \in DOMAIN m.table : y \notin X \cup Y => y \in DOMAIN n.table
               /\ \A y \in X \cup Y : IsTainted(taints[y]) => y \in DOMAIN n.table
    <2>1. ~k.raced /\ ~k.overflowed
      BY <1>3 DEF Takes
    <2>2. /\ \A y \in DOMAIN m.table : y \notin X => y \in DOMAIN k.table
          /\ \A y \in X : IsTainted(taints[y]) => y \in DOMAIN k.table
      BY <2>1 DEF Takes
    <2>3. /\ \A y \in DOMAIN k.table : y \notin Y => y \in DOMAIN n.table
          /\ \A y \in Y : IsTainted(taints[y]) => y \in DOMAIN n.table
      BY <1>3 DEF Takes
    <2> QED BY <2>2, <2>3
  <1> QED BY <1>1, <1>2, <1>3 DEF Takes

\* Two threads that write to the table at once may lose an entry.
Losing(k, lost) == [k EXCEPT !.table = [y \in DOMAIN @ \ {lost} |-> @[y]], !.raced = TRUE]

\* A race that loses entries is remembered as one.
LEMMA LosingTakes ==
    ASSUME NEW D, NEW m, NEW k, Memo(k, D), NEW X, NEW taints, Takes(k, m, X, taints), NEW lost
    PROVE  Memo(Losing(k, lost), D) /\ Takes(Losing(k, lost), m, X, taints)
  <1> DEFINE n == Losing(k, lost)
             table == [y \in DOMAIN k.table \ {lost} |-> k.table[y]]
  <1>0. /\ k = [table |-> k.table, overflowed |-> k.overflowed, raced |-> k.raced,
                reported |-> k.reported, responseChannels |-> k.responseChannels]
        /\ k.overflowed \in BOOLEAN /\ k.raced \in BOOLEAN
        /\ DOMAIN k.table \subseteq D
        /\ \A v \in DOMAIN k.table : k.table[v] \in Taints /\ IsTainted(k.table[v])
    BY DEF Memo
  <1>1. n = [k EXCEPT !.table = table, !.raced = TRUE]
    BY DEF Losing
  <1>2. n = [table |-> table, overflowed |-> k.overflowed, raced |-> TRUE,
             reported |-> k.reported, responseChannels |-> k.responseChannels]
    <2> HIDE DEF table, n
    <2> QED BY <1>0, <1>1
  <1>3. /\ n.table = table /\ n.overflowed = k.overflowed /\ n.raced = TRUE
        /\ n.reported = k.reported /\ n.responseChannels = k.responseChannels
    BY <1>2
  <1>4. DOMAIN table = DOMAIN k.table \ {lost} /\ \A y \in DOMAIN table : table[y] = k.table[y]
    OBVIOUS
  <1> HIDE DEF table, n
  <1>5. Memo(n, D)
    BY <1>0, <1>2, <1>3, <1>4 DEF Memo
  <1>6. Takes(n, m, X, taints)
    BY <1>3, <1>4 DEF Takes
  <1> QED BY <1>5, <1>6 DEF n

\* What Tracked says of one and of two values.
LEMMA TrackedSteps ==
    ASSUME NEW c, NEW new, NEW N \in 1..2, Len(new) = N, NEW n \in Tracked(c, new)
    PROVE  \E k : /\ k = IF N = 1 THEN Track(memory[c], new[1][1], new[1][2])
                         ELSE Track(Track(memory[c], new[1][1], new[1][2]), new[2][1], new[2][2])
                  /\ (n = k \/ \E lost : n = Losing(k, lost))
  <1> DEFINE m0 == memory[c]
             m1 == Track(m0, new[1][1], new[1][2])
             m2 == Track(m1, new[2][1], new[2][2])
             Body(h, i) == IF i = 0 THEN m0 ELSE Track(h[i - 1], new[i][1], new[i][2])
             F == CHOOSE h : h = [i \in 0..Len(new) |-> Body(h, i)]
             f == [i \in 0..N |-> IF i = 0 THEN m0 ELSE IF i = 1 THEN m1 ELSE m2]
  <1>1. /\ \A i \in 0..N : i = 0 \/ i = 1 \/ (i = 2 /\ N = 2)
        /\ 0 \in 0..N /\ 1 \in 0..N /\ (N = 2 => 2 \in 0..N) /\ (N = 1 \/ N = 2)
    OBVIOUS
  <1>2. F = [i \in 0..N |-> Body(F, i)]
    <2>1. ASSUME NEW i \in 0..N PROVE f[i] = Body(f, i)
      <3>1. f[0] = m0 /\ f[1] = m1
        BY <1>1
      <3>2. CASE i = 0
        BY <3>1, <3>2
      <3>3. CASE i = 1
        <4>1. i - 1 = 0 /\ i # 0
          BY <3>3
        <4> HIDE DEF f
        <4>2. Body(f, i) = Track(f[0], new[1][1], new[1][2])
          BY <3>3, <4>1
        <4> QED BY <3>1, <3>3, <4>2
      <3>4. CASE i = 2
        <4>1. i - 1 = 1 /\ i # 0 /\ i # 1
          BY <3>4
        <4>2. f[i] = m2
          BY <4>1
        <4> HIDE DEF f
        <4>3. Body(f, i) = Track(f[1], new[2][1], new[2][2])
          BY <3>4, <4>1
        <4> QED BY <3>1, <4>2, <4>3
      <3> QED BY <1>1, <3>2, <3>3, <3>4
    <2>2. f = [i \in 0..N |-> Body(f, i)]
      BY <2>1
    <2> HIDE DEF f, Body
    <2> QED BY <2>2
  <1> DEFINE k == F[Len(new)]
  <1>3. n = k \/ \E lost : n = Losing(k, lost)
    <2>1. Tracked(c, new) =
            {k} \cup {[k EXCEPT !.table = [x \in DOMAIN @ \ {lost} |-> @[x]], !.raced = TRUE] :
                        lost \in IF Shared(c) THEN DOMAIN k.table ELSE {}}
      BY Zenon DEF Tracked
    <2> HIDE DEF k
    <2>2. CASE n = k
      BY <2>2
    <2>3. CASE n # k
      <3>1. \E lost : n = [k EXCEPT !.table = [x \in DOMAIN @ \ {lost} |-> @[x]], !.raced = TRUE]
        BY <2>1, <2>3
      <3> QED BY <3>1 DEF Losing
    <2> QED BY <2>2, <2>3
  <1> HIDE DEF F
  <1>4. F[0] = m0 /\ F[1] = Track(F[0], new[1][1], new[1][2])
    <2>1. F[0] = Body(F, 0) /\ F[1] = Body(F, 1)
      BY <1>1, <1>2
    <2> QED BY <2>1
  <1>5. N = 2 => F[2] = Track(F[1], new[2][1], new[2][2])
    <2>1. N = 2 => F[2] = Body(F, 2)
      BY <1>1, <1>2
    <2> QED BY <2>1
  <1>6. k = IF N = 1 THEN m1 ELSE m2
    BY <1>1, <1>4, <1>5
  <1> QED BY <1>3, <1>6

\* A hook that tracks one or two values.
LEMMA TrackedTakes ==
    ASSUME NEW c, NEW D, Memo(memory[c], D), NEW new, NEW N \in 1..2, Len(new) = N,
           NEW taints, NEW X, X = {new[i][1] : i \in 1..N}, X \subseteq D,
           \A i \in 1..N : taints[new[i][1]] = new[i][2] /\ new[i][2] \in Taints,
           NEW n \in Tracked(c, new)
    PROVE  Memo(n, D) /\ Takes(n, memory[c], X, taints)
  <1> DEFINE x == new[1][1]
             y == new[2][1]
             s == new[1][2]
             r == new[2][2]
             m == memory[c]
             first == Track(m, x, s)
             second == Track(first, y, r)
  <1>1. N = 1 \/ N = 2
    OBVIOUS
  <1>2. x \in D /\ s \in Taints /\ taints[x] = s
    <2>1. 1 \in 1..N
      BY <1>1
    <2> QED BY <2>1
  <1>3. N = 2 => y \in D /\ r \in Taints /\ taints[y] = r
    <2>1. N = 2 => 2 \in 1..N
      OBVIOUS
    <2> QED BY <2>1
  <1>a. Len(new) = N /\ N \in 1..2 /\ n \in Tracked(c, new)
    OBVIOUS
  <1>b. \E k : /\ k = IF N = 1 THEN Track(memory[c], new[1][1], new[1][2])
                    ELSE Track(Track(memory[c], new[1][1], new[1][2]), new[2][1], new[2][2])
               /\ (n = k \/ \E lost : n = Losing(k, lost))
    BY <1>a, TrackedSteps, Zenon
  <1>4. PICK k : /\ k = IF N = 1 THEN first ELSE second
                 /\ (n = k \/ \E lost : n = Losing(k, lost))
    BY <1>b, Zenon
  <1>5. X = IF N = 1 THEN {x} ELSE {x, y}
    <2>1. CASE N = 1
      <3>1. 1..N = {1}
        BY <2>1
      <3> QED BY <2>1, <3>1
    <2>2. CASE N = 2
      <3>1. 1..N = {1, 2}
        BY <2>2
      <3> QED BY <2>2, <3>1
    <2> QED BY <1>1, <2>1, <2>2
  <1> HIDE DEF x, y, s, r, m
  <1>6. Memo(first, D) /\ Takes(first, m, {x}, taints)
    BY <1>2, TrackTakes DEF m
  <1> HIDE DEF first
  <1>7. N = 2 => Memo(second, D) /\ Takes(second, first, {y}, taints)
    BY <1>3, <1>6, TrackTakes
  <1> HIDE DEF second
  <1>8. Memo(k, D) /\ Takes(k, m, X, taints)
    <2>1. CASE N = 1
      BY <1>4, <1>5, <1>6, <2>1
    <2>2. CASE N = 2
      <3>1. {x} \cup {y} = X
        BY <1>5, <2>2
      <3>2. first.overflowed \in BOOLEAN /\ first.raced \in BOOLEAN
        BY <1>6 DEF Memo
      <3>3. Takes(second, m, {x} \cup {y}, taints)
        BY <1>6, <1>7, <2>2, <3>2, TakesSteps
      <3> QED BY <1>4, <1>7, <2>2, <3>1, <3>3
    <2> QED BY <1>1, <2>1, <2>2
  <1> QED BY <1>4, <1>8, LosingTakes DEF m

-----------------------------------------------------------------------------
(* What a context knows of the values                                       *)

\* What a value of the application is.
Value == [kind : {"string", "builder", "object"}, chars : Seq(Characters),
          seen : Nat, blurred : BOOLEAN]

\* The application data and the tables have their types.
DataTyped ==
    /\ agenda \in Agendas
    /\ values \in Seq(Value)
    /\ \A v \in DOMAIN values : values[v].seen = 0 \/ values[v].seen \in DOMAIN of
    /\ IsList(memory) /\ DOMAIN memory = DOMAIN of
    /\ \A c \in DOMAIN memory : Memo(memory[c], DOMAIN values)

\* What a value holds of the attacker is marked where its own request looks.
CaughtAt(v) == ~Blind(values[v].seen, v) => Caught(TaintOf(values[v].seen, v), Chars(v))

\* What a table says of a value is true of its characters.
BackedAt(c, v) ==
    (~memory[c].raced /\ c \notin strayed /\ v \in DOMAIN memory[c].table /\ ~values[v].blurred) =>
        /\ Backed(memory[c].table[v], Chars(v), of[c])
        /\ memory[c].table[v].imprecise \/ values[v].seen = c \/ values[v].seen = 0

\* The invariant behind both flow properties.
DataInv ==
    /\ DataTyped
    /\ \A v \in DOMAIN values : CaughtAt(v)
    /\ \A c \in DOMAIN memory : \A v \in DOMAIN values : BackedAt(c, v)

\* A list knows its length.
LEMMA ListLen == ASSUME NEW s, IsList(s) PROVE Len(s) \in Nat /\ DOMAIN s = 1..Len(s)
  <1>1. PICK n \in Nat : s = [i \in 1..n |-> s[i]]
    BY DEF IsList
  <1> DEFINE S == {s[i] : i \in 1..n}
  <1>2. s \in [1..n -> S]
    BY <1>1
  <1> HIDE DEF S
  <1>3. s \in Seq(S)
    BY <1>2
  <1> QED BY <1>3, LenProperties

\* A memory of fewer values is one of more.
LEMMA MemoGrows == ASSUME NEW m, NEW D, NEW E, D \subseteq E, Memo(m, D) PROVE Memo(m, E)
  BY DEF Memo

\* A taint that is not empty says something.
LEMMA TaintedSays ==
    ASSUME NEW t \in Taints, IsTainted(t)
    PROVE  \E i \in Nat : \E source, cleared : Says(Ranges(t), i, source, cleared)
  <1>1. Ranges(t) # {} /\ Ranges(t) \subseteq TaintRange
    BY TaintFacts
  <1>2. PICK r \in Ranges(t) : TRUE
    BY <1>1
  <1>3. r \in TaintRange
    BY <1>1
  <1>4. r.start \in Nat /\ Marks(r, r.start)
    BY <1>3, RangeFacts DEF Marks
  <1> QED BY <1>2, <1>4 DEF Says

\* Values that stay as they are stay known, if the tables lose none without saying so.
LEMMA ChangeKeeps ==
    ASSUME DataInv, of' = of, live' = live, strayed' = strayed, agenda' = agenda, NEW X, NEW taints,
           values' \in Seq(Value),
           \A v \in DOMAIN values : v \in DOMAIN values',
           \A v \in DOMAIN values' : v \notin X => v \in DOMAIN values /\ values'[v] = values[v],
           \A v \in X : values'[v].seen = 0 \/ values'[v].seen \in DOMAIN of,
           IsList(memory'), DOMAIN memory' = DOMAIN memory,
           \A c \in DOMAIN memory :
               /\ Memo(memory'[c], DOMAIN values')
               /\ memory'[c] = memory[c] \/ Takes(memory'[c], memory[c], X, taints),
           \A v \in X : CaughtAt(v)',
           \A c \in DOMAIN memory : \A v \in X : BackedAt(c, v)'
    PROVE  DataInv'
  <1>1. DataTyped'
    BY DEF DataInv, DataTyped
  <1>2. ASSUME NEW v \in DOMAIN values', v \notin X PROVE CaughtAt(v)'
    <2>1. v \in DOMAIN values /\ values'[v] = values[v]
      BY <1>2
    <2>2. CaughtAt(v)
      BY <2>1 DEF DataInv
    <2> DEFINE d == values[v].seen
    <2>3. d = 0 \/ d \in DOMAIN memory
      BY <2>1 DEF DataInv, DataTyped
    <2>4. SUFFICES ASSUME ~Blind(values[v].seen, v)' PROVE Caught(TaintOf(values[v].seen, v), Chars(v))'
      BY DEF CaughtAt
    <2>5. /\ d # 0 /\ d \in live /\ ~memory'[d].overflowed /\ ~memory'[d].raced /\ ~values[v].blurred
      BY <2>1, <2>4 DEF Blind
    <2>6. Memo(memory[d], DOMAIN values)
      BY <2>3, <2>5 DEF DataInv, DataTyped
    <2>7. memory'[d] = memory[d] \/ Takes(memory'[d], memory[d], X, taints)
      BY <2>3, <2>5
    <2>8. ~memory[d].overflowed /\ ~memory[d].raced
      BY <2>5, <2>6, <2>7 DEF Takes, Memo
    <2>9. /\ v \in DOMAIN memory'[d].table <=> v \in DOMAIN memory[d].table
          /\ v \in DOMAIN memory[d].table => memory'[d].table[v] = memory[d].table[v]
      BY <1>2, <2>5, <2>7 DEF Takes
    <2>10. TaintOf(values[v].seen, v)' = TaintOf(d, v)
      BY <2>1, <2>9 DEF TaintOf
    <2>11. ~Blind(d, v)
      BY <2>5, <2>8 DEF Blind
    <2>12. Caught(TaintOf(d, v), Chars(v)) /\ Chars(v)' = Chars(v)
      BY <2>1, <2>2, <2>11 DEF CaughtAt, Chars
    <2> QED BY <2>10, <2>12
  <1>3. ASSUME NEW c \in DOMAIN memory, NEW v \in DOMAIN values', v \notin X PROVE BackedAt(c, v)'
    <2>1. v \in DOMAIN values /\ values'[v] = values[v]
      BY <1>3
    <2>2. BackedAt(c, v)
      BY <2>1 DEF DataInv
    <2>3. memory'[c] = memory[c] \/ Takes(memory'[c], memory[c], X, taints)
      OBVIOUS
    <2>4. Memo(memory[c], DOMAIN values)
      BY DEF DataInv, DataTyped
    <2>5. ~memory'[c].raced => ~memory[c].raced
      BY <2>3, <2>4 DEF Takes, Memo
    <2>6. v \in DOMAIN memory'[c].table =>
              v \in DOMAIN memory[c].table /\ memory'[c].table[v] = memory[c].table[v]
      BY <1>3, <2>3 DEF Takes
    <2> QED BY <2>1, <2>2, <2>5, <2>6 DEF BackedAt, Chars
  <1> QED BY <1>1, <1>2, <1>3 DEF DataInv

\* A value of context c whose new taint is right.
Good(c, new, taint) ==
    /\ new \in Value /\ taint \in Taints
    /\ new.seen = c \/ new.seen = 0
    /\ (c # 0 /\ c \in live /\ ~memory[c].overflowed /\ ~memory[c].raced /\ new.seen = c /\ ~new.blurred)
           => Caught(taint, new.chars)
    /\ (c # 0 /\ c \notin strayed /\ ~memory[c].raced /\ ~new.blurred) => Backed(taint, new.chars, of[c])

\* A context is none or has a memory.
LEMMA ContextHasMemory ==
    ASSUME IInv, DataInv, NEW t \in Thread
    PROVE  /\ ctx[t] \in Nat
           /\ ctx[t] # 0 => /\ ctx[t] \in DOMAIN memory /\ ctx[t] \in DOMAIN of
                            /\ of[ctx[t]] = req[t] \/ ctx[t] \in strayed
                            /\ Memo(memory[ctx[t]], DOMAIN values)
  BY DEF IInv, Typed, ThreadsAtHome, Home, DataInv, DataTyped

\* A value whose table entry is its right taint is known.
LEMMA TakenIsKnown ==
    ASSUME of' = of, live' = live, strayed' = strayed, NEW c, c # 0, NEW X, NEW v \in X, NEW taints,
           Memo(memory[c], DOMAIN values), NEW D, Memo(memory'[c], D),
           Takes(memory'[c], memory[c], X, taints),
           Good(c, values'[v], taints[v])
    PROVE  CaughtAt(v)' /\ BackedAt(c, v)'
  <1>1. /\ ~memory'[c].raced => ~memory[c].raced
        /\ ~memory'[c].overflowed => ~memory[c].overflowed
        /\ v \in DOMAIN memory'[c].table => memory'[c].table[v] = taints[v]
        /\ (~memory'[c].raced /\ ~memory'[c].overflowed /\ IsTainted(taints[v])) => v \in DOMAIN memory'[c].table
    BY DEF Takes, Memo
  <1>2. CaughtAt(v)'
    <2>1. SUFFICES ASSUME ~Blind(values[v].seen, v)' PROVE Caught(TaintOf(values[v].seen, v), Chars(v))'
      BY DEF CaughtAt
    <2>2. /\ values'[v].seen = c /\ c \in live /\ ~memory'[c].overflowed /\ ~memory'[c].raced
          /\ ~values'[v].blurred
      BY <2>1 DEF Blind, Good
    <2>3. Caught(taints[v], values'[v].chars) /\ taints[v] \in Taints
      BY <1>1, <2>2 DEF Good
    <2>4. CASE v \in DOMAIN memory'[c].table
      <3>1. TaintOf(values[v].seen, v)' = taints[v]
        BY <1>1, <2>2, <2>4 DEF TaintOf
      <3> QED BY <2>3, <3>1 DEF Chars
    <2>5. CASE v \notin DOMAIN memory'[c].table
      <3>1. TaintOf(values[v].seen, v)' = Empty
        BY <2>2, <2>5 DEF TaintOf
      <3>2. Ranges(taints[v]) = {}
        BY <1>1, <2>2, <2>3, <2>5, TaintFacts
      <3>3. Ranges(Empty) = {}
        <4>1. Range(<< >>) = {}
          BY DEF Range
        <4> QED BY <4>1, EmptyIsNormal
      <3>4. Caught(Empty, values'[v].chars)
        BY <2>3, <3>2, <3>3 DEF Caught
      <3> QED BY <3>1, <3>4 DEF Chars
    <2> QED BY <2>4, <2>5
  <1>3. BackedAt(c, v)'
    BY <1>1 DEF BackedAt, Good, Chars
  <1> QED BY <1>2, <1>3

\* A hook that makes values keeps what is known.
LEMMA MakeHolds ==
    ASSUME IInv, DataInv, NEW t \in Thread, NEW N \in 1..2, NEW new \in Seq(Value), Len(new) = N,
           NEW taints, Make(t, new, taints),
           \A i \in 1..N : Good(ctx[t], new[i], taints[i])
    PROVE  DataInv'
  <1> PICK c : c = ctx[t]
    OBVIOUS
  <1>0. /\ c \in Nat
        /\ c # 0 => c \in DOMAIN memory /\ c \in DOMAIN of /\ Memo(memory[c], DOMAIN values)
    BY ContextHasMemory
  <1>1. /\ of' = of /\ live' = live /\ strayed' = strayed /\ agenda' = agenda
        /\ values' = values \o new
    BY DEF Make, lifecycle
  <1>2. values \in Seq(Value)
    BY DEF DataInv, DataTyped
  <1> PICK L \in Nat : L = Len(values)
    BY <1>2
  <1> DEFINE X == L + 1..L + N
             given == [x \in X |-> taints[x - L]]
  <1>3. /\ values' \in Seq(Value) /\ DOMAIN values = 1..L /\ DOMAIN values' = 1..L + N
        /\ \A v \in 1..L : values'[v] = values[v]
        /\ \A i \in 1..N : values'[L + i] = new[i]
    <2>1. Len(values') = L + N /\ values' \in Seq(Value)
      BY <1>1, <1>2
    <2>2. \A v \in 1..L : values'[v] = values[v]
      BY <1>1, <1>2
    <2>3. \A i \in 1..N : values'[L + i] = new[i]
      BY <1>1, <1>2
    <2> QED BY <1>2, <2>1, <2>2, <2>3
  <1>4. /\ \A v \in DOMAIN values : v \in DOMAIN values'
        /\ \A v \in DOMAIN values' : v \notin X => v \in DOMAIN values /\ values'[v] = values[v]
        /\ \A v \in X : v - L \in 1..N /\ v = L + (v - L) /\ v \notin DOMAIN values /\ v \in DOMAIN values'
    BY <1>3
  <1>5. ASSUME NEW v \in X PROVE values'[v] = new[v - L] /\ given[v] = taints[v - L] /\ Good(c, values'[v], given[v])
    BY <1>3, <1>4
  <1>6. \A v \in X : values'[v].seen = 0 \/ values'[v].seen \in DOMAIN of
    BY <1>0, <1>5 DEF Good
  <1>7. /\ IsList(memory) /\ \A e \in DOMAIN memory : Memo(memory[e], DOMAIN values) /\ e # 0
    <2>1. IsList(memory) /\ \A e \in DOMAIN memory : Memo(memory[e], DOMAIN values)
      BY DEF DataInv, DataTyped
    <2>2. 0 \notin DOMAIN memory
      BY <2>1, ListLen
    <2> QED BY <2>1, <2>2
  <1>8. DOMAIN values \subseteq DOMAIN values'
    BY <1>4
  <1>9. \A e \in DOMAIN memory : Memo(memory[e], DOMAIN values')
    BY <1>7, <1>8, MemoGrows
  <1>10. ASSUME NEW e \in DOMAIN memory, NEW v \in X, memory'[e] = memory[e]
         PROVE  BackedAt(e, v)'
    <2>1. v \notin DOMAIN memory'[e].table
      BY <1>4, <1>7, <1>10 DEF Memo
    <2> QED BY <2>1 DEF BackedAt
  <1>11. CASE c = 0
    <2>1. memory' = memory
      BY <1>11 DEF Make
    <2>2. \A v \in X : CaughtAt(v)'
      BY <1>5, <1>11 DEF CaughtAt, Blind, Good
    <2> HIDE DEF X, given
    <2> QED BY <1>1, <1>3, <1>4, <1>6, <1>7, <1>9, <1>10, <2>1, <2>2, ChangeKeeps
  <1>12. CASE c # 0
    <2> DEFINE tracked == [i \in 1..N |-> <<L + i, taints[i]>>]
    <2>1. DOMAIN new = 1..N
      OBVIOUS
    <2>2. PICK n \in Tracked(c, tracked) : memory' = [memory EXCEPT ![c] = n]
      BY <1>12, <2>1 DEF Make
    <2>3. \A i \in 1..N : tracked[i][1] = L + i /\ tracked[i][2] = taints[i]
      OBVIOUS
    <2>4. Len(tracked) = N
      <3>1. \A i \in 1..N : tracked[i] \in {tracked[j] : j \in 1..N}
        OBVIOUS
      <3> DEFINE S == {tracked[j] : j \in 1..N}
      <3>2. tracked \in [1..N -> S]
        BY <3>1
      <3> HIDE DEF tracked, S
      <3> QED BY <3>2
    <2>5. X = {tracked[i][1] : i \in 1..N}
      <3>1. {L + i : i \in 1..N} = X
        <4>1. \A i \in 1..N : L + i \in X
          OBVIOUS
        <4> HIDE DEF X
        <4> QED BY <1>4, <4>1
      <3> HIDE DEF tracked, X
      <3> QED BY <2>3, <3>1
    <2>6. \A i \in 1..N : given[tracked[i][1]] = tracked[i][2] /\ tracked[i][2] \in Taints
      <3>1. \A i \in 1..N : L + i \in X /\ (L + i) - L = i
        OBVIOUS
      <3>2. \A i \in 1..N : taints[i] \in Taints
        BY DEF Good
      <3> HIDE DEF tracked
      <3> QED BY <2>3, <3>1, <3>2
    <2>7. X \subseteq DOMAIN values' /\ Memo(memory[c], DOMAIN values')
      BY <1>0, <1>4, <1>9, <1>12
    <2> HIDE DEF X, given, tracked
    <2> PICK D : D = DOMAIN values'
      OBVIOUS
    <2>8. Memo(n, D) /\ Takes(n, memory[c], X, given)
      BY <2>4, <2>5, <2>6, <2>7, TrackedTakes
    <2>9. /\ IsList(memory') /\ DOMAIN memory' = DOMAIN memory /\ memory'[c] = n
          /\ \A e \in DOMAIN memory : e # c => memory'[e] = memory[e]
      <3>1. PICK k \in Nat : memory = [i \in 1..k |-> memory[i]]
        BY <1>7 DEF IsList
      <3>2. memory' = [i \in 1..k |-> IF i = c THEN n ELSE memory[i]]
        BY <2>2, <3>1
      <3>3. DOMAIN memory = 1..k /\ DOMAIN memory' = 1..k
        BY <3>1, <3>2
      <3>4. memory' = [i \in 1..k |-> memory'[i]]
        BY <3>2
      <3> QED BY <1>0, <1>12, <3>2, <3>3, <3>4 DEF IsList
    <2>10. \A v \in X : CaughtAt(v)' /\ BackedAt(c, v)'
      BY <1>0, <1>1, <1>5, <1>12, <2>8, <2>9, TakenIsKnown
    <2>11. \A e \in DOMAIN memory :
               /\ Memo(memory'[e], DOMAIN values')
               /\ memory'[e] = memory[e] \/ Takes(memory'[e], memory[e], X, given)
      BY <1>9, <2>8, <2>9
    <2>12. \A e \in DOMAIN memory : \A v \in X : BackedAt(e, v)'
      BY <1>10, <2>9, <2>10
    <2> QED BY <1>1, <1>3, <1>4, <1>6, <2>9, <2>10, <2>11, <2>12, ChangeKeeps
  <1> QED BY <1>11, <1>12

\* What a hook reads of a value.
LEMMA SourceTyped ==
    ASSUME IInv, DataInv, NEW t \in Thread, NEW v \in DOMAIN values
    PROVE  /\ values[v] \in Value /\ Chars(v) \in Seq(Characters) /\ Length(v) = Len(Chars(v))
           /\ Length(v) \in Nat
           /\ TaintOf(ctx[t], v) \in Taints
  <1>1. values[v] \in Value
    BY DEF DataInv, DataTyped
  <1>2. Chars(v) \in Seq(Characters)
    BY <1>1 DEF Value, Chars
  <1>3. Length(v) = Len(Chars(v)) /\ Length(v) \in Nat
    BY <1>2 DEF Length, Chars
  <1>4. TaintOf(ctx[t], v) \in Taints
    BY ContextHasMemory, EmptyIsBacked DEF TaintOf, Memo
  <1> QED BY <1>1, <1>2, <1>3, <1>4

\* A value made in sight of a context is right if it is when its sources are.
LEMMA MadeIsGood ==
    ASSUME IInv, DataInv, NEW t \in Thread, NEW kind \in {"string", "builder", "object"},
           NEW chars \in Seq(Characters), NEW from, from \subseteq DOMAIN values, NEW moved \in BOOLEAN,
           NEW taint \in Taints,
           (~moved /\ \A w \in from : Caught(TaintOf(ctx[t], w), Chars(w))) => Caught(taint, chars),
           (~moved /\ \A w \in from : Backed(TaintOf(ctx[t], w), Chars(w), req[t]))
               => Backed(taint, chars, req[t])
    PROVE  Good(ctx[t], Made(t, kind, chars, from, moved), taint)
  <1> DEFINE c == ctx[t]
             new == Made(t, kind, chars, from, moved)
  <1>0. /\ c \in Nat
        /\ c # 0 => /\ c \in DOMAIN memory /\ Memo(memory[c], DOMAIN values)
                    /\ of[c] = req[t] \/ c \in strayed
    BY ContextHasMemory
  <1>1. /\ new.kind = kind /\ new.chars = chars /\ new.seen = SeenBy(t, from)
        /\ new.blurred = (moved \/ \E w \in from : values[w].blurred)
    BY DEF Made
  <1>2. SeenBy(t, from) = c \/ SeenBy(t, from) = 0
    BY DEF SeenBy
  <1>3. new \in Value
    BY <1>0, <1>2 DEF Made, Value
  <1>4. ~new.blurred => ~moved /\ \A w \in from : ~values[w].blurred
    <2> HIDE DEF new
    <2> QED BY <1>1
  <1>5. ASSUME c # 0, c \in live, ~memory[c].overflowed, ~memory[c].raced, SeenBy(t, from) = c, ~new.blurred
        PROVE  Caught(taint, chars)
    <2>1. ASSUME NEW w \in from PROVE Caught(TaintOf(ctx[t], w), Chars(w))
      <3>1. OfProgram(w) \/ values[w].seen = c
        BY <1>5 DEF SeenBy
      <3>2. CASE OfProgram(w)
        <4>1. \A i \in 1..Len(Chars(w)) : Chars(w)[i].by = 0
          BY <3>2 DEF OfProgram, Length, Chars
        <4> QED BY <4>1 DEF Caught, Threatens
      <3>3. CASE values[w].seen = c
        <4>1. ~Blind(c, w)
          BY <1>4, <1>5, <3>3 DEF Blind
        <4>2. CaughtAt(w)
          BY DEF DataInv
        <4> QED BY <3>3, <4>1, <4>2 DEF CaughtAt
      <3> QED BY <3>1, <3>2, <3>3
    <2> QED BY <1>4, <1>5, <2>1
  <1>6. ASSUME c # 0, c \notin strayed, ~memory[c].raced, ~new.blurred
        PROVE  Backed(taint, chars, of[c])
    <2>1. ASSUME NEW w \in from PROVE Backed(TaintOf(ctx[t], w), Chars(w), req[t])
      <3>1. CASE w \in DOMAIN memory[c].table
        <4>1. BackedAt(c, w)
          BY <1>0, <1>6 DEF DataInv
        <4>2. TaintOf(ctx[t], w) = memory[c].table[w]
          BY <1>6, <3>1 DEF TaintOf
        <4> QED BY <1>0, <1>4, <1>6, <3>1, <4>1, <4>2 DEF BackedAt
      <3>2. CASE w \notin DOMAIN memory[c].table
        BY <3>2, EmptyIsBacked DEF TaintOf
      <3> QED BY <3>1, <3>2
    <2> QED BY <1>0, <1>4, <1>6, <2>1
  <1> HIDE DEF c, new
  <1> QED BY <1>1, <1>2, <1>3, <1>5, <1>6 DEF Good, c, new

\* A thread at work has a request, and goes back to one but for the outermost frame.
Working(s, r) == s # << >> => r # 0 /\ \A i \in 2..Len(s) : s[i].back # 0

\* No request is number 0.
Numbered ==
    /\ \A t \in Thread : Working(stack[t], req[t])
    /\ \A task \in tasks : task.req # 0
    /\ \A c \in DOMAIN of : of[c] # 0

\* A hook that edits a builder keeps what is known.
LEMMA MutateHolds ==
    ASSUME IInv, DataInv, Numbered, NEW t \in Thread, NEW b \in Builders, NEW method,
           NEW chars \in Seq(Characters), NEW from, from \subseteq DOMAIN values, NEW moved \in BOOLEAN,
           NEW taint \in Taints,
           Mutate(t, b, method, chars, from, moved, taint),
           method \in BuilderMethods \/ moved,
           (~moved /\ \A w \in from \cup {b} : Caught(TaintOf(ctx[t], w), Chars(w))) => Caught(taint, chars),
           (~moved /\ \A w \in from \cup {b} : Backed(TaintOf(ctx[t], w), Chars(w), req[t]))
               => Backed(taint, chars, req[t])
    PROVE  DataInv'
  <1> PICK c : c = ctx[t]
    OBVIOUS
  <1> PICK drifts \in BOOLEAN : drifts = (moved \/ Unwatched(t, b))
    OBVIOUS
  <1> PICK new : new = Made(t, "builder", chars, from \cup {b}, drifts)
    OBVIOUS
  <1>0. /\ c \in Nat
        /\ c # 0 => c \in DOMAIN memory /\ c \in DOMAIN of /\ Memo(memory[c], DOMAIN values)
    BY ContextHasMemory
  <1>1. /\ of' = of /\ live' = live /\ strayed' = strayed /\ agenda' = agenda
        /\ values' = [values EXCEPT ![b] = new]
    <2>1. new = Made(t, "builder", chars, from \cup {b}, moved \/ Unwatched(t, b))
      <3>1. CASE moved \/ Unwatched(t, b)
        <4>1. drifts = TRUE
          BY <3>1
        <4> QED BY <3>1, <4>1 DEF Made
      <3>2. CASE ~(moved \/ Unwatched(t, b))
        <4>1. drifts = FALSE
          BY <3>2
        <4> QED BY <3>2, <4>1 DEF Made
      <3> QED BY <3>1, <3>2
    <2> QED BY <2>1 DEF Mutate, lifecycle
  <1>2. b \in DOMAIN values /\ values \in Seq(Value)
    BY DEF Builders, DataInv, DataTyped
  <1>3. Good(c, new, taint)
    <2>1. from \cup {b} \subseteq DOMAIN values
      BY <1>2
    <2> PICK all : all = from \cup {b}
      OBVIOUS
    <2> QED BY <2>1, MadeIsGood
  <1>4. /\ values' \in Seq(Value) /\ DOMAIN values' = DOMAIN values /\ values'[b] = new
        /\ \A v \in DOMAIN values : v # b => values'[v] = values[v]
    BY <1>1, <1>2, <1>3 DEF Good
  <1>5. new.seen = 0 \/ new.seen \in DOMAIN of
    BY <1>0, <1>3 DEF Good
  <1>6. /\ IsList(memory) /\ \A e \in DOMAIN memory : Memo(memory[e], DOMAIN values) /\ e # 0 /\ of[e] # 0
    <2>1. IsList(memory) /\ \A e \in DOMAIN memory : Memo(memory[e], DOMAIN values) /\ e \in DOMAIN of
      BY DEF DataInv, DataTyped
    <2>2. 0 \notin DOMAIN memory
      BY <2>1, ListLen
    <2> QED BY <2>1, <2>2 DEF Numbered
  <1>7. new.blurred = (drifts \/ \E w \in from \cup {b} : values[w].blurred)
    BY DEF Made
  <1>8. ASSUME NEW e \in DOMAIN memory, memory'[e] = memory[e], e # c \/ moved
        PROVE  BackedAt(e, b)'
    <2>1. SUFFICES ASSUME ~memory[e].raced, e \notin strayed, b \in DOMAIN memory[e].table, ~new.blurred
                   PROVE  /\ Backed(memory[e].table[b], Chars(b)', of[e])
                          /\ memory[e].table[b].imprecise
      BY <1>1, <1>4, <1>8 DEF BackedAt, Chars
    <2>2. ~moved /\ ~Unwatched(t, b) /\ ~values[b].blurred
      BY <1>7, <2>1
    <2>3. e # c
      BY <1>8, <2>2
    <2>4. BackedAt(e, b)
      BY <1>2 DEF DataInv
    <2> DEFINE s == memory[e].table[b]
    <2>5. /\ Backed(s, Chars(b), of[e])
          /\ s.imprecise \/ values[b].seen = e \/ values[b].seen = 0
      BY <2>1, <2>2, <2>4 DEF BackedAt
    <2>6. s \in Taints /\ IsTainted(s)
      BY <1>6, <2>1 DEF Memo
    <2> HIDE DEF s
    <2>7. ASSUME ~s.imprecise PROVE FALSE
      <3>1. PICK i \in Nat : \E source, cleared : Says(Ranges(s), i, source, cleared)
        BY <2>6, TaintedSays
      <3>2. i + 1 <= Len(Chars(b)) /\ Chars(b)[i + 1].by = of[e]
        BY <2>5, <2>7, <3>1 DEF Backed
      <3>3. i + 1 \in 1..Length(b) /\ Chars(b)[i + 1].by # 0
        <4>1. Len(Chars(b)) \in Nat /\ Length(b) = Len(Chars(b))
          BY <1>2, SourceTyped
        <4> QED BY <1>6, <3>2, <4>1
      <3>4. ~OfProgram(b)
        BY <3>3 DEF OfProgram
      <3>5. c # 0 /\ values[b].seen = c
        BY <2>2, <3>4 DEF Unwatched
      <3> QED BY <2>3, <2>5, <2>7, <3>5, <1>6
    <2> QED BY <2>7 DEF Backed, s
  <1>9. CASE c = 0 \/ method \notin BuilderMethods
    <2>1. memory' = memory
      BY <1>9 DEF Mutate
    <2>2. CaughtAt(b)'
      <3>1. CASE c = 0
        BY <1>3, <1>4, <3>1 DEF Good, CaughtAt, Blind
      <3>2. CASE moved
        <4>1. new.blurred
          BY <1>7, <3>2
        <4> QED BY <1>4, <4>1 DEF CaughtAt, Blind
      <3> QED BY <1>9, <3>1, <3>2
    <2>3. \A e \in DOMAIN memory : BackedAt(e, b)'
      BY <1>6, <1>8, <1>9, <2>1
    <2> PICK X : X = {b}
      OBVIOUS
    <2>4. \A v \in X : v = b
      OBVIOUS
    <2>5. /\ \A v \in DOMAIN values : v \in DOMAIN values'
          /\ \A v \in DOMAIN values' : v \notin X => v \in DOMAIN values /\ values'[v] = values[v]
      BY <1>4
    <2>6. \A v \in X : values'[v].seen = 0 \/ values'[v].seen \in DOMAIN of
      BY <1>4, <1>5, <2>4
    <2>7. /\ IsList(memory') /\ DOMAIN memory' = DOMAIN memory
          /\ \A e \in DOMAIN memory : Memo(memory'[e], DOMAIN values') /\ memory'[e] = memory[e]
      BY <1>4, <1>6, <2>1
    <2>8. /\ \A v \in X : CaughtAt(v)'
          /\ \A e \in DOMAIN memory : \A v \in X : BackedAt(e, v)'
      BY <2>2, <2>3, <2>4
    <2> QED BY <1>1, <1>4, <2>5, <2>6, <2>7, <2>8, ChangeKeeps
  <1>10. CASE c # 0 /\ method \in BuilderMethods
    <2> DEFINE tracked == << <<b, taint>> >>
               X == {b}
               given == [x \in X |-> taint]
    <2>1. PICK n \in Tracked(c, tracked) : memory' = [memory EXCEPT ![c] = n]
      BY <1>10 DEF Mutate
    <2>2. Len(tracked) = 1 /\ tracked[1][1] = b /\ tracked[1][2] = taint /\ 1 \in 1..2 /\ 1..1 = {1}
      OBVIOUS
    <2>3. X = {tracked[i][1] : i \in 1..1} /\ X \subseteq DOMAIN values /\ given[b] = taint /\ b \in X
          /\ \A v \in X : v = b
      BY <1>2, <2>2
    <2> HIDE DEF tracked, X, given
    <2>4. \A i \in 1..1 : given[tracked[i][1]] = tracked[i][2] /\ tracked[i][2] \in Taints
      BY <2>2, <2>3
    <2> PICK D : D = DOMAIN values
      OBVIOUS
    <2>5. Memo(memory[c], D)
      BY <1>0, <1>10
    <2>6. Memo(n, D) /\ Takes(n, memory[c], X, given)
      BY <2>2, <2>3, <2>4, <2>5, TrackedTakes
    <2>7. /\ IsList(memory') /\ DOMAIN memory' = DOMAIN memory /\ memory'[c] = n
          /\ \A e \in DOMAIN memory : e # c => memory'[e] = memory[e]
      <3>1. PICK k \in Nat : memory = [i \in 1..k |-> memory[i]]
        BY <1>6 DEF IsList
      <3>2. memory' = [i \in 1..k |-> IF i = c THEN n ELSE memory[i]]
        BY <2>1, <3>1
      <3>3. DOMAIN memory = 1..k /\ DOMAIN memory' = 1..k
        BY <3>1, <3>2
      <3>4. memory' = [i \in 1..k |-> memory'[i]]
        BY <3>2
      <3> QED BY <1>0, <1>10, <3>2, <3>3, <3>4 DEF IsList
    <2>8. CaughtAt(b)' /\ BackedAt(c, b)'
      BY <1>0, <1>1, <1>3, <1>4, <1>10, <2>3, <2>6, <2>7, TakenIsKnown
    <2>9. \A e \in DOMAIN memory :
               /\ Memo(memory'[e], DOMAIN values')
               /\ memory'[e] = memory[e] \/ Takes(memory'[e], memory[e], X, given)
      BY <1>4, <1>6, <2>6, <2>7
    <2>10. \A e \in DOMAIN memory : BackedAt(e, b)'
      BY <1>8, <2>7, <2>8
    <2>11. /\ \A v \in DOMAIN values' : v \notin X => v \in DOMAIN values /\ values'[v] = values[v]
           /\ \A v \in X : values'[v].seen = 0 \/ values'[v].seen \in DOMAIN of
           /\ \A v \in X : CaughtAt(v)'
           /\ \A e \in DOMAIN memory : \A v \in X : BackedAt(e, v)'
      BY <1>4, <1>5, <2>3, <2>8, <2>10
    <2> QED BY <1>1, <1>4, <2>7, <2>9, <2>11, ChangeKeeps
  <1> QED BY <1>9, <1>10

\* The inductive invariant of the flows.
FlowInv == IInv /\ Numbered /\ DataInv

\* A hook that makes one value.
LEMMA MakeOneHolds ==
    ASSUME IInv, DataInv, NEW t \in Thread, NEW kind \in {"string", "builder", "object"},
           NEW chars \in Seq(Characters), NEW from, from \subseteq DOMAIN values, NEW moved \in BOOLEAN,
           NEW taint \in Taints,
           Make(t, <<Made(t, kind, chars, from, moved)>>, <<taint>>),
           (~moved /\ \A w \in from : Caught(TaintOf(ctx[t], w), Chars(w))) => Caught(taint, chars),
           (~moved /\ \A w \in from : Backed(TaintOf(ctx[t], w), Chars(w), req[t]))
               => Backed(taint, chars, req[t])
    PROVE  DataInv'
  <1> PICK one : one = Made(t, kind, chars, from, moved)
    OBVIOUS
  <1>1. Good(ctx[t], one, taint)
    BY MadeIsGood
  <1> DEFINE new == <<one>>
             taints == <<taint>>
  <1>2. new \in Seq(Value) /\ Len(new) = 1 /\ new[1] = one /\ taints[1] = taint
    BY <1>1 DEF Good
  <1>3. Make(t, new, taints)
    OBVIOUS
  <1>4. 1 \in 1..2 /\ \A i \in 1..1 : i = 1
    OBVIOUS
  <1> HIDE DEF new, taints
  <1> QED BY <1>1, <1>2, <1>3, <1>4, MakeHolds

\* The tables of the hooks name sources and rule classes.
LEMMA TablesAreTyped ==
    /\ \A accessor \in DOMAIN Accessors : Accessors[accessor] \in Source
    /\ "BODY" \in Source /\ "PARAMETER" \in Source
    /\ \A encoder \in DOMAIN Clears : Clears[encoder] \in Seq(RuleClass)
    /\ \A advice \in DOMAIN StringSinks : StringSinks[advice] \in RuleClass
    /\ "REFLECTED_XSS" \in RuleClass
  <1>1. \A accessor \in DOMAIN Accessors : Accessors[accessor] \in Source
    BY FlowAssumption DEF Accessors, SourceKindOf, SourceEnumerations, CookieAccessors, Joined, SourceKinds
  <1>2. "BODY" \in Source /\ "PARAMETER" \in Source
    BY FlowAssumption DEF SourceKinds
  <1>3. \A encoder \in DOMAIN Clears : Clears[encoder] \in Seq(RuleClass)
    <2>1. \A encoder \in DOMAIN Clears :
              encoder = "onUrlEncoded" \/ encoder = "onHtmlEscaped" \/ encoder = "onQueryEncoded"
      BY DEF Clears
    <2>2. /\ Clears["onUrlEncoded"] = <<"OPEN_REDIRECT", "HEADER_INJECTION", "SSRF">>
          /\ Clears["onHtmlEscaped"] = <<"REFLECTED_XSS">>
          /\ Clears["onQueryEncoded"] = <<"LDAP_INJECTION", "XPATH_INJECTION">>
      BY DEF Clears
    <2>3. \A x, y, z \in RuleClass : /\ <<x>> \in Seq(RuleClass) /\ <<x, y>> \in Seq(RuleClass)
                                   /\ <<x, y, z>> \in Seq(RuleClass)
      OBVIOUS
    <2>4. /\ "OPEN_REDIRECT" \in RuleClass /\ "HEADER_INJECTION" \in RuleClass /\ "SSRF" \in RuleClass
          /\ "REFLECTED_XSS" \in RuleClass /\ "LDAP_INJECTION" \in RuleClass
          /\ "XPATH_INJECTION" \in RuleClass
      BY FlowAssumption DEF RuleClasses
    <2>5. /\ <<"OPEN_REDIRECT", "HEADER_INJECTION", "SSRF">> \in Seq(RuleClass)
          /\ <<"REFLECTED_XSS">> \in Seq(RuleClass)
          /\ <<"LDAP_INJECTION", "XPATH_INJECTION">> \in Seq(RuleClass)
      BY <2>3, <2>4
    <2> QED BY <2>1, <2>2, <2>5
  <1>4. \A advice \in DOMAIN StringSinks : StringSinks[advice] \in RuleClass
    BY FlowAssumption DEF StringSinks, CoreSinks, InterfaceSinks, Joined, RuleClasses
  <1>5. "REFLECTED_XSS" \in RuleClass
    BY FlowAssumption DEF RuleClasses
  <1> QED BY <1>1, <1>2, <1>3, <1>4, <1>5

\* A fresh character is as it was written, cleared for nothing.
LEMMA CharFacts ==
    ASSUME NEW by \in Nat, NEW source \in Source, NEW h \in BOOLEAN, NEW b \in BOOLEAN
    PROVE  /\ Char(by, source, h, b) \in Characters
           /\ Char(by, source, h, b).by = by /\ Char(by, source, h, b).source = source
           /\ Char(by, source, h, b).cleared = {}
  BY DEF Char, Characters

\* What a source returns is marked as what it is.
LEMMA ReadHolds ==
    ASSUME FlowInv, NEW t \in Thread, NEW accessor \in DOMAIN Accessors, NEW text \in agenda.texts,
           Read(t, accessor, text)
    PROVE  DataInv'
  <1> PICK kind : kind = Accessors[accessor]
    OBVIOUS
  <1> PICK q \in Nat : q = req[t]
    BY DEF FlowInv, IInv, Typed
  <1>1. kind \in Source
    BY TablesAreTyped
  <1>2. text \in Seq(BOOLEAN)
    BY FlowAssumption DEF FlowInv, DataInv, DataTyped
  <1> DEFINE chars == [i \in DOMAIN text |-> Char(q, kind, text[i], FALSE)]
             taint == FullyTainted(Len(text), kind)
  <1>3. /\ chars \in Seq(Characters) /\ Len(chars) = Len(text)
        /\ \A i \in 1..Len(chars) : chars[i].by = q /\ chars[i].source = kind /\ chars[i].cleared = {}
    <2>1. DOMAIN text = 1..Len(text) /\ Len(text) \in Nat /\ \A i \in DOMAIN text : text[i] \in BOOLEAN
      BY <1>2
    <2>2. \A i \in DOMAIN text : chars[i] = Char(q, kind, text[i], FALSE)
      OBVIOUS
    <2>3. chars \in [1..Len(text) -> Characters]
      BY <1>1, <2>1, CharFacts
    <2>4. chars \in Seq(Characters) /\ Len(chars) = Len(text)
      <3> HIDE DEF chars
      <3> QED BY <2>1, <2>3
    <2>5. \A i \in DOMAIN text : /\ chars[i].by = q /\ chars[i].source = kind
                                 /\ chars[i].cleared = {}
      <3> HIDE DEF chars
      <3> TAKE i \in DOMAIN text
      <3>1. chars[i] = Char(q, kind, text[i], FALSE)
        BY <2>2
      <3> QED BY <3>1 DEF Char
    <2> HIDE DEF chars
    <2> QED BY <2>1, <2>4, <2>5
  <1>4. Make(t, <<Made(t, "string", chars, {}, FALSE)>>, <<taint>>)
    BY DEF Read
  <1> HIDE DEF chars
  <1>5. taint \in Taints /\ Caught(taint, chars) /\ Backed(taint, chars, q)
    BY <1>1, <1>3, FullyTaintedFacts
  <1> HIDE DEF taint
  <1> QED BY <1>3, <1>4, <1>5, MakeOneHolds DEF FlowInv

\* A body is marked at its first character only, and says so.
LEMMA ReadBodyHolds ==
    ASSUME FlowInv, NEW t \in Thread, NEW text \in agenda.texts, ReadBody(t, text)
    PROVE  DataInv'
  <1> PICK q \in Nat : q = req[t]
    BY DEF FlowInv, IInv, Typed
  <1>1. "BODY" \in Source
    BY TablesAreTyped
  <1>2. text \in Seq(BOOLEAN)
    BY FlowAssumption DEF FlowInv, DataInv, DataTyped
  <1> DEFINE chars == [i \in DOMAIN text |-> Char(q, "BODY", text[i], FALSE)]
             one == Char(q, "BODY", FALSE, FALSE)
             x == <<one>>
             mark == FullyTainted(1, "BODY")
             taint == Reshaped(mark, 1)
  <1>3. chars \in Seq(Characters)
    <2>1. DOMAIN text = 1..Len(text) /\ Len(text) \in Nat /\ \A i \in DOMAIN text : text[i] \in BOOLEAN
      BY <1>2
    <2>3. chars \in [1..Len(text) -> Characters]
      BY <1>1, <2>1, CharFacts
    <2> HIDE DEF chars
    <2> QED BY <2>1, <2>3
  <1>4. Make(t, <<Made(t, "object", chars, {}, TRUE)>>, <<taint>>)
    BY DEF ReadBody
  <1>5. /\ x \in Seq(Characters) /\ Len(x) = 1
        /\ \A i \in 1..Len(x) : x[i].by = q /\ x[i].source = "BODY" /\ x[i].cleared = {}
    <2>1. one \in Characters /\ one.by = q /\ one.source = "BODY" /\ one.cleared = {}
      BY <1>1 DEF Char, Characters
    <2> HIDE DEF one
    <2>2. x \in Seq(Characters) /\ Len(x) = 1 /\ x[1] = one /\ \A i \in 1..Len(x) : i = 1
      BY <2>1
    <2> QED BY <2>1, <2>2
  <1> HIDE DEF chars, x, mark
  <1>6. mark \in Taints
    BY <1>1, <1>5, FullyTaintedFacts DEF mark
  <1>7. taint \in Taints
    BY <1>5, <1>6, RewriteFacts
  <1> HIDE DEF taint
  <1> QED BY <1>3, <1>4, <1>7, MakeOneHolds DEF FlowInv

\* A list of one has what it was made of.
LEMMA ListOfOne ==
    ASSUME NEW T, NEW x \in T
    PROVE  <<x>> \in Seq(T) /\ Len(<<x>>) = 1 /\ <<x>>[1] = x
  OBVIOUS

\* A literal of the program carries nothing of a request.
LEMMA LiteralHolds ==
    ASSUME FlowInv, NEW t \in Thread, NEW h \in BOOLEAN, NEW b \in BOOLEAN, Literal(t, h, b)
    PROVE  DataInv'
  <1> DEFINE one == Char(0, "PARAMETER", h, b)
             chars == <<one>>
  <1>1. chars \in Seq(Characters) /\ Len(chars) = 1 /\ chars[1].by = 0 /\ \A i \in 1..Len(chars) : i = 1
    <2>1. one \in Characters /\ one.by = 0
      <3>1. "PARAMETER" \in Source
        BY TablesAreTyped
      <3>2. 0 \in Nat
        OBVIOUS
      <3> QED BY <3>1, <3>2, CharFacts
    <2> HIDE DEF one
    <2>2. <<one>> \in Seq(Characters) /\ Len(<<one>>) = 1 /\ <<one>>[1] = one
      BY <2>1, ListOfOne
    <2>3. \A i \in 1..1 : i = 1
      OBVIOUS
    <2> QED BY <2>1, <2>2, <2>3
  <1>2. Make(t, <<Made(t, "string", chars, {}, FALSE)>>, <<Empty>>)
    BY DEF Literal
  <1> HIDE DEF chars
  <1>3. Caught(Empty, chars)
    BY <1>1 DEF Caught, Threatens
  <1> QED BY <1>1, <1>2, <1>3, EmptyIsBacked, MakeOneHolds DEF FlowInv

-----------------------------------------------------------------------------
\* Each way of building, cutting, decoding and escaping values keeps the data invariant: + and concat,
LEMMA ConcatHolds ==
    ASSUME FlowInv, NEW t \in Thread, NEW l \in DOMAIN values, NEW r \in DOMAIN values, ConcatOf(t, l, r)
    PROVE  DataInv'
  <1> PICK a, b, s, u : a = Chars(l) /\ b = Chars(r) /\ s = TaintOf(ctx[t], l) /\ u = TaintOf(ctx[t], r)
    OBVIOUS
  <1> DEFINE taint == Concat(s, Len(a), u)
             chars == a \o b
             from == {l, r}
  <1>1. /\ a \in Seq(Characters) /\ b \in Seq(Characters) /\ s \in Taints /\ u \in Taints
        /\ Length(l) = Len(a)
    BY SourceTyped DEF FlowInv
  <1>2. chars \in Seq(Characters)
    BY <1>1
  <1>3. Make(t, <<Made(t, "string", chars, from, FALSE)>>, <<taint>>)
    BY <1>1 DEF ConcatOf
  <1>4. from \subseteq DOMAIN values /\ l \in from /\ r \in from
    OBVIOUS
  <1>5. /\ taint \in Taints
        /\ Caught(s, a) /\ Caught(u, b) => Caught(taint, chars)
        /\ \A q : Backed(s, a, q) /\ Backed(u, b, q) => Backed(taint, chars, q)
    BY <1>1, ConcatFacts
  <1> HIDE DEF taint, chars, from
  <1>6. /\ (\A w \in from : Caught(TaintOf(ctx[t], w), Chars(w))) => Caught(taint, chars)
        /\ (\A w \in from : Backed(TaintOf(ctx[t], w), Chars(w), req[t])) => Backed(taint, chars, req[t])
    BY <1>4, <1>5
  <1> QED BY <1>2, <1>3, <1>4, <1>5, <1>6, MakeOneHolds DEF FlowInv

\* invokedynamic concatenation, within the operands it watches and beyond them,
LEMMA IndyHolds ==
    ASSUME FlowInv, NEW t \in Thread, NEW l \in DOMAIN values, NEW r \in DOMAIN values,
           NEW operands, IndyConcat(t, l, r, operands)
    PROVE  DataInv'
  <1> PICK a, b, s, u : a = Chars(l) /\ b = Chars(r) /\ s = TaintOf(ctx[t], l) /\ u = TaintOf(ctx[t], r)
    OBVIOUS
  <1> DEFINE one == Char(0, "PARAMETER", FALSE, FALSE)
             x == <<one>>
             first == Concat(Empty, 0, s)
             ax == a \o x
             chars == ax \o b
             told == Concat(first, Len(a) + 1, u)
             from == {l, r}
  <1> PICK moved \in BOOLEAN : moved = ~(operands <= MaxConcatArguments)
    OBVIOUS
  <1> DEFINE taint == IF moved THEN Empty ELSE told
  <1>1. /\ a \in Seq(Characters) /\ b \in Seq(Characters) /\ s \in Taints /\ u \in Taints
        /\ Length(l) = Len(a)
    BY SourceTyped DEF FlowInv
  <1>2. x \in Seq(Characters) /\ Len(x) = 1 /\ \A i \in 1..Len(x) : x[i].by = 0
    <2>1. one \in Characters /\ one.by = 0
      <3>1. "PARAMETER" \in Source
        BY TablesAreTyped
      <3>2. 0 \in Nat
        OBVIOUS
      <3> QED BY <3>1, <3>2, CharFacts
    <2> HIDE DEF one
    <2>2. x \in Seq(Characters) /\ Len(x) = 1 /\ x[1] = one /\ \A i \in 1..Len(x) : i = 1
      BY <2>1
    <2> QED BY <2>1, <2>2
  <1>3. Make(t, <<Made(t, "string", chars, from, moved)>>, <<taint>>)
    <2>1. Make(t, <<Made(t, "string", chars, from, ~(operands <= MaxConcatArguments))>>,
                  <<IF operands <= MaxConcatArguments THEN told ELSE Empty>>)
      BY <1>1 DEF IndyConcat
    <2> HIDE DEF chars, from, told
    <2>2. CASE operands <= MaxConcatArguments
      <3>1. moved = FALSE /\ (~(operands <= MaxConcatArguments)) = FALSE /\ taint = told
        BY <2>2
      <3> QED BY <2>1, <2>2, <3>1
    <2>3. CASE ~(operands <= MaxConcatArguments)
      <3>1. moved = TRUE /\ (~(operands <= MaxConcatArguments)) = TRUE /\ taint = Empty
        BY <2>3
      <3> QED BY <2>1, <2>3, <3>1
    <2> QED BY <2>2, <2>3
  <1>4. from \subseteq DOMAIN values /\ l \in from /\ r \in from
    OBVIOUS
  <1> HIDE DEF one, x, from
  <1>5. ax \in Seq(Characters) /\ Len(ax) = Len(a) + 1
    <2>1. ax \in Seq(Characters) /\ Len(ax) = Len(a) + Len(x)
      BY <1>1, <1>2, ConcatProperties
    <2> QED BY <1>2, <2>1
  <1>6. chars \in Seq(Characters)
    <2> HIDE DEF ax
    <2> QED BY <1>1, <1>5
  <1> DEFINE e == << >>
  <1>7. e \in Seq(Characters) /\ Len(e) = 0 /\ e \o a = a
    BY <1>1
  <1>8. Caught(Empty, e) /\ Empty \in Taints /\ \A q : Backed(Empty, e, q)
    BY <1>7, EmptyIsBacked DEF Caught
  <1> HIDE DEF e
  <1>9. /\ first \in Taints
        /\ Caught(s, a) => Caught(first, a)
        /\ \A q : Backed(s, a, q) => Backed(first, a, q)
    <2> PICK empty : empty = Empty
      OBVIOUS
    <2>1. /\ Concat(empty, Len(e), s) \in Taints
          /\ Caught(empty, e) /\ Caught(s, a) => Caught(Concat(empty, Len(e), s), e \o a)
          /\ \A q : Backed(empty, e, q) /\ Backed(s, a, q) => Backed(Concat(empty, Len(e), s), e \o a, q)
      BY <1>1, <1>7, <1>8, ConcatFacts
    <2> QED BY <1>7, <1>8, <2>1
  <1> HIDE DEF first
  <1>10. /\ Caught(first, a) => Caught(first, ax)
         /\ \A q : Backed(first, a, q) => Backed(first, ax, q)
    BY <1>1, <1>2, <1>9, AddedFacts
  <1> HIDE DEF ax
  <1>11. /\ told \in Taints
         /\ Caught(first, ax) /\ Caught(u, b) => Caught(told, chars)
         /\ \A q : Backed(first, ax, q) /\ Backed(u, b, q) => Backed(told, chars, q)
    <2>1. /\ Concat(first, Len(ax), u) \in Taints
          /\ Caught(first, ax) /\ Caught(u, b) => Caught(Concat(first, Len(ax), u), ax \o b)
          /\ \A q : Backed(first, ax, q) /\ Backed(u, b, q) => Backed(Concat(first, Len(ax), u), ax \o b, q)
      BY <1>1, <1>5, <1>9, ConcatFacts
    <2> QED BY <1>5, <2>1
  <1> HIDE DEF told, chars
  <1>12. /\ (\A w \in from : Caught(TaintOf(ctx[t], w), Chars(w))) => Caught(told, chars)
         /\ (\A w \in from : Backed(TaintOf(ctx[t], w), Chars(w), req[t])) => Backed(told, chars, req[t])
    BY <1>4, <1>9, <1>10, <1>11
  <1>13. taint \in Taints /\ (~moved => taint = told)
    BY <1>8, <1>11
  <1> HIDE DEF taint
  <1>14. /\ (~moved /\ \A w \in from : Caught(TaintOf(ctx[t], w), Chars(w))) => Caught(taint, chars)
         /\ (~moved /\ \A w \in from : Backed(TaintOf(ctx[t], w), Chars(w), req[t]))
                => Backed(taint, chars, req[t])
    BY <1>12, <1>13
  <1> QED BY <1>3, <1>4, <1>6, <1>13, <1>14, MakeOneHolds DEF FlowInv

\* substring,
LEMMA SubstringHolds ==
    ASSUME FlowInv, NEW t \in Thread, NEW v \in DOMAIN values,
           NEW low \in 0..Length(v), NEW to \in low..Length(v), SubstringOf(t, v, low, to)
    PROVE  DataInv'
  <1> PICK a, s : a = Chars(v) /\ s = TaintOf(ctx[t], v)
    OBVIOUS
  <1> DEFINE taint == Substring(s, low, to)
             chars == SubSeq(a, low + 1, to)
             from == {v}
  <1>1. a \in Seq(Characters) /\ s \in Taints /\ Length(v) = Len(a)
    BY SourceTyped DEF FlowInv
  <1>2. Make(t, <<Made(t, "string", chars, from, FALSE)>>, <<taint>>)
    BY <1>1 DEF SubstringOf
  <1>3. from \subseteq DOMAIN values /\ v \in from
    OBVIOUS
  <1>4. low \in 0..Len(a) /\ to \in low..Len(a)
    BY <1>1
  <1>5. chars \in Seq(Characters)
    BY <1>1, <1>4, PartOf
  <1>6. /\ taint \in Taints
        /\ Caught(s, a) => Caught(taint, chars)
        /\ \A q : Backed(s, a, q) => Backed(taint, chars, q)
    BY <1>1, <1>4, SubstringFacts
  <1> HIDE DEF taint, chars, from
  <1>7. /\ (\A w \in from : Caught(TaintOf(ctx[t], w), Chars(w))) => Caught(taint, chars)
        /\ (\A w \in from : Backed(TaintOf(ctx[t], w), Chars(w), req[t])) => Backed(taint, chars, req[t])
    BY <1>3, <1>6
  <1> QED BY <1>2, <1>3, <1>5, <1>6, <1>7, MakeOneHolds DEF FlowInv

\* the methods whose ranges are copied from the receiver, intern included,
LEMMA PreserveHolds ==
    ASSUME FlowInv, NEW t \in Thread, NEW v \in DOMAIN values, NEW method, Preserve(t, v, method)
    PROVE  DataInv'
  <1> PICK a, s : a = Chars(v) /\ s = TaintOf(ctx[t], v)
    OBVIOUS
  <1>0. PICK chars \in Mapped(method, a) :
            Make(t, <<Made(t, "string", chars, {v}, chars # a)>>, <<PreservingTransform(s)>>)
    BY DEF Preserve
  <1> PICK moved \in BOOLEAN : moved = (chars # a)
    OBVIOUS
  <1> DEFINE from == {v}
  <1>1. a \in Seq(Characters) /\ s \in Taints
    BY SourceTyped DEF FlowInv
  <1>2. Make(t, <<Made(t, "string", chars, from, moved)>>, <<s>>)
    <2>1. Make(t, <<Made(t, "string", chars, from, chars # a)>>, <<s>>)
      BY <1>0 DEF PreservingTransform
    <2>2. CASE chars = a
      <3>1. moved = FALSE /\ (chars # a) = FALSE
        BY <2>2
      <3> QED BY <2>1, <3>1
    <2>3. CASE chars # a
      <3>1. moved = TRUE /\ (chars # a) = TRUE
        BY <2>3
      <3> QED BY <2>1, <3>1
    <2> QED BY <2>2, <2>3
  <1>3. from \subseteq DOMAIN values /\ v \in from
    OBVIOUS
  <1>4. chars \in Seq(Characters)
    BY <1>1, MappedFacts
  <1> HIDE DEF from
  <1>5. /\ (~moved /\ \A w \in from : Caught(TaintOf(ctx[t], w), Chars(w))) => Caught(s, chars)
        /\ (~moved /\ \A w \in from : Backed(TaintOf(ctx[t], w), Chars(w), req[t])) => Backed(s, chars, req[t])
    BY <1>3
  <1> QED BY <1>1, <1>2, <1>3, <1>4, <1>5, MakeOneHolds DEF FlowInv

\* Two taints, counted from the same place: each warns of what it did.
LEMMA MixedWarns ==
    ASSUME NEW s \in Taints, NEW u \in Taints
    PROVE  /\ Concat(s, 0, u) \in Taints
           /\ \A i \in Nat : \A rule : Warns(Ranges(s), i, rule) \/ Warns(Ranges(u), i, rule)
                                           => Warns(Ranges(Concat(s, 0, u)), i, rule)
  <1> DEFINE list == s.ranges \o ShiftAll(u.ranges, 0)
             t == Concat(s, 0, u)
  <1>1. /\ Normal(t, list, s.imprecise \/ u.imprecise)
        /\ \A i \in Nat : \A source, cleared :
               Says(Range(list), i, source, cleared) <=>
                   \/ Says(Ranges(s), i, source, cleared)
                   \/ i >= 0 /\ Says(Ranges(u), i - 0, source, cleared)
    BY ConcatIsNormal
  <1>2. \A i \in Nat : i >= 0 /\ i - 0 = i
    OBVIOUS
  <1> HIDE DEF list, t
  <1>3. ASSUME NEW i \in Nat, NEW rule, Warns(Ranges(s), i, rule) \/ Warns(Ranges(u), i, rule)
        PROVE  Warns(Ranges(t), i, rule)
    <2>1. \E source, cleared : /\ Says(Ranges(s), i, source, cleared) \/ Says(Ranges(u), i, source, cleared)
                               /\ rule \notin cleared
      BY <1>3, WarnsSays
    <2>2. \A source, cleared : Says(Ranges(s), i, source, cleared) \/ Says(Ranges(u), i, source, cleared)
                                   => Says(Range(list), i, source, cleared)
      BY <1>1, <1>2
    <2>3. Warns(Range(list), i, rule)
      BY <2>1, <2>2, WarnsSays
    <2> QED BY <1>1, <2>3 DEF Normal
  <1> QED BY <1>1, <1>3 DEF Normal, t

\* intern takes one string for another, which is blurred from then on, or notes again what it knew.
LEMMA InternHolds ==
    ASSUME FlowInv, NEW t \in Thread, NEW v \in DOMAIN values, NEW w \in DOMAIN values, Intern(t, v, w)
    PROVE  DataInv'
  <1> PICK c, s : c = ctx[t] /\ s = TaintOf(c, v)
    OBVIOUS
  <1> PICK old \in Value : old = values[w]
    BY DEF FlowInv, DataInv, DataTyped
  <1> PICK blur \in BOOLEAN : blur = (old.blurred \/ w # v)
    OBVIOUS
  <1> DEFINE new == [kind |-> old.kind, chars |-> old.chars, seen |-> old.seen, blurred |-> blur]
  <1>1. /\ of' = of /\ live' = live /\ strayed' = strayed /\ agenda' = agenda
        /\ values' = [values EXCEPT ![w] = new]
    <2>1. values' = [values EXCEPT ![w] = [old EXCEPT !.blurred = old.blurred \/ w # v]]
      BY DEF Intern
    <2>2. [old EXCEPT !.blurred = old.blurred \/ w # v] = new
      <3>0. \A b : [old EXCEPT !.blurred = b]
                    = [kind |-> old.kind, chars |-> old.chars, seen |-> old.seen, blurred |-> b]
        <4>1. old = [kind |-> old.kind, chars |-> old.chars, seen |-> old.seen, blurred |-> old.blurred]
          BY DEF Value
        <4> QED BY <4>1
      <3>1. CASE old.blurred \/ w # v
        <4>1. blur = TRUE /\ (old.blurred \/ w # v) = TRUE
          BY <3>1
        <4> QED BY <3>0, <4>1
      <3>2. CASE ~(old.blurred \/ w # v)
        <4>1. blur = FALSE /\ (old.blurred \/ w # v) = FALSE
          BY <3>2
        <4> QED BY <3>0, <4>1
      <3> QED BY <3>1, <3>2
    <2> HIDE DEF new
    <2>3. /\ of' = of /\ live' = live /\ strayed' = strayed /\ agenda' = agenda
      BY DEF Intern, lifecycle
    <2> QED BY <2>1, <2>2, <2>3
  <1>2. /\ new \in Value /\ new.chars = old.chars /\ new.seen = old.seen
        /\ ~new.blurred => w = v /\ ~old.blurred
    BY DEF Value
  <1> HIDE DEF new
  <1>3. /\ values \in Seq(Value) /\ c \in Nat /\ s \in Taints
        /\ c # 0 => c \in DOMAIN memory /\ Memo(memory[c], DOMAIN values)
    BY ContextHasMemory, SourceTyped DEF FlowInv, DataInv, DataTyped
  <1>4. /\ values' \in Seq(Value) /\ DOMAIN values' = DOMAIN values /\ values'[w] = new
        /\ \A x \in DOMAIN values : x # w => values'[x] = values[x]
    BY <1>1, <1>2, <1>3
  <1>5. new.seen = 0 \/ new.seen \in DOMAIN of
    BY <1>2 DEF FlowInv, DataInv, DataTyped
  <1>6. /\ IsList(memory) /\ \A e \in DOMAIN memory : Memo(memory[e], DOMAIN values) /\ e # 0
        /\ DOMAIN memory = DOMAIN of
    <2>1. IsList(memory) /\ DOMAIN memory = DOMAIN of /\ \A e \in DOMAIN memory : Memo(memory[e], DOMAIN values)
      BY DEF FlowInv, DataInv, DataTyped
    <2>2. 0 \notin DOMAIN memory
      BY <2>1, ListLen
    <2> QED BY <2>1, <2>2
  <1>7. CaughtAt(w) /\ \A e \in DOMAIN memory : BackedAt(e, w)
    BY DEF FlowInv, DataInv
  <1>8. ASSUME NEW e \in DOMAIN memory, memory'[e] = memory[e] PROVE BackedAt(e, w)'
    BY <1>1, <1>2, <1>4, <1>7, <1>8 DEF BackedAt, Chars
  <1>9. ASSUME ~Blind(new.seen, w)', memory'[new.seen] = memory[new.seen]
        PROVE  Caught(TaintOf(values[w].seen, w), Chars(w))'
    <2>1. ~Blind(old.seen, w)
      BY <1>1, <1>2, <1>4, <1>9 DEF Blind
    <2>2. Caught(TaintOf(old.seen, w), old.chars)
      BY <1>7, <2>1 DEF CaughtAt, Chars
    <2> QED BY <1>2, <1>4, <1>9, <2>2 DEF TaintOf, Chars
  <1>10. CASE memory' = memory
    <2>1. CaughtAt(w)'
      BY <1>4, <1>9, <1>10 DEF CaughtAt
    <2>2. \A e \in DOMAIN memory : BackedAt(e, w)'
      BY <1>8, <1>10
    <2> PICK X : X = {w}
      OBVIOUS
    <2>3. \A x \in X : x = w
      OBVIOUS
    <2>4. DataInv
      BY DEF FlowInv
    <2> QED BY <1>1, <1>4, <1>5, <1>6, <1>10, <2>1, <2>2, <2>3, <2>4, ChangeKeeps
  <1>11. CASE memory' # memory
    <2> DEFINE tracked == << <<w, s>> >>
               X == {w}
               given == [x \in X |-> s]
    <2>1. /\ c # 0 /\ IsTainted(s)
          /\ \E m \in Tracked(c, tracked) : memory' = [memory EXCEPT ![c] = m]
      BY <1>11 DEF Intern, PreservingTransform
    <2>2. PICK n \in Tracked(c, tracked) : memory' = [memory EXCEPT ![c] = n]
      BY <2>1
    <2>3. Len(tracked) = 1 /\ tracked[1][1] = w /\ tracked[1][2] = s /\ 1 \in 1..2 /\ 1..1 = {1}
      OBVIOUS
    <2>4. X = {tracked[i][1] : i \in 1..1} /\ X \subseteq DOMAIN values /\ given[w] = s /\ w \in X
          /\ \A x \in X : x = w
      BY <2>3
    <2> HIDE DEF tracked, X, given
    <2>5. \A i \in 1..1 : given[tracked[i][1]] = tracked[i][2] /\ tracked[i][2] \in Taints
      BY <1>3, <2>3, <2>4
    <2> PICK D : D = DOMAIN values
      OBVIOUS
    <2>6. Memo(memory[c], D)
      BY <1>3, <2>1
    <2>7. Memo(n, D) /\ Takes(n, memory[c], X, given)
      BY <2>3, <2>4, <2>5, <2>6, TrackedTakes
    <2>8. /\ IsList(memory') /\ DOMAIN memory' = DOMAIN memory /\ memory'[c] = n
          /\ \A e \in DOMAIN memory : e # c => memory'[e] = memory[e]
      <3>1. PICK k \in Nat : memory = [i \in 1..k |-> memory[i]]
        BY <1>6 DEF IsList
      <3>2. memory' = [i \in 1..k |-> IF i = c THEN n ELSE memory[i]]
        BY <2>2, <3>1
      <3>3. DOMAIN memory = 1..k /\ DOMAIN memory' = 1..k
        BY <3>1, <3>2
      <3>4. memory' = [i \in 1..k |-> memory'[i]]
        BY <3>2
      <3> QED BY <1>3, <2>1, <3>2, <3>3, <3>4 DEF IsList
    <2>9. /\ ~n.raced => ~memory[c].raced
          /\ ~n.overflowed => ~memory[c].overflowed
          /\ w \in DOMAIN n.table => n.table[w] = s
          /\ (~n.raced /\ ~n.overflowed) => w \in DOMAIN n.table
      BY <2>1, <2>4, <2>6, <2>7 DEF Takes, Memo
    <2>10. ASSUME w = v PROVE w \in DOMAIN memory[c].table /\ memory[c].table[w] = s
      <3>1. ~IsTainted(Empty)
        <4>1. Range(<< >>) = {}
          BY DEF Range
        <4> QED BY <4>1, EmptyIsNormal, TaintFacts DEF Normal
      <3> QED BY <2>1, <2>10, <3>1 DEF TaintOf
    <2>11. BackedAt(c, w)'
      BY <1>1, <1>2, <1>3, <1>4, <1>7, <2>1, <2>8, <2>9, <2>10 DEF BackedAt, Chars
    <2>12. CaughtAt(w)'
      <3> SUFFICES ASSUME ~Blind(new.seen, w)' PROVE Caught(TaintOf(values[w].seen, w), Chars(w))'
        BY <1>4 DEF CaughtAt
      <3>1. CASE new.seen # c
        <4>1. new.seen \in DOMAIN memory
          BY <1>5, <1>6 DEF Blind
        <4> QED BY <1>9, <2>8, <3>1, <4>1
      <3>2. CASE new.seen = c
        <4>1. /\ c \in live /\ ~n.overflowed /\ ~n.raced /\ w = v /\ ~old.blurred
          BY <1>1, <1>2, <1>4, <2>8, <3>2 DEF Blind
        <4>2. ~Blind(old.seen, w)
          BY <1>2, <2>1, <2>9, <3>2, <4>1 DEF Blind
        <4>3. Caught(TaintOf(c, w), old.chars)
          BY <1>2, <1>7, <3>2, <4>2 DEF CaughtAt, Chars
        <4>4. TaintOf(values[w].seen, w)' = s
          BY <1>4, <2>1, <2>8, <2>9, <3>2, <4>1 DEF TaintOf
        <4> QED BY <1>2, <1>4, <4>1, <4>3, <4>4 DEF Chars
      <3> QED BY <3>1, <3>2
    <2>13. \A e \in DOMAIN memory :
               /\ Memo(memory'[e], DOMAIN values')
               /\ memory'[e] = memory[e] \/ Takes(memory'[e], memory[e], X, given)
      BY <1>4, <1>6, <2>7, <2>8
    <2>14. \A e \in DOMAIN memory : BackedAt(e, w)'
      BY <1>8, <2>8, <2>11
    <2>15. /\ \A x \in DOMAIN values' : x \notin X => x \in DOMAIN values /\ values'[x] = values[x]
           /\ \A x \in X : values'[x].seen = 0 \/ values'[x].seen \in DOMAIN of
           /\ \A x \in X : CaughtAt(x)'
           /\ \A e \in DOMAIN memory : \A x \in X : BackedAt(e, x)'
      BY <1>4, <1>5, <2>4, <2>12, <2>14
    <2>16. DataInv
      BY DEF FlowInv
    <2> QED BY <1>1, <1>4, <2>8, <2>13, <2>15, <2>16, ChangeKeeps
  <1> QED BY <1>10, <1>11

\* String.format,
LEMMA FormatHolds ==
    ASSUME FlowInv, NEW t \in Thread, NEW f \in DOMAIN values, NEW v \in DOMAIN values, Format(t, f, v)
    PROVE  DataInv'
  <1> PICK a, b, s, u : a = Chars(f) /\ b = Chars(v) /\ s = TaintOf(ctx[t], f) /\ u = TaintOf(ctx[t], v)
    OBVIOUS
  <1> DEFINE both == Concat(s, 0, u)
             chars == a \o b
             taint == Reshaped(both, Len(chars))
             from == {f, v}
  <1>1. a \in Seq(Characters) /\ b \in Seq(Characters) /\ s \in Taints /\ u \in Taints
    BY SourceTyped DEF FlowInv
  <1>2. chars \in Seq(Characters) /\ Len(chars) = Len(a) + Len(b)
        /\ \A i \in 1..Len(a) + Len(b) : chars[i] = IF i <= Len(a) THEN a[i] ELSE b[i - Len(a)]
    BY <1>1, ConcatProperties
  <1>3. Make(t, <<Made(t, "string", chars, from, FALSE)>>, <<taint>>)
    BY DEF Format
  <1>4. from \subseteq DOMAIN values /\ f \in from /\ v \in from
    OBVIOUS
  <1>5. both \in Taints /\ \A i \in Nat : \A rule :
            Warns(Ranges(s), i, rule) \/ Warns(Ranges(u), i, rule) => Warns(Ranges(both), i, rule)
    BY <1>1, MixedWarns
  <1> HIDE DEF chars, from, both
  <1>6. /\ taint \in Taints
        /\ (\A i \in 1..Len(chars) : \A rule :
                  Threatens(chars[i], rule) => \E j : Warns(Ranges(both), j, rule))
              => Caught(taint, chars)
        /\ \A q : Backed(taint, chars, q)
    BY <1>2, <1>5, RewriteFacts
  <1>7. ASSUME Caught(s, a), Caught(u, b), NEW i \in 1..Len(chars), NEW rule, Threatens(chars[i], rule)
        PROVE  \E j : Warns(Ranges(both), j, rule)
    <2>0. Len(a) \in Nat /\ Len(b) \in Nat
      BY <1>1
    <2>1. CASE i <= Len(a)
      <3>1. i \in 1..Len(a) /\ i - 1 \in Nat /\ chars[i] = a[i]
        BY <1>2, <2>0, <2>1
      <3>2. Warns(Ranges(s), i - 1, rule)
        BY <1>7, <3>1 DEF Caught
      <3> QED BY <1>5, <3>1, <3>2
    <2>2. CASE ~(i <= Len(a))
      <3>1. i - Len(a) \in 1..Len(b) /\ (i - Len(a)) - 1 \in Nat /\ chars[i] = b[i - Len(a)]
        BY <1>2, <2>0, <2>2
      <3> PICK k : k = i - Len(a)
        OBVIOUS
      <3>2. k \in 1..Len(b) /\ k - 1 \in Nat /\ chars[i] = b[k]
        BY <3>1
      <3>3. Warns(Ranges(u), k - 1, rule)
        BY <1>7, <3>2 DEF Caught
      <3> QED BY <1>5, <3>2, <3>3
    <2> QED BY <2>1, <2>2
  <1> HIDE DEF taint
  <1>8. Caught(s, a) /\ Caught(u, b) => Caught(taint, chars)
    BY <1>6, <1>7
  <1>9. /\ (\A w \in from : Caught(TaintOf(ctx[t], w), Chars(w))) => Caught(taint, chars)
        /\ (\A w \in from : Backed(TaintOf(ctx[t], w), Chars(w), req[t])) => Backed(taint, chars, req[t])
    BY <1>4, <1>6, <1>8
  <1> QED BY <1>2, <1>3, <1>4, <1>6, <1>9, MakeOneHolds DEF FlowInv

\* Characters that are all among those a taint knew.
Among(part, a) == \A i \in 1..Len(part) : \E j \in 1..Len(a) : part[i] = a[j]

\* A part made of the characters of a value is caught by its reshaped taint.
LEMMA RewrittenPart ==
    ASSUME NEW s \in Taints, NEW a \in Seq(Characters), NEW part \in Seq(Characters),
           Among(part, a)
    PROVE  /\ Reshaped(s, Len(part)) \in Taints
           /\ Caught(s, a) => Caught(Reshaped(s, Len(part)), part)
           /\ \A q : Backed(Reshaped(s, Len(part)), part, q)
  <1>1. ASSUME Caught(s, a), NEW i \in 1..Len(part), NEW rule, Threatens(part[i], rule)
        PROVE  \E j : Warns(Ranges(s), j, rule)
    BY <1>1 DEF Caught, Among
  <1>2. /\ Reshaped(s, Len(part)) \in Taints
        /\ (\A i \in 1..Len(part) : \A rule :
               Threatens(part[i], rule) => \E j : Warns(Ranges(s), j, rule))
           => Caught(Reshaped(s, Len(part)), part)
        /\ \A q : Backed(Reshaped(s, Len(part)), part, q)
    BY RewriteFacts
  <1> QED BY <1>1, <1>2

\* the decoders,
LEMMA DecodeHolds ==
    ASSUME FlowInv, NEW t \in Thread, NEW v \in DOMAIN values, Decode(t, v)
    PROVE  DataInv'
  <1> PICK a, s : a = Chars(v) /\ s = TaintOf(ctx[t], v)
    OBVIOUS
  <1> PICK rules : rules = Range(Clears.onUrlEncoded)
    OBVIOUS
  <1> DEFINE decoded == [i \in 1..Len(a) |-> [a[i] EXCEPT !.cleared = @ \ rules]]
  <1> PICK chars : chars = decoded
    OBVIOUS
  <1> PICK moved \in BOOLEAN : moved = (chars # a)
    OBVIOUS
  <1> DEFINE from == {v}
             taint == Reshaped(s, Len(a))
  <1>1. a \in Seq(Characters) /\ s \in Taints /\ Length(v) = Len(a) /\ Len(a) \in Nat
    BY SourceTyped DEF FlowInv
  <1>2. Make(t, <<Made(t, "string", chars, from, moved)>>, <<taint>>)
    <2>1. Make(t, <<Made(t, "string", chars, from, chars # a)>>, <<taint>>)
      BY <1>1 DEF Decode
    <2> HIDE DEF taint, from, decoded
    <2>2. CASE chars = a
      <3>1. moved = FALSE /\ (chars # a) = FALSE
        BY <2>2
      <3> QED BY <2>1, <3>1
    <2>3. CASE chars # a
      <3>1. moved = TRUE /\ (chars # a) = TRUE
        BY <2>3
      <3> QED BY <2>1, <3>1
    <2> QED BY <2>2, <2>3
  <1>3. from \subseteq DOMAIN values /\ v \in from
    OBVIOUS
  <1>4. chars \in Seq(Characters)
    <2>1. ASSUME NEW ch \in Characters PROVE [ch EXCEPT !.cleared = @ \ rules] \in Characters
      BY DEF Characters
    <2>2. decoded \in [1..Len(a) -> Characters]
      BY <1>1, <2>1
    <2> HIDE DEF decoded
    <2> QED BY <1>1, <2>2
  <1> HIDE DEF from
  <1>5. /\ taint \in Taints
        /\ Caught(s, a) => Caught(taint, a)
        /\ \A q : Backed(taint, a, q)
    <2>1. Among(a, a)
      BY DEF Among
    <2> QED BY <1>1, <2>1, RewrittenPart
  <1> HIDE DEF taint
  <1>6. /\ (~moved /\ \A w \in from : Caught(TaintOf(ctx[t], w), Chars(w))) => Caught(taint, chars)
        /\ (~moved /\ \A w \in from : Backed(TaintOf(ctx[t], w), Chars(w), req[t])) => Backed(taint, chars, req[t])
    BY <1>3, <1>5
  <1>7. IInv /\ DataInv /\ "string" \in {"string", "builder", "object"}
    BY DEF FlowInv
  <1> HIDE DEF decoded
  <1> QED BY <1>2, <1>3, <1>4, <1>5, <1>6, <1>7, MakeOneHolds

\* split,
LEMMA SplitHolds ==
    ASSUME FlowInv, NEW t \in Thread, NEW v \in DOMAIN values, NEW k \in 0..Length(v) - 1, Split(t, v, k)
    PROVE  DataInv'
  <1> PICK a, s : a = Chars(v) /\ s = TaintOf(ctx[t], v)
    OBVIOUS
  <1> PICK left, right : left = SubSeq(a, 1, k) /\ right = SubSeq(a, k + 2, Len(a))
    OBVIOUS
  <1> PICK from : from = {v}
    OBVIOUS
  <1> PICK x, y : x = Made(t, "string", left, from, FALSE) /\ y = Made(t, "string", right, from, FALSE)
    OBVIOUS
  <1> PICK lt, rt : lt = Reshaped(s, Len(left)) /\ rt = Reshaped(s, Len(right))
    OBVIOUS
  <1>1. a \in Seq(Characters) /\ s \in Taints /\ Length(v) = Len(a) /\ Len(a) \in Nat
    BY SourceTyped DEF FlowInv
  <1>2. from \subseteq DOMAIN values /\ v \in from
    OBVIOUS
  <1>3. /\ left \in Seq(Characters) /\ right \in Seq(Characters)
        /\ Among(left, a) /\ Among(right, a)
    <2>1. /\ 0 \in 0..Len(a) /\ k \in 0..Len(a) /\ k + 1 \in 0..Len(a) /\ Len(a) \in (k + 1)..Len(a)
          /\ k \in Nat /\ 0 + 1 = 1 /\ (k + 1) + 1 = k + 2 /\ k - 0 = k
      BY <1>1
    <2>2. /\ SubSeq(a, 0 + 1, k) \in Seq(Characters) /\ Len(SubSeq(a, 0 + 1, k)) = k - 0
          /\ \A i \in 1..(k - 0) : SubSeq(a, 0 + 1, k)[i] = a[0 + i]
      BY <1>1, <2>1, PartOf
    <2>3. /\ SubSeq(a, (k + 1) + 1, Len(a)) \in Seq(Characters)
          /\ Len(SubSeq(a, (k + 1) + 1, Len(a))) = Len(a) - (k + 1)
          /\ \A i \in 1..(Len(a) - (k + 1)) : SubSeq(a, (k + 1) + 1, Len(a))[i] = a[(k + 1) + i]
      BY <1>1, <2>1, PartOf
    <2>4. /\ left \in Seq(Characters) /\ Len(left) = k /\ \A i \in 1..k : left[i] = a[0 + i]
      BY <2>1, <2>2
    <2>5. /\ right \in Seq(Characters) /\ Len(right) = Len(a) - (k + 1)
          /\ \A i \in 1..(Len(a) - (k + 1)) : right[i] = a[(k + 1) + i]
      BY <2>1, <2>3
    <2>6. \A i \in 1..k : 0 + i \in 1..Len(a)
      BY <1>1, <2>1
    <2>7. \A i \in 1..(Len(a) - (k + 1)) : (k + 1) + i \in 1..Len(a)
      BY <1>1, <2>1
    <2> QED BY <2>4, <2>5, <2>6, <2>7 DEF Among
  <1>4. /\ lt \in Taints /\ rt \in Taints
        /\ Caught(s, a) => Caught(lt, left) /\ Caught(rt, right)
        /\ \A q : Backed(lt, left, q) /\ Backed(rt, right, q)
    <2>1. /\ lt \in Taints
          /\ Caught(s, a) => Caught(lt, left)
          /\ \A q : Backed(lt, left, q)
      BY <1>1, <1>3, RewrittenPart
    <2>2. /\ rt \in Taints
          /\ Caught(s, a) => Caught(rt, right)
          /\ \A q : Backed(rt, right, q)
      BY <1>1, <1>3, RewrittenPart
    <2> QED BY <2>1, <2>2
  <1>5. Good(ctx[t], x, lt)
    BY <1>2, <1>3, <1>4, MadeIsGood DEF FlowInv
  <1>6. Good(ctx[t], y, rt)
    BY <1>2, <1>3, <1>4, MadeIsGood DEF FlowInv
  <1> DEFINE new == <<x, y>>
             taints == <<lt, rt>>
  <1>7. Make(t, new, taints)
    BY <1>1 DEF Split
  <1>8. /\ new \in Seq(Value) /\ Len(new) = 2 /\ new[1] = x /\ new[2] = y
        /\ taints[1] = lt /\ taints[2] = rt
    <2>1. x \in Value /\ y \in Value
      BY <1>5, <1>6 DEF Good
    <2>2. \A p, q \in Value : <<p, q>> \in Seq(Value)
      OBVIOUS
    <2>3. new \in Seq(Value)
      BY <2>1, <2>2
    <2>4. /\ Len(new) = 2 /\ new[1] = x /\ new[2] = y
          /\ taints[1] = lt /\ taints[2] = rt
      OBVIOUS
    <2> QED BY <2>3, <2>4
  <1>9. 2 \in 1..2 /\ \A i \in 1..2 : i = 1 \/ i = 2
    OBVIOUS
  <1> HIDE DEF new, taints
  <1>10. \A i \in 1..2 : Good(ctx[t], new[i], taints[i])
    BY <1>5, <1>6, <1>8, <1>9
  <1> QED BY <1>7, <1>8, <1>9, <1>10, MakeHolds DEF FlowInv

\* the constructors and readers that copy the ranges of their argument,
LEMMA DeriveHolds ==
    ASSUME FlowInv, NEW t \in Thread, NEW v \in DOMAIN values, NEW method, Derive(t, v, method)
    PROVE  DataInv'
  <1> PICK a, s : a = Chars(v) /\ s = TaintOf(ctx[t], v)
    OBVIOUS
  <1> PICK kind : kind = IF method \in Decoders THEN "string" ELSE "object"
    OBVIOUS
  <1>0. PICK chars \in Copies(method, a) :
            Make(t, <<Made(t, kind, chars, {v}, method = "Base64.decode" \/ chars # a)>>, <<s>>)
    BY DEF Derive
  <1> PICK moved \in BOOLEAN : moved = (method = "Base64.decode" \/ chars # a)
    OBVIOUS
  <1> DEFINE from == {v}
  <1>1. a \in Seq(Characters) /\ s \in Taints /\ kind \in {"string", "builder", "object"}
    BY SourceTyped DEF FlowInv
  <1>2. Make(t, <<Made(t, kind, chars, from, moved)>>, <<s>>)
    <2>1. Make(t, <<Made(t, kind, chars, from, method = "Base64.decode" \/ chars # a)>>, <<s>>)
      BY <1>0
    <2> HIDE DEF from
    <2>2. CASE method = "Base64.decode" \/ chars # a
      <3>1. moved = TRUE /\ (method = "Base64.decode" \/ chars # a) = TRUE
        BY <2>2
      <3> QED BY <2>1, <3>1
    <2>3. CASE ~(method = "Base64.decode" \/ chars # a)
      <3>1. moved = FALSE /\ (method = "Base64.decode" \/ chars # a) = FALSE
        BY <2>3
      <3> QED BY <2>1, <3>1
    <2> QED BY <2>2, <2>3
  <1>3. from \subseteq DOMAIN values /\ v \in from /\ chars \in Seq(Characters)
    BY <1>1, CopiesFacts
  <1> HIDE DEF from
  <1>4. /\ (~moved /\ \A w \in from : Caught(TaintOf(ctx[t], w), Chars(w))) => Caught(s, chars)
        /\ (~moved /\ \A w \in from : Backed(TaintOf(ctx[t], w), Chars(w), req[t])) => Backed(s, chars, req[t])
    BY <1>3
  <1> QED BY <1>1, <1>2, <1>3, <1>4, MakeOneHolds DEF FlowInv

\* the encoders,
LEMMA SanitizeHolds ==
    ASSUME FlowInv, NEW t \in Thread, NEW v \in DOMAIN values, NEW encoder \in DOMAIN Clears,
           Sanitize(t, v, encoder)
    PROVE  DataInv'
  <1> PICK a, s, list, rules : /\ a = Chars(v) /\ s = TaintOf(ctx[t], v)
                               /\ list = Clears[encoder] /\ rules = Range(list)
    OBVIOUS
  <1> PICK moved \in BOOLEAN : moved = (\E i \in 1..Length(v) : Chars(v)[i].hostile)
    OBVIOUS
  <1> DEFINE chars == FlattenSeq(Escapes(a, rules))
             from == {v}
             taint == SanitizedForAll(s, list)
             same == [i \in 1..Len(a) |-> Safe(a[i], Range(list))]
  <1>1. a \in Seq(Characters) /\ s \in Taints /\ Length(v) = Len(a) /\ Len(a) \in Nat
    BY SourceTyped DEF FlowInv
  <1>2. list \in Seq(RuleClass)
    BY TablesAreTyped
  <1>3. rules \in SUBSET RuleClass
    BY <1>2 DEF Range
  <1>4. Make(t, <<Made(t, "string", chars, from, moved)>>, <<taint>>)
    <2>1. Make(t, <<Made(t, "string", chars, from, \E i \in 1..Length(v) : Chars(v)[i].hostile)>>, <<taint>>)
      BY <1>1 DEF Sanitize, Safe, Escapes
    <2> HIDE DEF chars, from, taint
    <2>2. CASE \E i \in 1..Length(v) : Chars(v)[i].hostile
      <3>1. moved = TRUE /\ (\E i \in 1..Length(v) : Chars(v)[i].hostile) = TRUE
        BY <2>2
      <3> QED BY <2>1, <3>1
    <2>3. CASE ~ \E i \in 1..Length(v) : Chars(v)[i].hostile
      <3>1. moved = FALSE /\ (\E i \in 1..Length(v) : Chars(v)[i].hostile) = FALSE
        BY <2>3
      <3> QED BY <2>1, <3>1
    <2> QED BY <2>2, <2>3
  <1>5. /\ chars \in Seq(Characters)
        /\ (\A i \in 1..Len(a) : ~a[i].hostile) => chars = [i \in 1..Len(a) |-> Safe(a[i], rules)]
    BY <1>1, <1>3, EscapedFacts
  <1>6. /\ taint \in Taints
        /\ Caught(s, a) => Caught(taint, same)
        /\ \A q : Backed(s, a, q) => Backed(taint, same, q)
    <2> PICK c : c = same
      OBVIOUS
    <2>1. /\ SanitizedForAll(s, list) \in Taints
          /\ Caught(s, a) => Caught(SanitizedForAll(s, list), c)
          /\ \A q : Backed(s, a, q) => Backed(SanitizedForAll(s, list), c, q)
      BY <1>1, <1>2, SanitizeFacts
    <2> QED BY <2>1
  <1>7. from \subseteq DOMAIN values /\ v \in from
    OBVIOUS
  <1>8. ~moved => chars = same
    BY <1>1, <1>5
  <1> HIDE DEF chars, from, taint, same
  <1>9. /\ (~moved /\ \A w \in from : Caught(TaintOf(ctx[t], w), Chars(w))) => Caught(taint, chars)
        /\ (~moved /\ \A w \in from : Backed(TaintOf(ctx[t], w), Chars(w), req[t])) => Backed(taint, chars, req[t])
    BY <1>6, <1>7, <1>8
  <1> QED BY <1>4, <1>5, <1>6, <1>7, <1>9, MakeOneHolds DEF FlowInv

\* a new builder,
LEMMA NewBuilderHolds ==
    ASSUME FlowInv, NEW t \in Thread, NewBuilder(t)
    PROVE  DataInv'
  <1> DEFINE chars == << >>
             from == {}
  <1>1. chars \in Seq(Characters) /\ Len(chars) = 0
    OBVIOUS
  <1>2. Make(t, <<Made(t, "builder", chars, from, FALSE)>>, <<Empty>>)
    BY DEF NewBuilder
  <1>3. from \subseteq DOMAIN values
    OBVIOUS
  <1> HIDE DEF chars, from
  <1>4. Caught(Empty, chars)
    BY <1>1 DEF Caught
  <1> QED BY <1>1, <1>2, <1>3, <1>4, EmptyIsBacked, MakeOneHolds DEF FlowInv

\* what a builder holds,
LEMMA ToStringHolds ==
    ASSUME FlowInv, NEW t \in Thread, NEW b \in DOMAIN values, BuilderToString(t, b)
    PROVE  DataInv'
  <1> PICK a, s : a = Chars(b) /\ s = TaintOf(ctx[t], b)
    OBVIOUS
  <1> DEFINE from == {b}
  <1>1. a \in Seq(Characters) /\ s \in Taints
    BY SourceTyped DEF FlowInv
  <1>2. Make(t, <<Made(t, "string", a, from, FALSE)>>, <<s>>)
    BY DEF BuilderToString, PreservingTransform
  <1>3. from \subseteq DOMAIN values /\ b \in from
    OBVIOUS
  <1> HIDE DEF from
  <1>4. /\ (\A w \in from : Caught(TaintOf(ctx[t], w), Chars(w))) => Caught(s, a)
        /\ (\A w \in from : Backed(TaintOf(ctx[t], w), Chars(w), req[t])) => Backed(s, a, req[t])
    BY <1>3
  <1> QED BY <1>1, <1>2, <1>3, <1>4, MakeOneHolds DEF FlowInv

\* append,
LEMMA AppendHolds ==
    ASSUME FlowInv, NEW t \in Thread, NEW b \in Builders, NEW v \in DOMAIN values, BuilderAppend(t, b, v)
    PROVE  DataInv'
  <1> PICK l, r, s, u : l = Chars(b) /\ r = Chars(v) /\ s = TaintOf(ctx[t], b) /\ u = TaintOf(ctx[t], v)
    OBVIOUS
  <1> DEFINE taint == Concat(s, Len(l), u)
             chars == l \o r
             from == {v}
  <1>1. /\ l \in Seq(Characters) /\ r \in Seq(Characters) /\ s \in Taints /\ u \in Taints
        /\ Length(b) = Len(l)
    BY SourceTyped DEF FlowInv, Builders
  <1>2. chars \in Seq(Characters)
    BY <1>1
  <1>3. Mutate(t, b, "append", chars, from, FALSE, taint)
    BY <1>1 DEF BuilderAppend
  <1>4. from \subseteq DOMAIN values /\ b \in from \cup {b} /\ v \in from \cup {b}
    OBVIOUS
  <1>5. /\ taint \in Taints
        /\ Caught(s, l) /\ Caught(u, r) => Caught(taint, chars)
        /\ \A q : Backed(s, l, q) /\ Backed(u, r, q) => Backed(taint, chars, q)
    BY <1>1, ConcatFacts
  <1>6. "append" \in BuilderMethods
    BY DEF BuilderMethods
  <1> HIDE DEF taint, chars, from
  <1>7. /\ (\A w \in from \cup {b} : Caught(TaintOf(ctx[t], w), Chars(w))) => Caught(taint, chars)
        /\ (\A w \in from \cup {b} : Backed(TaintOf(ctx[t], w), Chars(w), req[t]))
               => Backed(taint, chars, req[t])
    BY <1>4, <1>5
  <1> QED BY <1>2, <1>3, <1>4, <1>5, <1>6, <1>7, MutateHolds DEF FlowInv

\* replace, insert and delete in a builder,
LEMMA ReplaceHolds ==
    ASSUME FlowInv, NEW t \in Thread, NEW b \in Builders, NEW v \in DOMAIN values,
           NEW low \in 0..Length(b), NEW to \in low..Length(b) + 1, BuilderReplace(t, b, low, to, v)
    PROVE  DataInv'
  <1> PICK l, r, s, u : l = Chars(b) /\ r = Chars(v) /\ s = TaintOf(ctx[t], b) /\ u = TaintOf(ctx[t], v)
    OBVIOUS
  <1> PICK last : last = Smaller(to, Length(b))
    OBVIOUS
  <1> DEFINE taint == Replace(s, low, last, u, Len(r))
             chars == Spliced(l, low, last, r)
             from == {v}
  <1>1. /\ l \in Seq(Characters) /\ r \in Seq(Characters) /\ s \in Taints /\ u \in Taints
        /\ Length(b) = Len(l) /\ Length(v) = Len(r) /\ Len(l) \in Nat
    BY SourceTyped DEF FlowInv, Builders
  <1>2. low \in 0..Len(l) /\ last \in low..Len(l)
    BY <1>1 DEF Smaller
  <1>3. Mutate(t, b, "replace", chars, from, FALSE, taint)
    BY <1>1 DEF BuilderReplace, Spliced
  <1>4. from \subseteq DOMAIN values /\ b \in from \cup {b} /\ v \in from \cup {b}
    OBVIOUS
  <1>5. /\ chars \in Seq(Characters) /\ taint \in Taints
        /\ Caught(s, l) /\ Caught(u, r) => Caught(taint, chars)
        /\ \A q : Backed(s, l, q) /\ Backed(u, r, q) => Backed(taint, chars, q)
    BY <1>1, <1>2, ReplaceFacts
  <1>6. "replace" \in BuilderMethods
    BY DEF BuilderMethods
  <1> HIDE DEF taint, chars, from
  <1>7. /\ (\A w \in from \cup {b} : Caught(TaintOf(ctx[t], w), Chars(w))) => Caught(taint, chars)
        /\ (\A w \in from \cup {b} : Backed(TaintOf(ctx[t], w), Chars(w), req[t]))
               => Backed(taint, chars, req[t])
    BY <1>4, <1>5
  <1> QED BY <1>3, <1>4, <1>5, <1>6, <1>7, MutateHolds DEF FlowInv

\* reverse,
LEMMA ReverseHolds ==
    ASSUME FlowInv, NEW t \in Thread, NEW b \in Builders, BuilderReverse(t, b)
    PROVE  DataInv'
  <1> PICK l, s : l = Chars(b) /\ s = TaintOf(ctx[t], b)
    OBVIOUS
  <1> DEFINE taint == Reversed(s, Len(l))
             chars == Reverse(l)
             from == {}
  <1>1. l \in Seq(Characters) /\ s \in Taints /\ Length(b) = Len(l)
    BY SourceTyped DEF FlowInv, Builders
  <1>2. Mutate(t, b, "reverse", chars, from, FALSE, taint)
    BY <1>1 DEF BuilderReverse
  <1>3. from \subseteq DOMAIN values /\ b \in from \cup {b}
    OBVIOUS
  <1>4. /\ chars \in Seq(Characters) /\ taint \in Taints
        /\ Caught(s, l) => Caught(taint, chars)
        /\ \A q : Backed(s, l, q) => Backed(taint, chars, q)
    BY <1>1, ReverseFacts
  <1>5. "reverse" \in BuilderMethods
    BY DEF BuilderMethods
  <1> HIDE DEF taint, chars, from
  <1>6. /\ (\A w \in from \cup {b} : Caught(TaintOf(ctx[t], w), Chars(w))) => Caught(taint, chars)
        /\ (\A w \in from \cup {b} : Backed(TaintOf(ctx[t], w), Chars(w), req[t]))
               => Backed(taint, chars, req[t])
    BY <1>3, <1>4
  <1> QED BY <1>2, <1>3, <1>4, <1>5, <1>6, MutateHolds DEF FlowInv

\* and setLength.
LEMMA SetLengthHolds ==
    ASSUME FlowInv, NEW t \in Thread, NEW b \in Builders, NEW n \in 0..Length(b), SetLength(t, b, n)
    PROVE  DataInv'
  <1> PICK l : l = Chars(b)
    OBVIOUS
  <1> DEFINE chars == SubSeq(l, 1, n)
             from == {}
  <1>1. l \in Seq(Characters) /\ Length(b) = Len(l) /\ Len(l) \in Nat
    BY SourceTyped DEF FlowInv, Builders
  <1>2. Mutate(t, b, "setLength", chars, from, TRUE, Empty)
    BY DEF SetLength
  <1>3. chars \in Seq(Characters)
    <2>1. 0 \in 0..Len(l) /\ n \in 0..Len(l) /\ 0 + 1 = 1
      BY <1>1
    <2>2. SubSeq(l, 0 + 1, n) \in Seq(Characters)
      BY <1>1, <2>1, PartOf
    <2> QED BY <2>1, <2>2
  <1>4. from \subseteq DOMAIN values
    OBVIOUS
  <1> HIDE DEF chars, from
  <1> QED BY <1>2, <1>3, <1>4, EmptyIsBacked, MutateHolds DEF FlowInv

-----------------------------------------------------------------------------
\* A hook that makes and edits no value.
LEMMA TablesKept ==
    ASSUME DataInv, of' = of, live' = live, strayed' = strayed, agenda' = agenda, values' = values,
           IsList(memory'), DOMAIN memory' = DOMAIN memory,
           \A c \in DOMAIN memory :
               /\ Memo(memory'[c], DOMAIN values)
               /\ memory'[c].table = memory[c].table
               /\ memory'[c].overflowed = memory[c].overflowed /\ memory'[c].raced = memory[c].raced
    PROVE  DataInv'
  <1> DEFINE X == {}
             given == [x \in X |-> Empty]
  <1>1. values \in Seq(Value)
    BY DEF DataInv, DataTyped
  <1>2. \A c \in DOMAIN memory : Takes(memory'[c], memory[c], X, given)
    BY DEF Takes
  <1>3. \A v : v \notin X
    OBVIOUS
  <1> HIDE DEF X, given
  <1> QED BY <1>1, <1>2, <1>3, ChangeKeeps

\* A finding is noted, or a writer.
LEMMA NotingHolds ==
    ASSUME DataInv, of' = of, live' = live, strayed' = strayed, agenda' = agenda, values' = values,
           NEW c, NEW reported, NEW channels,
           memory' = memory \/ memory' = [memory EXCEPT ![c].reported = reported]
                            \/ memory' = [memory EXCEPT ![c].responseChannels = channels]
    PROVE  DataInv'
  <1>1. /\ IsList(memory) /\ \A e \in DOMAIN memory : Memo(memory[e], DOMAIN values)
    BY DEF DataInv, DataTyped
  <1>2. PICK k \in Nat : memory = [i \in 1..k |-> memory[i]]
    BY <1>1 DEF IsList
  <1>3. CASE memory' = memory
    BY <1>1, <1>3, TablesKept
  <1>4. CASE memory' # memory
    <2>1. PICK m : /\ memory' = [i \in 1..k |-> IF i = c THEN m ELSE memory[i]]
                   /\ m = [memory[c] EXCEPT !.reported = reported]
                      \/ m = [memory[c] EXCEPT !.responseChannels = channels]
      <3>1. CASE memory' = [memory EXCEPT ![c].reported = reported]
        <4> PICK m : m = [memory[c] EXCEPT !.reported = reported]
          OBVIOUS
        <4>1. memory' = [memory EXCEPT ![c] = m]
          BY <3>1
        <4>2. memory' = [i \in 1..k |-> IF i = c THEN m ELSE memory[i]]
          BY <1>2, <4>1
        <4> QED BY <4>2
      <3>2. CASE memory' = [memory EXCEPT ![c].responseChannels = channels]
        <4> PICK m : m = [memory[c] EXCEPT !.responseChannels = channels]
          OBVIOUS
        <4>1. memory' = [memory EXCEPT ![c] = m]
          BY <3>2
        <4>2. memory' = [i \in 1..k |-> IF i = c THEN m ELSE memory[i]]
          BY <1>2, <4>1
        <4> QED BY <4>2
      <3> QED BY <1>4, <3>1, <3>2
    <2>2. c \in DOMAIN memory => /\ Memo(m, DOMAIN values) /\ m.table = memory[c].table
                                 /\ m.overflowed = memory[c].overflowed /\ m.raced = memory[c].raced
      <3> SUFFICES ASSUME c \in DOMAIN memory
                   PROVE  /\ Memo(m, DOMAIN values) /\ m.table = memory[c].table
                          /\ m.overflowed = memory[c].overflowed /\ m.raced = memory[c].raced
        OBVIOUS
      <3> PICK o : o = memory[c]
        OBVIOUS
      <3>1. Memo(o, DOMAIN values)
        BY <1>1
      <3>2. o = [table |-> o.table, overflowed |-> o.overflowed, raced |-> o.raced,
                 reported |-> o.reported, responseChannels |-> o.responseChannels]
        BY <3>1 DEF Memo
      <3>3. m = [o EXCEPT !.reported = reported] \/ m = [o EXCEPT !.responseChannels = channels]
        BY <2>1
      <3>4. \/ m = [table |-> o.table, overflowed |-> o.overflowed, raced |-> o.raced,
                    reported |-> reported, responseChannels |-> o.responseChannels]
            \/ m = [table |-> o.table, overflowed |-> o.overflowed, raced |-> o.raced,
                    reported |-> o.reported, responseChannels |-> channels]
        BY <3>2, <3>3
      <3> QED BY <3>1, <3>4 DEF Memo
    <2>3. DOMAIN memory = 1..k /\ DOMAIN memory' = 1..k
      BY <1>2, <2>1
    <2>4. memory' = [i \in 1..k |-> memory'[i]]
      BY <2>1
    <2>5. IsList(memory')
      BY <2>4 DEF IsList
    <2>6. \A e \in DOMAIN memory :
               /\ Memo(memory'[e], DOMAIN values)
               /\ memory'[e].table = memory[e].table
               /\ memory'[e].overflowed = memory[e].overflowed /\ memory'[e].raced = memory[e].raced
      <3> TAKE e \in DOMAIN memory
      <3>1. CASE e = c
        <4>1. memory'[e] = m
          BY <2>1, <2>3, <3>1
        <4> QED BY <2>2, <3>1, <4>1
      <3>2. CASE e # c
        <4>1. memory'[e] = memory[e]
          BY <2>1, <2>3, <3>2
        <4> QED BY <1>1, <4>1
      <3> QED BY <3>1, <3>2
    <2> QED BY <2>3, <2>5, <2>6, TablesKept
  <1> QED BY <1>3, <1>4

\* Sinks look at values and change none: the report itself,
LEMMA ReportHolds ==
    ASSUME DataInv, of' = of, live' = live, strayed' = strayed, agenda' = agenda, values' = values,
           NEW c, NEW v, NEW rule, NEW site, NEW first, ReportOnce(c, v, rule, site, first)
    PROVE  DataInv'
  <1> PICK reported : reported = memory[c].reported \cup {<<rule, site>>}
    OBVIOUS
  <1>1. memory' = memory \/ memory' = [memory EXCEPT ![c].reported = reported]
    BY DEF ReportOnce
  <1> QED BY <1>1, NotingHolds

\* a sink over a string,
LEMMA SinkHolds ==
    ASSUME DataInv, NEW t, NEW v, NEW rule, NEW site, BlockingSink(t, v, rule, site)
    PROVE  DataInv'
  <1>1. \E first : ReportOnce(ctx[t], v, rule, site, first)
    BY DEF BlockingSink
  <1>2. of' = of /\ live' = live /\ strayed' = strayed /\ agenda' = agenda /\ values' = values
    BY DEF BlockingSink, lifecycle
  <1> PICK c : c = ctx[t]
    OBVIOUS
  <1>3. PICK first : ReportOnce(c, v, rule, site, first)
    BY <1>1
  <1> QED BY <1>2, <1>3, ReportHolds

\* a sink over an object,
LEMMA ObjectSinkHolds ==
    ASSUME DataInv, NEW t, NEW v, NEW advice, ObjectSink(t, v, advice)
    PROVE  DataInv'
  <1> PICK rule : rule = ObjectSinks[advice]
    OBVIOUS
  <1>1. \E first : ReportOnce(ctx[t], v, rule, advice, first)
    BY DEF ObjectSink
  <1>2. of' = of /\ live' = live /\ strayed' = strayed /\ agenda' = agenda /\ values' = values
    BY DEF ObjectSink, lifecycle
  <1> PICK c : c = ctx[t]
    OBVIOUS
  <1>3. PICK first : ReportOnce(c, v, rule, advice, first)
    BY <1>1
  <1> QED BY <1>2, <1>3, ReportHolds

\* and taking the writer of the response.
LEMMA GetWriterHolds ==
    ASSUME DataInv, NEW t, GetWriter(t)
    PROVE  DataInv'
  <1> PICK c : c = ctx[t]
    OBVIOUS
  <1> PICK channels : channels = memory[c].responseChannels \cup {req[t]}
    OBVIOUS
  <1>1. memory' = [memory EXCEPT ![c].responseChannels = channels]
    BY DEF GetWriter
  <1>2. of' = of /\ live' = live /\ strayed' = strayed /\ agenda' = agenda /\ values' = values
    BY DEF GetWriter, lifecycle
  <1> QED BY <1>1, <1>2, NotingHolds

\* A frame is pushed on a thread that begins or goes on to work.
LEMMA PushWorks ==
    ASSUME NEW s \in Seq(Frame), NEW q, Working(s, q), NEW f \in Frame, f.back = q, NEW r, r # 0
    PROVE  Working(Append(s, f), r)
  <1> PICK n \in Nat : n = Len(s)
    OBVIOUS
  <1> PICK e : e = Append(s, f)
    OBVIOUS
  <1>1. Len(e) = n + 1 /\ (\A i \in 1..n : e[i] = s[i]) /\ e[n + 1] = f
    BY PushFacts
  <1>2. ASSUME NEW i \in 2..n + 1 PROVE e[i].back # 0
    <2>1. s # << >> /\ n >= 1
      <3>1. s = << >> => n = 0
        OBVIOUS
      <3> QED BY <3>1
    <2>2. CASE i = n + 1
      BY <1>1, <2>1, <2>2 DEF Working
    <2>3. CASE i # n + 1
      <3>1. i \in 2..n /\ i \in 1..n
        BY <2>3
      <3> QED BY <1>1, <2>1, <3>1 DEF Working
    <2> QED BY <2>2, <2>3
  <1>3. Working(e, r)
    BY <1>1, <1>2 DEF Working
  <1> QED BY <1>3

\* A thread whose frame is popped goes back to a request, or to none when it was the last.
LEMMA PopWorks ==
    ASSUME NEW s \in Seq(Frame), s # << >>, NEW q, Working(s, q)
    PROVE  Working(Front(s), Last(s).back)
  <1> PICK n \in Nat : n = Len(s)
    OBVIOUS
  <1> PICK e : e = Front(s)
    OBVIOUS
  <1>1. /\ e \in Seq(Frame) /\ n \in Nat \ {0} /\ Len(e) = n - 1
        /\ \A i \in 1..n - 1 : e[i] = s[i]
        /\ Last(s) = s[n]
    BY PopFacts
  <1>2. ASSUME e # << >> PROVE s[n].back # 0 /\ \A i \in 2..Len(e) : e[i].back # 0
    <2>1. Len(e) # 0
      BY <1>1, <1>2, EmptySeq
    <2>2. n \in 2..n /\ \A i \in 2..n - 1 : i \in 2..n /\ i \in 1..n - 1
      BY <1>1, <2>1
    <2> QED BY <1>1, <2>2 DEF Working
  <1>3. Working(e, Last(s).back)
    BY <1>1, <1>2 DEF Working
  <1> QED BY <1>3

\* What a thread that pushes a frame works for.
LEMMA PushedWorks ==
    ASSUME IInv, Numbered, NEW t \in Thread, NEW kind \in Servlet \cup Task, Push(t, kind),
           NEW r \in Nat \ {0}, req' = [req EXCEPT ![t] = r]
    PROVE  Working(stack'[t], req'[t])
  <1>1. /\ stack \in [Thread -> Seq(Frame)] /\ req \in [Thread -> Nat]
    BY DEF IInv, Typed
  <1> PICK f \in Frame : f = [kind |-> kind, back |-> req[t]]
    BY <1>1 DEF Frame
  <1>2. stack'[t] = Append(stack[t], f) /\ req'[t] = r /\ f.back = req[t]
    BY <1>1 DEF Push
  <1>3. Working(stack[t], req[t]) /\ stack[t] \in Seq(Frame)
    BY <1>1 DEF Numbered
  <1> QED BY <1>2, <1>3, PushWorks

\* A step of the threads begins one context, or none.
LEMMA LifeSteps ==
    ASSUME IInv, Numbered, LifeNext
    PROVE  /\ Numbered' /\ strayed \subseteq strayed'
           /\ \/ of' = of /\ live' \subseteq live
              \/ \E r \in Nat : of' = Append(of, r) /\ live' = live \cup {Len(of) + 1}
  <1> DEFINE Goal == /\ Numbered' /\ strayed \subseteq strayed'
                     /\ \/ of' = of /\ live' \subseteq live
                        \/ \E r \in Nat : of' = Append(of, r) /\ live' = live \cup {Len(of) + 1}
  <1>0. /\ stack \in [Thread -> Seq(Frame)] /\ req \in [Thread -> Nat] /\ ctx \in [Thread -> Nat]
        /\ of \in Seq(Nat) /\ arrived \in Nat
        /\ \A task \in tasks : task.context \in Nat /\ task.req \in Nat
    BY DEF IInv, Typed
  <1>1. ASSUME NEW t \in Thread, NEW r \in Nat \ {0}, OnRequestEnter(t, r),
               req' = [req EXCEPT ![t] = r], tasks' = tasks
        PROVE  Goal
    <2>1. /\ \/ of' = of /\ live' = live
             \/ of' = Append(of, r) /\ live' = live \cup {Len(of) + 1}
          /\ strayed \subseteq strayed'
      BY <1>1 DEF OnRequestEnter, BeginContext
    <2> PICK kind \in Servlet : Push(t, kind)
      BY <1>1 DEF OnRequestEnter, Servlet
    <2>2. \A u \in Thread : u # t => stack'[u] = stack[u] /\ req'[u] = req[u]
      BY <1>0, <1>1 DEF Push
    <2>3. Working(stack'[t], req'[t])
      BY <1>0, <1>1, PushedWorks
    <2>4. \A c \in DOMAIN of' : of'[c] # 0
      <3>1. CASE of' = of
        BY <3>1 DEF Numbered
      <3>2. CASE of' = Append(of, r)
        <4>1. \A c \in DOMAIN Append(of, r) :
                  (c \in DOMAIN of /\ Append(of, r)[c] = of[c]) \/ Append(of, r)[c] = r
          BY <1>0
        <4> QED BY <3>2, <4>1 DEF Numbered
      <3> QED BY <2>1, <3>1, <3>2
    <2>5. Numbered'
      BY <1>1, <2>2, <2>3, <2>4 DEF Numbered
    <2> QED BY <2>1, <2>5
  <1>2. ASSUME NEW t \in Thread, ~Idle(t), Pop(t), of' = of, live' \subseteq live, tasks' = tasks,
               strayed' = strayed
        PROVE  Goal
    <2>1. /\ stack' = [stack EXCEPT ![t] = Front(stack[t])]
          /\ req' = [req EXCEPT ![t] = Last(stack[t]).back]
          /\ stack[t] \in Seq(Frame) /\ stack[t] # << >>
      BY <1>0, <1>2 DEF Pop, Top, Idle
    <2>2. \A u \in Thread : u # t => stack'[u] = stack[u] /\ req'[u] = req[u]
      BY <1>0, <2>1
    <2>3. Working(stack'[t], req'[t])
      <3>1. stack'[t] = Front(stack[t]) /\ req'[t] = Last(stack[t]).back
        BY <1>0, <2>1
      <3>2. Working(stack[t], req[t])
        BY DEF Numbered
      <3> QED BY <2>1, <3>1, <3>2, PopWorks
    <2>4. Numbered'
      BY <1>2, <2>2, <2>3 DEF Numbered
    <2> QED BY <1>2, <2>4
  <1>3. ASSUME NEW t \in Thread, NEW r \in Nat \ {0}, req' = [req EXCEPT ![t] = r],
               NEW kind \in Task, Push(t, kind), strayed \subseteq strayed',
               of' = of, live' = live, tasks' \subseteq tasks
        PROVE  Goal
    <2>1. \A u \in Thread : u # t => stack'[u] = stack[u] /\ req'[u] = req[u]
      BY <1>0, <1>3 DEF Push
    <2>2. Working(stack'[t], req'[t])
      BY <1>0, <1>3, PushedWorks
    <2>3. Numbered'
      BY <1>3, <2>1, <2>2 DEF Numbered
    <2> QED BY <1>3, <2>3
  <1> HIDE DEF Goal
  <1>4. ASSUME NEW t \in Thread, EnterRequest(t) PROVE Goal
    <2> PICK r : r = arrived + 1
      OBVIOUS
    <2>1. r \in Nat \ {0}
      BY <1>0
    <2> QED BY <1>1, <1>4, <2>1 DEF EnterRequest
  <1>5. ASSUME NEW t \in Thread, EnterNested(t) PROVE Goal
    <2> PICK r : r = req[t]
      OBVIOUS
    <2>1. r \in Nat \ {0}
      BY <1>0, <1>5 DEF EnterNested, Idle, Numbered, Working
    <2>2. req' = [req EXCEPT ![t] = r]
      BY <1>0, <1>5 DEF EnterNested
    <2> QED BY <1>1, <1>5, <2>1, <2>2 DEF EnterNested
  <1>6. ASSUME NEW t \in Thread, LeaveServlet(t) PROVE Goal
    <2>1. live' \subseteq live /\ of' = of /\ tasks' = tasks /\ strayed' = strayed
      BY <1>6 DEF LeaveServlet
    <2> QED BY <1>2, <1>6, <2>1 DEF LeaveServlet
  <1>7. ASSUME NEW t \in Thread, HandOff(t) PROVE Goal
    <2>1. /\ UNCHANGED <<req, stack, of, live, strayed>> /\ req[t] # 0
          /\ \A task \in tasks' : task \in tasks \/ task.req = req[t]
      BY <1>7 DEF HandOff, Idle, Numbered, Working
    <2>2. Numbered'
      BY <2>1 DEF Numbered
    <2> QED BY <2>1, <2>2 DEF Goal
  <1>8. ASSUME NEW t \in Thread, NEW task \in tasks, StartTask(t, task) PROVE Goal
    <2> PICK r : r = task.req
      OBVIOUS
    <2>1. r \in Nat \ {0}
      BY <1>0 DEF Numbered
    <2> PICK kind \in Task : kind = KindOf(task.context)
      BY DEF KindOf, Task
    <2>2. Push(t, kind) /\ strayed \subseteq strayed'
      BY <1>8 DEF StartTask
    <2> QED BY <1>3, <1>8, <2>1, <2>2 DEF StartTask
  <1>9. ASSUME NEW t \in Thread, RunInPlace(t) PROVE Goal
    <2> PICK r : r = req[t]
      OBVIOUS
    <2>1. r \in Nat \ {0}
      BY <1>0, <1>9 DEF RunInPlace, Idle, Numbered, Working
    <2> PICK kind \in Task : kind = KindOf(ctx[t])
      BY DEF KindOf, Task
    <2>2. Push(t, kind) /\ strayed \subseteq strayed'
      BY <1>9 DEF RunInPlace
    <2>3. req' = [req EXCEPT ![t] = r]
      BY <1>0, <1>9 DEF RunInPlace
    <2> QED BY <1>3, <1>9, <2>1, <2>2, <2>3 DEF RunInPlace
  <1>10. ASSUME NEW t \in Thread, FinishTask(t) PROVE Goal
    <2>1. live' \subseteq live /\ of' = of /\ tasks' = tasks /\ strayed' = strayed
      BY <1>10 DEF FinishTask
    <2> QED BY <1>2, <1>10, <2>1 DEF FinishTask
  <1>11. Goal
    BY <1>4, <1>5, <1>6, <1>7, <1>8, <1>9, <1>10 DEF LifeNext
  <1> QED BY <1>11 DEF Goal

\* Contexts that begin and end keep what the others know.
LEMMA ThreadsHold ==
    ASSUME IInv, Numbered, DataInv, LifeNext, Data
    PROVE  DataInv'
  <1> PICK L : L = Len(of)
    OBVIOUS
  <1>1. /\ values' = values /\ agenda' = agenda
        /\ memory' = [c \in DOMAIN of' |->
                         IF c > Len(memory) THEN Fresh
                         ELSE IF c \in live \ live'
                              THEN [memory[c] EXCEPT !.table = << >>, !.overflowed = FALSE]
                              ELSE memory[c]]
    BY DEF Data, MemoryOfLife
  <1>2. /\ of \in Seq(Nat) /\ L \in Nat /\ DOMAIN of = 1..L
        /\ IsList(memory) /\ DOMAIN memory = DOMAIN of
        /\ agenda \in Agendas /\ values \in Seq(Value)
        /\ \A v \in DOMAIN values : values[v].seen = 0 \/ values[v].seen \in DOMAIN of
        /\ \A c \in DOMAIN memory : Memo(memory[c], DOMAIN values)
    BY DEF IInv, Typed, DataInv, DataTyped
  <1>3. Len(memory) = L
    <2>1. Len(memory) \in Nat /\ DOMAIN memory = 1..Len(memory)
      BY <1>2, ListLen
    <2> PICK k : k = Len(memory)
      OBVIOUS
    <2>2. k \in Nat /\ 1..k = 1..L
      BY <1>2, <2>1
    <2>3. k = L
      BY <1>2, <2>2
    <2> QED BY <2>3
  <1>4. \E N \in Nat : DOMAIN of' = 1..N /\ N >= L
    <2>1. CASE of' = of
      BY <1>2, <2>1
    <2>2. CASE \E r \in Nat : of' = Append(of, r)
      <3>1. PICK r \in Nat : of' = Append(of, r)
        BY <2>2
      <3>2. DOMAIN Append(of, r) = 1..L + 1
        BY <1>2
      <3> QED BY <1>2, <3>1, <3>2
    <2> QED BY <2>1, <2>2, LifeSteps
  <1>5. PICK N \in Nat : DOMAIN of' = 1..N /\ N >= L
    BY <1>4
  <1>6. \A c \in 1..L : of'[c] = of[c] /\ c \in DOMAIN of'
    <2>1. CASE of' = of
      BY <1>2, <2>1
    <2>2. CASE \E r \in Nat : of' = Append(of, r)
      <3>1. PICK r \in Nat : of' = Append(of, r)
        BY <2>2
      <3>2. \A c \in 1..L : c \in DOMAIN Append(of, r) /\ Append(of, r)[c] = of[c]
        BY <1>2
      <3> QED BY <3>1, <3>2
    <2> QED BY <2>1, <2>2, LifeSteps
  <1>7. \A c \in 1..L : c \in live' => c \in live
    <2>1. \/ live' \subseteq live
          \/ live' = live \cup {L + 1}
      BY LifeSteps
    <2>2. L + 1 \notin 1..L
      BY <1>2
    <2> QED BY <2>1, <2>2
  <1>8. IsList(memory') /\ DOMAIN memory' = 1..N
    <2>1. memory' = [c \in 1..N |-> memory'[c]]
      BY <1>1, <1>5
    <2> QED BY <1>1, <1>5, <2>1 DEF IsList
  <1>9. ASSUME NEW c \in 1..N
        PROVE  \/ c \in 1..L /\ memory'[c] = memory[c]
               \/ /\ Memo(memory'[c], DOMAIN values) /\ DOMAIN memory'[c].table = {}
                  /\ c \notin 1..L \/ c \notin live'
    <2>1. CASE c > L
      <3>1. memory'[c] = Fresh
        BY <1>1, <1>3, <1>5, <2>1
      <3>2. DOMAIN Fresh.table = {}
        BY DEF Fresh
      <3>3. Memo(Fresh, DOMAIN values)
        BY <3>2 DEF Fresh, Memo
      <3>4. c \notin 1..L
        BY <2>1, <1>2
      <3> QED BY <3>1, <3>2, <3>3, <3>4
    <2>2. CASE ~(c > L) /\ c \in live \ live'
      <3> PICK o : o = memory[c]
        OBVIOUS
      <3> PICK m : m = [o EXCEPT !.table = << >>, !.overflowed = FALSE]
        OBVIOUS
      <3>1. memory'[c] = m
        BY <1>1, <1>3, <1>5, <2>2
      <3>2. Memo(o, DOMAIN values)
        BY <1>2, <2>2
      <3>3. o = [table |-> o.table, overflowed |-> o.overflowed, raced |-> o.raced,
                 reported |-> o.reported, responseChannels |-> o.responseChannels]
        BY <3>2 DEF Memo
      <3>4. m = [table |-> << >>, overflowed |-> FALSE, raced |-> o.raced,
                 reported |-> o.reported, responseChannels |-> o.responseChannels]
        BY <3>3
      <3>5. DOMAIN m.table = {} /\ m.overflowed = FALSE /\ m.raced = o.raced /\ o.raced \in BOOLEAN
        BY <3>2, <3>4 DEF Memo
      <3>6. m = [table |-> m.table, overflowed |-> m.overflowed, raced |-> m.raced,
                 reported |-> m.reported, responseChannels |-> m.responseChannels]
        BY <3>4
      <3>7. Memo(m, DOMAIN values)
        BY <3>5, <3>6 DEF Memo
      <3> QED BY <2>2, <3>1, <3>5, <3>7
    <2>3. CASE ~(c > L) /\ c \notin live \ live'
      <3>1. c \in 1..L
        BY <1>2, <2>3
      <3> QED BY <1>1, <1>3, <1>5, <2>3, <3>1
    <2> QED BY <2>1, <2>2, <2>3
  <1>10. DataTyped'
    <2>1. \A v \in DOMAIN values : values[v].seen = 0 \/ values[v].seen \in DOMAIN of'
      BY <1>2, <1>6
    <2>2. \A c \in DOMAIN memory' : Memo(memory'[c], DOMAIN values)
      BY <1>2, <1>8, <1>9
    <2> QED BY <1>1, <1>2, <1>5, <1>8, <2>1, <2>2 DEF DataTyped
  <1>11. ASSUME NEW v \in DOMAIN values PROVE CaughtAt(v)'
    <2> PICK d : d = values[v].seen
      OBVIOUS
    <2>1. SUFFICES ASSUME ~Blind(values[v].seen, v)' PROVE Caught(TaintOf(values[v].seen, v), Chars(v))'
      BY DEF CaughtAt
    <2>2. /\ d # 0 /\ d \in live' /\ ~memory'[d].overflowed /\ ~memory'[d].raced
          /\ ~values[v].blurred
      BY <1>1, <2>1 DEF Blind
    <2>3. d \in 1..L
      BY <1>2, <2>2
    <2>4. d \in live /\ d \in 1..N
      BY <1>5, <1>6, <1>7, <2>2, <2>3
    <2>5. memory'[d] = memory[d]
      BY <1>9, <2>2, <2>3, <2>4
    <2>6. ~Blind(d, v) /\ CaughtAt(v)
      BY <2>2, <2>4, <2>5 DEF Blind, DataInv
    <2> QED BY <1>1, <2>5, <2>6 DEF CaughtAt, TaintOf, Chars
  <1>12. ASSUME NEW c \in DOMAIN memory', NEW v \in DOMAIN values PROVE BackedAt(c, v)'
    <2>1. CASE c \in 1..L /\ memory'[c] = memory[c]
      <3>1. BackedAt(c, v) /\ strayed \subseteq strayed'
        BY <1>2, <2>1, LifeSteps DEF DataInv
      <3> QED BY <1>1, <1>6, <2>1, <3>1 DEF BackedAt, Chars
    <2>2. CASE DOMAIN memory'[c].table = {}
      BY <2>2 DEF BackedAt
    <2> QED BY <1>8, <1>9, <2>1, <2>2
  <1> QED BY <1>1, <1>10, <1>11, <1>12 DEF DataInv

(***************************************************************************)
(* Flows and blocking                                                      *)
(***************************************************************************)
LEMMA InitFlow == Init => FlowInv
  <1> SUFFICES ASSUME Init PROVE FlowInv
    OBVIOUS
  <1>1. IInv
    BY InitHolds DEF Init
  <1>2. /\ values = << >> /\ memory = << >> /\ of = << >> /\ agenda \in Agendas
        /\ tasks = {} /\ \A t \in Thread : stack[t] = << >>
    BY DEF Init, LifeInit
  <1>3. Numbered
    BY <1>2 DEF Numbered, Working
  <1>4. values \in Seq(Value) /\ DOMAIN values = {} /\ IsList(memory) /\ DOMAIN memory = {} /\ DOMAIN of = {}
    <2>1. << >> \in Seq(Value) /\ DOMAIN << >> = {}
      OBVIOUS
    <2>2. IsList(<< >>)
      BY ListsAreLists
    <2> QED BY <1>2, <2>1, <2>2
  <1>5. DataInv
    BY <1>2, <1>4 DEF DataInv, DataTyped
  <1> QED BY <1>1, <1>3, <1>5 DEF FlowInv

\* Strings and builders are values.
LEMMA KindsAreValues ==
    /\ \A v \in Strings : v \in DOMAIN values
    /\ \A b \in Builders : b \in DOMAIN values
  BY DEF Strings, Builders

\* The actions of each group of the next-state relation keep the data invariant: sources,
LEMMA SourcesHold == ASSUME FlowInv, Sources PROVE DataInv'
  <1>1. ASSUME NEW t \in Thread, NEW accessor \in DOMAIN Accessors, NEW text \in agenda.texts,
               Read(t, accessor, text)
        PROVE  DataInv'
    BY <1>1, ReadHolds
  <1>2. ASSUME NEW t \in Thread, NEW text \in agenda.texts, ReadBody(t, text) PROVE DataInv'
    BY <1>2, ReadBodyHolds
  <1>3. ASSUME NEW t \in Thread, NEW kind \in agenda.literals, Literal(t, kind = "hostile", kind = "blank")
        PROVE  DataInv'
    <2>1. (kind = "hostile") \in BOOLEAN /\ (kind = "blank") \in BOOLEAN
      OBVIOUS
    <2> PICK h \in BOOLEAN, b \in BOOLEAN : h = (kind = "hostile") /\ b = (kind = "blank")
      BY <2>1, Zenon
    <2>2. Literal(t, h, b)
      BY <1>3, Zenon
    <2> QED BY <2>2, LiteralHolds
  <1> QED BY <1>1, <1>2, <1>3, Zenon DEF Sources

\* strings,
LEMMA StringsHold == ASSUME FlowInv, OverStrings PROVE DataInv'
  <1>1. ASSUME NEW t \in Thread, NEW v \in Strings, NEW r \in Strings, ConcatOf(t, v, r) PROVE DataInv'
    BY <1>1, KindsAreValues, ConcatHolds
  <1>2. ASSUME NEW t \in Thread, NEW v \in Strings, NEW r \in Strings, NEW operands, IndyConcat(t, v, r, operands)
        PROVE  DataInv'
    BY <1>2, KindsAreValues, IndyHolds
  <1>3. ASSUME NEW t \in Thread, NEW v \in Strings, NEW from \in 0..Length(v), NEW to \in from..Length(v),
               SubstringOf(t, v, from, to)
        PROVE  DataInv'
    BY <1>3, KindsAreValues, SubstringHolds
  <1>4. ASSUME NEW t \in Thread, NEW v \in Strings, NEW method, Preserve(t, v, method) PROVE DataInv'
    BY <1>4, KindsAreValues, PreserveHolds
  <1>5. ASSUME NEW t \in Thread, NEW v \in Strings, NEW r \in Strings, Format(t, v, r) PROVE DataInv'
    BY <1>5, KindsAreValues, FormatHolds
  <1>6. ASSUME NEW t \in Thread, NEW v \in Strings, Decode(t, v) PROVE DataInv'
    BY <1>6, KindsAreValues, DecodeHolds
  <1>7. ASSUME NEW t \in Thread, NEW v \in Strings, NEW k \in 0..Length(v) - 1, Split(t, v, k) PROVE DataInv'
    BY <1>7, KindsAreValues, SplitHolds
  <1>8. ASSUME NEW t \in Thread, NEW v \in Strings, NEW encoder \in DOMAIN Clears, Sanitize(t, v, encoder)
        PROVE  DataInv'
    BY <1>8, KindsAreValues, SanitizeHolds
  <1>9. ASSUME NEW t \in Thread, NEW v \in Strings, NEW w \in Strings, Intern(t, v, w) PROVE DataInv'
    BY <1>9, KindsAreValues, InternHolds
  <1> QED BY <1>1, <1>2, <1>3, <1>4, <1>5, <1>6, <1>7, <1>8, <1>9, Zenon DEF OverStrings

\* builders,
LEMMA BuildersHold == ASSUME FlowInv, OverBuilders PROVE DataInv'
  <1>1. ASSUME NEW t \in Thread, NEW b \in Builders, NEW v \in Strings, BuilderAppend(t, b, v) PROVE DataInv'
    BY <1>1, KindsAreValues, AppendHolds
  <1>2. ASSUME NEW t \in Thread, NEW b \in Builders, NEW v \in Strings, NEW from \in 0..Length(b),
               NEW to \in from..Length(b) + 1, BuilderReplace(t, b, from, to, v)
        PROVE  DataInv'
    BY <1>2, KindsAreValues, ReplaceHolds
  <1>3. ASSUME NEW t \in Thread, NEW b \in Builders, BuilderReverse(t, b) PROVE DataInv'
    BY <1>3, ReverseHolds
  <1>4. ASSUME NEW t \in Thread, NEW b \in Builders, NEW n \in 0..Length(b), SetLength(t, b, n) PROVE DataInv'
    BY <1>4, SetLengthHolds
  <1>5. ASSUME NEW t \in Thread, NEW b \in Builders, BuilderToString(t, b) PROVE DataInv'
    BY <1>5, KindsAreValues, ToStringHolds
  <1> QED BY <1>1, <1>2, <1>3, <1>4, <1>5, Zenon DEF OverBuilders

\* and everything else.
LEMMA OthersHold == ASSUME FlowInv, Others PROVE DataInv'
  <1>0. DataInv
    BY DEF FlowInv
  <1>1. ASSUME NEW t \in Thread, NewBuilder(t) PROVE DataInv'
    BY <1>1, NewBuilderHolds
  <1>2. ASSUME NEW t \in Thread, NEW v \in DOMAIN values, NEW method, Derive(t, v, method) PROVE DataInv'
    BY <1>2, DeriveHolds
  <1>3. ASSUME NEW t, GetWriter(t) PROVE DataInv'
    BY <1>0, <1>3, GetWriterHolds
  <1>4. ASSUME NEW t, NEW v, NEW advice, Sink(t, v, advice) PROVE DataInv'
    <2>1. PICK rule : BlockingSink(t, v, rule, advice)
      BY <1>4 DEF Sink
    <2> QED BY <1>0, <2>1, SinkHolds
  <1>5. ASSUME NEW t, NEW v, ResponseWrite(t, v) PROVE DataInv'
    <2>1. \E rule, site : BlockingSink(t, v, rule, site)
      BY <1>5 DEF ResponseWrite
    <2> QED BY <1>0, <2>1, SinkHolds
  <1>6. ASSUME NEW t, NEW v, NEW advice, ObjectSink(t, v, advice) PROVE DataInv'
    BY <1>0, <1>6, ObjectSinkHolds
  <1>7. \A v \in Strings : v \in DOMAIN values
    BY KindsAreValues
  <1> QED BY <1>1, <1>2, <1>3, <1>4, <1>5, <1>6, <1>7, Zenon DEF Others

\* Every step keeps the contexts and the data.
LEMMA FlowStep == FlowInv /\ [Next]_vars => FlowInv'
  <1> SUFFICES ASSUME FlowInv, [Next]_vars PROVE FlowInv'
    OBVIOUS
  <1>0. IInv /\ Numbered /\ DataInv
    BY DEF FlowInv
  <1>1. [LifeNext]_lifecycle
    BY StepIsLifeStep
  <1>2. IInv'
    BY <1>0, <1>1, StepKeeps
  <1>3. CASE Threads
    <2>1. LifeNext /\ Data
      BY <1>3, Zenon
         DEF Threads, Arrive, Forward, Return, Submit, Start, RunInline, Finish, LifeNext
    <2>2. Numbered' /\ DataInv'
      BY <1>0, <2>1, LifeSteps, ThreadsHold
    <2> QED BY <1>2, <2>2 DEF FlowInv
  <1>4. CASE Sources \/ OverStrings \/ OverBuilders \/ Others
    <2>1. UNCHANGED lifecycle
      BY <1>4, HooksLeaveThreads
    <2>2. Numbered'
      BY <1>0, <2>1 DEF lifecycle, Numbered
    <2>3. DataInv'
      BY <1>4, SourcesHold, StringsHold, BuildersHold, OthersHold
    <2> QED BY <1>2, <2>2, <2>3 DEF FlowInv
  <1>5. CASE UNCHANGED vars
    <2>1. /\ of' = of /\ live' = live /\ agenda' = agenda /\ values' = values /\ memory' = memory
          /\ strayed' = strayed /\ UNCHANGED lifecycle
      BY <1>5 DEF vars, lifecycle
    <2>2. Numbered'
      BY <1>0, <2>1 DEF lifecycle, Numbered
    <2>3. IsList(memory) /\ \A c \in DOMAIN memory : Memo(memory[c], DOMAIN values)
      BY <1>0 DEF DataInv, DataTyped
    <2>4. DataInv'
      BY <1>0, <2>1, <2>3, TablesKept
    <2> QED BY <1>2, <2>2, <2>4 DEF FlowInv
  <1> QED BY <1>3, <1>4, <1>5 DEF Next

\* What the tables know is what the two flow properties say.
LEMMA FlowMeans == FlowInv => FlowsAreCaught /\ OnlyRealFlows
  <1> SUFFICES ASSUME FlowInv PROVE FlowsAreCaught /\ OnlyRealFlows
    OBVIOUS
  <1>0. DataInv /\ DataTyped /\ values \in Seq(Value)
    BY DEF FlowInv, DataInv, DataTyped
  <1>1. FlowsAreCaught
    <2> SUFFICES ASSUME NEW v \in DOMAIN values, ~Blind(values[v].seen, v), NEW rule \in RuleClass,
                        NEW i \in 1..Length(v), Chars(v)[i].by # 0, rule \notin Chars(v)[i].cleared
                 PROVE  IsDangerousIn(TaintOf(values[v].seen, v), 0, Length(v), rule)
      BY DEF FlowsAreCaught
    <2> PICK c, s, a : c = values[v].seen /\ s = TaintOf(c, v) /\ a = Chars(v)
      OBVIOUS
    <2>1. a \in Seq(Characters) /\ Length(v) = Len(a) /\ Len(a) \in Nat
      <3>1. values[v] \in Value
        BY <1>0
      <3>2. a \in Seq(Characters)
        BY <3>1 DEF Value, Chars
      <3> QED BY <3>2 DEF Length, Chars
    <2>2. Caught(s, a)
      BY <1>0 DEF DataInv, CaughtAt
    <2>3. Warns(Ranges(s), i - 1, rule)
      BY <2>1, <2>2 DEF Caught, Threatens
    <2>4. s \in Taints
      <3>1. c \in DOMAIN memory /\ Memo(memory[c], DOMAIN values)
        BY <1>0 DEF Blind, DataTyped
      <3> QED BY <3>1, EmptyIsBacked DEF TaintOf, Memo
    <2>5. PICK r \in Ranges(s) : Marks(r, i - 1) /\ rule \notin r.cleared
      BY <2>3 DEF Warns
    <2>6. r \in TaintRange /\ \E n \in DOMAIN s.ranges : s.ranges[n] = r
      BY <2>4, TaintFacts DEF Ranges, Range
    <2>7. Overlaps(r, 0, Length(v))
      <3>1. r.start \in Nat /\ End(r) \in Nat
        BY <2>6, RangeFacts
      <3>2. i - 1 \in Nat /\ i - 1 < Length(v)
        BY <2>1
      <3> QED BY <2>1, <2>5, <3>1, <3>2 DEF Marks, Overlaps
    <2> QED BY <2>5, <2>6, <2>7 DEF IsDangerousIn
  <1>2. OnlyRealFlows
    <2> SUFFICES ASSUME NEW c \in DOMAIN memory, ~memory[c].raced, NEW v \in DOMAIN memory[c].table,
                        c \notin strayed, ~values[v].blurred, ~memory[c].table[v].imprecise,
                        NEW n \in DOMAIN memory[c].table[v].ranges
                 PROVE  LET r == memory[c].table[v].ranges[n]
                        IN  /\ End(r) <= Length(v)
                            /\ \A i \in r.start + 1..End(r) :
                                   LET ch == Chars(v)[i]
                                   IN  /\ ch.by = of[c] /\ ch.source = r.source /\ ch.cleared = r.cleared
      BY DEF OnlyRealFlows
    <2> PICK s, a, r : s = memory[c].table[v] /\ a = Chars(v) /\ r = s.ranges[n]
      OBVIOUS
    <2>1. s \in Taints /\ v \in DOMAIN values
      BY <1>0 DEF DataTyped, Memo
    <2>2. Backed(s, a, of[c])
      BY <1>0, <2>1 DEF DataInv, BackedAt
    <2>3. r \in TaintRange /\ r \in Ranges(s)
      BY <2>1, TaintFacts DEF Ranges, Range
    <2>4. a \in Seq(Characters) /\ Length(v) = Len(a) /\ Len(a) \in Nat
      <3>1. values[v] \in Value
        BY <1>0, <2>1
      <3>2. a \in Seq(Characters)
        BY <3>1 DEF Value, Chars
      <3> QED BY <3>2 DEF Length, Chars
    <2>5. r.start \in Nat /\ End(r) \in Nat /\ r.start < End(r)
      BY <2>3, RangeFacts
    <2>6. ASSUME NEW j \in Nat, Marks(r, j)
          PROVE  j + 1 <= Len(a) /\ a[j + 1].by = of[c] /\ a[j + 1].source = r.source /\ a[j + 1].cleared = r.cleared
      <3>1. Says(Ranges(s), j, r.source, r.cleared)
        BY <2>3, <2>6 DEF Says
      <3> QED BY <2>2, <3>1 DEF Backed
    <2>7. End(r) <= Len(a)
      <3>1. End(r) - 1 \in Nat /\ Marks(r, End(r) - 1) /\ (End(r) - 1) + 1 = End(r)
        BY <2>5 DEF Marks
      <3> QED BY <2>6, <3>1
    <2>8. ASSUME NEW i \in r.start + 1..End(r)
          PROVE  a[i].by = of[c] /\ a[i].source = r.source /\ a[i].cleared = r.cleared
      <3>1. i - 1 \in Nat /\ Marks(r, i - 1) /\ (i - 1) + 1 = i
        BY <2>5 DEF Marks
      <3> PICK j : j = i - 1
        OBVIOUS
      <3>2. j \in Nat /\ Marks(r, j) /\ j + 1 = i
        BY <3>1
      <3> QED BY <2>6, <3>2
    <2> QED BY <2>4, <2>7, <2>8
  <1> QED BY <1>1, <1>2

\* Whatever the application builds of what a request sent is dangerous, in the
\* table of the context that saw it built, for every rule one of its characters
\* has not been cleared for: no propagator of AgentRuntime and no operation of
\* TaintedValue loses a flow, but for the losses Blind names.
THEOREM NoFlowIsLost == Spec => []FlowsAreCaught
  <1>1. Init => FlowInv
    BY InitFlow
  <1>2. FlowInv /\ [Next]_vars => FlowInv'
    BY FlowStep
  <1>3. FlowInv => FlowsAreCaught
    BY FlowMeans
  <1> QED BY <1>1, <1>2, <1>3, PTL DEF Spec

\* A range that is not called imprecise lies inside its value and marks
\* characters which this very request sent from that source, cleared for what
\* the range is cleared for, in every table that was not raced and for every
\* value the hooks have not blurred: the ranges of TaintedValue are true.
THEOREM EvidenceIsTrue == Spec => []OnlyRealFlows
  <1>1. Init => FlowInv
    BY InitFlow
  <1>2. FlowInv /\ [Next]_vars => FlowInv'
    BY FlowStep
  <1>3. FlowInv => OnlyRealFlows
    BY FlowMeans
  <1> QED BY <1>1, <1>2, <1>3, PTL DEF Spec

-----------------------------------------------------------------------------
(* Blocking                                                                 *)

\* No step changes the characters of a value that is not a builder.
ValuesKept ==
    /\ IsList(values')
    /\ \A v \in DOMAIN values :
           /\ v \in DOMAIN values'
           /\ values[v].kind # "builder" =>
                  values'[v].kind = values[v].kind /\ values'[v].chars = values[v].chars
\* A step that lets no operation run.
Keeps == ValuesKept /\ ran' = ran /\ agenda' = agenda

\* A new value leaves the operations that ran as they were.
LEMMA MakeKeeps ==
    ASSUME IsList(values), NEW t, NEW new, IsList(new), NEW taints, Make(t, new, taints)
    PROVE  Keeps
  <1>1. values' = values \o new /\ ran' = ran /\ agenda' = agenda
    BY DEF Make
  <1> QED
    BY <1>1, ListGrows DEF Keeps, ValuesKept

\* A value edited in place leaves the operations that ran as they were.
LEMMA MutateKeeps ==
    ASSUME IsList(values), NEW t, NEW b \in Builders, NEW method, NEW chars, NEW from, NEW moved,
           NEW taint, Mutate(t, b, method, chars, from, moved, taint)
    PROVE  Keeps
  <1> DEFINE new == Made(t, "builder", chars, from \cup {b}, moved \/ Unwatched(t, b))
  <1>1. values' = [values EXCEPT ![b] = new] /\ ran' = ran /\ agenda' = agenda
    BY DEF Mutate
  <1> HIDE DEF new
  <1>2. PICK n \in Nat : values = [i \in 1..n |-> values[i]]
    BY DEF IsList
  <1>3. values' = [i \in 1..n |-> IF i = b THEN new ELSE values[i]]
    BY <1>1, <1>2
  <1>4. DOMAIN values = 1..n /\ DOMAIN values' = 1..n
    BY <1>2, <1>3
  <1>5. values' = [i \in 1..n |-> values'[i]]
    BY <1>3
  <1>6. \A v \in DOMAIN values : values[v].kind # "builder" => values'[v] = values[v]
    BY <1>3, <1>4 DEF Builders
  <1> QED
    BY <1>1, <1>4, <1>5, <1>6 DEF Keeps, ValuesKept, IsList

\* So do the steps of the threads,
LEMMA ThreadsKeep == ASSUME IsList(values), Threads PROVE Keeps
  <1>1. Data
    BY Zenon DEF Threads, Arrive, Forward, Return, Submit, Start, RunInline, Finish
  <1> QED
    BY <1>1 DEF Data, Keeps, ValuesKept

\* the sources,
LEMMA SourcesKeep == ASSUME IsList(values), Sources PROVE Keeps
  <1>1. ASSUME NEW t, NEW accessor, NEW text, Read(t, accessor, text) PROVE Keeps
    BY <1>1, MakeKeeps, ListsAreLists DEF Read
  <1>2. ASSUME NEW t, NEW text, ReadBody(t, text) PROVE Keeps
    BY <1>2, MakeKeeps, ListsAreLists DEF ReadBody
  <1>3. ASSUME NEW t, NEW h, NEW b, Literal(t, h, b) PROVE Keeps
    BY <1>3, MakeKeeps, ListsAreLists DEF Literal
  <1> QED
    BY <1>1, <1>2, <1>3, Zenon DEF Sources

\* intern, which only notes,
LEMMA InternKeeps ==
    ASSUME IsList(values), values \in Seq(Value), NEW t, NEW v \in Strings, NEW w \in Strings, Intern(t, v, w)
    PROVE  Keeps
  <1>1. values' = [values EXCEPT ![w] = [values[w] EXCEPT !.blurred = values[w].blurred \/ w # v]]
    BY DEF Intern
  <1> PICK old \in Value : old = values[w]
    BY DEF Strings
  <1> PICK new : new = [old EXCEPT !.blurred = old.blurred \/ w # v]
    OBVIOUS
  <1>2. new.kind = old.kind /\ new.chars = old.chars
    BY DEF Value
  <1>3. PICK n \in Nat : values = [i \in 1..n |-> values[i]]
    BY DEF IsList
  <1>4. values' = [i \in 1..n |-> IF i = w THEN new ELSE values[i]]
    BY <1>1, <1>3
  <1>5. DOMAIN values = 1..n /\ DOMAIN values' = 1..n
    BY <1>3, <1>4
  <1>6. values' = [i \in 1..n |-> values'[i]]
    BY <1>4
  <1>7. \A x \in DOMAIN values : values'[x].kind = values[x].kind /\ values'[x].chars = values[x].chars
    BY <1>2, <1>4, <1>5
  <1>8. ran' = ran /\ agenda' = agenda
    BY DEF Intern
  <1> QED
    BY <1>5, <1>6, <1>7, <1>8 DEF Keeps, ValuesKept, IsList

\* the other operations on strings
LEMMA StringsKeep == ASSUME IsList(values), values \in Seq(Value), OverStrings PROVE Keeps
  <1>1. ASSUME NEW t, NEW v, NEW r, ConcatOf(t, v, r) PROVE Keeps
    BY <1>1, MakeKeeps, ListsAreLists DEF ConcatOf
  <1>2. ASSUME NEW t, NEW v, NEW r, NEW operands, IndyConcat(t, v, r, operands) PROVE Keeps
    BY <1>2, MakeKeeps, ListsAreLists DEF IndyConcat
  <1>3. ASSUME NEW t, NEW v, NEW from, NEW to, SubstringOf(t, v, from, to) PROVE Keeps
    BY <1>3, MakeKeeps, ListsAreLists DEF SubstringOf
  <1>4. ASSUME NEW t, NEW v, NEW method, Preserve(t, v, method) PROVE Keeps
    BY <1>4, MakeKeeps, ListsAreLists DEF Preserve
  <1>5. ASSUME NEW t, NEW v, NEW r, Format(t, v, r) PROVE Keeps
    BY <1>5, MakeKeeps, ListsAreLists DEF Format
  <1>6. ASSUME NEW t, NEW v, Decode(t, v) PROVE Keeps
    BY <1>6, MakeKeeps, ListsAreLists DEF Decode
  <1>7. ASSUME NEW t, NEW v, NEW k, Split(t, v, k) PROVE Keeps
    BY <1>7, MakeKeeps, ListsAreLists DEF Split
  <1>8. ASSUME NEW t, NEW v, NEW encoder, Sanitize(t, v, encoder) PROVE Keeps
    BY <1>8, MakeKeeps, ListsAreLists DEF Sanitize
  <1>9. ASSUME NEW t, NEW v \in Strings, NEW w \in Strings, Intern(t, v, w) PROVE Keeps
    BY <1>9, InternKeeps
  <1> QED
    BY <1>1, <1>2, <1>3, <1>4, <1>5, <1>6, <1>7, <1>8, <1>9, Zenon DEF OverStrings

\* and those on builders.
LEMMA BuildersKeep == ASSUME IsList(values), OverBuilders PROVE Keeps
  <1>1. ASSUME NEW t, NEW b \in Builders, NEW v, BuilderAppend(t, b, v) PROVE Keeps
    BY <1>1, MutateKeeps DEF BuilderAppend
  <1>2. ASSUME NEW t, NEW b \in Builders, NEW from, NEW to, NEW v, BuilderReplace(t, b, from, to, v)
        PROVE  Keeps
    BY <1>2, MutateKeeps DEF BuilderReplace
  <1>3. ASSUME NEW t, NEW b \in Builders, BuilderReverse(t, b) PROVE Keeps
    BY <1>3, MutateKeeps DEF BuilderReverse
  <1>4. ASSUME NEW t, NEW b \in Builders, NEW n, SetLength(t, b, n) PROVE Keeps
    BY <1>4, MutateKeeps DEF SetLength
  <1>5. ASSUME NEW t, NEW b, BuilderToString(t, b) PROVE Keeps
    BY <1>5, MakeKeeps, ListsAreLists DEF BuilderToString
  <1> QED
    BY <1>1, <1>2, <1>3, <1>4, <1>5, Zenon DEF OverBuilders

\* What was let through is no builder, so it still reads as it did.
RanOK ==
    /\ IsList(values)
    /\ \A s \in ran : s.value \in DOMAIN values /\ values[s.value].kind # "builder"
    /\ ExploitIsStopped

\* An attack of the request itself, where AttackSignatures looks for it.
Attacks(v, rule) ==
    /\ rule \in HasSignature
    /\ \E i \in 1..Smaller(Length(v), MaxInspected) : /\ Chars(v)[i].by # 0 /\ Chars(v)[i].hostile
                               /\ rule \notin Chars(v)[i].cleared

\* A step that keeps what ran lets nothing run that had to be stopped.
LEMMA KeepingIsStopping == ASSUME RanOK, Keeps PROVE RanOK'
  <1>1. ASSUME NEW s \in ran
        PROVE  /\ s.value \in DOMAIN values' /\ values'[s.value].kind = values[s.value].kind
               /\ values'[s.value].chars = values[s.value].chars
    BY DEF RanOK, Keeps, ValuesKept
  <1>2. ExploitIsStopped'
    BY <1>1 DEF RanOK, Keeps, ExploitIsStopped, Chars, Length
  <1>3. \A s \in ran' : s.value \in DOMAIN values' /\ values'[s.value].kind # "builder"
    BY <1>1 DEF RanOK, Keeps
  <1> QED
    BY <1>2, <1>3 DEF RanOK, Keeps, ValuesKept

\* A sink a context watches throws when an attack of the request reaches it.
LEMMA SinkStops ==
    ASSUME RanOK, FlowsAreCaught, values \in Seq(Value), NEW t, NEW v \in Strings, NEW rule \in RuleClass, NEW site,
           BlockingSink(t, v, rule, site)
    PROVE  RanOK'
  <1>0. Length(v) \in Nat /\ \A i \in 1..Smaller(Length(v), MaxInspected) : i \in 1..Length(v)
    <2>1. values[v] \in Value
      BY DEF Strings
    <2>2. Length(v) \in Nat
      BY <2>1 DEF Value, Length
    <2> QED BY <2>2, FlowAssumption DEF Smaller
  <1> DEFINE c == ctx[t]
             result == OnSink(c, v, Length(v), rule, site, LooksMalicious(v, rule))
             new == [value |-> v, rule |-> rule, blind |-> Blind(c, v)]
  <1>1. /\ values' = values /\ agenda' = agenda
        /\ ran' = IF agenda.blocking /\ "EXPLOITED" \in result.returned THEN ran ELSE ran \cup {new}
    BY DEF BlockingSink
  <1>2. ASSUME ~ Blind(c, v), Attacks(v, rule) PROVE "EXPLOITED" \in result.returned
    <2>1. c # 0 /\ values[v].seen = c
      BY <1>2 DEF Blind
    <2>2. IsDangerousIn(TaintOf(c, v), 0, Length(v), rule)
      <3>1. v \in DOMAIN values
        BY DEF Strings
      <3> QED
        BY <1>0, <1>2, <2>1, <3>1 DEF FlowsAreCaught, Attacks
    <2>3. LooksMalicious(v, rule)
      BY <1>2 DEF Attacks, LooksMalicious
    <2>4. Evaluate(c, v, Length(v), rule, LooksMalicious(v, rule)) = {"EXPLOITED"}
      BY <2>2, <2>3 DEF Evaluate
    <2> QED
      BY <2>1, <2>4 DEF OnSink
  <1> HIDE DEF result
  <1>3. new.value = v /\ new.rule = rule /\ new.blind = Blind(c, v)
    OBVIOUS
  <1> HIDE DEF new
  <1>4. ASSUME NEW s \in ran', agenda.blocking, s.rule \in HasSignature, ~ s.blind
        PROVE  ~ Attacks(s.value, s.rule)
    <2>1. CASE s \in ran
      BY <1>4, <2>1 DEF RanOK, ExploitIsStopped, Attacks
    <2>2. CASE s \notin ran
      <3>1. s = new /\ "EXPLOITED" \notin result.returned
        BY <1>1, <1>4, <2>2
      <3> QED
        BY <1>2, <1>3, <1>4, <3>1
    <2> QED
      BY <2>1, <2>2
  <1>5. ExploitIsStopped'
    BY <1>1, <1>4 DEF ExploitIsStopped, Attacks, Chars, Length
  <1>6. \A s \in ran' : s.value \in DOMAIN values /\ values[s.value].kind # "builder"
    BY <1>1, <1>3 DEF RanOK, Strings
  <1> QED
    BY <1>1, <1>5, <1>6 DEF RanOK

\* Neither do the remaining hooks let an exploited operation run.
LEMMA OthersStop == ASSUME RanOK, FlowsAreCaught, values \in Seq(Value), Others PROVE RanOK'
  <1>0. IsList(values)
    BY DEF RanOK
  <1>1. ASSUME NEW t, NewBuilder(t) PROVE RanOK'
    BY <1>0, <1>1, MakeKeeps, ListsAreLists, KeepingIsStopping DEF NewBuilder
  <1>2. ASSUME NEW t, NEW v, NEW method, Derive(t, v, method) PROVE RanOK'
    BY <1>0, <1>2, MakeKeeps, ListsAreLists, KeepingIsStopping DEF Derive
  <1>3. ASSUME NEW t, GetWriter(t) PROVE RanOK'
    BY <1>0, <1>3, KeepingIsStopping DEF GetWriter, Keeps, ValuesKept
  <1>4. ASSUME NEW t, NEW v, NEW advice, ObjectSink(t, v, advice) PROVE RanOK'
    BY <1>0, <1>4, KeepingIsStopping DEF ObjectSink, Keeps, ValuesKept
  <1>5. ASSUME NEW t, NEW v \in Strings, NEW advice \in DOMAIN StringSinks, Sink(t, v, advice) PROVE RanOK'
    <2>1. StringSinks[advice] \in RuleClass
      BY TablesAreTyped
    <2> QED
      BY <1>5, <2>1, SinkStops DEF Sink
  <1>6. ASSUME NEW t, NEW v \in Strings, ResponseWrite(t, v) PROVE RanOK'
    BY <1>6, TablesAreTyped, SinkStops DEF ResponseWrite
  <1> QED
    BY <1>1, <1>2, <1>3, <1>4, <1>5, <1>6, Zenon DEF Others

\* With blocking on, a hooked operation throws for every attack of the request
\* itself within the characters AttackSignatures looks at, the second and the
\* hundredth time as the first: no flow is lost on its way, AgentRuntime.onSink
\* returns the finding whether or not it is the first (firstReport, the cap on
\* reports), and a string cannot change behind a sink's back.
THEOREM AttacksAreStopped == Spec => []ExploitIsStopped
  <1>1. Init => FlowInv /\ RanOK
    BY InitFlow, ListsAreLists DEF Init, RanOK, ExploitIsStopped
  <1>2. FlowInv /\ RanOK /\ [Next]_vars => (FlowInv /\ RanOK)'
    <2> SUFFICES ASSUME FlowInv, RanOK, [Next]_vars PROVE RanOK'
      BY FlowStep
    <2>0. IsList(values) /\ values \in Seq(Value) /\ FlowsAreCaught
      BY FlowMeans DEF RanOK, FlowInv, DataInv, DataTyped
    <2>1. CASE Threads \/ Sources \/ OverStrings \/ OverBuilders
      BY <2>0, <2>1, ThreadsKeep, SourcesKeep, StringsKeep, BuildersKeep, KeepingIsStopping
    <2>2. CASE Others
      BY <2>0, <2>2, OthersStop
    <2>3. CASE UNCHANGED vars
      BY <2>0, <2>3, KeepingIsStopping DEF vars, Keeps, ValuesKept
    <2> QED
      BY <2>1, <2>2, <2>3 DEF Next
  <1>3. RanOK => ExploitIsStopped
    BY DEF RanOK
  <1> QED
    BY <1>1, <1>2, <1>3, PTL DEF Spec
=============================================================================
