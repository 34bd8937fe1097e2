------------------------------- MODULE Taint -------------------------------
(***************************************************************************)
(* The taint algebra of the Java agent: TaintRange and TaintedValue.      *)
(*                                                                         *)
(* A range says that length characters from start on came from source and *)
(* which rule classes a sanitizer has cleared them for.  A tainted value  *)
(* is a sequence of ranges in the order of the list the code keeps, and a *)
(* flag saying that the ranges no longer show which characters they are.  *)
(* A source kind and a source name are abstracted to one value.           *)
(***************************************************************************)
EXTENDS Naturals, Sequences, FiniteSets, SequencesExt

CONSTANTS
    Source,         \* SourceKind with a name
    RuleClass,      \* the families of vulnerability
    MaxRanges       \* MAX_RANGES

ASSUME TaintAssumption == MaxRanges \in Nat \ {0}

TaintRange == [start : Nat, length : Nat \ {0}, source : Source, cleared : SUBSET RuleClass]

Smaller(a, b) == IF a <= b THEN a ELSE b
Larger(a, b) == IF a >= b THEN a ELSE b

-----------------------------------------------------------------------------
(* TaintRange.  Characters are counted from 0, end is exclusive.            *)

End(r) == r.start + r.length
\* The same source and the same clearings over other characters.
Rebound(r, start, length) ==
    [start |-> start, length |-> length, source |-> r.source, cleared |-> r.cleared]
Shift(r, delta) == [r EXCEPT !.start = @ + delta]
ClearFor(r, rule) == [r EXCEPT !.cleared = @ \cup {rule}]
Overlaps(r, from, to) == r.start < to /\ from < End(r)

\* What of r lies in [from, to), rebased to that window: one range or none.
Clip(r, from, to) ==
    LET first == Larger(r.start, from)
        last == Smaller(End(r), to)
    IN  IF last <= first THEN << >>
        ELSE <<Rebound(r, first - from, last - first)>>

MergeableWith(r, other) ==
    /\ r.source = other.source /\ r.cleared = other.cleared
    /\ r.start <= End(other) /\ other.start <= End(r)

MergeWith(r, other) ==
    LET first == Smaller(r.start, other.start)
    IN  Rebound(r, first, Larger(End(r), End(other)) - first)

-----------------------------------------------------------------------------
(* TaintedValue                                                             *)

Empty == [ranges |-> << >>, imprecise |-> FALSE]
IsTainted(v) == v.ranges # << >>

\* Sorted by start, then by end; List.sort leaves ties in the order of the list.
Before(r, other) == r.start < other.start \/ (r.start = other.start /\ End(r) < End(other))
Preceding(ranges, i) ==
    {j \in DOMAIN ranges :
        \/ Before(ranges[j], ranges[i])
        \/ ~Before(ranges[i], ranges[j]) /\ j < i}
Sorted(ranges) ==
    [n \in DOMAIN ranges |->
        ranges[CHOOSE i \in DOMAIN ranges : Cardinality(Preceding(ranges, i)) + 1 = n]]

\* One pass over the sorted list: a range is merged with the one before, or not.
MergeInto(merged, r) ==
    IF MergeableWith(Last(merged), r)
    THEN Front(merged) \o <<MergeWith(Last(merged), r)>>
    ELSE Append(merged, r)
Merged(sorted) ==
    LET merged[n \in 0..Len(sorted) - 1] ==
            IF n = 0 THEN <<sorted[1]>> ELSE MergeInto(merged[n - 1], sorted[n + 1])
    IN  merged[Len(sorted) - 1]

\* Beyond the cap: one covering range, cleared for what all parts are cleared for.
Covering(ranges, cleared) ==
    LET first == Min({ranges[i].start : i \in DOMAIN ranges})
        last == Max({End(ranges[i]) : i \in DOMAIN ranges})
    IN  [ranges |-> <<[start |-> first, length |-> last - first, source |-> ranges[1].source,
                       cleared |-> cleared]>>,
         imprecise |-> TRUE]
ClearedForAll(ranges) ==
    {rule \in ranges[1].cleared : \A i \in DOMAIN ranges : rule \in ranges[i].cleared}
CollapseUnion(ranges) ==    \* mutant: what any part is cleared for
    Covering(ranges, UNION {ranges[i].cleared : i \in DOMAIN ranges})
Collapse(ranges) == Covering(ranges, ClearedForAll(ranges))

Normalize(ranges, imprecise) ==
    IF ranges = << >> THEN [ranges |-> << >>, imprecise |-> imprecise]
    ELSE LET merged == Merged(Sorted(ranges))
         IN  IF Len(merged) <= MaxRanges
             THEN [ranges |-> merged, imprecise |-> imprecise]
             ELSE Collapse(merged)

ShiftAll(ranges, delta) == [i \in DOMAIN ranges |-> Shift(ranges[i], delta)]

FullyTainted(length, source) ==
    IF length = 0 THEN Empty
    ELSE [ranges |-> <<[start |-> 0, length |-> length, source |-> source, cleared |-> {}]>>,
          imprecise |-> FALSE]

IsDangerousIn(v, from, to, rule) ==
    \E i \in DOMAIN v.ranges :
        Overlaps(v.ranges[i], from, to) /\ rule \notin v.ranges[i].cleared

Concat(left, leftLength, right) ==
    IF ~IsTainted(left) /\ ~IsTainted(right) THEN Empty
    ELSE Normalize(left.ranges \o ShiftAll(right.ranges, leftLength),
                   left.imprecise \/ right.imprecise)

Substring(v, from, to) ==
    IF ~IsTainted(v) \/ to <= from THEN Empty
    ELSE Normalize(FlattenSeq([i \in DOMAIN v.ranges |-> Clip(v.ranges[i], from, to)]),
                   v.imprecise)

\* What of r survives outside [from, to) once n characters stand there instead.
OutsideWindow(r, from, to, n) ==
    IF End(r) <= from THEN <<r>>
    ELSE IF r.start >= to THEN <<Rebound(r, (r.start + n) - (to - from), r.length)>>
    ELSE (IF r.start < from THEN <<Rebound(r, r.start, from - r.start)>> ELSE << >>)
         \o (IF End(r) > to
             THEN <<Rebound(r, from + n, End(r) - to)>> ELSE << >>)

Replace(v, from, to, replacement, n) ==
    IF ~IsTainted(v) /\ ~IsTainted(replacement) THEN Empty
    ELSE Normalize(
            FlattenSeq([i \in DOMAIN v.ranges |-> OutsideWindow(v.ranges[i], from, to, n)])
                \o ShiftAll(replacement.ranges, from),
            v.imprecise \/ replacement.imprecise)

\* A rewrite of the whole value: one imprecise range over all of the result.
Reshaped(v, length) ==
    IF ~IsTainted(v) \/ length = 0 THEN Empty
    ELSE Normalize(<<[start |-> 0, length |-> length, source |-> v.ranges[1].source,
                      cleared |-> ClearedForAll(v.ranges)]>>,
                   TRUE)

Reversed(v, length) ==
    IF ~IsTainted(v) \/ length = 0 THEN Empty
    ELSE IF \E i \in DOMAIN v.ranges : End(v.ranges[i]) > length THEN Reshaped(v, length)
    ELSE Normalize([i \in DOMAIN v.ranges |->
                       [v.ranges[i] EXCEPT !.start = length - End(v.ranges[i])]], v.imprecise)

SanitizedFor(v, rule) ==
    IF ~IsTainted(v) THEN v
    ELSE Normalize([i \in DOMAIN v.ranges |-> ClearFor(v.ranges[i], rule)], v.imprecise)

\* A sanitizer clears one rule class after the other.
SanitizedForAll(v, rules) ==
    LET taint[n \in 0..Len(rules)] ==
            IF n = 0 THEN v ELSE SanitizedFor(taint[n - 1], rules[n])
    IN  taint[Len(rules)]

\* Length-preserving transforms keep the ranges as they are.
PreservingTransform(v) == v
=============================================================================
