---------------------------- MODULE FindingRules ----------------------------
(***************************************************************************)
(* What one finding is and how it may change: the entity of               *)
(* domain/entities/findings.py and the folding of one taint hit into it   *)
(* (ProcessRuntimeEvents._apply), as functions from a row to a row.        *)
(***************************************************************************)
EXTENDS Integers, Sequences, FiniteSets

CONSTANT AgentContexts      \* agent id -> [app, env, facing, criticality, mode]

Criticality == {"LOW", "MEDIUM", "HIGH", "CRITICAL"}
Environment == {"DEVELOPMENT", "QA", "STAGING", "PRODUCTION"}

ASSUME ContextAssumption ==
    \A a \in DOMAIN AgentContexts :
        /\ AgentContexts[a].criticality \in Criticality
        /\ AgentContexts[a].env \in Environment /\ AgentContexts[a].facing \in BOOLEAN

Never == 0                  \* a timestamp column that is NULL
NoRow == [status |-> "ABSENT"]

Suppressed(s) == s \in {"FALSE_POSITIVE", "ACCEPTED_RISK"}

Allowed ==
    [OPEN           |-> {"CONFIRMED", "REMEDIATED", "FALSE_POSITIVE", "ACCEPTED_RISK"},
     CONFIRMED      |-> {"REMEDIATED", "FALSE_POSITIVE", "ACCEPTED_RISK"},
     REMEDIATED     |-> {"OPEN", "CONFIRMED"},
     FALSE_POSITIVE |-> {"OPEN"},
     ACCEPTED_RISK  |-> {"OPEN"}]

ConfidenceOrder == [SUSPECTED |-> 0, CONFIRMED |-> 1, EXPLOITED |-> 2]

(***************************************************************************)
(* The score.  Weights are integers: severity, confidence and exposure in  *)
(* tenths (exposure times internet facing in hundredths), criticality in   *)
(* hundredths, so that a product is in millionths of a point; a score is   *)
(* rounded to hundredths of a point, as the column stores it.              *)
(***************************************************************************)
SeverityBase == [INFO |-> 10, LOW |-> 30, MEDIUM |-> 50, HIGH |-> 75, CRITICAL |-> 90]
Severity == DOMAIN SeverityBase
ConfidenceWeight == [SUSPECTED |-> 7, CONFIRMED |-> 10, EXPLOITED |-> 12]
CriticalityWeight == [LOW |-> 60, MEDIUM |-> 80, HIGH |-> 100, CRITICAL |-> 125]
ExposureWeight(env, facing) ==
    [DEVELOPMENT |-> 3, QA |-> 4, STAGING |-> 7, PRODUCTION |-> 10][env]
        * (IF facing THEN 13 ELSE 10)

AtMost(x, y) == IF x < y THEN x ELSE y

\* bit_length(n) - 1, as far as the cap of half a point lets it matter
Doublings(n) == Cardinality({k \in 1..5 : 2^k <= n})

Score(severity, confidence, exposure, criticality, occurrences) ==
    LET product == SeverityBase[severity] * ConfidenceWeight[confidence]
                     * exposure * CriticalityWeight[criticality]
        attack  == IF confidence = "EXPLOITED" THEN 1000000 ELSE 0
        volume  == 100000 * Doublings(occurrences)
    IN (AtMost(product + attack + volume, 10000000) + 5000) \div 10000

(***************************************************************************)
(* Identity.  A hit carries the agent, the rule, the sink with a trailing  *)
(* line reference, the tainted ranges and the stack, innermost frame first *)
(***************************************************************************)
Registered(h) == h.agent \in DOMAIN AgentContexts
ContextOf(h)  == AgentContexts[h.agent]

\* The agent is known, the payload has a sink and the rule is in the catalogue;
\* otherwise the event is ignored or rejected and never becomes a finding.
Usable(h) == h.type = "TAINT_HIT" /\ Registered(h) /\ h.rule # "unknown"

SourceKind(h) == IF h.ranges = <<>> THEN "UNKNOWN" ELSE Head(h.ranges)

\* Mutant of StackFingerprint: frames of libraries count too.
FingerprintWithLibraries(frames, depth) ==
    [i \in 1..AtMost(depth, Len(frames)) |-> frames[i].method]

StackFingerprint(frames, depth) ==
    LET own == SelectSeq(frames, LAMBDA f : f.application)
    IN [i \in 1..AtMost(depth, Len(own)) |-> own[i].method]

Identity(h) ==
    <<ContextOf(h).app, h.rule, h.sink.method, SourceKind(h), StackFingerprint(h.stack, 1)>>

(***************************************************************************)
(* The worker's half of the lifecycle                                      *)
(***************************************************************************)
NewFinding(h) ==
    [status |-> "OPEN", severity |-> h.severity, confidence |-> h.confidence, risk |-> 0,
     occurrences |-> 0, suppressed |-> 0, wouldBlock |-> 0, regressed |-> FALSE,
     remediatedAt |-> Never, acceptedUntil |-> Never, noted |-> FALSE]

RaiseConfidence(r, h) ==
    IF ConfidenceOrder[h.confidence] > ConfidenceOrder[r.confidence]
    THEN [r EXCEPT !.confidence = h.confidence] ELSE r

RecordWouldBlock(r, h) ==
    IF r.confidence = "EXPLOITED" /\ ContextOf(h).mode # "BLOCK"
    THEN [r EXCEPT !.wouldBlock = @ + 1] ELSE r

\* Mutant of RecordOccurrence: a suppressed finding is reopened like a remediated one.
RecordOccurrenceReopening(r) ==
    IF r.status \in {"OPEN", "CONFIRMED"} THEN [r EXCEPT !.occurrences = @ + 1]
    ELSE [r EXCEPT !.occurrences = @ + 1, !.status = "OPEN"]

RecordOccurrence(r) ==
    IF Suppressed(r.status) THEN [r EXCEPT !.suppressed = @ + 1]
    ELSE IF r.status = "REMEDIATED"
         THEN [r EXCEPT !.occurrences = @ + 1, !.status = "OPEN",
                        !.regressed = TRUE, !.remediatedAt = Never]
         ELSE [r EXCEPT !.occurrences = @ + 1]

Rescore(r, h) ==
    LET c == ContextOf(h)
    IN [r EXCEPT !.risk = Score(r.severity, r.confidence, ExposureWeight(c.env, c.facing),
                                c.criticality, r.occurrences)]

Fold(old, h) ==
    LET known == IF old = NoRow THEN NewFinding(h) ELSE RaiseConfidence(old, h)
    IN Rescore(RecordOccurrence(RecordWouldBlock(known, h)), h)

\* One sample per finding per interval, plus always the first.
KeepEvidence(r, latest, at, interval) ==
    r.occurrences <= 1 \/ latest = Never \/ at - latest >= interval

(***************************************************************************)
(* The analyst's and the sweeper's                                         *)
(***************************************************************************)
CanTransition(r, target, note) ==
    \/ target = r.status
    \/ target \in Allowed[r.status] /\ (Suppressed(target) => note)

Transition(r, target, note, now, period) ==
    IF target = r.status THEN r
    ELSE [r EXCEPT !.status = target, !.noted = note,
                   !.remediatedAt = IF target = "REMEDIATED" THEN now ELSE Never,
                   !.regressed = @ /\ target # "REMEDIATED",
                   !.acceptedUntil = IF target = "ACCEPTED_RISK" THEN now + period ELSE Never]

AcceptanceExpired(r, now) ==
    r.status = "ACCEPTED_RISK" /\ r.acceptedUntil # Never /\ r.acceptedUntil <= now

ExpireAcceptance(r) == [r EXCEPT !.status = "OPEN", !.acceptedUntil = Never]

(***************************************************************************)
(* The queue: worst first, the id as tiebreaker, one page after a cursor.  *)
(* `order' ranks the ids, as the comparison of UUIDs does.                 *)
(***************************************************************************)
Before(rows, order, a, b) ==
    \/ rows[a].risk > rows[b].risk
    \/ rows[a].risk = rows[b].risk /\ order[a] < order[b]

\* Mutant of AfterCursor: the score alone, without the tiebreaker.
AfterCursorByScore(rows, order, cursor, i) == cursor = <<>> \/ rows[i].risk < cursor[1]

\* The cursor is the score and the rank of the last finding listed.
AfterCursor(rows, order, cursor, i) ==
    \/ cursor = <<>>
    \/ rows[i].risk < cursor[1]
    \/ rows[i].risk = cursor[1] /\ order[i] > cursor[2]

QueuePage(rows, order, limit, cursor) ==
    LET left == {i \in DOMAIN rows : AfterCursor(rows, order, cursor, i)}
    IN {i \in left : Cardinality({j \in left : Before(rows, order, j, i)}) < limit}

NextCursor(rows, order, page) ==
    LET last == CHOOSE i \in page : \A j \in page : i = j \/ Before(rows, order, j, i)
    IN <<rows[last].risk, order[last]>>
=============================================================================
