---------------------------- MODULE RequestFlow ----------------------------
(***************************************************************************)
(* What the Java agent knows of the attacker's characters while requests  *)
(* run: the sources, propagators, sanitizers and sinks of AgentRuntime    *)
(* over the identity table of each request (TaintTracker), on the threads *)
(* of RequestContexts.                                                     *)
(*                                                                         *)
(* The application is external: it makes values by the methods below in   *)
(* any order.  values keeps, beside what the agent sees, where every      *)
(* character really comes from:                                            *)
(*   kind     "string", "builder" or "object"                              *)
(*   chars    [by, source, cleared, hostile, blank]; by is the request     *)
(*            that sent the character, 0 for one of the program           *)
(*   seen     the context under which each step of its making ran, or 0   *)
(*   blurred  a step moved characters and the agent was not told where,   *)
(*            or the hook took this string for another (intern)           *)
(* The governor is at FULL and every request is sampled (no hook of the   *)
(* agent feeds it).  A hook runs as one step.                              *)
(***************************************************************************)
EXTENDS Taint, Instrumentation, RequestContexts, FiniteSets, FiniteSetsExt

CONSTANTS
    MaxTracked,     \* MAX_TRACKED_VALUES
    MaxReported,    \* MAX_REPORTED_PER_REQUEST
    MaxConcatArguments, \* MAX_CONCAT_ARGUMENTS
    MaxInspected,   \* how much of an argument AttackSignatures looks at
    Placeholder,    \* length of "<Class>", the argument of an object sink
    Agendas         \* what the application does in one behaviour, each with its bounds

ASSUME FlowAssumption ==
    /\ RuleClass = RuleClasses /\ Source = SourceKinds
    /\ MaxTracked \in Nat \ {0} /\ {MaxReported, MaxConcatArguments, MaxInspected} \subseteq Nat
    /\ Placeholder \in Nat
    /\ \A a \in Agendas : a.texts \subseteq Seq(BOOLEAN)

VARIABLES
    agenda,     \* the one of this behaviour
    values,     \* every value the application made; its index is its identity
    memory,     \* context -> what its RequestContext keeps
    reports,    \* findings handed to the reporter
    ran         \* sinks whose operation was let through

vars == <<lifecycle, agenda, values, memory, reports, ran>>

Fresh == [table |-> << >>, overflowed |-> FALSE, raced |-> FALSE,
          reported |-> {}, responseChannels |-> {}]

Init ==
    /\ LifeInit
    /\ agenda \in Agendas
    /\ values = << >> /\ memory = << >> /\ reports = {} /\ ran = {}

-----------------------------------------------------------------------------
(* TaintTracker                                                             *)

TaintOf(c, v) ==
    IF c # 0 /\ v \in DOMAIN memory[c].table THEN memory[c].table[v] ELSE Empty

Track(m, v, taint) ==
    IF ~IsTainted(taint) THEN [m EXCEPT !.table = [x \in DOMAIN @ \ {v} |-> @[x]]]
    ELSE IF Cardinality(DOMAIN m.table) >= MaxTracked /\ v \notin DOMAIN m.table
         THEN [m EXCEPT !.overflowed = TRUE]
         ELSE [m EXCEPT !.table = [x \in DOMAIN @ \cup {v} |-> IF x = v THEN taint ELSE @[x]]]

\* The table is not synchronized: two threads that write to it may lose any entry.
Shared(c) == \E t, u \in Thread : t # u /\ ctx[t] = c /\ ctx[u] = c
Tracked(c, new) ==
    LET track[n \in 0..Len(new)] ==
            IF n = 0 THEN memory[c] ELSE Track(track[n - 1], new[n][1], new[n][2])
        m == track[Len(new)]
    IN  {m} \cup
        {[m EXCEPT !.table = [x \in DOMAIN @ \ {lost} |-> @[x]], !.raced = TRUE] :
            lost \in IF Shared(c) THEN DOMAIN m.table ELSE {}}

-----------------------------------------------------------------------------
(* Making values.  A step of thread t ends in one of these.                 *)

Does(t, op) == ~Idle(t) /\ op \in agenda.ops
Fits(n) == Len(values) + n <= agenda.values
Strings == {v \in DOMAIN values : values[v].kind = "string"}
Builders == {v \in DOMAIN values : values[v].kind = "builder"}
Chars(v) == values[v].chars
Length(v) == Len(values[v].chars)

OfProgram(v) == \A i \in 1..Length(v) : Chars(v)[i].by = 0
SeenBy(t, from) ==
    IF \A v \in from : OfProgram(v) \/ values[v].seen = ctx[t] THEN ctx[t] ELSE 0
Made(t, kind, chars, from, moved) ==
    [kind |-> kind, chars |-> chars, seen |-> SeenBy(t, from),
     blurred |-> moved \/ \E v \in from : values[v].blurred]

\* new values, each with what its hook tracks
Make(t, new, taints) ==
    /\ Fits(Len(new))
    /\ \A i \in DOMAIN new : Len(new[i].chars) <= agenda.length
    /\ values' = values \o new
    /\ IF ctx[t] = 0 THEN memory' = memory
       ELSE \E m \in Tracked(ctx[t], [i \in DOMAIN new |-> <<Len(values) + i, taints[i]>>]) :
                memory' = [memory EXCEPT ![ctx[t]] = m]
    /\ UNCHANGED <<lifecycle, agenda, reports, ran>>

\* No context is told when a thread of another one, or of none, edits what came in.
Unwatched(t, b) == ~OfProgram(b) /\ (ctx[t] = 0 \/ values[b].seen # ctx[t])

\* a builder that changes in place; the agent is told of the methods it hooks.
\* The ranges of one that others edit drift: agenda.offset bounds how far.
Mutate(t, b, method, chars, from, moved, taint) ==
    /\ Len(chars) <= agenda.length
    /\ \A i \in DOMAIN taint.ranges : End(taint.ranges[i]) <= agenda.offset
    /\ values' = [values EXCEPT ![b] = Made(t, "builder", chars, from \cup {b}, moved \/ Unwatched(t, b))]
    /\ IF ctx[t] = 0 \/ method \notin BuilderMethods THEN memory' = memory
       ELSE \E m \in Tracked(ctx[t], << <<b, taint>> >>) :
                memory' = [memory EXCEPT ![ctx[t]] = m]
    /\ UNCHANGED <<lifecycle, agenda, reports, ran>>

-----------------------------------------------------------------------------
(* Sources                                                                  *)

Char(by, source, hostile, blank) ==
    [by |-> by, source |-> source, cleared |-> {}, hostile |-> hostile, blank |-> blank]

Accessors == Joined(SourceKindOf, Joined(SourceEnumerations, CookieAccessors))

\* An accessor returns text, one flag per character: is it part of a payload?
Read(t, accessor, text) ==
    /\ Does(t, "read")
    /\ LET kind == Accessors[accessor]
           chars == [i \in DOMAIN text |-> Char(req[t], kind, text[i], FALSE)]
       IN  Make(t, <<Made(t, "string", chars, {}, FALSE)>>, <<FullyTainted(Len(text), kind)>>)

\* The body's length is not known when its stream is marked: a mark of length 1.
ReadBody(t, text) ==
    /\ Does(t, "body")
    /\ LET chars == [i \in DOMAIN text |-> Char(req[t], "BODY", text[i], FALSE)]
       IN  Make(t, <<Made(t, "object", chars, {}, TRUE)>>,
                <<Reshaped(FullyTainted(1, "BODY"), 1)>>)

\* A string of the program itself; no hook.
Literal(t, hostile, blank) ==
    /\ Does(t, "literal")
    /\ Make(t, <<Made(t, "string", <<Char(0, "PARAMETER", hostile, blank)>>, {}, FALSE)>>,
            <<Empty>>)

-----------------------------------------------------------------------------
(* Propagators over strings                                                 *)

ConcatOf(t, l, r) ==
    /\ Does(t, "concat")
    /\ Make(t, <<Made(t, "string", Chars(l) \o Chars(r), {l, r}, FALSE)>>,
            <<Concat(TaintOf(ctx[t], l), Length(l), TaintOf(ctx[t], r))>>)

\* l + "x" + r: offsets come from the recipe of the call site.  A site of more
\* operands, here empty ones, than MAX_CONCAT_ARGUMENTS is not rewritten.
IndyConcat(t, l, r, operands) ==
    /\ Does(t, "indy")
    /\ LET constant == <<Char(0, "PARAMETER", FALSE, FALSE)>>
           first == Concat(Empty, 0, TaintOf(ctx[t], l))
           rewritten == operands <= MaxConcatArguments
       IN  Make(t, <<Made(t, "string", Chars(l) \o constant \o Chars(r), {l, r}, ~rewritten)>>,
                <<IF rewritten THEN Concat(first, Length(l) + 1, TaintOf(ctx[t], r)) ELSE Empty>>)

SubstringOf(t, v, from, to) ==
    /\ Does(t, "substring")
    /\ Make(t, <<Made(t, "string", SubSeq(Chars(v), from + 1, to), {v}, FALSE)>>,
            <<Substring(TaintOf(ctx[t], v), from, to)>>)

\* What trim and strip leave of a string.
Stripped(chars) ==
    LET inked == {i \in DOMAIN chars : ~chars[i].blank}
    IN  IF inked = {} THEN << >> ELSE SubSeq(chars, Min(inked), Max(inked))

\* The characters again, each in as many places as one of the widths.
Recoded(chars, widths) ==
    {FlattenSeq([i \in DOMAIN chars |-> [k \in 1..width[i] |-> chars[i]]]) :
        width \in [DOMAIN chars -> widths]}

\* A case mapping may make two characters of one.
Mapped(method, chars) ==
    IF method \in {"trim", "strip"} THEN {Stripped(chars)} ELSE Recoded(chars, {1, 2})

Preserve(t, v, method) ==
    /\ Does(t, "preserve")
    /\ \E chars \in Mapped(method, Chars(v)) :
           Make(t, <<Made(t, "string", chars, {v}, chars # Chars(v))>>,
                <<PreservingTransform(TaintOf(ctx[t], v))>>)

\* Two strings that may have the same text, whoever they come from.
SameText(v, w) ==
    /\ Length(v) = Length(w)
    /\ \A i \in 1..Length(v) : /\ Chars(v)[i].hostile = Chars(w)[i].hostile
                               /\ Chars(v)[i].blank = Chars(w)[i].blank

\* intern returns w, the string of this text the JVM keeps: v itself or one of the
\* program, which the hook takes to be what v is.
Intern(t, v, w) ==
    /\ Does(t, "intern") /\ SameText(v, w)
    /\ values' = [values EXCEPT ![w].blurred = @ \/ w # v]
    /\ IF ctx[t] = 0 \/ ~IsTainted(TaintOf(ctx[t], v)) THEN memory' = memory
       ELSE \E m \in Tracked(ctx[t], << <<w, PreservingTransform(TaintOf(ctx[t], v))>> >>) :
                memory' = [memory EXCEPT ![ctx[t]] = m]
    /\ UNCHANGED <<lifecycle, agenda, reports, ran>>

\* String.format: which character comes from where is given up.
Format(t, f, v) ==
    /\ Does(t, "format") /\ Length(f) + Length(v) > 0
    /\ LET combined == Concat(TaintOf(ctx[t], f), 0, TaintOf(ctx[t], v))
           chars == Chars(f) \o Chars(v)
       IN  Make(t, <<Made(t, "string", chars, {f, v}, FALSE)>>, <<Reshaped(combined, Len(chars))>>)

\* URLDecoder.decode also undoes what URLEncoder cleared; the hook keeps it cleared.
Decode(t, v) ==
    /\ Does(t, "decode")
    /\ LET chars == [i \in 1..Length(v) |->
                        [Chars(v)[i] EXCEPT !.cleared = @ \ Range(Clears.onUrlEncoded)]]
       IN  Make(t, <<Made(t, "string", chars, {v}, chars # Chars(v))>>,
                <<Reshaped(TaintOf(ctx[t], v), Length(v))>>)

\* split at the character after the first k.
Split(t, v, k) ==
    /\ Does(t, "split")
    /\ LET left == SubSeq(Chars(v), 1, k)
           right == SubSeq(Chars(v), k + 2, Length(v))
           taint == TaintOf(ctx[t], v)
       IN  Make(t, <<Made(t, "string", left, {v}, FALSE), Made(t, "string", right, {v}, FALSE)>>,
                <<Reshaped(taint, Len(left)), Reshaped(taint, Len(right))>>)

\* What there is to read afterwards: a character is one byte or more, a decoder
\* may be given some of the bytes, a stream may have been read in part.
Copies(method, chars) ==
    IF method = "String.getBytes" THEN Recoded(chars, {1, 2})
    ELSE IF method \in Decoders THEN Recoded(chars, {0, 1})
    ELSE IF method \in PartReaders
    THEN {SubSeq(chars, from + 1, to) : from \in 0..Len(chars), to \in 0..Len(chars)}
    ELSE {chars}

\* getBytes, streams and readers: the same ranges on another object, wherever the
\* characters are now.
Derive(t, v, method) ==
    /\ Does(t, "derive")
    /\ \E chars \in Copies(method, Chars(v)) :
           Make(t, <<Made(t, IF method \in Decoders THEN "string" ELSE "object", chars, {v},
                          method = "Base64.decode" \/ chars # Chars(v))>>,
                <<TaintOf(ctx[t], v)>>)

\* An encoder: what it escapes takes more room, and the ranges stay where they were.
Sanitize(t, v, encoder) ==
    /\ Does(t, "sanitize")
    /\ LET Escaped(ch) == LET safe == [ch EXCEPT !.cleared = @ \cup Range(Clears[encoder])]
                          IN  IF ch.hostile THEN <<safe, safe>> ELSE <<safe>>
           chars == FlattenSeq([i \in 1..Length(v) |-> Escaped(Chars(v)[i])])
           moved == \E i \in 1..Length(v) : Chars(v)[i].hostile
       IN  Make(t, <<Made(t, "string", chars, {v}, moved)>>,
                <<SanitizedForAll(TaintOf(ctx[t], v), Clears[encoder])>>)

-----------------------------------------------------------------------------
(* Propagators over builders                                                *)

NewBuilder(t) ==
    /\ Does(t, "builder") /\ Cardinality(Builders) < agenda.builders
    /\ Make(t, <<Made(t, "builder", << >>, {}, FALSE)>>, <<Empty>>)

BuilderAppend(t, b, v) ==
    /\ Does(t, "builder")
    /\ Mutate(t, b, "append", Chars(b) \o Chars(v), {v}, FALSE,
              Concat(TaintOf(ctx[t], b), Length(b), TaintOf(ctx[t], v)))

\* replace(from, to, v): an end past the builder is cut off.
BuilderReplace(t, b, from, to, v) ==
    /\ Does(t, "replace")
    /\ LET effectiveTo == Smaller(to, Length(b))
       IN  Mutate(t, b, "replace",
                  SubSeq(Chars(b), 1, from) \o Chars(v) \o SubSeq(Chars(b), effectiveTo + 1, Length(b)),
                  {v}, FALSE,
                  Replace(TaintOf(ctx[t], b), from, effectiveTo, TaintOf(ctx[t], v), Length(v)))

BuilderReverse(t, b) ==
    /\ Does(t, "reverse")
    /\ Mutate(t, b, "reverse", Reverse(Chars(b)), {}, FALSE,
              Reversed(TaintOf(ctx[t], b), Length(b)))

\* setLength, delete, insert and the others no advice is installed on.
SetLength(t, b, n) ==
    /\ Does(t, "setLength")
    /\ Mutate(t, b, "setLength", SubSeq(Chars(b), 1, n), {}, TRUE, Empty)

BuilderToString(t, b) ==
    /\ Does(t, "builder")
    /\ Make(t, <<Made(t, "string", Chars(b), {b}, FALSE)>>,
            <<PreservingTransform(TaintOf(ctx[t], b))>>)

-----------------------------------------------------------------------------
(* Sinks                                                                    *)

\* AttackSignatures.looksMalicious: the start of the argument, whoever wrote it.
LooksMalicious(v, rule) ==
    rule \in HasSignature /\ \E i \in 1..Smaller(Length(v), MaxInspected) : Chars(v)[i].hostile

\* SinkDetector.evaluate over [0, window): the confidences of the finding, none or one.
Evaluate(c, v, window, rule, malicious) ==
    IF ~IsDangerousIn(TaintOf(c, v), 0, window, rule) THEN {}
    ELSE {IF malicious THEN "EXPLOITED" ELSE "CONFIRMED"}

IsFirst(c, found, rule, site) ==
    /\ found # {}
    /\ Cardinality(memory[c].reported) < MaxReported
    /\ <<rule, site>> \notin memory[c].reported

\* Reported once per defect and request; returned every time.
OnSinkFirstOnly(c, v, window, rule, site, malicious) ==     \* mutant
    LET found == IF c = 0 THEN {} ELSE Evaluate(c, v, window, rule, malicious)
        first == IsFirst(c, found, rule, site)
    IN  [returned |-> IF first THEN found ELSE {}, first |-> first]
OnSink(c, v, window, rule, site, malicious) ==
    LET found == IF c = 0 THEN {} ELSE Evaluate(c, v, window, rule, malicious)
    IN  [returned |-> found, first |-> IsFirst(c, found, rule, site)]

ReportOnce(c, v, rule, site, first) ==
    IF first
    THEN /\ memory' = [memory EXCEPT ![c].reported = @ \cup {<<rule, site>>}]
         /\ reports' = reports \cup {[context |-> c, value |-> v, rule |-> rule]}
    ELSE UNCHANGED <<memory, reports>>

\* The context could not have known: no thread of it watched, or it lost track.
Blind(c, v) ==
    \/ c = 0 \/ c \notin live
    \/ memory[c].overflowed \/ memory[c].raced
    \/ values[v].seen # c \/ values[v].blurred

\* A hooked operation with a string argument: an EXPLOITED finding throws when blocking.
BlockingSink(t, v, rule, site) ==
    LET result == OnSink(ctx[t], v, Length(v), rule, site, LooksMalicious(v, rule))
    IN  /\ ReportOnce(ctx[t], v, rule, site, result.first)
        /\ ran' = IF agenda.blocking /\ "EXPLOITED" \in result.returned THEN ran
                  ELSE ran \cup {[value |-> v, rule |-> rule, blind |-> Blind(ctx[t], v)]}
        /\ UNCHANGED <<lifecycle, agenda, values>>

Sink(t, v, advice) ==
    /\ Does(t, "sink")
    /\ BlockingSink(t, v, StringSinks[advice], advice)

\* ServletResponse.getWriter(): the writer of this request's response.
GetWriter(t) ==
    /\ Does(t, "write") /\ ctx[t] # 0
    /\ memory' = [memory EXCEPT ![ctx[t]].responseChannels = @ \cup {req[t]}]
    /\ UNCHANGED <<lifecycle, agenda, values, reports, ran>>

\* A write to it is a sink when this context saw the response hand it out.
ResponseWrite(t, v) ==
    /\ Does(t, "write")
    /\ ctx[t] # 0 /\ req[t] \in memory[ctx[t]].responseChannels
    /\ BlockingSink(t, v, "REFLECTED_XSS", "ResponseWrite")

\* An object sink reports and never stops the operation.
ObjectSink(t, v, advice) ==
    /\ Does(t, "objectSink")
    /\ LET result == OnSink(ctx[t], v, Placeholder, ObjectSinks[advice], advice, FALSE)
       IN  ReportOnce(ctx[t], v, ObjectSinks[advice], advice, result.first)
    /\ UNCHANGED <<lifecycle, agenda, values, ran>>

-----------------------------------------------------------------------------
(* The threads                                                              *)

\* The table of a context begins empty and is released when it ends.
MemoryOfLife ==
    memory' = [c \in DOMAIN of' |->
                  IF c > Len(memory) THEN Fresh
                  ELSE IF c \in live \ live'
                       THEN [memory[c] EXCEPT !.table = << >>, !.overflowed = FALSE]
                       ELSE memory[c]]
Data == /\ MemoryOfLife
        /\ UNCHANGED <<agenda, values, reports, ran>>

MayThrow == agenda.throwing \/ strayed' = strayed
Arrive(t) ==
    arrived < agenda.requests /\ Len(of) < agenda.contexts /\ EnterRequest(t) /\ MayThrow /\ Data
Forward(t) ==
    /\ Len(stack[t]) < agenda.depth /\ Len(of) < agenda.contexts
    /\ EnterNested(t) /\ MayThrow /\ Data
Return(t) == LeaveServlet(t) /\ Data
Submit(t) == submitted < agenda.tasks /\ HandOff(t) /\ Data
Start(t) == Len(stack[t]) < agenda.depth /\ (\E task \in tasks : StartTask(t, task)) /\ Data
RunInline(t) ==
    submitted < agenda.tasks /\ Len(stack[t]) < agenda.depth /\ RunInPlace(t) /\ Data
Finish(t) == FinishTask(t) /\ Data

Threads ==
    \E t \in Thread :
        \/ Arrive(t) \/ Forward(t) \/ Return(t)
        \/ Submit(t) \/ Start(t) \/ RunInline(t) \/ Finish(t)
Sources ==
    \E t \in Thread :
        \/ \E accessor \in DOMAIN Accessors \cap agenda.accessors, text \in agenda.texts : Read(t, accessor, text)
        \/ \E text \in agenda.texts : ReadBody(t, text)
        \/ \E kind \in agenda.literals : Literal(t, kind = "hostile", kind = "blank")
OverStrings ==
    \E t \in Thread, v \in Strings :
        \/ \E r \in Strings : ConcatOf(t, v, r)
        \/ \E r \in Strings, operands \in agenda.operands : IndyConcat(t, v, r, operands)
        \/ \E from \in 0..Length(v) : \E to \in from..Length(v) : SubstringOf(t, v, from, to)
        \/ \E method \in PreservingMethods \cap agenda.methods : Preserve(t, v, method)
        \/ \E w \in Strings : Intern(t, v, w)
        \/ \E r \in Strings : Format(t, v, r)
        \/ Decode(t, v)
        \/ \E k \in 0..Length(v) - 1 : Split(t, v, k)
        \/ \E encoder \in DOMAIN Clears \cap agenda.methods : Sanitize(t, v, encoder)
OverBuilders ==
    \E t \in Thread, b \in Builders :
        \/ \E v \in Strings : BuilderAppend(t, b, v)
        \/ \E v \in Strings, from \in 0..Length(b) :
               \E to \in from..Length(b) + 1 : BuilderReplace(t, b, from, to, v)
        \/ BuilderReverse(t, b)
        \/ \E n \in 0..Length(b) : SetLength(t, b, n)
        \/ BuilderToString(t, b)
Others ==
    \E t \in Thread :
        \/ NewBuilder(t)
        \/ \E v \in Strings, method \in DerivedObjects \cap agenda.methods : Derive(t, v, method)
        \/ \E v \in DOMAIN values \ (Strings \cup Builders),
              method \in (DerivedObjects \cup BodyReaders) \cap agenda.methods : Derive(t, v, method)
        \/ GetWriter(t)
        \/ \E v \in Strings, advice \in DOMAIN StringSinks \cap agenda.sinks : Sink(t, v, advice)
        \/ \E v \in Strings : ResponseWrite(t, v)
        \/ \E v \in DOMAIN values \ (Strings \cup Builders),
              advice \in DOMAIN ObjectSinks \cap agenda.sinks : ObjectSink(t, v, advice)

Next == Threads \/ Sources \/ OverStrings \/ OverBuilders \/ Others
Spec == Init /\ [][Next]_vars

-----------------------------------------------------------------------------
(* Properties                                                               *)

\* No flow is lost on the way to a sink: while a context watches, whatever
\* the application builds of its request's characters is found dangerous for
\* every rule one of them has not been cleared for.  (TaintedValue,
\* TaintTracker and the propagators of AgentRuntime.)
FlowsAreCaught ==
    \A v \in DOMAIN values :
        LET c == values[v].seen
        IN  ~Blind(c, v) =>
                \A rule \in RuleClass :
                    (\E i \in 1..Length(v) : Chars(v)[i].by # 0 /\ rule \notin Chars(v)[i].cleared)
                        => IsDangerousIn(TaintOf(c, v), 0, Length(v), rule)

\* The evidence of a finding is true: a range that is not called imprecise
\* marks characters which came from that source of this very request, and
\* says of them what they were cleared for.  (TaintRange, TaintedValue.)
OnlyRealFlows ==
    \A c \in DOMAIN memory : ~memory[c].raced =>
        \A v \in DOMAIN memory[c].table :
            LET taint == memory[c].table[v]
            IN  (c \notin strayed /\ ~values[v].blurred /\ ~taint.imprecise) =>
                    \A n \in DOMAIN taint.ranges :
                        LET r == taint.ranges[n]
                        IN  /\ End(r) <= Length(v)
                            /\ \A i \in r.start + 1..End(r) :
                                   LET ch == Chars(v)[i]
                                   IN  /\ ch.by = of[c]
                                       /\ ch.source = r.source
                                       /\ ch.cleared = r.cleared

\* With blocking on, no argument that carries an attack of the request itself
\* within the characters AttackSignatures looks at gets through a hooked
\* operation a context watches, however often it is tried.  (AgentRuntime
\* onSink, onBlockingSink, RequestContext.firstReport.)
ExploitIsStopped ==
    agenda.blocking =>
        \A s \in ran :
            ~ /\ ~s.blind /\ s.rule \in HasSignature
              /\ \E i \in 1..Smaller(Length(s.value), MaxInspected) :
                     /\ Chars(s.value)[i].by # 0 /\ Chars(s.value)[i].hostile
                     /\ s.rule \notin Chars(s.value)[i].cleared
=============================================================================
