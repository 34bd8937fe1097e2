--------------------------- MODULE MCRequestFlow ---------------------------
(***************************************************************************)
(* RequestFlow for TLC: ten things an application may be busy with.       *)
(***************************************************************************)
EXTENDS RequestFlow, TLC

CONSTANTS t1, t2

TwoThreads == {t1, t2}
AnyThread == Permutations(TwoThreads)

Idle0 ==
    [ops |-> {}, methods |-> {}, accessors |-> {}, texts |-> {}, literals |-> {}, sinks |-> {},
     values |-> 0, length |-> 4, offset |-> 4, builders |-> 1,
     operands |-> {}, requests |-> 1, contexts |-> 1, depth |-> 1, tasks |-> 0,
     throwing |-> FALSE, blocking |-> FALSE]

Benign == <<FALSE>>
Hostile == <<TRUE>>

\* one request puts strings together, takes them apart and escapes them
OnStrings ==
    [Idle0 EXCEPT
        !.ops = {"read", "literal", "concat", "substring", "sanitize"},
        !.methods = {"onHtmlEscaped"},
        !.accessors = {"getParameter", "getHeader"},
        !.texts = {Benign}, !.literals = {"plain"}, !.values = 5, !.length = 4]

\* ... rewrites them wholesale
Reshaping ==
    [Idle0 EXCEPT
        !.ops = {"read", "literal", "indy", "preserve", "sanitize", "format", "decode", "split"},
        !.methods = {"strip", "toUpperCase", "onUrlEncoded"},
        !.accessors = {"getParameterNames"},
        !.texts = {<<FALSE, TRUE>>}, !.literals = {"blank"}, !.operands = {2, 3}, !.values = 4]

\* ... assembles them in a builder
Assembling ==
    [Idle0 EXCEPT
        !.ops = {"read", "literal", "builder", "replace", "reverse"},
        !.accessors = {"getValue"},
        !.texts = {<<FALSE, FALSE>>}, !.literals = {"plain"}, !.values = 4, !.length = 4]

\* ... and cuts it off by a method no advice is installed on
Truncating ==
    [Assembling EXCEPT !.ops = {"read", "builder", "setLength"}, !.length = 2]

\* ... hands what it read to sinks and to its response
Sinking ==
    [Idle0 EXCEPT
        !.ops = {"read", "literal", "concat", "sanitize", "sink", "write"},
        !.methods = {"onHtmlEscaped"},
        !.accessors = {"getQueryString"},
        !.texts = {Benign, Hostile}, !.literals = {"plain"},
        !.sinks = {"JdbcStatement", "Redirect"}, !.values = 3, !.blocking = TRUE]

\* ... reads a body into objects
Reading ==
    [Idle0 EXCEPT
        !.ops = {"read", "body", "literal", "concat", "derive", "substring", "objectSink"},
        !.methods = {"String.getBytes", "Base64.decode", "ByteArrayInputStream",
                     "InputStream.readAllBytes", "String(bytes)"},
        !.accessors = {"getHeader"},
        !.texts = {<<FALSE, TRUE>>}, !.literals = {"plain"},
        !.sinks = {"DeserializeConstruct"}, !.values = 4]

\* ... interns what it read, which the program may have as a constant
Interning ==
    [Idle0 EXCEPT
        !.ops = {"read", "literal", "concat", "intern"}, !.accessors = {"getParameter"},
        !.texts = {Benign}, !.literals = {"plain"}, !.values = 4]

\* two requests on two threads, nested servlets and tasks
Serving ==
    [Idle0 EXCEPT
        !.ops = {"read", "sink"}, !.accessors = {"getParameter"},
        !.texts = {Hostile}, !.sinks = {"JdbcStatement"},
        !.values = 2, !.requests = 2, !.contexts = 3, !.depth = 2, !.tasks = 2, !.blocking = TRUE]

\* ... on workers that help, and with entry hooks that may fail
Straying ==
    [Idle0 EXCEPT
        !.ops = {"read"}, !.accessors = {"getParameter"}, !.texts = {Benign},
        !.values = 1, !.requests = 2, !.contexts = 3, !.depth = 2, !.tasks = 2, !.throwing = TRUE]

\* ... which share one builder
Sharing ==
    [Idle0 EXCEPT
        !.ops = {"read", "literal", "builder", "replace"}, !.accessors = {"getValue"},
        !.texts = {Benign}, !.literals = {"plain"},
        !.values = 3, !.length = 2, !.offset = 2, !.requests = 2, !.contexts = 2]

AllAgendas == {OnStrings, Reshaping, Assembling, Truncating, Sinking, Reading, Interning,
               Serving, Straying, Sharing}
=============================================================================
