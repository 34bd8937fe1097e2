--------------------------- MODULE Instrumentation --------------------------
(***************************************************************************)
(* Which methods the Java agent hooks and what each hook is told: the     *)
(* transformers AegisAgent installs and the advice they inline, as the    *)
(* tables RequestFlow reads.  A type matcher is abstracted to the type.   *)
(***************************************************************************)

RuleClasses ==
    {"SQL_INJECTION", "COMMAND_INJECTION", "PATH_TRAVERSAL", "UNSAFE_DESERIALIZATION", "XXE",
     "REFLECTED_XSS", "SSRF", "LDAP_INJECTION", "XPATH_INJECTION", "OPEN_REDIRECT",
     "LOG_INJECTION", "HEADER_INJECTION"}
SourceKinds == {"PARAMETER", "HEADER", "COOKIE", "QUERY_STRING", "PATH", "BODY"}

\* One table of two with different keys.
Joined(f, g) == [x \in DOMAIN f \cup DOMAIN g |-> IF x \in DOMAIN f THEN f[x] ELSE g[x]]

\* Accessor of a request -> the kind of source; any other accessor is none.
SourceKindOf ==
    [getParameter |-> "PARAMETER", getParameterValues |-> "PARAMETER", getHeader |-> "HEADER",
     getQueryString |-> "QUERY_STRING", getPathInfo |-> "PATH", getPathTranslated |-> "PATH"]
\* Enumerations whose elements are tainted as the application takes them.
SourceEnumerations ==
    [getHeaders |-> "HEADER", getHeaderNames |-> "HEADER", getParameterNames |-> "PARAMETER"]
\* Cookie.getValue
CookieAccessors == [getValue |-> "COOKIE"]

\* Methods of String that are taken to move no character; intern, on the same
\* advice, returns a string there already is.
PreservingMethods == {"toLowerCase", "toUpperCase", "trim", "strip"}
\* The hooked methods of StringBuilder and StringBuffer.
BuilderMethodsWithoutReplace ==     \* mutant: one mutator of a builder is not hooked
    {"append", "toString", "reverse"}
BuilderMethods == {"append", "toString", "replace", "reverse"}

\* Objects that carry the taint of what they were made from; ByteArrayInputStream
\* and String(bytes) stand for the constructors with an offset and a length too.
DerivedObjects ==
    {"String.getBytes", "Base64.decode", "ByteArrayInputStream", "StringReader"}
BodyReaders ==
    {"InputStream.readAllBytes", "String(bytes)", "PushbackInputStream", "StreamUtils.copyToString"}
\* Those of them that take bytes apart into characters.
Decoders == {"String(bytes)", "StreamUtils.copyToString"}
\* Those that may take only a part: by an offset, or of a stream read in part.
PartReaders == {"ByteArrayInputStream", "InputStream.readAllBytes", "PushbackInputStream"}

\* Advice on the entry of a sink that takes a string -> the rule class it checks:
\* the sinks of the JDK's core and JDBC,
CoreSinks ==
    [JdbcStatement |-> "SQL_INJECTION", JdbcPrepare |-> "SQL_INJECTION",
     CommandExec |-> "COMMAND_INJECTION", ProcessStart |-> "COMMAND_INJECTION",
     FileAccess |-> "PATH_TRAVERSAL", FileConstructWithParent |-> "PATH_TRAVERSAL"]
\* those of the servlet response, directories, XPath, URLs and loggers.
InterfaceSinks ==
    [Redirect |-> "OPEN_REDIRECT", ResponseHeader |-> "HEADER_INJECTION",
     UrlConstruction |-> "SSRF", LdapSearch |-> "LDAP_INJECTION",
     XPathEvaluate |-> "XPATH_INJECTION", LogWrite |-> "LOG_INJECTION"]
StringSinks == Joined(CoreSinks, InterfaceSinks)
\* Advice on an object sink -> its rule class.  The one on readObject is left out:
\* its stream is made by a constructor that carries no taint over.
ObjectSinks ==
    [DeserializeConstruct |-> "UNSAFE_DESERIALIZATION",
     XmlStreamRead |-> "XXE", DocumentParse |-> "XXE"]

\* Encoder -> the rule classes it clears, and no other.
Clears ==
    [onUrlEncoded |-> <<"OPEN_REDIRECT", "HEADER_INJECTION", "SSRF">>,
     onHtmlEscaped |-> <<"REFLECTED_XSS">>,
     onQueryEncoded |-> <<"LDAP_INJECTION", "XPATH_INJECTION">>]

\* The rule classes looksMalicious has a signature for.
HasSignature ==
    {"SQL_INJECTION", "COMMAND_INJECTION", "PATH_TRAVERSAL", "REFLECTED_XSS", "SSRF"}
=============================================================================
