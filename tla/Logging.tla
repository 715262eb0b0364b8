------------------------------ MODULE Logging ------------------------------
(***************************************************************************)
(* The correlation id and the log lines of a service that is traced: each  *)
(* call of withSpan is a piece of work, and runs in the async context that *)
(* its caller gave it, or in one of its own.                               *)
(*                                                                         *)
(* AsyncLocalStorage is external: a function keeps the store it was called *)
(* in over its awaits, and so does what it does not wait for.  A consumer  *)
(* delivers messages out of every scope; runInContext takes the id of the  *)
(* event.  The id a call creates has the name of the call.                 *)
(***************************************************************************)
EXTENDS Tracing, SequencesExt

CONSTANTS LoggerOptions,   \* the options of the loggers of the service
          LogCalls,        \* the log calls: a level and the fields beside the message
          Bindings         \* what a child logger is made with

L == INSTANCE Logger WITH NoId <- NoCall

\* A LogFields is an object: its paths are of strings.
ASSUME LoggingAssumption ==
    \A fields \in Bindings \cup {call.fields : call \in LogCalls} :
        DOMAIN fields \subseteq Seq(STRING) \ {<<>>}

VARIABLES store,   \* per call: the correlation id of its context
          scope    \* per call: where that context comes from

loggingVars == <<store, scope>>
allVars == <<vars, loggingVars>>

LoggingInit == /\ Init
               /\ store = [c \in Calls |-> NoCall]
               /\ scope = [c \in Calls |-> "none"]
-----------------------------------------------------------------------------
\* A call begins: in no scope, in that of its caller, in one of its own
\* (runWithCorrelationId with a new id) or in that of its message.
Scopes(c, from, id) ==
    /\ scope' = [scope EXCEPT ![c] = from]
    /\ store' = [store EXCEPT ![c] = id]

Starts(c, h) ==
    /\ WithSpan(c, h)
    /\ Scopes(c, "root", NoCall) \/ Scopes(c, "own", c)

StartsInside(c, h, outer) ==
    /\ WithSpanInside(c, h, outer)
    /\ Scopes(c, "caller", store[outer]) \/ Scopes(c, "own", c)

\* The publisher passes on the id it runs under, or creates one.
OrCreated(id, c) == IF id = NoCall THEN c ELSE id

EnvelopeId(sender) == OrCreated(store[sender], sender)

StartsForMessage(c, h, sender) ==
    /\ WithSpanForMessage(c, h, sender)
    /\ Scopes(c, "root", NoCall) \/ Scopes(c, "message", EnvelopeId(sender))

\* Mutant: the id is read when the logger is made.
MutantGetCorrelationId(c, maker) == store[maker]

\* The id of a line of c, whoever made the logger: the mixin asks at each call.
GetCorrelationId(c, maker) == store[c]

\* What the loggers made with `options` and their children write under an id.
LinesOf(options, id) ==
    LET logger == L!CreateLogger(options) IN
    {[options |-> options, bindings |-> bindings, fields |-> call.fields,
      json |-> L!Line(L!Child(logger, bindings), call.fields, id)] :
        bindings \in Bindings, call \in {l \in LogCalls : L!Writes(logger, l.level)}}

\* What each log call writes, by the id it is made under: a line or nothing.
Lines ==
    [id \in Calls \cup {NoCall} |->
        UNION {LinesOf(o, id) : o \in {o \in LoggerOptions : L!IsLogLevel(L!LevelOf(o))}}]

\* What c may write now, with a logger or with a child of it that maker made.
Log(c, maker) == Lines[GetCorrelationId(c, maker)]

\* The steps of the tracing that run no function.
Untouched ==
    \/ \E h \in Handles, kind \in {"off", "simple", "batch"} : InitTracing(h, kind)
    \/ \E h \in Handles : Shutdown(h) \/ ShutdownEnds(h) \/ BatchExports(h)
    \/ \E c \in Calls : InjectContext(c) \/ Resolves(c) \/ Rejects(c)

Begin ==
    \E c \in Calls, h \in Handles :
        \/ Starts(c, h)
        \/ \E d \in Calls : StartsInside(c, h, d) \/ StartsForMessage(c, h, d)

LoggingNext == Begin \/ (Untouched /\ UNCHANGED loggingVars)

LoggingSpec == LoggingInit /\ [][LoggingNext]_allVars
-----------------------------------------------------------------------------
\* The id of a call by its scope, given the id of what it was started from.
Inside(c) == scope[c] \in {"caller", "message"}

IdBy(c, given) ==
    CASE scope[c] = "own" -> c
      [] scope[c] = "caller" -> given
      [] scope[c] = "message" -> OrCreated(given, span[c].cause)
      [] OTHER -> NoCall

\* The id of the innermost scope around a call, over callers and messages.
Operation[c \in Calls] == IdBy(c, IF Inside(c) THEN Operation[span[c].cause] ELSE NoCall)

Secrets == {"password", "token", "secret"}

IdOf(line) ==
    IF <<"correlationId">> \in DOMAIN line.json THEN line.json[<<"correlationId">>] ELSE NoCall

Started == {c \in Calls : outcome[c] # "none"}

\* The keys that a service gives, in fields or bindings.
KeysOf(given) == {Head(path) : path \in DOMAIN given}

\* The list of the service, if it has one, does not hide the key.
Shows(options, key) == "redact" \in DOMAIN options => ~L!Hides(options.redact, <<key>>)

\* What a line written in `operation` shows.  The fields of the log call may give
\* an id instead; the bindings of a child may only out of every operation.
Tells(line, operation) ==
    LET bound == KeysOf(line.bindings)
        own == KeysOf(line.fields)
    IN
    /\ Shows(line.options, "correlationId") /\ "correlationId" \notin own
       /\ (operation = NoCall => "correlationId" \notin bound)
          => IdOf(line) = operation
    /\ \A key \in {"service", "version"} :
          Shows(line.options, key) /\ key \notin own \cup bound =>
              line.json[<<key>>] = line.options[key]
    /\ "redact" \notin DOMAIN line.options =>
          \A path \in DOMAIN line.json :
              Len(path) <= 2 /\ Last(path) \in Secrets => line.json[path] = "[Redacted]"

\* The lines that may be written in an operation, or in none.
Telling ==
    [operation \in DOMAIN Lines |->
        {line \in UNION {Lines[id] : id \in DOMAIN Lines} : Tells(line, operation)}]

\* logger.ts:59-62, "always emits service, version and, when one is in scope,
\* correlationId", and correlation.ts:17-20: whenever a call writes a line, the
\* line carries the id of the operation the call belongs to, whatever logger it
\* uses and whatever ran meanwhile, and no id out of every operation, unless the
\* service gives or hides the key itself; it carries the service and the version
\* likewise; and, unless the service has a list of its own, no secret at the top
\* or one level down.
LinesTellTheirOperation ==
    \A c \in Started : LET fitting == Telling[Operation[c]] IN
        \A maker \in Started : Log(c, maker) \subseteq fitting
=============================================================================
