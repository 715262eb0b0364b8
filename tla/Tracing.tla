------------------------------ MODULE Tracing ------------------------------
(***************************************************************************)
(* The tracing of the telemetry package: initTracing and its shutdown,     *)
(* withSpan, injectContext and extractContext, over the OpenTelemetry SDK. *)
(*                                                                         *)
(* A call of withSpan has one span, so calls name spans.  It is made at    *)
(* the top, while the function of another call runs, or by a consumer for  *)
(* the message that call sent, in the context extracted from its headers.  *)
(* The context of a function is kept only by a context manager: the one    *)
(* the API starts with always answers the root context.                    *)
(***************************************************************************)
CONSTANTS Calls,           \* the calls of withSpan
          Handles,         \* the calls of initTracing that succeed
          ContextManager,  \* whether the service has registered a context manager
          NoCall

ASSUME TracingAssumption ==
    ContextManager \in BOOLEAN /\ NoCall \notin Calls /\ Handles # {}

VARIABLES handle,     \* per handle: none, up, closing, closed or failed
          processor,  \* per handle: off, simple or batch
          span,       \* per call: its span
          outcome,    \* per call: what became of its function
          message,    \* per call: the span that the headers of its message name
          buffer,     \* the ended spans that batch processors hold
          exported    \* the spans given to an exporter

handleVars == <<handle, processor>>
exportVars == <<buffer, exported>>
vars == <<handleVars, span, outcome, message, exportVars>>

NoSpan == [handle |-> CHOOSE h \in Handles : TRUE, cause |-> NoCall, parent |-> NoCall,
           open |-> FALSE, error |-> FALSE, late |-> FALSE]

NoMessage == [sent |-> FALSE, parent |-> NoCall]

Init == /\ handle = [h \in Handles |-> "none"]
        /\ processor = [h \in Handles |-> "off"]
        /\ span = [c \in Calls |-> NoSpan]
        /\ outcome = [c \in Calls |-> "none"]
        /\ message = [c \in Calls |-> NoMessage]
        /\ buffer = {}
        /\ exported = {}
-----------------------------------------------------------------------------
\* `exporter` makes a simple processor, `endpoint` a batch one, neither none;
\* a provider the service gives is any of these.
InitTracing(h, kind) ==
    /\ handle[h] = "none"
    /\ handle' = [handle EXCEPT ![h] = "up"]
    /\ processor' = [processor EXCEPT ![h] = kind]
    /\ UNCHANGED <<span, outcome, message, exportVars>>

\* provider.shutdown() is called: what ends from now on is dropped.
Shutdown(h) ==
    /\ handle[h] = "up"
    /\ handle' = [handle EXCEPT ![h] = "closing"]
    /\ UNCHANGED <<processor, span, outcome, message, exportVars>>

Buffered(h) == {c \in buffer : span[c].handle = h}

\* It resolves with the batch flushed, or rejects.
ShutdownEnds(h) ==
    /\ handle[h] = "closing"
    /\ \/ handle' = [handle EXCEPT ![h] = "closed"] /\ exported' = exported \cup Buffered(h)
       \/ handle' = [handle EXCEPT ![h] = "failed"] /\ UNCHANGED exported
    /\ buffer' = buffer \ Buffered(h)
    /\ UNCHANGED <<processor, span, outcome, message>>

\* The timer of a batch processor.
BatchExports(h) ==
    /\ handle[h] = "up"
    /\ Buffered(h) # {}
    /\ exported' = exported \cup Buffered(h)
    /\ buffer' = buffer \ Buffered(h)
    /\ UNCHANGED <<handleVars, span, outcome, message>>
-----------------------------------------------------------------------------
Running(c) == outcome[c] = "running"

\* Mutant: the function is called outside of the context of its span.
MutantActive(c) == span[c].parent

\* The span of context.active() while the function of c runs.
Active(c) == IF ContextManager THEN c ELSE NoCall

\* The span of context.active() within context.with(extractContext(headers), ...).
Extracted(c) == IF ContextManager THEN message[c].parent ELSE NoCall

Begins(c, h, cause, parent) ==
    /\ outcome[c] = "none"
    /\ handle[h] # "none"
    /\ outcome' = [outcome EXCEPT ![c] = "running"]
    /\ span' = [span EXCEPT ![c] = [NoSpan EXCEPT !.handle = h, !.cause = cause,
                                                  !.parent = parent, !.open = TRUE]]
    /\ UNCHANGED <<handleVars, message, exportVars>>

WithSpan(c, h) == Begins(c, h, NoCall, NoCall)

\* What the outer function does not await goes on after it.
WithSpanInside(c, h, outer) == outcome[outer] # "none" /\ Begins(c, h, outer, Active(outer))

WithSpanForMessage(c, h, sender) ==
    message[sender].sent /\ Begins(c, h, sender, Extracted(sender))

\* injectContext(headers), and the message is published.
InjectContext(c) ==
    /\ outcome[c] # "none" /\ ~message[c].sent
    /\ message' = [message EXCEPT ![c] = [sent |-> TRUE, parent |-> Active(c)]]
    /\ UNCHANGED <<handleVars, span, outcome, exportVars>>

\* span.end() and what the processor does with it.
SpanEnds(c, error) ==
    LET h == span[c].handle IN
    /\ span' = [span EXCEPT ![c].open = FALSE, ![c].error = error, ![c].late = handle[h] # "up"]
    /\ exported' = IF handle[h] = "up" /\ processor[h] = "simple" THEN exported \cup {c} ELSE exported
    /\ buffer' = IF handle[h] = "up" /\ processor[h] = "batch" THEN buffer \cup {c} ELSE buffer
    /\ UNCHANGED <<handleVars, message>>

\* The function returns or resolves.
Resolves(c) ==
    /\ Running(c)
    /\ outcome' = [outcome EXCEPT ![c] = "resolved"]
    /\ SpanEnds(c, FALSE)

\* Mutant: the span of a function that throws is not ended.
MutantRejects(c) ==
    /\ Running(c)
    /\ outcome' = [outcome EXCEPT ![c] = "rejected"]
    /\ UNCHANGED <<handleVars, span, message, exportVars>>

\* Mutant: the span of a function that throws is ended before its status is set.
MutantRejectsUnmarked(c) ==
    /\ Running(c)
    /\ outcome' = [outcome EXCEPT ![c] = "rejected"]
    /\ SpanEnds(c, FALSE)

\* It throws or rejects.
Rejects(c) ==
    /\ Running(c)
    /\ outcome' = [outcome EXCEPT ![c] = "rejected"]
    /\ SpanEnds(c, TRUE)

Next ==
    \/ \E h \in Handles, kind \in {"off", "simple", "batch"} : InitTracing(h, kind)
    \/ \E h \in Handles : Shutdown(h) \/ ShutdownEnds(h) \/ BatchExports(h)
    \/ \E c \in Calls, h \in Handles :
          \/ WithSpan(c, h)
          \/ \E d \in Calls : WithSpanInside(c, h, d) \/ WithSpanForMessage(c, h, d)
    \/ \E c \in Calls : InjectContext(c) \/ Resolves(c) \/ Rejects(c)

Spec == Init /\ [][Next]_vars
-----------------------------------------------------------------------------
\* A span is open while its function runs; the exporter gets ended spans, once.
TypeOK ==
    /\ handle \in [Handles -> {"none", "up", "closing", "closed", "failed"}]
    /\ processor \in [Handles -> {"off", "simple", "batch"}]
    /\ span \in [Calls -> [handle : Handles, cause : Calls \cup {NoCall},
                           parent : Calls \cup {NoCall}, open : BOOLEAN,
                           error : BOOLEAN, late : BOOLEAN]]
    /\ outcome \in [Calls -> {"none", "running", "resolved", "rejected"}]
    /\ message \in [Calls -> [sent : BOOLEAN, parent : Calls \cup {NoCall}]]
    /\ buffer \subseteq Calls /\ exported \subseteq Calls \ buffer
    /\ \A c \in Calls : span[c].open <=> Running(c)
    /\ \A c \in buffer \cup exported : outcome[c] \in {"resolved", "rejected"}

\* tracing.ts:117-132, README "withSpan marks the span with an error status":
\* a span whose function ended before the shutdown of its handle is with an
\* exporter or on its way, with the status of the function, unless the
\* shutdown answered an error or there is no exporter.
SpansAccounted ==
    \A c \in Calls :
        LET h == span[c].handle IN
        outcome[c] \in {"resolved", "rejected"} =>
            /\ span[c].error <=> outcome[c] = "rejected"
            /\ \/ c \in exported
               \/ c \in buffer /\ handle[h] \in {"up", "closing"}
               \/ processor[h] = "off" \/ span[c].late \/ handle[h] = "failed"

\* README:66-90, "to continue the same trace": a span is the child of the one
\* its call was made in, or of the one its message was sent from.  It needs a
\* context manager, which initTracing does not register.
TraceContinues == \A c \in Calls : span[c].parent = span[c].cause

\* README:76-80, "injectMessageContext writes traceparent to the headers of the
\* message" inside withSpan.  Violated unless the service registers a manager.
HeadersNameSpan == \A c \in Calls : message[c].sent => message[c].parent = c
=============================================================================
