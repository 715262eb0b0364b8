---------------------------- MODULE TracingProofs ----------------------------
(***************************************************************************)
(* Theorems about Tracing, for any calls, any handles and every order of   *)
(* spans, exports and shutdowns.                                           *)
(***************************************************************************)
EXTENDS Logging, SequenceTheorems, TLAPS

Ended(c) == outcome[c] \in {"resolved", "rejected"}

\* Where the span of a call that ended is.
Accounted(c) ==
    /\ span[c].error <=> outcome[c] = "rejected"
    /\ \/ c \in exported
       \/ c \in buffer /\ handle[span[c].handle] \in {"up", "closing"}
       \/ processor[span[c].handle] = "off" \/ span[c].late \/ handle[span[c].handle] = "failed"

\* withSpan uses the tracer of a handle that initTracing returned.
Begun == \A c \in Calls : outcome[c] # "none" => handle[span[c].handle] # "none"

Inv == TypeOK /\ Begun /\ \A c \in Calls : Ended(c) => Accounted(c)

\* With a context manager, headers and parents name the span that was active.
Continued ==
    \A c \in Calls : /\ span[c].parent = span[c].cause
                     /\ message[c].sent => message[c].parent = c

LEMMA NoSpanType ==
    /\ NoSpan \in [handle : Handles, cause : Calls \cup {NoCall}, parent : Calls \cup {NoCall},
                   open : BOOLEAN, error : BOOLEAN, late : BOOLEAN]
    /\ NoSpan.parent = NoSpan.cause
    /\ ~NoSpan.open
  BY TracingAssumption DEF NoSpan

LEMMA InvInit ==
    ASSUME Init
    PROVE  Inv
  BY NoSpanType DEF Init, Inv, TypeOK, Begun, Ended, NoMessage, Running

(***************************************************************************)
(* The handles: what has ended is not forgotten by an export or a shutdown.*)
(***************************************************************************)

LEMMA InitTracingKeepsInv ==
    ASSUME Inv, NEW h \in Handles, NEW kind \in {"off", "simple", "batch"}, InitTracing(h, kind)
    PROVE  Inv'
  <1>1. TypeOK'
    BY DEF Inv, TypeOK, InitTracing, exportVars, Running
  <1>2. Begun'
    BY DEF Inv, TypeOK, Begun, InitTracing
  <1>3. ASSUME NEW c \in Calls, Ended(c)'  PROVE Accounted(c)'
    <2>1. span[c].handle # h /\ Accounted(c)
      BY <1>3 DEF Inv, Begun, InitTracing, Ended
    <2>2. span[c].handle \in Handles
      BY DEF Inv, TypeOK
    <2>3. QED
      BY <2>1, <2>2 DEF Inv, TypeOK, InitTracing, Accounted, exportVars
  <1>4. QED
    BY <1>1, <1>2, <1>3 DEF Inv

LEMMA ShutdownKeepsInv ==
    ASSUME Inv, NEW h \in Handles, Shutdown(h)
    PROVE  Inv'
  <1>1. TypeOK'
    BY DEF Inv, TypeOK, Shutdown, exportVars, Running
  <1>2. Begun'
    BY DEF Inv, TypeOK, Begun, Shutdown
  <1>3. ASSUME NEW c \in Calls, Ended(c)'  PROVE Accounted(c)'
    <2>1. Accounted(c) /\ span[c].handle \in Handles
      BY <1>3 DEF Inv, TypeOK, Shutdown, Ended
    <2>2. QED
      BY <2>1 DEF Inv, TypeOK, Shutdown, Accounted, exportVars
  <1>4. QED
    BY <1>1, <1>2, <1>3 DEF Inv

LEMMA ShutdownEndsKeepsInv ==
    ASSUME Inv, NEW h \in Handles, ShutdownEnds(h)
    PROVE  Inv'
  <1>1. TypeOK'
    BY DEF Inv, TypeOK, ShutdownEnds, Buffered, Running
  <1>2. Begun'
    BY DEF Inv, TypeOK, Begun, ShutdownEnds
  <1>3. ASSUME NEW c \in Calls, Ended(c)'  PROVE Accounted(c)'
    <2>1. Accounted(c) /\ span[c].handle \in Handles
      BY <1>3 DEF Inv, TypeOK, ShutdownEnds, Ended
    <2>2. CASE span[c].handle = h
      BY <2>1, <2>2 DEF Inv, TypeOK, ShutdownEnds, Accounted, Buffered
    <2>3. CASE span[c].handle # h
      BY <2>1, <2>3 DEF Inv, TypeOK, ShutdownEnds, Accounted, Buffered
    <2>4. QED
      BY <2>2, <2>3
  <1>4. QED
    BY <1>1, <1>2, <1>3 DEF Inv

LEMMA BatchExportsKeepsInv ==
    ASSUME Inv, NEW h \in Handles, BatchExports(h)
    PROVE  Inv'
  <1>1. TypeOK'
    BY DEF Inv, TypeOK, BatchExports, Buffered, handleVars, Running
  <1>2. Begun'
    BY DEF Inv, Begun, BatchExports, handleVars
  <1>3. ASSUME NEW c \in Calls, Ended(c)'  PROVE Accounted(c)'
    <2>1. Accounted(c)
      BY <1>3 DEF Inv, BatchExports, Ended
    <2>2. QED
      BY <2>1 DEF BatchExports, Accounted, Buffered, handleVars
  <1>4. QED
    BY <1>1, <1>2, <1>3 DEF Inv

(***************************************************************************)
(* The calls.                                                              *)
(***************************************************************************)

LEMMA BeginsKeepsInv ==
    ASSUME Inv, NEW c \in Calls, NEW h \in Handles, NEW cause \in Calls \cup {NoCall},
           NEW parent \in Calls \cup {NoCall}, Begins(c, h, cause, parent)
    PROVE  /\ Inv'
           /\ span'[c].cause = cause /\ span'[c].parent = parent
           /\ \A d \in Calls \ {c} : span'[d] = span[d]
  <1> DEFINE new == [NoSpan EXCEPT !.handle = h, !.cause = cause, !.parent = parent, !.open = TRUE]
  <1>1. /\ new \in [handle : Handles, cause : Calls \cup {NoCall}, parent : Calls \cup {NoCall},
                    open : BOOLEAN, error : BOOLEAN, late : BOOLEAN]
        /\ new.handle = h /\ new.cause = cause /\ new.parent = parent /\ new.open
    BY NoSpanType DEF NoSpan
  <1>2. /\ span' = [span EXCEPT ![c] = new]
        /\ outcome' = [outcome EXCEPT ![c] = "running"]
        /\ outcome[c] = "none" /\ handle[h] # "none"
        /\ UNCHANGED <<handle, processor, message, buffer, exported>>
    BY DEF Begins, handleVars, exportVars
  <1> HIDE DEF new
  <1>3. /\ span'[c] = new /\ outcome'[c] = "running"
        /\ \A d \in Calls \ {c} : span'[d] = span[d] /\ outcome'[d] = outcome[d]
    BY <1>2 DEF Inv, TypeOK
  <1>4. TypeOK'
    BY <1>1, <1>2, <1>3 DEF Inv, TypeOK, Running
  <1>5. Begun'
    BY <1>1, <1>2, <1>3 DEF Inv, Begun
  <1>6. ASSUME NEW d \in Calls, Ended(d)'  PROVE Accounted(d)'
    <2>1. d # c /\ Ended(d) /\ Accounted(d)
      BY <1>3, <1>6 DEF Inv, Ended
    <2>2. QED
      BY <1>2, <1>3, <2>1 DEF Accounted
  <1>7. QED
    BY <1>1, <1>3, <1>4, <1>5, <1>6 DEF Inv

LEMMA SpanEndsKeepsInv ==
    ASSUME Inv, NEW c \in Calls, Running(c), NEW how \in {"resolved", "rejected"},
           outcome' = [outcome EXCEPT ![c] = how], SpanEnds(c, how = "rejected")
    PROVE  /\ Inv'
           /\ \A d \in Calls : /\ span'[d].cause = span[d].cause
                               /\ span'[d].parent = span[d].parent
  <1> DEFINE h == span[c].handle
             new == [span[c] EXCEPT !.open = FALSE, !.error = (how = "rejected"),
                                    !.late = (handle[h] # "up")]
  <1>1. span[c] \in [handle : Handles, cause : Calls \cup {NoCall}, parent : Calls \cup {NoCall},
                     open : BOOLEAN, error : BOOLEAN, late : BOOLEAN]
    BY DEF Inv, TypeOK
  <1>2. /\ new \in [handle : Handles, cause : Calls \cup {NoCall}, parent : Calls \cup {NoCall},
                    open : BOOLEAN, error : BOOLEAN, late : BOOLEAN]
        /\ new.handle = h /\ new.cause = span[c].cause /\ new.parent = span[c].parent
        /\ ~new.open
        /\ new.error <=> how = "rejected"
        /\ new.late <=> handle[h] # "up"
    BY <1>1
  <1>3. span' = [span EXCEPT ![c] = new]
    BY <1>1 DEF SpanEnds, Inv, TypeOK
  <1> HIDE DEF new
  <1>4. /\ span'[c] = new /\ outcome'[c] = how
        /\ \A d \in Calls \ {c} : span'[d] = span[d] /\ outcome'[d] = outcome[d]
    BY <1>3 DEF Inv, TypeOK
  <1>5. /\ handle' = handle /\ processor' = processor /\ message' = message
        /\ exported' = IF handle[h] = "up" /\ processor[h] = "simple" THEN exported \cup {c} ELSE exported
        /\ buffer' = IF handle[h] = "up" /\ processor[h] = "batch" THEN buffer \cup {c} ELSE buffer
    BY DEF SpanEnds, handleVars
  <1>6. c \notin buffer \cup exported
    BY DEF Inv, TypeOK, Running
  <1>7. TypeOK'
    <2>1. span' \in [Calls -> [handle : Handles, cause : Calls \cup {NoCall},
                               parent : Calls \cup {NoCall}, open : BOOLEAN,
                               error : BOOLEAN, late : BOOLEAN]]
      BY <1>2, <1>3 DEF Inv, TypeOK
    <2>2. outcome' \in [Calls -> {"none", "running", "resolved", "rejected"}]
      BY DEF Inv, TypeOK
    <2>3. buffer' \subseteq Calls /\ exported' \subseteq Calls \ buffer'
      BY <1>5, <1>6 DEF Inv, TypeOK
    <2>4. \A d \in Calls : span'[d].open <=> outcome'[d] = "running"
      BY <1>2, <1>4 DEF Inv, TypeOK, Running
    <2>5. \A d \in buffer' \cup exported' : outcome'[d] \in {"resolved", "rejected"}
      BY <1>4, <1>5 DEF Inv, TypeOK
    <2>6. QED
      BY <1>5, <2>1, <2>2, <2>3, <2>4, <2>5 DEF Inv, TypeOK, Running
  <1>8. Begun'
    BY <1>2, <1>4, <1>5 DEF Inv, Begun, Running
  <1>9. ASSUME NEW d \in Calls, Ended(d)'  PROVE Accounted(d)'
    <2>1. CASE d = c
      <3>1. processor[h] \in {"off", "simple", "batch"}
        BY <1>1 DEF Inv, TypeOK
      <3>2. QED
        BY <1>2, <1>4, <1>5, <2>1, <3>1 DEF Accounted
    <2>2. CASE d # c
      <3>1. Accounted(d)
        BY <1>4, <1>9, <2>2 DEF Inv, Ended
      <3>2. QED
        BY <1>4, <1>5, <2>2, <3>1 DEF Accounted
    <2>3. QED
      BY <2>1, <2>2
  <1>10. QED
    BY <1>2, <1>4, <1>7, <1>8, <1>9 DEF Inv

LEMMA ActiveType ==
    ASSUME TypeOK, NEW c \in Calls
    PROVE  /\ Active(c) \in Calls \cup {NoCall}
           /\ Extracted(c) \in Calls \cup {NoCall}
  BY DEF TypeOK, Active, Extracted

LEMMA InjectContextKeepsInv ==
    ASSUME Inv, NEW c \in Calls, InjectContext(c)
    PROVE  Inv'
  <1>1. TypeOK
    BY DEF Inv
  <1>2. message' \in [Calls -> [sent : BOOLEAN, parent : Calls \cup {NoCall}]]
    BY <1>1, ActiveType DEF InjectContext, TypeOK
  <1>3. TypeOK'
    BY <1>1, <1>2 DEF TypeOK, InjectContext, handleVars, exportVars, Running
  <1>4. QED
    BY <1>3 DEF Inv, Begun, Ended, Accounted, InjectContext, handleVars, exportVars

LEMMA NextKeepsInv ==
    ASSUME Inv, [Next]_vars
    PROVE  Inv'
  <1>1. TypeOK
    BY DEF Inv
  <1>2. ASSUME NEW h \in Handles, NEW kind \in {"off", "simple", "batch"}, InitTracing(h, kind)
        PROVE  Inv'
    BY <1>2, InitTracingKeepsInv
  <1>3. ASSUME NEW h \in Handles, Shutdown(h) \/ ShutdownEnds(h) \/ BatchExports(h)
        PROVE  Inv'
    BY <1>3, ShutdownKeepsInv, ShutdownEndsKeepsInv, BatchExportsKeepsInv
  <1>4. ASSUME NEW c \in Calls, NEW h \in Handles, WithSpan(c, h)
        PROVE  Inv'
    BY <1>4, BeginsKeepsInv DEF WithSpan
  <1>5. ASSUME NEW c \in Calls, NEW h \in Handles, NEW d \in Calls,
               WithSpanInside(c, h, d) \/ WithSpanForMessage(c, h, d)
        PROVE  Inv'
    BY <1>1, <1>5, ActiveType, BeginsKeepsInv DEF WithSpanInside, WithSpanForMessage
  <1>6. ASSUME NEW c \in Calls, InjectContext(c) \/ Resolves(c) \/ Rejects(c)
        PROVE  Inv'
    <2>1. CASE Resolves(c)
      BY <2>1, SpanEndsKeepsInv DEF Resolves
    <2>2. CASE Rejects(c)
      BY <2>2, SpanEndsKeepsInv DEF Rejects
    <2>3. QED
      BY <1>6, <2>1, <2>2, InjectContextKeepsInv
  <1>7. CASE UNCHANGED vars
    BY <1>7 DEF Inv, TypeOK, Begun, Ended, Accounted, Running, vars, handleVars, exportVars
  <1>8. QED
    BY <1>2, <1>3, <1>4, <1>5, <1>6, <1>7 DEF Next

LEMMA TracingInvariant == Spec => []Inv
  <1>1. Init => Inv
    BY InvInit
  <1>2. Inv /\ [Next]_vars => Inv'
    BY NextKeepsInv
  <1>3. QED
    BY <1>1, <1>2, PTL DEF Spec

(***************************************************************************)
(* The theorems.                                                           *)
(***************************************************************************)

\* A span is open exactly while its function runs, and what a processor holds
\* or an exporter was given has ended; nothing is given to both.
THEOREM TracingTypeCorrect == Spec => []TypeOK
  <1>1. Inv => TypeOK
    BY DEF Inv
  <1>2. QED
    BY <1>1, TracingInvariant, PTL

\* tracing.ts:117-132: no span that ended before the shutdown of its handle is
\* dropped, and each has the status of its function.
THEOREM NoSpanDropped == Spec => []SpansAccounted
  <1>1. Inv => SpansAccounted
    BY DEF Inv, SpansAccounted, Ended, Accounted
  <1>2. QED
    BY <1>1, TracingInvariant, PTL

(***************************************************************************)
(* Parents.                                                                *)
(***************************************************************************)

LEMMA NextContinues ==
    ASSUME ContextManager, Inv, Continued, [Next]_vars
    PROVE  Continued'
  <1>1. TypeOK
    BY DEF Inv
  <1>2. ASSUME NEW c \in Calls, NEW h \in Handles, NEW cause \in Calls \cup {NoCall},
               Begins(c, h, cause, cause)
        PROVE  Continued'
    <2>1. /\ span'[c].cause = span'[c].parent
          /\ \A d \in Calls \ {c} : span'[d] = span[d]
      BY <1>2, BeginsKeepsInv
    <2>2. message' = message
      BY <1>2 DEF Begins
    <2>3. QED
      BY <2>1, <2>2 DEF Continued
  <1>3. ASSUME NEW c \in Calls, NEW h \in Handles, WithSpan(c, h)
        PROVE  Continued'
    BY <1>2, <1>3 DEF WithSpan
  <1>4. ASSUME NEW c \in Calls, NEW h \in Handles, NEW d \in Calls, WithSpanInside(c, h, d)
        PROVE  Continued'
    BY <1>2, <1>4 DEF WithSpanInside, Active
  <1>5. ASSUME NEW c \in Calls, NEW h \in Handles, NEW d \in Calls, WithSpanForMessage(c, h, d)
        PROVE  Continued'
    <2>1. Extracted(d) = d
      BY <1>5 DEF WithSpanForMessage, Extracted, Continued
    <2>2. QED
      BY <1>2, <1>5, <2>1 DEF WithSpanForMessage
  <1>6. ASSUME NEW c \in Calls, InjectContext(c)
        PROVE  Continued'
    BY <1>1, <1>6 DEF InjectContext, Active, Continued, TypeOK
  <1>7. ASSUME NEW c \in Calls, Resolves(c) \/ Rejects(c)
        PROVE  Continued'
    <2>1. \A d \in Calls : span'[d].cause = span[d].cause /\ span'[d].parent = span[d].parent
      BY <1>7, SpanEndsKeepsInv DEF Resolves, Rejects
    <2>2. message' = message
      BY <1>7 DEF Resolves, Rejects, SpanEnds
    <2>3. QED
      BY <2>1, <2>2 DEF Continued
  <1>8. ASSUME UNCHANGED <<span, message>>
        PROVE  Continued'
    BY <1>8 DEF Continued
  <1>9. QED
    BY <1>3, <1>4, <1>5, <1>6, <1>7, <1>8
       DEF Next, vars, InitTracing, Shutdown, ShutdownEnds, BatchExports

\* tracing.ts:141-175: where the service has registered a context manager, the
\* parent of every span is the span its call was made in or its message sent
\* from, over any nesting and any chain of messages.
THEOREM TracesContinue == ContextManager => (Spec => []TraceContinues)
  <1> SUFFICES ASSUME ContextManager  PROVE Spec => []TraceContinues
    OBVIOUS
  <1>1. Init => Continued
    <2>1. ~NoMessage.sent
      BY DEF NoMessage
    <2>2. QED
      BY <2>1, NoSpanType DEF Init, Continued
  <1>2. Inv /\ Continued /\ [Next]_vars => Continued'
    BY NextContinues
  <1>3. Continued => TraceContinues
    BY DEF Continued, TraceContinues
  <1>4. QED
    BY <1>1, <1>2, <1>3, TracingInvariant, PTL DEF Spec
-----------------------------------------------------------------------------
(***************************************************************************)
(* The lines of the loggers.                                               *)
(***************************************************************************)

LEMMA OverProperties ==
    ASSUME NEW new, NEW old, NEW path
    PROVE  /\ path \in DOMAIN L!Over(new, old) <=>
                 \/ path \in DOMAIN new
                 \/ path \in DOMAIN old /\ \A q \in DOMAIN new : Head(q) # Head(path)
           /\ path \in DOMAIN new => L!Over(new, old)[path] = new[path]
           /\ path \in DOMAIN old /\ (\A q \in DOMAIN new : Head(q) # Head(path))
                 => L!Over(new, old)[path] = old[path]
  BY DEF L!Over

\* A line before it is redacted.
Open(options, bindings, fields, id) ==
    L!Over(L!Over(fields, L!Mixin(id)), L!Over(bindings, L!CreateLogger(options).bindings))

\* The keys that createLogger and its mixin write.
Written == {"service", "version", "correlationId"}

\* The provers do not know that a literal is a string.
Keys == STRING \cup Written

Paths == Seq(Keys) \ {<<>>}

LEMMA SequenceOfOne ==
    ASSUME NEW S, NEW x \in S
    PROVE  <<x>> \in Seq(S) /\ <<x>> # <<>> /\ Head(<<x>>) = x
  OBVIOUS

LEMMA KeyProperties ==
    ASSUME NEW key \in Written
    PROVE  Head(<<key>>) = key /\ <<key>> \in Paths
  BY SequenceOfOne DEF Paths, Keys

LEMMA StringsAreKeys == Seq(STRING) \subseteq Seq(Keys)
  BY DEF Keys

LEMMA ShortLength ==
    ASSUME NEW S, NEW path \in Seq(S) \ {<<>>}, Len(path) <= 2
    PROVE  Len(path) \in 1..2
  <1>1. Len(path) \in Nat /\ Len(path) # 0
    BY EmptySeq
  <1>2. \A n \in Nat : n # 0 /\ n <= 2 => n \in 1..2
    OBVIOUS
  <1>3. QED
    BY <1>1, <1>2

LEMMA LineIsRedacted ==
    ASSUME NEW options, NEW bindings, NEW fields, NEW id
    PROVE  L!Line(L!Child(L!CreateLogger(options), bindings), fields, id) =
               L!Redacted(L!CreateLogger(options).redact, Open(options, bindings, fields, id))
  BY DEF L!Line, L!Child, L!CreateLogger, Open

LEMMA BaseProperties ==
    ASSUME NEW options
    PROVE  LET base == L!CreateLogger(options).bindings IN
           /\ DOMAIN base = {<<"service">>, <<"version">>}
           /\ \A key \in {"service", "version"} : base[<<key>>] = options[key]
  BY SequenceOfOne DEF L!CreateLogger

LEMMA MixinProperties ==
    ASSUME NEW id \in Calls \cup {NoCall}
    PROVE  /\ id = NoCall => DOMAIN L!Mixin(id) = {}
           /\ id # NoCall => /\ DOMAIN L!Mixin(id) = {<<"correlationId">>}
                             /\ L!Mixin(id)[<<"correlationId">>] = id
  BY DEF L!Mixin

\* The service, the version and the id of a line are those that the logger and
\* the mixin wrote, unless the call or the child logger gives the key.
LEMMA OpenLine ==
    ASSUME NEW options, NEW bindings, NEW fields,
           DOMAIN bindings \subseteq Paths, DOMAIN fields \subseteq Paths,
           NEW id \in Calls \cup {NoCall}
    PROVE  LET line == Open(options, bindings, fields, id) IN
           /\ \A key \in {"service", "version"} :
                 key \notin KeysOf(fields) \cup KeysOf(bindings) =>
                     <<key>> \in DOMAIN line /\ line[<<key>>] = options[key]
           /\ id # NoCall /\ "correlationId" \notin KeysOf(fields) =>
                 <<"correlationId">> \in DOMAIN line /\ line[<<"correlationId">>] = id
           /\ id = NoCall /\ "correlationId" \notin KeysOf(fields) \cup KeysOf(bindings) =>
                 <<"correlationId">> \notin DOMAIN line
           /\ DOMAIN line \subseteq Paths
  <1> DEFINE base == L!CreateLogger(options).bindings
             mixin == L!Mixin(id)
             under == L!Over(bindings, base)
             over == L!Over(fields, mixin)
             line == L!Over(over, under)
  <1>1. /\ DOMAIN base = {<<"service">>, <<"version">>}
        /\ \A key \in {"service", "version"} : base[<<key>>] = options[key]
    BY BaseProperties
  <1>2. /\ id = NoCall => DOMAIN mixin = {}
        /\ id # NoCall => /\ DOMAIN mixin = {<<"correlationId">>}
                          /\ mixin[<<"correlationId">>] = id
    BY MixinProperties
  <1>3. Open(options, bindings, fields, id) = line
    BY DEF Open
  <1>4. /\ \A key \in Written : Head(<<key>>) = key /\ <<key>> \in Paths
        /\ <<"correlationId">> \notin {<<"service">>, <<"version">>}
    BY KeyProperties DEF Written
  <1>5. \A q : /\ q \in DOMAIN fields => Head(q) \in KeysOf(fields)
               /\ q \in DOMAIN bindings => Head(q) \in KeysOf(bindings)
    BY DEF KeysOf
  <1> HIDE DEF base, mixin
  <1>6. /\ \A path : path \in DOMAIN under <=>
              \/ path \in DOMAIN bindings
              \/ path \in DOMAIN base /\ \A q \in DOMAIN bindings : Head(q) # Head(path)
        /\ \A path \in DOMAIN base : (\A q \in DOMAIN bindings : Head(q) # Head(path))
                                      => under[path] = base[path]
    BY OverProperties
  <1>7. /\ \A path : path \in DOMAIN over <=>
              \/ path \in DOMAIN fields
              \/ path \in DOMAIN mixin /\ \A q \in DOMAIN fields : Head(q) # Head(path)
        /\ \A path \in DOMAIN mixin : (\A q \in DOMAIN fields : Head(q) # Head(path))
                                       => over[path] = mixin[path]
    BY OverProperties
  <1> HIDE DEF under, over
  <1>8. \A path : /\ path \in DOMAIN line <=>
                        \/ path \in DOMAIN over
                        \/ path \in DOMAIN under /\ \A q \in DOMAIN over : Head(q) # Head(path)
                  /\ path \in DOMAIN over => line[path] = over[path]
                  /\ path \in DOMAIN under /\ (\A q \in DOMAIN over : Head(q) # Head(path))
                        => line[path] = under[path]
    BY OverProperties
  <1> HIDE DEF line
  <1>9. ASSUME NEW key \in {"service", "version"},
               key \notin KeysOf(fields) \cup KeysOf(bindings)
        PROVE  <<key>> \in DOMAIN line /\ line[<<key>>] = options[key]
    <2>1. /\ key \in Written /\ key # "correlationId" /\ Head(<<key>>) = key
          /\ <<key>> \in DOMAIN base /\ base[<<key>>] = options[key]
      BY <1>1, <1>4 DEF Written
    <2>2. <<key>> \in DOMAIN under /\ under[<<key>>] = options[key]
      BY <1>5, <1>6, <1>9, <2>1
    <2>3. \A q \in DOMAIN over : Head(q) # Head(<<key>>)
      <3>1. \A q \in DOMAIN mixin : Head(q) = "correlationId"
        BY <1>2, <1>4 DEF Written
      <3>2. QED
        BY <1>5, <1>7, <1>9, <2>1, <3>1
    <2>4. QED
      BY <1>8, <2>2, <2>3
  <1>10. ASSUME id # NoCall, "correlationId" \notin KeysOf(fields)
         PROVE  <<"correlationId">> \in DOMAIN line /\ line[<<"correlationId">>] = id
    <2>1. \A q \in DOMAIN fields : Head(q) # Head(<<"correlationId">>)
      BY <1>4, <1>5, <1>10 DEF Written
    <2>2. QED
      BY <1>2, <1>7, <1>8, <1>10, <2>1
  <1>11. ASSUME id = NoCall, "correlationId" \notin KeysOf(fields) \cup KeysOf(bindings)
         PROVE  <<"correlationId">> \notin DOMAIN line
    <2>1. Head(<<"correlationId">>) = "correlationId"
      BY <1>4 DEF Written
    <2>2. <<"correlationId">> \notin DOMAIN fields /\ <<"correlationId">> \notin DOMAIN bindings
      BY <1>5, <1>11, <2>1
    <2>3. <<"correlationId">> \notin DOMAIN base /\ DOMAIN mixin = {}
      BY <1>1, <1>2, <1>4, <1>11
    <2>4. QED
      BY <1>6, <1>7, <1>8, <2>2, <2>3
  <1>12. DOMAIN line \subseteq Paths
    <2>1. DOMAIN base \subseteq Paths /\ DOMAIN mixin \subseteq Paths
      BY <1>1, <1>2, <1>4 DEF Written
    <2>2. QED
      BY <1>6, <1>7, <1>8, <2>1
  <1>13. QED
    BY <1>3, <1>9, <1>10, <1>11, <1>12

\* The paths that createLogger redacts by default.
LEMMA DefaultRedactHides ==
    /\ \A key \in Written : ~L!Hides(L!DefaultRedact, <<key>>)
    /\ \A path \in Paths : Len(path) <= 2 /\ path[Len(path)] \in Secrets
                              => L!Hides(L!DefaultRedact, path)
  <1>1. ASSUME NEW key \in Written, NEW p \in L!DefaultRedact, Len(p) = Len(<<key>>),
               \A i \in 1..Len(p) : p[i] \in {"*", <<key>>[i]}
        PROVE  FALSE
    <2>1. p[1] \in {"*", key}
      BY <1>1
    <2>2. CASE p \in {<<k>> : k \in {"password", "token", "secret", "authorization",
                                     "accessToken", "refreshToken"}}
      BY <2>1, <2>2 DEF Written
    <2>3. CASE p \in {<<"*", k>> : k \in {"password", "token", "secret"}}
      BY <1>1, <2>3
    <2>4. QED
      BY <2>2, <2>3 DEF L!DefaultRedact
  <1>2. ASSUME NEW path \in Paths, Len(path) <= 2, path[Len(path)] \in Secrets
        PROVE  L!Hides(L!DefaultRedact, path)
    <2>1. path \in Seq(Keys) /\ Len(path) \in 1..2
      BY <1>2, ShortLength DEF Paths
    <2>2. CASE Len(path) = 1
      <3>1. <<path[1]>> \in L!DefaultRedact
        BY <1>2, <2>2 DEF L!DefaultRedact, Secrets
      <3>2. Len(<<path[1]>>) = Len(path) /\ \A i \in 1..1 : <<path[1]>>[i] \in {"*", path[i]}
        BY <2>2
      <3>3. QED
        BY <3>1, <3>2 DEF L!Hides
    <2>3. CASE Len(path) = 2
      <3>1. <<"*", path[2]>> \in L!DefaultRedact
        BY <1>2, <2>3 DEF L!DefaultRedact, Secrets
      <3>2. Len(<<"*", path[2]>>) = Len(path)
            /\ \A i \in 1..2 : <<"*", path[2]>>[i] \in {"*", path[i]}
        BY <2>3
      <3>3. QED
        BY <3>1, <3>2 DEF L!Hides
    <2>4. QED
      BY <2>1, <2>2, <2>3
  <1>3. QED
    BY <1>1, <1>2 DEF L!Hides

LEMMA LineTells ==
    ASSUME NEW options \in LoggerOptions, NEW bindings \in Bindings, NEW call \in LogCalls,
           NEW id \in Calls \cup {NoCall}
    PROVE  Tells([options |-> options, bindings |-> bindings, fields |-> call.fields,
                  json |-> L!Line(L!Child(L!CreateLogger(options), bindings), call.fields, id)], id)
  <1> DEFINE redact == L!CreateLogger(options).redact
             line == Open(options, bindings, call.fields, id)
             json == L!Redacted(redact, line)
             record == [options |-> options, bindings |-> bindings, fields |-> call.fields,
                        json |-> json]
             bound == KeysOf(bindings)
             own == KeysOf(call.fields)
  <1>1. DOMAIN bindings \subseteq Paths /\ DOMAIN call.fields \subseteq Paths
    <2>1. \A path : path \in Seq(STRING) \ {<<>>} => path \in Paths
      BY StringsAreKeys DEF Paths
    <2>2. QED
      BY <2>1, LoggingAssumption
  <1>2. /\ \A key \in {"service", "version"} : key \notin own \cup bound =>
              <<key>> \in DOMAIN line /\ line[<<key>>] = options[key]
        /\ id # NoCall /\ "correlationId" \notin own =>
              <<"correlationId">> \in DOMAIN line /\ line[<<"correlationId">>] = id
        /\ id = NoCall /\ "correlationId" \notin own \cup bound =>
              <<"correlationId">> \notin DOMAIN line
        /\ DOMAIN line \subseteq Paths
    BY <1>1, OpenLine
  <1>3. /\ "redact" \in DOMAIN options => redact = options.redact
        /\ "redact" \notin DOMAIN options => redact = L!DefaultRedact
    BY DEF L!CreateLogger, L!Option
  <1>4. \A key \in Written : Shows(options, key) => ~L!Hides(redact, <<key>>)
    BY <1>3, DefaultRedactHides DEF Shows
  <1> HIDE DEF redact, line, bound, own
  <1>5. /\ DOMAIN json = DOMAIN line
        /\ \A path \in DOMAIN line :
              json[path] = IF L!Hides(redact, path) THEN "[Redacted]" ELSE line[path]
    BY DEF L!Redacted
  <1>6. L!Line(L!Child(L!CreateLogger(options), bindings), call.fields, id) = json
    BY LineIsRedacted DEF redact, line
  <1> HIDE DEF json
  <1>7. /\ record.options = options /\ record.json = json
        /\ KeysOf(record.bindings) = bound /\ KeysOf(record.fields) = own
    BY DEF bound, own
  <1> HIDE DEF record
  <1>8. ASSUME NEW key \in {"service", "version"}, Shows(options, key), key \notin own \cup bound
        PROVE  json[<<key>>] = options[key]
    BY <1>2, <1>4, <1>5, <1>8 DEF Written
  <1>9. ASSUME Shows(options, "correlationId"), "correlationId" \notin own,
               id = NoCall => "correlationId" \notin bound
        PROVE  IdOf(record) = id
    <2>1. ~L!Hides(redact, <<"correlationId">>)
      BY <1>4, <1>9 DEF Written
    <2>2. CASE id = NoCall
      BY <1>2, <1>5, <1>7, <1>9, <2>2 DEF IdOf
    <2>3. CASE id # NoCall
      BY <1>2, <1>5, <1>7, <1>9, <2>1, <2>3 DEF IdOf
    <2>4. QED
      BY <2>2, <2>3
  <1>10. ASSUME "redact" \notin DOMAIN options, NEW path \in DOMAIN json,
                Len(path) <= 2, Last(path) \in Secrets
         PROVE  json[path] = "[Redacted]"
    <2>1. path \in Paths
      BY <1>2, <1>5, <1>10
    <2>2. L!Hides(redact, path)
      BY <1>3, <1>10, <2>1, DefaultRedactHides DEF Last
    <2>3. QED
      BY <1>5, <1>10, <2>2
  <1>11. Tells(record, id)
    BY <1>7, <1>8, <1>9, <1>10 DEF Tells
  <1>12. QED
    BY <1>6, <1>11 DEF record

\* What is written under an id is fit for the operation of that id.
LEMMA LinesTell ==
    ASSUME NEW id \in Calls \cup {NoCall}
    PROVE  Lines[id] \subseteq Telling[id]
  <1> SUFFICES ASSUME NEW line \in Lines[id]  PROVE line \in Telling[id]
    OBVIOUS
  <1>1. DOMAIN Lines = Calls \cup {NoCall}
    BY DEF Lines
  <1>2. Telling[id] = {l \in UNION {Lines[i] : i \in DOMAIN Lines} : Tells(l, id)}
    BY <1>1 DEF Telling
  <1>3. PICK options \in LoggerOptions : line \in LinesOf(options, id)
    BY DEF Lines
  <1>4. PICK bindings \in Bindings, call \in LogCalls :
            line = [options |-> options, bindings |-> bindings, fields |-> call.fields,
                    json |-> L!Line(L!Child(L!CreateLogger(options), bindings), call.fields, id)]
    BY <1>3 DEF LinesOf
  <1>5. Tells(line, id)
    BY <1>4, LineTells
  <1>6. QED
    BY <1>1, <1>2, <1>5

(***************************************************************************)
(* The ids.  What runs for a caller or for a message was started by a call *)
(* that had begun, so a set of calls always has one whose id comes from    *)
(* none of the others: this is why the ids the contexts hold are the only  *)
(* solution of the equation that defines Operation.                        *)
(***************************************************************************)

ScopesTyped ==
    /\ store \in [Calls -> Calls \cup {NoCall}]
    /\ scope \in [Calls -> {"none", "root", "own", "caller", "message"}]

CausesBegan ==
    \A c \in Calls :
        /\ outcome[c] = "none" => scope[c] = "none" /\ ~message[c].sent
        /\ Inside(c) => span[c].cause \in Calls /\ outcome[span[c].cause] # "none"

Grounded ==
    \A S \in SUBSET Calls :
        S # {} => \E c \in S : Inside(c) => span[c].cause \notin S

\* The id of c, given those of the other calls.
IdFrom(ids, c) == IdBy(c, IF Inside(c) THEN ids[span[c].cause] ELSE NoCall)

IdsFollow == \A c \in Calls : store[c] = IdFrom(store, c)

LoggingInv == Inv /\ ScopesTyped /\ CausesBegan /\ Grounded /\ IdsFollow

LEMMA OneSolution ==
    ASSUME LoggingInv, NEW f, f = [c \in Calls |-> IdFrom(f, c)]
    PROVE  f = store
  <1> DEFINE S == {c \in Calls : f[c] # store[c]}
  <1>1. S = {}
    <2> SUFFICES ASSUME S # {}  PROVE FALSE
      OBVIOUS
    <2>1. PICK c \in S : Inside(c) => span[c].cause \notin S
      BY DEF LoggingInv, Grounded
    <2>2. c \in Calls /\ f[c] # store[c]
      BY <2>1
    <2>3. f[c] = IdFrom(f, c) /\ store[c] = IdFrom(store, c)
      BY <2>2 DEF LoggingInv, IdsFollow
    <2>4. Inside(c) => f[span[c].cause] = store[span[c].cause]
      BY <2>1, <2>2 DEF LoggingInv, CausesBegan
    <2>5. IdFrom(f, c) = IdFrom(store, c)
      BY <2>4 DEF IdFrom
    <2>6. QED
      BY <2>2, <2>3, <2>5
  <1>2. \A c \in Calls : f[c] = store[c]
    BY <1>1
  <1> HIDE DEF S
  <1>3. f = [c \in Calls |-> f[c]]
    OBVIOUS
  <1>4. store = [c \in Calls |-> store[c]]
    BY DEF LoggingInv, ScopesTyped
  <1>5. QED
    BY <1>2, <1>3, <1>4

LEMMA OperationIsStore ==
    ASSUME LoggingInv
    PROVE  Operation = store
  <1> DEFINE IsSolution(f) == f = [c \in Calls |-> IdFrom(f, c)]
  <1>1. Operation = CHOOSE f : IsSolution(f)
    BY DEF Operation, IdFrom
  <1>2. IsSolution(store)
    BY DEF LoggingInv, IdsFollow, ScopesTyped
  <1>3. IsSolution(CHOOSE f : IsSolution(f))
    BY <1>2
  <1>4. IsSolution(Operation)
    BY <1>1, <1>3
  <1>5. QED
    BY <1>4, OneSolution

(***************************************************************************)
(* The steps.                                                              *)
(***************************************************************************)

LEMMA LoggingInvInit ==
    ASSUME LoggingInit
    PROVE  LoggingInv
  <1>1. Inv /\ ScopesTyped
    BY InvInit DEF LoggingInit, ScopesTyped
  <1>2. \A c \in Calls : scope[c] = "none" /\ store[c] = NoCall /\ outcome[c] = "none"
                         /\ ~message[c].sent
    BY DEF LoggingInit, Init, NoMessage
  <1>3. QED
    BY <1>1, <1>2 DEF LoggingInv, CausesBegan, Grounded, IdsFollow, IdFrom, IdBy, Inside

\* A step that begins no call leaves every context as it is.
LEMMA UntouchedKeepsInv ==
    ASSUME LoggingInv, Inv', UNCHANGED loggingVars,
           \A c \in Calls : span'[c].cause = span[c].cause,
           \A c \in Calls : outcome'[c] = "none" <=> outcome[c] = "none",
           \A c \in Calls : message'[c].sent => outcome[c] # "none"
    PROVE  LoggingInv'
  <1>1. store' = store /\ scope' = scope
    BY DEF loggingVars
  <1>2. ScopesTyped' /\ CausesBegan'
    BY <1>1 DEF LoggingInv, ScopesTyped, CausesBegan, Inside
  <1>3. Grounded'
    BY <1>1 DEF LoggingInv, Grounded, Inside
  <1>4. IdsFollow'
    BY <1>1 DEF LoggingInv, IdsFollow, IdFrom, IdBy, Inside, OrCreated
  <1>5. QED
    BY <1>2, <1>3, <1>4 DEF LoggingInv

\* A call begins, in a context of its own or in one it was given.
LEMMA BeginKeepsInv ==
    ASSUME LoggingInv, NEW c \in Calls, NEW h \in Handles, NEW cause \in Calls \cup {NoCall},
           NEW parent \in Calls \cup {NoCall}, Begins(c, h, cause, parent),
           NEW from \in {"root", "own", "caller", "message"}, NEW id, Scopes(c, from, id),
           from \in {"caller", "message"} => cause \in Calls /\ outcome[cause] # "none",
           id = CASE from = "own" -> c
                  [] from = "caller" -> store[cause]
                  [] from = "message" -> EnvelopeId(cause)
                  [] OTHER -> NoCall
    PROVE  LoggingInv'
  <1>1. /\ Inv' /\ span'[c].cause = cause
        /\ \A d \in Calls \ {c} : span'[d] = span[d]
    BY BeginsKeepsInv DEF LoggingInv
  <1>2. /\ outcome[c] = "none" /\ outcome'[c] = "running" /\ message' = message
        /\ \A d \in Calls \ {c} : outcome'[d] = outcome[d]
    BY DEF Begins, LoggingInv, Inv, TypeOK
  <1>3. /\ scope'[c] = from /\ store'[c] = id
        /\ \A d \in Calls \ {c} : scope'[d] = scope[d] /\ store'[d] = store[d]
    BY DEF Scopes, LoggingInv, ScopesTyped
  <1>4. /\ store \in [Calls -> Calls \cup {NoCall}]
        /\ from \in {"caller", "message"} => cause # c
    BY <1>2 DEF LoggingInv, ScopesTyped
  <1>5. id \in Calls \cup {NoCall}
    BY <1>4 DEF EnvelopeId, OrCreated
  <1>6. ScopesTyped'
    BY <1>5 DEF Scopes, LoggingInv, ScopesTyped
  <1>7. CausesBegan'
    BY <1>1, <1>2, <1>3 DEF LoggingInv, CausesBegan, Inside
  <1>8. ASSUME NEW d \in Calls \ {c}, Inside(d)
        PROVE  span[d].cause \in Calls \ {c}
    BY <1>2, <1>8 DEF LoggingInv, CausesBegan
  <1>9. Grounded'
    <2> SUFFICES ASSUME NEW S \in SUBSET Calls, S # {}
                 PROVE  \E d \in S : Inside(d)' => span'[d].cause \notin S
      BY DEF Grounded
    <2>1. CASE S \subseteq {c}
      <3>1. c \in S
        BY <2>1
      <3>2. Inside(c)' => span'[c].cause \notin S
        BY <1>1, <1>3, <1>4, <2>1 DEF Inside
      <3>3. QED
        BY <3>1, <3>2
    <2>2. CASE ~(S \subseteq {c})
      <3>1. PICK d \in S \ {c} : Inside(d) => span[d].cause \notin S \ {c}
        BY <2>2 DEF LoggingInv, Grounded
      <3>2. Inside(d)' => span'[d].cause \notin S
        BY <1>1, <1>3, <1>8, <3>1 DEF Inside
      <3>3. QED
        BY <3>1, <3>2
    <2>3. QED
      BY <2>1, <2>2
  <1>10. IdsFollow'
    <2>1. store'[c] = IdFrom(store, c)'
      <3>1. from \in {"caller", "message"} => store'[cause] = store[cause]
        BY <1>3, <1>4
      <3>2. CASE from = "caller"
        BY <1>1, <1>3, <3>1, <3>2 DEF IdFrom, IdBy, Inside
      <3>3. CASE from = "message"
        BY <1>1, <1>3, <3>1, <3>3 DEF IdFrom, IdBy, Inside, EnvelopeId, OrCreated
      <3>4. CASE from \in {"root", "own"}
        BY <1>3, <3>4 DEF IdFrom, IdBy, Inside
      <3>5. QED
        BY <3>2, <3>3, <3>4
    <2>2. ASSUME NEW d \in Calls \ {c}  PROVE store'[d] = IdFrom(store, d)'
      <3>1. store[d] = IdFrom(store, d)
        BY DEF LoggingInv, IdsFollow
      <3>2. Inside(d) => store'[span[d].cause] = store[span[d].cause]
        BY <1>3, <1>8
      <3>3. QED
        BY <1>1, <1>3, <3>1, <3>2 DEF IdFrom, IdBy, Inside, OrCreated
    <2>3. QED
      BY <2>1, <2>2 DEF IdsFollow
  <1>11. QED
    BY <1>1, <1>6, <1>7, <1>9, <1>10 DEF LoggingInv

LEMMA LoggingNextIsNext ==
    ASSUME [LoggingNext]_allVars
    PROVE  [Next]_vars
  BY DEF LoggingNext, Begin, Untouched, Starts, StartsInside, StartsForMessage, Next, allVars

LEMMA LoggingNextKeepsInv ==
    ASSUME LoggingInv, [LoggingNext]_allVars
    PROVE  LoggingInv'
  <1>1. Inv /\ TypeOK /\ Inv'
    BY LoggingNextIsNext, NextKeepsInv DEF LoggingInv, Inv
  <1>2. ASSUME NEW c \in Calls, NEW h \in Handles, Starts(c, h)
        PROVE  LoggingInv'
    BY <1>2, BeginKeepsInv DEF Starts, WithSpan
  <1>3. ASSUME NEW c \in Calls, NEW h \in Handles, NEW d \in Calls, StartsInside(c, h, d)
        PROVE  LoggingInv'
    BY <1>1, <1>3, BeginKeepsInv, ActiveType DEF StartsInside, WithSpanInside
  <1>4. ASSUME NEW c \in Calls, NEW h \in Handles, NEW d \in Calls, StartsForMessage(c, h, d)
        PROVE  LoggingInv'
    <2>1. outcome[d] # "none"
      BY <1>4 DEF StartsForMessage, WithSpanForMessage, LoggingInv, CausesBegan
    <2>2. QED
      BY <1>1, <1>4, <2>1, BeginKeepsInv, ActiveType DEF StartsForMessage, WithSpanForMessage
  <1>5. ASSUME UNCHANGED loggingVars, UNCHANGED <<span, outcome, message>>
        PROVE  LoggingInv'
    BY <1>1, <1>5, UntouchedKeepsInv DEF LoggingInv, CausesBegan
  <1>6. ASSUME UNCHANGED loggingVars, NEW c \in Calls, InjectContext(c)
        PROVE  LoggingInv'
    <2>1. \A d \in Calls : message'[d].sent => outcome[d] # "none"
      BY <1>1, <1>6 DEF InjectContext, TypeOK, LoggingInv, CausesBegan
    <2>2. QED
      BY <1>1, <1>6, <2>1, UntouchedKeepsInv DEF InjectContext
  <1>7. ASSUME UNCHANGED loggingVars, NEW c \in Calls, Resolves(c) \/ Rejects(c)
        PROVE  LoggingInv'
    <2>1. \A d \in Calls : span'[d].cause = span[d].cause
      BY <1>1, <1>7, SpanEndsKeepsInv DEF Resolves, Rejects
    <2>2. message' = message /\ \A d \in Calls : outcome'[d] = "none" <=> outcome[d] = "none"
      BY <1>1, <1>7 DEF Resolves, Rejects, SpanEnds, Running, TypeOK
    <2>3. QED
      BY <1>1, <1>7, <2>1, <2>2, UntouchedKeepsInv DEF LoggingInv, CausesBegan
  <1>8. CASE Begin
    BY <1>2, <1>3, <1>4, <1>8 DEF Begin
  <1>9. CASE Untouched /\ UNCHANGED loggingVars
    <2>1. CASE \E h \in Handles, kind \in {"off", "simple", "batch"} : InitTracing(h, kind)
      BY <1>5, <1>9, <2>1 DEF InitTracing
    <2>2. CASE \E h \in Handles : Shutdown(h) \/ ShutdownEnds(h) \/ BatchExports(h)
      BY <1>5, <1>9, <2>2 DEF Shutdown, ShutdownEnds, BatchExports
    <2>3. CASE \E c \in Calls : InjectContext(c) \/ Resolves(c) \/ Rejects(c)
      BY <1>6, <1>7, <1>9, <2>3
    <2>4. QED
      BY <1>9, <2>1, <2>2, <2>3 DEF Untouched
  <1>10. CASE UNCHANGED allVars
    BY <1>5, <1>10 DEF allVars, vars
  <1>11. QED
    BY <1>8, <1>9, <1>10 DEF LoggingNext

(***************************************************************************)
(* The theorems.                                                           *)
(***************************************************************************)

\* Logging adds to Tracing and takes nothing from it: what is proved of the
\* spans holds beside every logger.
THEOREM LoggingImplementsTracing == LoggingSpec => Spec
  <1>1. LoggingInit => Init
    BY DEF LoggingInit
  <1>2. [LoggingNext]_allVars => [Next]_vars
    BY LoggingNextIsNext
  <1>3. QED
    BY <1>1, <1>2, PTL DEF LoggingSpec, Spec

\* logger.ts:59-62 and correlation.ts:17-20, for all options, fields and bindings:
\* every line carries the id of the operation of the call that wrote it, over any
\* nesting of scopes and any chain of messages, with the service and the version,
\* unless the service gives or hides these keys itself, and no default secret.
THEOREM LinesTellTheirOperationHolds == LoggingSpec => []LinesTellTheirOperation
  <1>1. LoggingInit => LoggingInv
    BY LoggingInvInit
  <1>2. LoggingInv /\ [LoggingNext]_allVars => LoggingInv'
    BY LoggingNextKeepsInv
  <1>3. LoggingInv => LinesTellTheirOperation
    <2> SUFFICES ASSUME LoggingInv, NEW c \in Started, NEW maker \in Started
                 PROVE  Log(c, maker) \subseteq Telling[Operation[c]]
      BY DEF LinesTellTheirOperation
    <2>1. store[c] \in Calls \cup {NoCall} /\ Log(c, maker) = Lines[store[c]]
      BY DEF LoggingInv, ScopesTyped, Started, Log, GetCorrelationId
    <2>2. Operation[c] = store[c]
      BY OperationIsStore
    <2>3. QED
      BY <2>1, <2>2, LinesTell
  <1>4. QED
    BY <1>1, <1>2, <1>3, PTL DEF LoggingSpec
=============================================================================
