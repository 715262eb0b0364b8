------------------------------- MODULE Logger -------------------------------
(***************************************************************************)
(* createLogger, its children and the lines they write.                    *)
(*                                                                         *)
(* Fields, bindings and lines are functions of paths: <<"token">> is a key *)
(* of the line, <<"user", "token">> one of the object under "user".  What  *)
(* pino adds besides (level, time and msg) is left out.                    *)
(***************************************************************************)
EXTENDS SequencesExt

CONSTANT NoId   \* getCorrelationId() out of every runWithCorrelationId

LogLevels == <<"debug", "info", "warn", "error">>

DefaultRedact ==
    {<<key>> : key \in {"password", "token", "secret", "authorization",
                        "accessToken", "refreshToken"}}
    \cup {<<"*", key>> : key \in {"password", "token", "secret"}}

Option(options, name, default) == IF name \in DOMAIN options THEN options[name] ELSE default

LevelOf(options) == Option(options, "level", "info")

\* createLogger throws on any other level.
IsLogLevel(level) == level \in ToSet(LogLevels)

CreateLogger(options) ==
    [level |-> LevelOf(options),
     bindings |-> [path \in {<<"service">>, <<"version">>} |-> options[Head(path)]],
     redact |-> Option(options, "redact", DefaultRedact)]

\* The keys of `new` take the place of those of `old`.
Over(new, old) ==
    LET kept == {p \in DOMAIN old : \A q \in DOMAIN new : Head(q) # Head(p)}
    IN  [p \in DOMAIN new \cup kept |-> IF p \in DOMAIN new THEN new[p] ELSE old[p]]

Child(logger, bindings) == [logger EXCEPT !.bindings = Over(bindings, @)]

\* What the mixin adds to a line.
Mixin(id) == [path \in IF id = NoId THEN {} ELSE {<<"correlationId">>} |-> id]

\* pino: a path matches itself, and `*` any key.
Hides(redact, path) ==
    \E p \in redact : Len(p) = Len(path) /\ \A i \in 1..Len(p) : p[i] \in {"*", path[i]}

Redacted(redact, line) ==
    [path \in DOMAIN line |-> IF Hides(redact, path) THEN "[Redacted]" ELSE line[path]]

\* Mutant: the bindings of a child are not redacted.
MutantLine(logger, fields, id) ==
    Over(Redacted(logger.redact, Over(fields, Mixin(id))), logger.bindings)

\* The fields of a call go over the mixin, and both over the bindings.
Line(logger, fields, id) ==
    Redacted(logger.redact, Over(Over(fields, Mixin(id)), logger.bindings))

Index(level) == CHOOSE i \in 1..Len(LogLevels) : LogLevels[i] = level

\* A call below the level of the logger writes nothing.
Writes(logger, level) == Index(level) >= Index(logger.level)
=============================================================================
