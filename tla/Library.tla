------------------------------ MODULE Library ------------------------------
(***************************************************************************)
(* One call of a pure function of the packages.  The caller chooses the    *)
(* argument; the call answers and the behaviour ends.                      *)
(***************************************************************************)
EXTENDS ValueObjects, Changeset, EventSchemas, Errors, Metrics

CONSTANT Arguments   \* the arguments each function is called with

\* What the types of the functions let a caller pass, and for a topology that
\* no queue is declared twice.
AreResults(results) ==
    /\ results \in Seq({results[i] : i \in DOMAIN results})
    /\ \A i \in DOMAIN results :
          LET r == results[i] IN
          r.ok \in BOOLEAN /\ r = IF r.ok THEN Ok(r.value) ELSE Err(r.error)

Pings == {Up, NeverSettles, ThrowsOther}
         \cup [settles : {TRUE}, throws : {TRUE}, isError : {TRUE}, message : STRING]

IsTopology(o) ==
    /\ o.deadLetterExchange \in Seq(STRING) /\ o.deadLetterQueue \in Seq(STRING)
    /\ \A q \in o.consumerQueues : q.name \in Seq(STRING) /\ q.routingKeys \subseteq Seq(STRING)
    /\ \A p, q \in o.consumerQueues : p.name = q.name => p = q

IsOutcome(a) ==
    /\ IsTopology(a.topology)
    /\ a.type \in {VideoProcessed, VideoFailed}
    /\ a.input.correlationIdFits \in BOOLEAN
    /\ a.input.payload \in [DOMAIN a.input.payload -> BOOLEAN]
    /\ Required(a.type) \subseteq DOMAIN a.input.payload
    /\ DOMAIN a.input.payload \subseteq Required(a.type) \cup Optional(a.type)

\* An option is left out or given once.
IsOption(given, values) == given \subseteq values /\ \A x, y \in given : x = y

MetricCalls ==
    [function : {"createMetrics"}, service : STRING, collectDefaults : BOOLEAN]
    \cup [function : {"register"}, name : STRING]

ValueObjectNames == {"Cpf", "Cnpj", "Phone", "Email", "Name", "Password", "VideoFileName", "VideoFile"}

ASSUME LibraryAssumption ==
    \A function \in DOMAIN Arguments : \A a \in Arguments[function] :
        CASE function = "generateChangeset" -> a \in Seq(Commits)
          [] function = "createDefaultTopology" -> IsTopology(a)
          [] function = "createNotifierEmailHelper" -> IsOutcome(a)
          [] function = "all" -> AreResults(a)
          [] function = "createReadinessCheck" -> a \in Seq(Pings)
          [] function = "isRetryableError" ->
                /\ a.class \in Classes \cup {"unknown"}
                /\ IsOption(a.options.retryable, BOOLEAN) /\ IsOption(a.options.statusCode, Nat)
          [] function = "computeBackoffMs" ->
                /\ a.attempt \in Int /\ IsOption(a.options.multiplier, Nat)
                /\ a.options.baseDelayMs \in 0..Infinity - 1 /\ a.options.maxDelayMs \in 0..Infinity
          [] function = "createMetrics" -> a \in Seq(MetricCalls)
          [] function = "VideoFile" ->
                a.name \in Seq(CodeUnits) /\ a.contentType \in Seq(CodeUnits)
          [] function \in ValueObjectNames \ {"VideoFile"} -> a \in Seq(CodeUnits)

VARIABLES called,  \* the function and its argument
          answers  \* what it answered: nothing, then one answer

vars == <<called, answers>>

Init == /\ \E f \in DOMAIN Arguments : called \in [function : {f}, argument : Arguments[f]]
        /\ answers = <<>>

\* The call of `function` answers what result(argument) is.
Answers(function, result(_)) ==
    /\ answers = <<>> /\ called.function = function
    /\ answers' = <<result(called.argument)>>
    /\ UNCHANGED called

CreateValue == \E name \in ValueObjectNames : Answers(name, LAMBDA raw : Create(name, raw))

GenerateChangeset == Answers("generateChangeset", PerPackage)

CreateDefaultTopology ==
    Answers("createDefaultTopology",
            LAMBDA o : [exchanges |-> Exchanges(o), queues |-> Queues(o), bindings |-> Bindings(o)])

\* The event is published on a broker with that topology, and parsed with every schema.
NotifyVideoOutcome ==
    Answers("createNotifierEmailHelper",
            LAMBDA a : LET sent == PublishVideoOutcome(a.type, a.input) IN
                       [reached |-> Routed(a.topology, sent.exchange, sent.routingKey),
                        parsed |-> [t \in EventTypes |-> ParseEvent(t, sent.message)]])

CombineResults == Answers("all", All)

CheckReadiness == Answers("createReadinessCheck", ReadinessCheck)

\* An error is thrown, and whoever catches it asks whether to try again.
JudgeError ==
    Answers("isRetryableError",
            LAMBDA a : LET thrown == IF a.class = "unknown" THEN Unknown ELSE New(a.class, a.options)
                       IN [thrown |-> thrown, retryable |-> IsRetryableError(thrown)])

BackOff == Answers("computeBackoffMs", LAMBDA a : ComputeBackoffMs(a.attempt, a.options))

RegisterMetrics == Answers("createMetrics", Registries)

Next == \/ CreateValue \/ GenerateChangeset \/ CreateDefaultTopology \/ NotifyVideoOutcome
        \/ CombineResults \/ CheckReadiness \/ JudgeError \/ BackOff \/ RegisterMetrics

Spec == Init /\ [][Next]_vars
-----------------------------------------------------------------------------
Returned(function) == called.function = function /\ answers # <<>>
answer == answers[1]
RefusedFor(code) == ~answer.ok /\ answer.error.code = code

\* The check digits as the Receita Federal states them: digit k is the sum of
\* the digits before it, weighted by `weight`, modulo 11, and 0 for 10.
CheckDigitsHold(n, k, weight(_, _)) ==
    n[k] = (SumFunction([i \in 1..k - 1 |-> weight(i, k) * n[i]]) % 11) % 10

CpfHolds(n) ==
    \A k \in {10, 11} : CheckDigitsHold(n, k, LAMBDA i, j : i + 10 - j)
CnpjHolds(n) ==
    \A k \in {13, 14} : CheckDigitsHold(n, k, LAMBDA i, j : 9 - ((j - 1 - i) % 8))

\* cpf.ts:6-18 and cnpj.ts:6-20 compute the check digits with descending
\* weights and two cases for the remainder: a document of the right length is
\* taken exactly when its digits satisfy the ascending rule and are not all one.
DocumentsAgree ==
    \A doc \in {[name |-> "Cpf", size |-> 11], [name |-> "Cnpj", size |-> 14]} :
        Returned(doc.name) =>
            LET digits == DigitsOf(called.argument)
                n == Numbers(digits)
            IN Len(digits) = doc.size /\ ~RefusedFor("INVALID_CHARACTERS") =>
                  (answer.ok <=> /\ IF doc.name = "Cpf" THEN CpfHolds(n) ELSE CnpjHolds(n)
                                 /\ \E i \in DOMAIN n : n[i] # n[1])

\* The UTF-8 bytes of a well-formed string: its code points, with the width of
\* each; the units of a surrogate pair have two bytes each.
Utf8Bytes(s) ==
    LET widths == [i \in DOMAIN s |-> CASE s[i] < 128 -> 1
                                        [] s[i] \in 128..2047 -> 2
                                        [] s[i] \in HighSurrogates \cup LowSurrogates -> 2
                                        [] OTHER -> 3]
    IN SumFunction(widths)

WellFormed(s) ==
    \A i \in DOMAIN s : /\ s[i] \in HighSurrogates => i < Len(s) /\ s[i + 1] \in LowSurrogates
                        /\ s[i] \in LowSurrogates => i > 1 /\ s[i - 1] \in HighSurrogates

\* password.ts:8-22: a password bcrypt would truncate is refused, and none that
\* fits is refused for its length.  A string with a lone surrogate, for which
\* the loop counts too few bytes, is left out.
PasswordFits ==
    Returned("Password") /\ WellFormed(called.argument) =>
        /\ answer.ok => Utf8Bytes(called.argument) <= PasswordMaxBytes
        /\ RefusedFor("TOO_LONG") => Utf8Bytes(called.argument) > PasswordMaxBytes

\* Validation agrees with the rules it implements, on both.
ValidationAgrees == DocumentsAgree /\ PasswordFits

\* email.ts:30-31, "two accounts must not be able to differ only by case"; a
\* service stores what create answered, or its JSON, and parses it once more
\* (value-object.ts:92-115): it is accepted again, unchanged, and so is the JSON,
\* which is the value.  Two cases are set apart: an email that its lower case makes
\* too long may be refused (email.ts:32), and the JSON of a password is not the
\* password and is no password.  An error names the class asked for.
RoundTrips(name) ==
    /\ Is(name, called.argument) = answer.ok
    /\ ~answer.ok => answer.error.valueObject = name
    /\ answer.ok =>
          LET json == ToJSON(name, answer.value) IN
          /\ \/ name = "Email" /\ Len(answer.value) > EmailMax
             \/ Create(name, answer.value) = answer /\ Equals(name, answer.value, answer.value)
          /\ IF name = "Password" THEN ~Is(name, json) ELSE json = answer.value

\* phone.ts:33-35, "the country code is optional on input and never kept": with
\* 55 in front a phone is the same phone, also in the area whose code is 55.
CountryCodeIsOptional ==
    Returned("Phone") /\ answer.ok => Create("Phone", CountryCode \o answer.value) = answer

\* A value has one form, whatever the form it was given in or stored in.
ValuesAreStable ==
    /\ \A name \in ValueObjectNames : Returned(name) => RoundTrips(name)
    /\ CountryCodeIsOptional

\* The commits of the argument that touch package p.
Touching(p) == {c \in ToSet(called.argument) : p \in c.dirs}

\* docs/versionamento.md:33-37 and generate-changeset.mjs:9-16: only feat and fix
\* commits count, a breaking one is a major bump, a feat a minor one, a fix a
\* patch, and a package has the most significant bump of those that touch it,
\* whatever their order.  A package that a breaking chore touches is left out: the
\* script gives it a major bump (line 89), which these lines and it disagree on.
BumpIsHighest ==
    Returned("generateChangeset") =>
        \A p \in Packages :
            LET counted == {c \in Touching(p) : c.type \in {"feat", "fix"}} IN
            \/ \E c \in Touching(p) : c.type = "chore" /\ c.breaking
            \/ answer[p] = IF \E c \in counted : c.breaking THEN Major
                           ELSE IF \E c \in counted : c.type = "feat" THEN Minor
                           ELSE IF counted # {} THEN Patch ELSE NoBump

\* topology.ts:28-31: what a consumer queue dead-letters reaches the shared
\* dead-letter queue and nothing else.
DeadLettersArrive(o) ==
    /\ \A q \in answer.queues :
          q.dlx # Absent => /\ q.dlx \in answer.exchanges
                            /\ Routed(o, q.dlx, q.key) = {DlqOf(o)}
    /\ \A q \in o.consumerQueues : \A k \in q.routingKeys : q.name \in Routed(o, Events, k)

\* notifierEmailHelper.ts:36-54 builds the event and its routing key from one
\* name, apart from the schemas (events.ts:36-44) and from the exchange of
\* topology.ts:44: an outcome whose fields fit reaches every queue bound to it,
\* the schema of its type takes it with all its fields, and no other schema does.
OutcomeArrives(a) ==
    /\ \A q \in a.topology.consumerQueues :
          a.type \in q.routingKeys => q.name \in answer.reached
    /\ \A t \in EventTypes :
          IF t = a.type /\ a.input.correlationIdFits /\ \A f \in DOMAIN a.input.payload : a.input.payload[f]
          THEN answer.parsed[t].ok /\ answer.parsed[t].value.payload = a.input.payload
          ELSE ~answer.parsed[t].ok

\* Events and dead letters arrive where somebody reads them, in a topology whose
\* dead-letter names are not those of the events.
MessagesArrive ==
    LET Apart(o) == DlxOf(o) # Events /\ DlqOf(o) \notin {q.name : q \in o.consumerQueues} IN
    /\ Returned("createDefaultTopology") /\ Apart(called.argument) => DeadLettersArrive(called.argument)
    /\ Returned("createNotifierEmailHelper") /\ Apart(called.argument.topology) =>
          OutcomeArrives(called.argument)
-----------------------------------------------------------------------------
\* result.ts:73-92, "every value when all of them succeed, or the first error it
\* finds": what all answers is the first failure, and what chaining andThen gives.
FirstError(results) ==
    LET failures == {i \in DOMAIN results : ~results[i].ok}
        chained == FoldLeft(LAMBDA c, r : AndThen(c, LAMBDA vs : Map(r, LAMBDA v : Append(vs, v))),
                            Ok(<<>>), results)
        length == Match(answer, LAMBDA vs : Len(vs), LAMBDA e : 0)
    IN /\ answer = chained
       /\ IF failures = {} THEN answer = Ok([i \in DOMAIN results |-> results[i].value])
          ELSE answer = results[Min(failures)]
       /\ Len(UnwrapOr(answer, <<>>)) = length
       /\ UnwrapOrElse(Map(answer, LAMBDA vs : Len(vs)), LAMBDA e : 0) = length

\* create-readiness-check.ts:8, "runs every check in order; first failure
\* becomes { ready: false, reason }": the checks behind the first that is not up
\* are not run, and a ping that never settles hides their failures.
FirstFailure(checks) ==
    LET failures == {i \in DOMAIN checks : checks[i] # Up}
        first == checks[Min(failures)]
    IN IF failures = {} THEN answer = [pings |-> Len(checks), result |-> Ready]
       ELSE /\ answer.pings = Min(failures)
            /\ first = NeverSettles <=> answer.result = Waits
            /\ first.settles => ~answer.result.ready
            /\ \A m \in {"refused", "timeout"} :
                  first = ThrowsError(m) => answer.result.reason = m

\* metrics.ts:24-72: a call labels the registry with its own service, then
\* registers its metrics one after the other, and the first whose name is taken
\* already ends it: the ones before that stay, of the ones behind it none is added.
FirstClash(calls) ==
    \A i \in DOMAIN calls :
        LET call == calls[i]
            names == IF call.collectDefaults THEN <<DefaultMetrics>> \o TechnicalMetrics
                     ELSE TechnicalMetrics
            taken == {j \in DOMAIN names : names[j] \in answer[i].names}
            added == {names[j] : j \in {k \in DOMAIN names : \A t \in taken : k < t}}
        IN call.function = "createMetrics" =>
              answer[i + 1] = [service |-> call.service, names |-> answer[i].names \cup added,
                               thrown |-> taken # {}]

\* What fails first ends the call: of results, of checks and of metrics.
FirstFailureWins ==
    /\ Returned("all") => FirstError(called.argument)
    /\ Returned("createReadinessCheck") => FirstFailure(called.argument)
    /\ Returned("createMetrics") => FirstClash(called.argument)

\* README of core, the table of classes (lines 77-88), and is-retryable.ts:5-6,
\* "unknown errors are treated as retryable": what a constructor was not told is
\* the class's advice; a client error is never retried; and what toJSON shows
\* carries the advice and no cause.
ErrorsAdvise(a) ==
    LET thrown == answer.thrown
        json == ErrorToJSON(thrown)
    IN IF a.class = "unknown" THEN answer.retryable
       ELSE /\ a.options.retryable = {} =>
                  (answer.retryable <=>
                      a.class \in {"InfrastructureError", "TimeoutError", "UnavailableError"})
            /\ a.options.statusCode = {} /\ thrown.statusCode < 500 => ~answer.retryable
            /\ answer.retryable <=> "retryable" \in DOMAIN json /\ json.retryable = {TRUE}
            /\ "cause" \notin DOMAIN json

\* retry.ts:10-13, "exponential backoff": the first wait is the base, each next
\* one the multiple of the one before, up to the cap.  A base of 0 whose power is
\* infinite is left out: the product is no number, nor is the wait, which line 11
\* and README.md:97 of communication say is capped.
WaitsGrow(a) ==
    LET o == a.options
        multiplier == Given(o.multiplier, 2)
        overflows == Power(multiplier, a.attempt - 1) = Infinity
    IN IF a.attempt < 1 THEN answer = RangeError
       ELSE \/ o.baseDelayMs = 0 /\ overflows
            \/ answer = IF a.attempt = 1 THEN Least(o.baseDelayMs, o.maxDelayMs)
                        ELSE Least(multiplier * ComputeBackoffMs(a.attempt - 1, o), o.maxDelayMs)

\* What an error and an attempt advise is what is said of them.
RetryAdviceHolds ==
    /\ Returned("isRetryableError") => ErrorsAdvise(called.argument)
    /\ Returned("computeBackoffMs") => WaitsGrow(called.argument)
=============================================================================
