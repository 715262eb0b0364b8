# Verification of zipframes-packages

TLA+ models of the shared packages of zipframes and of the workflows that
release them, with TLC runs on small instances and TLAPS proofs. Paths below
are relative to the repository; `packages/x` is `src/packages/x` here.

## 1. Inventory

The repository is a pnpm workspace of TypeScript libraries. No package runs by
itself: services bring the broker adapter, the HTTP adapter and the callbacks.
What runs concurrently is the event loop of a service (code between two awaits
is atomic) and the GitHub jobs of a release.

| Component | State | Operations | Interacts with |
| --- | --- | --- | --- |
| consumer (`packages/communication/src/consumer`) | `running`, per delivery `settled`; the two queues are the port's | `start`, `stop`, `processOne`, `ack`/`retry`/`deadLetter` of a context | calls the handler and the queue port, synchronously for `enqueue`; decides with `decideRetry` |
| message handler (`.../handler`) | none between calls; per call the outcome reported and the operations asked for | one invocation: parse, `runInContext`, `handle`, `onExhausted`, `onOutcome`, settle | called by a consumer, settles through its context, calls four callbacks of the service |
| retry (`.../retry`) | none | `decideRetry`, `computeBackoffMs` | both of the above decide with it, apart |
| publisher, notifier (`.../publisher`, `.../notifier`) | none | `publish`, the two notifications of `createNotifierEmailHelper` | the queue port; the event schemas of whoever consumes |
| topology (`.../topology`) | none | `createDefaultTopology` | declared on a broker |
| authenticator (`packages/authenticator`) | the remote key set (jose): cached keys, their age, the one fetch in flight | `verify` over remote keys or keys in memory, `createJwksClient` | the JWKS endpoint of auth-service, the clock |
| http (`packages/http`) | none between requests | `defineHandler`, `defineAuthenticatedHandler` | the authenticator, the schemas, the service's handler and `errorHelper` |
| release workflows (`.github`) | main, the PR branches, pending changesets, the Version Packages PR, the registry, GitHub's concurrency groups | `release.yml`, `prerelease.yml`, `generate-changeset.mjs`, `changeset-packages.mjs` | git, changesets/action, people who push and merge |
| value objects (`packages/value-objects`) | none | `create`, `is`, `equals`, `toJSON` of eight classes | `Result` of core |
| core (`packages/core`) | none | errors and `isRetryableError`, `Result`, brands, problem details, readiness check | everything |
| schemas (`packages/schemas`) | none | `parseSchema`, zod declarations | message handler, http |
| logger (`packages/logger`) | the async context that holds a correlation id | `runWithCorrelationId`, `getCorrelationId`, `createLogger` | pino |
| telemetry (`packages/telemetry`) | `activePropagator`, OpenTelemetry's globals | `initTracing`, `withSpan`, `injectContext`, `extractContext`, `createMetrics` | the OpenTelemetry SDK |
| test-toolkit (`packages/test-toolkit`) | none | starts containers | Docker |

What is hard in each, and what makes it correct:

- **Consumer.** Every call of `start()` is a loop of its own and they share the
  flag and the queue; a handler may settle late, twice or not at all, and the
  port may throw in the middle of a settling. Correct means: a message is in
  one place, its attempts stay in the budget, a waiting message is taken, and a
  message whose handlers end is acknowledged or dead.
- **Message handler.** Four callbacks and three operations may fail, at points
  where part of the outcome is already told. Correct means: one settling at
  most, a dead letter only for poison or after `onExhausted`, and the outcome
  told is the one that happened. Joined to the consumer, both decide the same
  retry from the same attempt, so the budget must hold for the pair.
- **Authenticator and http.** Calls of `verify` share a cache and a fetch while
  keys rotate, time passes and the endpoint hangs. Correct means: only genuine
  callers reach a handler, good tokens are not refused without a cause the
  documentation knows, the endpoint is spared, every request ends, and a reply
  tells what was meant for whoever receives it and nothing of an exception.
- **Release.** Jobs are replaced, rejected and overtaken by pushes and merges.
  Correct means: what has a changeset is offered once, published only after the
  merge that decided it, and published in the end. Before the merge, the jobs
  of a pull request are cancelled by every push; what they publish must name
  all its packages and no other.
- **Telemetry.** Spans are open over awaits, end around a shutdown and are
  continued by other calls and other services. Correct means: a span that ended
  in time is exported, with its status, and a trace does not break. A registry
  of metrics that two calls share stops at the first metric it has already.
- **Logger.** A line is written under the correlation id of the moment, read from
  an async context that nested and un-awaited work inherits and messages carry
  on. Correct means: it names its own operation, whichever logger or child writes it,
  and hides the secrets.
- **Value objects, topology, generate-changeset.** Boundaries: remainders 0 and
  1, area code 55, bytes against code units, the order of commits.
- **Errors, results, readiness, event schemas.** Which of several failures is
  told, what a class advises about a retry when its constructor was told
  nothing, whether an event that is published unparsed is one its consumer takes.

`PROJECT.json` lists the hazards line by line with the properties that cover
them.

## 2. Modules

| Module | Models | Built on |
| --- | --- | --- |
| `Retry` | `readAttempt`, `decideRetry` | |
| `Delivery` | abstract: what a consumer promises of the messages of a queue | `Retry` |
| `Consumer` | `createConsumer`, with any handler, and `createPublisher` | `Retry`; implements `Delivery` |
| `MessageHandler` | `defineMessageHandler`, with any context | `Retry` |
| `Pipeline` | a consumer that runs a defined handler | composes `Consumer` and `MessageHandler` |
| `Authenticator` | `createAuthenticator` and `createAuthenticatorFromJwk`, jose's key sets, the endpoint, time | |
| `Errors` | the error classes, `isRetryableError`, `computeBackoffMs` | |
| `HttpHandler` | `defineHandler`, `defineAuthenticatedHandler`, `executeHandler`, `errorHelper`, `problemResponse` | composes `Authenticator`; `Errors` |
| `Releasing` | abstract: what the release promises of a changeset | |
| `Release` | `release.yml` with pushes and merges | implements `Releasing` |
| `Prerelease` | `prerelease.yml` and `changeset-packages.mjs`, for one pull request | |
| `Tracing` | `initTracing`, `withSpan`, `injectContext`, `extractContext` over the SDK | |
| `Logger` | `createLogger`, child loggers, levels, redaction, the fields of a line | |
| `Logging` | the correlation id of the calls of `withSpan`, and what each may log | extends `Tracing` with `Logger` |
| `Outcomes` | `Result` and its combinators, the readiness check | |
| `ValueObjects`, `Changeset`, `Topology` | `parse` of the value objects and `defineValueObject`, the loop of `generate-changeset.mjs`, `createDefaultTopology` | `Outcomes` |
| `EventSchemas` | `parseSchema`, the event schemas by their fields, `createNotifierEmailHelper` | `Outcomes` |
| `Metrics` | `createMetrics` on a registry of prom-client | |
| `Library` | one call of one of the functions of `Outcomes`, `Errors`, `ValueObjects`, `Changeset`, `Topology`, `EventSchemas`, `Metrics` | those modules |
| `ConsumerProofs` | theorems about `Consumer`, its refinement of `Delivery` | `Consumer` |
| `MessageHandlerProofs` | theorems about `MessageHandler` | `MessageHandler` |
| `PipelineProofs` | theorems about `Pipeline` | `Pipeline`, and the theorems of `ConsumerProofs` and `MessageHandlerProofs` |
| `HttpHandlerProofs` | theorems about `HttpHandler` and the `Authenticator` in it | `HttpHandler` |
| `ReleaseProofs` | theorems about `Release`, its refinement of `Releasing` | `Release` |
| `PrereleaseProofs` | theorems about `Prerelease` | `Prerelease` |
| `TracingProofs` | theorems about `Tracing` and `Logging` | `Logging` |
| `LibraryProofs` | theorems about `Library`: what the functions return, for arguments of any length | `Library` |
| `MC*` | values of the constants for TLC | the module named |

### How state and actions correspond to the code

**Consumer.** A `pc` of `handling` is a loop at `await handler(...)`
(consumer.ts:65), `next` one at `await processOne()` (consumer.ts:84) and
`idle` a call of `start()` that returned, rejected or was not made. `msg` and
`settled` are the variables of the last `processOne`; `settled` outlives the
delivery because the context does. `queue` and `dlq` are the port's queues;
with `Delayed` a message that is enqueued sits on `wire` until the broker
delivers it, in any order. `sent`, `acked` and `lost` are history. `Start` and
`Continue` dequeue and call the handler in one step, as the code does.
`HandlerSettles` is the context used while the handler runs; `Resolve` and
`Reject` contain the automatic `ack` and `retry` after it. A call of the
context that finds `settled` changes nothing, so it is not a step.

**MessageHandler.** `phase` is the await of the invocation; `inv` its input and
what it has done so far. `Catch` is the catch block, entered from a rejected
`handle`, a throwing `onOutcome` and a rejected `ack` alike, as in the code.

**Pipeline.** `C` and `H` are the two modules over the same loops. The handler's
requests are the consumer's settlings in the same step (`Context`), because
settle is synchronous; an operation asked for on a delivery that is settled
resolves and changes nothing, as in the code, so the join blocks no step of the
handler. The end of its promise is `Resolve` or `Reject`.

**Authenticator.** Time is a number of ticks, kept as ages that saturate where
nothing can distinguish them any more. `Fresh`, `Cooling`, `GetKey` and
`Resumed` are jose's rules (marked external), `Verdict`, `Refuse`, `Presented`
and `Options` the package's. `FetchFails` is every way a fetch can fail and may
happen at any time; `Tick` cannot pass the timeout of a fetch. `createAuthenticatorFromJwk`
is the `Init` whose keys are in memory: the key is given at the start, nothing
is fetched, and a rotation does not reach it.

**HttpHandler.** One action per piece of code between two awaits; `ErrorReply`
is a call of `errorHelper` whose exception nobody catches: the default translation, or what
the `errorHelper` of the route answers by itself, with a status of `HelperStatuses` and
its own words. `said` is the status of the reply, whose words it has (a package's, jose's,
the service's, an errorHelper's, those of an exception nobody foresaw, or none), and
whose error it is about.

**Release.** `main` only grows, so a commit is its position and the checkout of
a job a prefix. `job` is the job that runs and its next step, `waiting` the one
place GitHub keeps in a concurrency group. A push of people is one commit that
is a feat or not and that brings a changeset or not. A job has two commits: the
pushed one (`sha`, `GITHUB_SHA`) and the one its steps work on (`head`), which is one further
once the job committed a changeset. changesets/action, which is external, counts the
changesets of the checkout and resets it to `GITHUB_SHA` before it computes versions: a
changeset of its own job is counted and not offered (`CreatePrOrPublish`). The mapping to `Releasing` at the
end of the module takes the changesets of main that no merge has consumed, those of the
open pull request, those consumed, and those of the versions in the registry.

**Prerelease.** `branch` holds the author's commits; a commit is a feat of a
package, a changeset by hand for it, the removal of that changeset or of the automatic
one, or a chore, and `before` of a job a position in it. `Manual` is what a diff of
the branch against main shows, so a changeset that came and went is none. `auto` is the content of `auto-pr-<number>.md`. Every push
cancels the job (`cancel-in-progress`), so a job never sees a branch other than
its own; the commit of the job triggers nothing. `Conventional` is one run of
`generate-changeset.mjs`, from `before` in the gate and from main for the file.
What a merge brings to main is `auto` and the changesets by hand, if a job got
that far: the `brings` of a push of `Release`, which allows either for every
push. The two are therefore not composed. `cut` is history: a job was cancelled before it
committed, had to read a history that was rewritten, or the author took away the changeset
that spoke for the branch, since the last job that looked at the whole pull request. A
commit that deletes a changeset of main on the branch, which the diff would take for one
written by hand, is not modelled.

**Tracing.** A call of `withSpan` is its span. `Begins` is everything up to the
call of the function, `Resolves` and `Rejects` everything after it. `cause` is
history: the call that made this one or that sent its message. `Active` is
`context.active()`, which is the root where no context manager is registered.

**Logging.** A step is one of `Tracing`; a call that begins runs in its caller's async
context, in one of its own (`runWithCorrelationId`), in that of its message
(`runInContext`) or in none. A log call changes no state, so the lines a call may write are an operator
(`Log`) that a property looks at in every state, for every logger, child and log
call of the instance. `report` of the message handler is outside of `runInContext`
(define-message-handler.ts:62), so its lines carry no id.

**Library.** A behaviour is one call: the argument is chosen, the answer given.
Strings are sequences of UTF-16 code units.

## 3. Runs

| Run | Instance | Shows |
| --- | --- | --- |
| `consumer` | 3 messages, 2 loops, 2 attempts, headers absent and above the budget, a broker that reorders, a port that throws | types, conservation (`ExactlyOnePlace`), the budget, `Delivery` implemented |
| `consumer_loss` | 1 message | **violated**: an enqueue that throws loses the message |
| `handler` | 2 slots, attempts 1 to 3, limit 2, every callback and operation failing | one settling; a dead letter is earned, and stays unsettled when `onExhausted` rejects; the outcome told is the one that happened |
| `pipeline` | a good and a poison message, 2 loops, 3 attempts, a broker, an `onOutcome` that throws | the outcome table of the package's README, end to end (`OutcomesAreEarned`); `handle` and `onExhausted` stay in one budget; a waiting message is taken while a loop is active; every message ends if `start()` is called again |
| `http` | 2 requests, 1 key, 4 tokens, keys remote or in memory, a cache of 2 ticks, cooldown, timeout and tolerance of 1 | who reaches a handler, who is refused, what a reply tells, when keys are fetched, that requests end |
| `release` | 3 pushes, any number of merges | offered, published, once, in the end, but for a changeset the last job generated, which waits for a push; `Releasing` implemented |
| `release_forgotten` | 2 pushes | **violated**: a feat without a changeset |
| `release_unoffered` | 2 pushes | **violated**: a generated changeset that no pull request offers |
| `prerelease` | 2 packages, one depending on the other, 3 commits, some of which remove changesets | a published snapshot is complete and names nothing else; without a job cut short or a changeset taken away, so is the branch |
| `tracing` | 3 calls, 1 handle, a context manager; 3 loggers' options with children | spans are accounted for over a shutdown; a trace continues; lines tell their operation, unless the service gives or hides the key itself, and no secret |
| `tracing_root` | 1 call, no context manager | **violated**: the headers of a message name the span |
| `library` | about 40,000 arguments | the functions agree with reference definitions; events and dead letters arrive; the first failure wins, of results, checks and metrics; errors and backoff advise the retry they document |

### Bounds

Every bound is a constant of a cfg, or a set that an MC module defines for one.

- Two loops are enough for every race of the consumer: the loops share the
  flag, the queue and nothing else, and a property speaks of two at most. Three
  messages let one wait while two are handled. Two attempts have a first, a
  last and a retry between them, three (in `pipeline`) one that is neither; the headers
  reach below and above. The invariants of this module are proved for all values (section 4).
- Attempts 1, 2 and 3 against a limit of 2 are before, at and after the last.
- One key is new, published or retired at any moment, so tokens of unknown,
  known and former keys occur; two requests share a fetch or do not. The cache
  outlives the cooldown by a tick, so a refetch inside and after it occur; the
  lifetimes put a token's expiry before, at and after the end of a fetch.
- Three pushes are one that runs, one that waits and one that replaces it;
  merges come on top, at most one for each version of the pull request.
- Three commits are one before the last push, that push and one that was
  cancelled between them; two packages tell a generated file that is short from
  one that is not, and a dependent from a package that is named. Pushes by force
  and reopenings are not bounded.
- Three calls are a span, its child and one that follows a message of either.
  One handle is enough: handles share no processor.
- The limits of the value objects (255, 100, 72, 8, 2) become 2 to 7, so that
  strings of up to 5 or 6 units pass them; alphabets have one unit of each kind
  the code tells apart. Documents and phones keep their length: the digits vary
  in two places and in the check digits. `Infinity` is 64 for the numbers of
  JavaScript, so products below, at and above it occur; results and readiness checks
  come in lists of up to 4, calls of `createMetrics` in sequences on two registries.
- Four pushes of `release` pass as well (177,000 states, a minute); they add no case.

`CHECK_DEADLOCK FALSE` is set where the model stops: the pure functions after
their call, main once its pushes are used up, and tracing once its calls are.

### Fairness

- *Pipeline.* A callback settles its promise (one that never does keeps its
  loop for ever, in the code as well), the event loop resumes a loop whose
  promise is settled, the broker delivers. Nobody has to call `start` or
  `stop`; `EveryMessageEnds` assumes by itself that `start()` is called again,
  because `start()` returns on an empty queue while a retry may be on the wire.
  The test of the consumer does the same.
- *HttpHandler.* Time passes, jose aborts a fetch at its timeout, the service's
  handlers end. The endpoint need not answer.
- *Release.* GitHub runs the jobs it has and somebody merges the Version
  Packages PR. Nobody has to push.

### Findings

1. *consumer.ts:44 (bug).* `settle` sets `settled` before `enqueue`. If that
   throws, the `retry` of the catch block finds the flag set and the message is
   nowhere.
2. *release.yml:64.* A feat pushed while a changeset is pending, while main
   moves, or whose job is replaced gets no changeset, unlike lines 4-5 say.
3. *tracing.ts:141.* `initTracing` registers no context manager, so inside
   `withSpan` the active context is the root: `injectMessageContext` writes no
   `traceparent` and nested spans have no parent, unlike the package's README
   (lines 79-90) says. A service that registers one has what `tracing` checks.
4. *release.yml:90.* changesets/action finds the changeset its own job has committed, resets
   to the pushed commit and offers nothing, and the push of that changeset starts no
   other run (lines 10-12), unlike lines 13-15 say. The next push to main makes up for it.

Behaviour the models contain, and no run states as wrong:

- define-message-handler.ts:71: `onOutcome` and `ack` are inside the `try` of
  `handle`; what they throw makes a handled message a failed one (`Catch`), for which
  the table of the package's README (line 54) has no row.
- generate-changeset.mjs:89: a breaking chore, refactor, test or docs commit is a major
  bump (`BumpFor`), while lines 9-10 and docs/versionamento.md:33 say that such a commit
  releases nothing. `BumpIsHighest` leaves those packages out.
- retry.ts:19: with a base of 0 and an infinite power the wait is NaN
  (`ComputeBackoffMs`), while line 11 and the package's README (line 97) say it is capped.
  `RetryAdviceHolds` leaves that case out.
- email.ts:32: the length is checked before `toLowerCase`, so a stored email may be
  refused later (`Create`). `ValuesAreStable` leaves that case out.
- verify.ts:94: a JWKS endpoint that fails makes good tokens
  `AUTH_INVALID_TOKEN`; the comment at lines 31-35 names other causes
  (`FetchFails`).
- prerelease.yml:42 and 97: a feat whose job was cancelled, or whose push was
  forced, gets a changeset only with the next feat of the pull request (`Gate`). So does
  one that a changeset by hand spoke for, when a chore deletes that changeset.
- prerelease.yml:103: a changeset by hand leaves the automatic one in place.
- create-readiness-check.ts:15: a ping that never settles keeps the check from ending
  (`Ping`).
- metrics.ts:26: a second call on a registry relabels it before it throws, and leaves what
  it registered until then (`FirstClash` states exactly what is left).
- verify.ts:115: a key in memory is trusted after it was retired (`GetKey`).
- logger.ts:81: `redact` replaces the default list, as the package's README says; a test
  is titled "accepts extra redact paths". Fields two levels down, `accessToken` for one,
  are not in the default list (`Redacted`).
- logger.ts:59: fields or bindings with the key `service`, `version` or `correlationId` replace
  what the comment says is always emitted (`Over`). `LinesTellTheirOperation` says so key
  by key.
- docs/value-objects.md:33 says values are frozen; nothing freezes the record of a
  `VideoFile`. No function of the package changes one.
- prerelease.yml:143: when main is merged into a pull request without feats and
  main's commits have some, no file is generated and `git add` fails the job
  (`CommitAutomatic`).
- prerelease.yml:175: `--summary` reads `.changeset` after `changeset version`
  emptied it, so the comment lists no package (`Comment` publishes nothing).

## 4. Proofs

Each theorem holds for every value of the constants its module's assumption
allows; the runs of section 3 show the same property on a small instance.
`PROJECT.json` lists the theorems with what each establishes.

| Module | Assumption | Run properties stated as theorems |
| --- | --- | --- |
| `ConsumerProofs` | `ConsumerAssumption` | `TypeOK`, `ExactlyOnePlace`, `AttemptsWithinBudget`, `ImplementsDelivery` |
| `MessageHandlerProofs` | `MessageHandlerAssumption` | all four invariants of the run `handler` |
| `PipelineProofs` | `PipelineAssumption` | with a hypothesis each: `CallsWithinBudget`, `OutcomesAreEarned` |
| `HttpHandlerProofs` | `HttpAssumption` | all but the liveness of the run `http` |
| `ReleaseProofs` | `ReleaseAssumption` | all but the liveness of the run `release` |
| `PrereleaseProofs` | `PrereleaseAssumption` | all invariants of the run `prerelease` |
| `TracingProofs` | `TracingAssumption`, `LoggingAssumption` | `TypeOK`, `SpansAccounted`; with a context manager `TraceContinues`; `LinesTellTheirOperation` |
| `LibraryProofs` | `LibraryAssumption` and those of the modules it extends | all six invariants of the run `library` |

### Consumer and message handler

In `ConsumerProofs`, for any sets of messages,
loops and headers, any integer budget, with or without a broker and a throwing
port. The only assumption is `ConsumerAssumption`.

- `TypeCorrect` and `EndedDeliveriesSettled`: `TypeOK` alone is not inductive,
  because `Settle` puts `msg[l]` on a queue and `msg[l]` may be `NoMessage` as
  far as types go. `Typed == TypeOK /\ Holding` adds what is needed: a loop in
  its handler holds a message, and a loop outside of it has settled.
- `MessagesConserved` (`ExactlyOnePlace`): the invariant is `Inv == Typed /\
  ExactlyOnePlace`. The argument is by the places an action takes a message
  from and puts it to: `PublishMoves`, `ArriveMoves`, `SettleMoves`,
  `PollMoves`, and `NothingMoves` for the rest. Each shows how the six sets of
  identifiers change, then that they stay disjoint and without duplicates. The
  facts on sequences (`AppendElements`, `TailElements`) are lemmas of the module.
- `RetriesWithinBudget`: `AttemptsWithinBudget` with `Inv`, from the lemma that
  a retry `decideRetry` allows has an attempt in 2..MaxAttempts.
- `ConsumerImplementsDelivery`: under the mapping at the end of `Consumer`
  (tokens of the messages at each place) every step is a step of `Delivery` or
  a stutter. `Inv` is what makes a message leave one place of the mapping when
  its token does: two messages with one identifier would share a token.

In `MessageHandlerProofs`, for any slots, attempts and integer limit, with every
failure of the callbacks and the context. The only assumption is
`MessageHandlerAssumption`.

- `HandlerTypeCorrect`, `HandlerSettlesOnce`, `DeadLettersEarned` and `OutcomesAgree`
  are the four invariants of the run `handler`. None but the first is inductive:
  that an invocation settles once depends on where in the code it is. `Good(ph, i)` says what
  its data may be at each await: only the operation asked for last can have been
  accepted (`AcceptedIsLast`), none before the catch block is entered
  (`Unsettled`), `onExhausted` was not asked before it, and once an operation is asked for the
  last report tells of it (`Told`). `Inv` is `Good` of every slot.
- A step changes one slot (`BecomeKeepsInv`), and every step but the starts and
  ends of callbacks is a report with or without the operation after it (`ReportOnly`,
  `AskedIsGood`), so `ReportThenAskKeepsInv` and `CatchKeepsInv` carry most actions.

### Pipeline

`PipelineProofs` instantiates the two proof modules over the joined variables, so
the invariants of the consumer and of the handler are used as they were proved;
what has to be shown is that the join takes no step outside of either.

- `HandlerIsHeard` has no hypothesis: the consumer ignores an operation asked for on a
  delivery that is settled, and a defined handler asks for none there. `Base == CP!Inv
  /\ HP!Inv /\ Joined` is why. `Joined` says that the
  invocation a loop awaits is about the message the loop holds, with its
  attempt and its poison, and that `settled[l]` is true exactly when the handler
  has asked for an operation; `Fit` says at which awaits it has not. `Serves` then
  names the step of the consumer that each step of the handler is.
- `CallsBounded` needs `MaxAttempts <= HandlerMax`, and holds whatever throws, the queue
  port and `runInContext` included, which the run leaves out. The argument is a count:
  `Counted` says that a message which waits has had fewer calls of `handle` than
  the attempt it carries, and that an invocation that has parsed still has one
  left; `GivenUp`, that `onExhausted` was not called for any message that waits. A
  handler with the lower limit gives up an attempt the consumer still retries
  where `onExhausted` rejects, and calls it again the next time: TLC finds
  that at limits of 3 and 2.
- `AcksAreEarned` has no hypothesis: whatever throws, `ack`, the automatic one
  included, covers only what `handle` resolved for.
- `HandledStaysHandled` (a message that `handle` resolved for is acknowledged, and never
  redelivered) needs that `onOutcome` does not throw, and `OutcomesEarned` that
  both limits are equal and that `runInContext` does not reject by itself: the
  consumer's own `retry` of a rejected handler would otherwise dead-letter a
  message that no `onExhausted` has seen. The run `pipeline` sets the latter; without the
  former TLC finds a handled message that is redelivered, which section 3 tells of.
- `Flow` is the summary of a step the last four share: where a message that waits
  after it, is held, dead or acknowledged, was before. `FlowStep` proves it once.

### Authenticator and http

`Inv` of `HttpHandlerProofs` is `AuthInv /\ TypeOK /\ OnlyGenuineCallers /\ ReplyFitsCaller`.

- None of what the properties say is about the age of an answer, and all of it
  depends on that. `AnswersSeen` says what an answer of the endpoint tells of the
  keys: one it has was not retired longer ago than the answer is old, one it lacks
  was not published longer ago; for the cache the time of the fetch comes on top.
  `CallsJudged` says which calls may wait for a key, and that an accepted one is genuine.
- `AcceptedKeysAreFresh`, `GoodTokensServed` and `FetchesAreSpaced` are action properties: every
  step from a state of `Inv` keeps them. `Fair` carries a call through the
  lookup, the refetch and the retry of jose. Nothing relates the cooldown to the age
  jose trusts an answer for: where the cooldown is longer, a stale answer is fetched again
  before it ends, and the properties speak of the smaller of the two.
- `CallersAreTreatedFairly` is by what each phase of a request may hold of its caller and
  its reply (`RequestsFit`).
- `TypeOK` needs a token to exist, so `Parameters` says `Tokens # {}`.
- The proof corrected a property. `RefusedFairly` said that a good token
  whose key is at least `CooldownMs + TimeoutMs` old is refused only for an outage.
  With a cooldown of 0 an answer that arrives as its timeout ends was asked for
  before a key of that age was published, and refuses it. The cfg of the run has a
  cooldown of 1, where this cannot happen; TLC finds it at 0. The property
  now names the case.

### Release

`Inv == History /\ Scheduled /\ Released /\ QuietMeansDone`.

- `CoveredInOne`: a generated changeset stands right behind the one feat it covers,
  which brought none (`History`). For a job that commits to find that place, the
  tip must be the commit it looked at, hence `Scheduled`: which commit the
  running, the waiting and no job are about.
- `QuietJobsDone`: the job of the tip, when it ends, leaves the Version Packages PR with what was pending at
  its pushed commit, which is all that is pending unless the job committed a changeset
  itself; then it is that changeset alone (`AwaitsPush`). The waiting job, or the running one where none waits, is that
  of the tip; when it ends there is nothing younger it could have missed.
- `ReleaseImplementsReleasing`: step by step. A push with a changeset and the commit of
  a job are `Arrive`, the Version Packages PR is an `Offer`, its merge `Merge`, what goes
  to the registry `Publish`, and all else stutters; `Released` and `OneCover` (two changesets
  do not share a commit) let a changeset count as published only after its merge.

### Prerelease

`Inv == TypeOK /\ Owed /\ SnapshotIsComplete /\ CompleteUnlessCut`. A job looks at the
commits of one push only, so completeness of the branch is a debt that jobs
hand on: `Owed` says that the commits before the push of a job are covered
already, unless a job was cut short, and what each later step of it relies on. The
lemma `FeatsSplit` divides the feats of a branch at that point.

### Tracing

`Inv` is `TypeOK`, that a call uses a handle that `initTracing` returned (`Begun`) and
that the spans of ended calls are accounted for. `Begun` is what keeps `initTracing`
from turning a handle on under a span that was dropped. `TracesContinue` has the context
manager as its hypothesis; without one the run `tracing_root` shows the opposite.
`TracingAssumption` says that there is a handle, which `NoSpan` needs to have its type.

### Logging

In `TracingProofs` too. `LoggingImplementsTracing` is step by step: every step of a
service that logs is one of `Tracing`, so the theorems on spans hold of it.
`LinesTellTheirOperationHolds` has two halves.

- *The id a call writes is that of its operation.* `Operation` is defined by an
  equation over callers and messages, which could have no solution or several.
  `IdsFollow` says that the ids the contexts hold are one. They are the only one because
  what starts a call began before it: `Grounded` says that every set of calls that is not
  empty has one whose id comes from none of the others, so the calls on which two
  solutions differ are none. `CausesBegan` keeps `Grounded`: a call that begins
  is the cause of nothing yet.
- *What a line shows.* `OpenLine` is the merging of the fields of the call, the mixin, the
  bindings of the child and those of the logger; `DefaultRedactHides` which paths of it
  are hidden. `LoggingAssumption` is about types only: a path of the fields is a sequence
  of strings. The code lets fields and bindings give `service`, `version` or `correlationId`,
  and a list of the service hide them, so the property says of each key when it is the
  logger's own (`Tells`).

### Library

A behaviour is one call, so `ToldHolds` (an answer is the result of the argument) is all
the induction over steps there is. The theorems are about the functions: the runs
try them on short arguments, the proofs hold for arguments of every length.
`LibraryAssumption` gives the arguments their types.

- *Induction.* The theorems of the library that take a predicate as a parameter cannot be used, but
  `WFMin` takes a set. From it come `LeastElement` and, for a set of naturals,
  `SetInduction` and `IntervalInduction`. That a fold or a recursive function is defined at all is an
  induction over the size of its domain (`FoldExists`, `FoldLeftExists`, `RoundsExist`);
  after that a loop is a sequence `r[0], ..., r[n]` of what it has after each
  round, and a property of the function an invariant of the rounds.
- `BumpIsHighestHolds`, `FirstFailureWinsHolds`: one invariant of the rounds each, for the
  commits, and for the results, the checks and the metrics a call registers; and one of the calls
  on a registry.
- `RetryAdviceHoldsAlways`: the advice of a class by its constructor's options; the waits by
  the rounds of `Power`, which is infinite from the first round on that passes the largest number.
- `MessagesArriveHolds`: `#` matches every key and a key without wildcards itself, at any number
  of words; and what the schema of an event makes of the fields the helper sends.
- `ValidationAgreesHolds`: the loop adds the weighted digits in order, and `SumFunction` in an
  order it does not say; the sum is the same in every order. Then the two forms of the check
  digit are equal, modulo 11. A password's loop counts each code point once
  (`BytesOfPairs`).
- `ValuesAreStableAlways`: one lemma a class (`CpfIsStable` to `EmailIsStable`). What is hard is that
  trimming, collapsing blanks and lower case change nothing the second time, and that
  lower case, which may lengthen an address, leaves it an address. `ValueObjectsAssumption`
  says that a letter is no blank and no digit.

Loops of the code are folds or recursive functions here (`Lower`, `Collapsed`, `DigitsOf`,
`Power`), and `Matches` asks where the words of a pattern end in the key: the proof
system does not read a `RECURSIVE` operator.

### Only model-checked

- Liveness, which needs fairness and `ENABLED`: `ServedWhileRunning` and `EveryMessageEnds` of
  `Pipeline`, `EveryRequestEnds` of `HttpHandler`, `EveryChangesetReleased` of `Release`.
- The runs that expect a violation.

Every invariant and every other action property of a run is a theorem. Three carry the
hypotheses named above (`CallsWithinBudget`, `OutcomesAreEarned`, `TraceContinues`), which
are those of their runs.

## 5. Not modelled, and the plan

Not modelled:

- the text of replies, logs and errors, `toString` of the value objects, brands (types);
- the HTTP schemas and the OpenAPI document of `schemas`, and the problem schema of
  `core`: declarations that no code of the packages reads. What zod does with a field
  is a verdict of the input; which fields an event has to have is modelled;
- the transports of pino and the exposition format of prom-client;
- containers of the test-toolkit: I/O;
- OpenTelemetry's globals other than the context manager (a handle is used through
  its own tracer);
- steps of a release that fail for reasons of GitHub or the registry, and `ci.yml`,
  which keeps no state;
- two pull requests whose changesets meet on main, and the sentence that a changeset
  by hand replaces the automatic one (a hazard without a property).

Next:

1. What is left of the table of the package's README where the limits of consumer
   and handler differ: `OutcomesEarned` needs them equal.
2. `Release` with the result of `Prerelease` for two pull requests that meet on main.
3. A liveness argument for the consumer's loops, once the proof system has `ENABLED`.
