---------------------------- MODULE HttpHandler ----------------------------
(***************************************************************************)
(* defineHandler and defineAuthenticatedHandler: a request is              *)
(* authenticated (on an authenticated route), validated, handed to the     *)
(* service's handler and answered; what fails on the way becomes a reply.  *)
(* Requests of all routes share one Authenticator.                         *)
(*                                                                         *)
(* An action is the code between two awaits.  A phase is what the request  *)
(* awaits or the answer it got:                                            *)
(*   success   the configured status, the validated output                 *)
(*   error     the reply errorHelper makes of a BaseError                  *)
(*   internal  the generic 500                                             *)
(*   rejected  no reply: the promise rejects                               *)
(* An error is its status, who made it and whose words its message is: the *)
(* package, jose, the service, or an exception nobody foresaw.  A reply is *)
(* that of its error, or what a configured errorHelper makes of it.        *)
(***************************************************************************)
EXTENDS Integers

CONSTANTS Requests,     \* the requests that may be open at once
          HelperStatuses, \* the statuses configured errorHelpers answer with
          HelperThrows, \* whether a configured errorHelper may throw
          ServiceErrors, \* the classes of the errors the service makes
          Keys, Tokens, Lifetimes, CooldownMs, TimeoutMs, MaxAge, Tolerance

VARIABLES keyState, keyAge, cached, cacheAge, fetch, call, held,  \* Authenticator
          phase,   \* per request
          caller,  \* per request: the result of verify and its token, public or none
          said     \* per request: the status of its reply, its words, what it is about

A == INSTANCE Authenticator WITH Calls <- Requests
E == INSTANCE Errors WITH Infinity <- 1

ASSUME HttpAssumption ==
    HelperThrows \in BOOLEAN /\ ServiceErrors \subseteq E!Classes /\ A!Parameters

authVars == <<keyState, keyAge, cached, cacheAge, fetch, call, held>>
vars == <<authVars, phase, caller, said>>

Nobody == [result |-> "none", token |-> A!NoCall.token]
Public == [result |-> "public", token |-> A!NoCall.token]

Of(class, who) == [status |-> E!DefaultStatus[class], words |-> who, about |-> who]
Nothing == [status |-> 0, words |-> "none", about |-> "none"]
InvalidInput == Of("ValidationError", "package")
MissingToken == Of("UnauthorizedError", "package")
Unforeseen == [status |-> 0, words |-> "exception", about |-> "exception"]
ServiceError == {Of(class, "service") : class \in ServiceErrors}

\* The error of verify: toUnauthorized keeps the words of what jose threw, also
\* those of a fetch that failed.
RefusedBy(result) ==
    Of("UnauthorizedError", IF result = "AUTH_INVALID_TOKEN" THEN "jose" ELSE "package")

BaseErrors == {InvalidInput, MissingToken} \cup {RefusedBy(x) : x \in A!Results} \cup ServiceError

Init == /\ A!Init
        /\ phase = [r \in Requests |-> "idle"]
        /\ caller = [r \in Requests |-> Nobody]
        /\ said = [r \in Requests |-> Nothing]

Answers == {"success", "error", "internal", "rejected"}

Says(r, p, words) == phase' = [phase EXCEPT ![r] = p] /\ said' = [said EXCEPT ![r] = words]
Become(r, p) == Says(r, p, Nothing)

\* resolveError: the reply of defaultErrorHelper, or of the errorHelper of the
\* route, which may have any status and words of its own; outside executeHandler
\* nobody catches what that one throws.
ErrorReply(r, error) ==
    \/ Says(r, "error", error)
    \/ \E status \in HelperStatuses :
          Says(r, "error", [error EXCEPT !.status = status, !.words = "helper"])
    \/ HelperThrows /\ Become(r, "rejected")

\* internalServerErrorReply.
Internal(r) == Says(r, "internal", [Nothing EXCEPT !.status = 500])

\* Mutant: what was thrown is answered like an error.
MutantMapThrown(r, thrown) == ErrorReply(r, thrown)

\* mapThrownValue: a BaseError keeps its status and its words, anything else is
\* the generic 500.
MapThrown(r, thrown) ==
    \/ thrown \in BaseErrors /\ ErrorReply(r, thrown)
    \/ thrown \notin BaseErrors /\ Internal(r)

\* parseSchema of what the handler returned.
Reply(r) == Become(r, "success") \/ Internal(r)

\* parseSchema of the body, then the call of the handler.
Validate(r) == Become(r, "handling") \/ ErrorReply(r, InvalidInput)
-----------------------------------------------------------------------------
ReceivePublic(r) ==
    /\ phase[r] = "idle"
    /\ Validate(r)
    /\ caller' = [caller EXCEPT ![r] = Public]
    /\ UNCHANGED authVars

ReceiveWithoutToken(r) ==
    /\ phase[r] = "idle"
    /\ ErrorReply(r, MissingToken)
    /\ UNCHANGED <<authVars, caller>>

ReceiveWithToken(r, token, life) ==
    /\ phase[r] = "idle"
    /\ A!Verify(r, token, life)
    /\ Become(r, "authenticating")
    /\ UNCHANGED caller

\* Mutant: a result that is an error is taken for claims.
MutantAuthenticated(r) ==
    /\ phase[r] = "authenticating"
    /\ A!Taken(r)
    /\ caller' = [caller EXCEPT ![r] = [result |-> call[r].result, token |-> call[r].token]]
    /\ Validate(r)

\* Mutant: the promise of verify is not awaited.
MutantNotAwaited(r) ==
    /\ phase[r] = "authenticating"
    /\ Validate(r)
    /\ UNCHANGED <<authVars, caller>>

\* authenticate resumes after `await authenticator.verify`.
Authenticated(r) ==
    /\ phase[r] = "authenticating"
    /\ A!Taken(r)
    /\ caller' = [caller EXCEPT ![r] = [result |-> call[r].result, token |-> call[r].token]]
    /\ \/ call[r].result = "ok" /\ Validate(r)
       \/ call[r].result # "ok" /\ ErrorReply(r, RefusedBy(call[r].result))

\* executeHandler, and the validation of the output.  What errorHelper throws
\* for an error the handler returned is caught there, and mapped once more.
HandlerReturns(r) ==
    /\ phase[r] = "handling"
    /\ Reply(r)
    /\ UNCHANGED <<authVars, caller>>

HandlerReturnsError(r, error) ==
    /\ phase[r] = "handling"
    /\ \/ ErrorReply(r, error)
       \/ HelperThrows /\ \E thrown \in ServiceError \cup {Unforeseen} : MapThrown(r, thrown)
    /\ UNCHANGED <<authVars, caller>>

HandlerThrows(r, thrown) ==
    /\ phase[r] = "handling"
    /\ MapThrown(r, thrown)
    /\ UNCHANGED <<authVars, caller>>

HandlerEnds(r) ==
    \/ HandlerReturns(r)
    \/ \E error \in ServiceError : HandlerReturnsError(r, error)
    \/ \E thrown \in ServiceError \cup {Unforeseen} : HandlerThrows(r, thrown)

\* The adapter has sent the reply, or failed the request.
Sent(r) ==
    /\ phase[r] \in Answers
    /\ Become(r, "idle")
    /\ caller' = [caller EXCEPT ![r] = Nobody]
    /\ UNCHANGED authVars

Environment == A!Environment /\ UNCHANGED <<phase, caller, said>>

Tick == A!Tick /\ UNCHANGED <<phase, caller, said>>

Next ==
    \/ \E r \in Requests :
          \/ ReceivePublic(r) \/ ReceiveWithoutToken(r)
          \/ \E t \in Tokens, n \in Lifetimes : ReceiveWithToken(r, t, n)
          \/ Authenticated(r) \/ Sent(r)
          \/ HandlerEnds(r)
    \/ Environment
    \/ Tick

Spec == Init /\ [][Next]_vars

\* Time passes, jose aborts a fetch that takes too long, the handlers of the
\* service end and the event loop resumes what awaits them.  The endpoint need
\* never answer.
Fairness ==
    /\ WF_vars(Tick)
    /\ WF_vars(A!FetchTimesOut /\ UNCHANGED <<phase, caller, said>>)
    /\ \A r \in Requests :
          WF_vars(Authenticated(r) \/ HandlerEnds(r))

LiveSpec == Spec /\ Fairness
-----------------------------------------------------------------------------
Speakers == {"none", "package", "jose", "service", "exception", "helper"}

\* A request awaits its verify exactly while it is authenticating.
TypeOK ==
    /\ A!TypeOK
    /\ phase \in [Requests -> Answers \cup {"idle", "authenticating", "handling"}]
    /\ caller \in [Requests -> [result : A!Results \cup {"public"}, token : Tokens]]
    /\ said \in [Requests -> [status : 0..599 \cup HelperStatuses, words : Speakers, about : Speakers]]
    /\ \A r \in Requests : phase[r] = "authenticating" <=> call[r].at # "idle"

\* README, "without a token or with an invalid one the reply is 401 before the
\* input is looked at": the handler of an authenticated route runs, and its
\* route succeeds, only for a caller whose token is genuine and has a subject.
OnlyGenuineCallers ==
    \A r \in Requests :
        /\ phase[r] \in {"handling", "success", "internal"} =>
              \/ caller[r].result = "public"
              \/ caller[r].result = "ok" /\ A!Genuine(caller[r].token)
        /\ caller[r].result \notin {"none", "public", "ok"} => phase[r] \in {"error", "rejected"}

\* README:57, 84 and 88, "an exception that is not handled is a 500 that does not
\* show its message", "without a token or with an invalid one the reply is 401",
\* "errorHelper replaces the translation of an error": no reply shows an exception
\* that nobody foresaw, and no errorHelper is asked about one; whoever was not let
\* in hears of what the packages or jose found, never of the service, and as a
\* 401 in their words unless the route has an errorHelper.
ReplyFitsCaller ==
    \A r \in Requests :
        /\ "exception" \notin {said[r].words, said[r].about}
        /\ phase[r] = "internal" => said[r].status = 500 /\ said[r].words = "none"
        /\ phase[r] = "error" /\ caller[r].result \notin {"public", "ok"} =>
              /\ said[r].about \in {"package", "jose"}
              /\ said[r].words # "helper" => said[r].status = 401 /\ said[r].words = said[r].about
        /\ said[r].words = "helper" => phase[r] = "error" /\ said[r].status \in HelperStatuses

\* Who reaches a handler, and what everybody else hears.
CallersTreatedFairly == OnlyGenuineCallers /\ ReplyFitsCaller

\* verify.ts:31-35: what the requests are accepted with, over every rotation of
\* the keys and every fetch shared between them.
AcceptedIsGenuine == [][\A r \in Requests : A!Ends(r) => A!AcceptedFairly(r)]_vars

\* README of the authenticator, "an unknown key makes the client fetch the JWKS
\* again": a good token is refused only for an outage of the endpoint, or when
\* its key is younger than a fetch and the cooldown, or no older than a fetch.
ValidTokenServed == [][\A r \in Requests : A!Ends(r) => A!RefusedFairly(r)]_vars

\* jwks.ts:7-10: after an answer the endpoint is left alone for the cooldown, or
\* until the answer is stale where that is earlier, whatever keys the tokens of
\* the requests name.
RefetchSpaced == [][A!FetchBegins => A!CooledDown]_vars

\* Every request is answered or fails, also when the endpoint hangs.
EveryRequestEnds ==
    \A r \in Requests :
        phase[r] \in {"authenticating", "handling"} ~> phase[r] \in Answers
=============================================================================
