--------------------------- MODULE Authenticator ---------------------------
(***************************************************************************)
(* createAuthenticator: verification of access tokens against the keys a   *)
(* JWKS endpoint publishes, by way of jose's remote key set, which caches  *)
(* them; or createAuthenticatorFromJwk, against keys it was given once.    *)
(* The key set, the endpoint and time are the environment; they are here   *)
(* because every call of verify shares one cache and one fetch.            *)
(*                                                                         *)
(* Time is counted in ticks, as ages that stop growing once nothing can    *)
(* tell them apart.  A fetch that takes TimeoutMs is aborted before the    *)
(* next tick.  A key is introduced, published and retired once.            *)
(***************************************************************************)
EXTENDS Integers

CONSTANTS Calls,       \* the calls of verify that may be active at once
          Keys,        \* the signing keys of auth-service, past and future
          Tokens,      \* the tokens presented
          Lifetimes,   \* the ticks to its `exp` a token may have when presented
          CooldownMs,  \* options.jwks.cooldownDurationMs
          TimeoutMs,   \* options.jwks.timeoutDurationMs
          MaxAge,      \* how long jose trusts its cache; the package leaves the default
          Tolerance    \* options.clockToleranceSeconds

\* A token is empty, malformed (or of an algorithm the options do not allow) or
\* signed; signed well by a key, for this issuer and audience, it is genuine.
AllTokens == [form : {"empty", "malformed", "signed"}, key : Keys,
              genuine : BOOLEAN, subject : BOOLEAN]

\* What the parameters have to be; the modules that give them values assume it.
Parameters ==
    /\ Tokens \subseteq AllTokens /\ Tokens # {}
    /\ Lifetimes \subseteq Int
    /\ CooldownMs \in Nat /\ TimeoutMs \in Nat \ {0} /\ MaxAge \in Nat \ {0}
    /\ Tolerance \in Nat

VARIABLES keyState,  \* per key: new, published or retired
          keyAge,    \* per key: ticks since it was published or retired
          cached,    \* the keys of the last answer
          cacheAge,  \* ticks since that answer arrived, NoAnswer before the first
          fetch,     \* the one request to the endpoint
          call,      \* per call of verify: what it awaits, and how it ended
          held       \* the key set in memory of createAuthenticatorFromJwk, if it is used

keyVars == <<keyState, keyAge>>
cacheVars == <<cached, cacheAge, fetch>>
vars == <<keyVars, cacheVars, call, held>>

Smaller(a, b) == IF a < b THEN a ELSE b
NoAnswer == -1

\* Mutant: the cooldown is not passed on.
MutantOptions == [cooldown |-> 0, timeout |-> TimeoutMs]

\* What createJwksClient passes to jose; an option that is not given has the
\* value jose gives it.
Options == [cooldown |-> CooldownMs, timeout |-> TimeoutMs]

NoFetch == [at |-> "none", keys |-> {}, age |-> 0]
Sent == [at |-> "endpoint", keys |-> {}, age |-> 0]
NoCall == [at |-> "idle", token |-> CHOOSE t \in Tokens : TRUE, life |-> 0,
           result |-> "none", outage |-> FALSE]

Init == /\ keyState \in [Keys -> {"new", "published"}]
        /\ keyAge = [k \in Keys |-> 0]
        /\ cached = {}
        /\ cacheAge = NoAnswer
        /\ fetch = NoFetch
        /\ call = [c \in Calls |-> NoCall]
        /\ held \in {{}, {{k \in Keys : keyState[k] = "published"}}}
-----------------------------------------------------------------------------
\* jose's remote key set.

Fresh == cacheAge # NoAnswer /\ cacheAge < MaxAge
Cooling == cacheAge # NoAnswer /\ cacheAge < Options.cooldown
Waiting(i) == i.at \in {"reload", "second reload"}

\* One fetch serves all who wait for it.
FetchFor(calls) ==
    IF fetch.at = "none" /\ \E c \in Calls : Waiting(calls[c]) THEN Sent ELSE fetch
-----------------------------------------------------------------------------
\* createAuthenticatorFromKey: verify.

Refuse(i, code) == [i EXCEPT !.at = "done", !.result = code]

\* Mutant: a token without a subject is taken for a verified one.
MutantVerdict(i) ==
    IF ~i.token.genuine \/ i.life + Tolerance <= 0 THEN Refuse(i, "AUTH_INVALID_TOKEN")
    ELSE [i EXCEPT !.at = "done", !.result = "ok"]

\* Mutant: the tolerance is taken from a token's life.
MutantTolerance(i) ==
    IF ~i.token.genuine \/ i.life - Tolerance <= 0 THEN Refuse(i, "AUTH_INVALID_TOKEN")
    ELSE IF ~i.token.subject THEN Refuse(i, "AUTH_MISSING_SUBJECT")
    ELSE [i EXCEPT !.at = "done", !.result = "ok"]

\* The key is there: signature, issuer, audience and expiry, then the subject.
Verdict(i) ==
    IF ~i.token.genuine \/ i.life + Tolerance <= 0 THEN Refuse(i, "AUTH_INVALID_TOKEN")
    ELSE IF ~i.token.subject THEN Refuse(i, "AUTH_MISSING_SUBJECT")
    ELSE [i EXCEPT !.at = "done", !.result = "ok"]

\* getKey: of the key set in memory, or of the remote one with its cache as it is.
GetKey(i) ==
    IF held # {}
    THEN IF \E keys \in held : i.token.key \in keys THEN Verdict(i)
         ELSE Refuse(i, "AUTH_INVALID_TOKEN")
    ELSE IF ~Fresh THEN [i EXCEPT !.at = "reload"]
    ELSE IF i.token.key \in cached THEN Verdict(i)
    ELSE IF Cooling THEN Refuse(i, "AUTH_INVALID_TOKEN")
    ELSE [i EXCEPT !.at = "second reload"]

Presented(i) ==
    CASE i.token.form = "empty" -> Refuse(i, "AUTH_MISSING_TOKEN")
      [] i.token.form = "malformed" -> Refuse(i, "AUTH_INVALID_TOKEN")
      [] i.token.form = "signed" -> GetKey(i)

Verify(c, token, life) ==
    /\ call[c] = NoCall
    /\ call' = [call EXCEPT ![c] = Presented([NoCall EXCEPT !.token = token, !.life = life])]
    /\ fetch' = FetchFor(call')
    /\ UNCHANGED <<keyVars, cached, cacheAge, held>>

\* The caller takes the result of its verify.
Taken(c) ==
    /\ call[c].at = "done"
    /\ call' = [call EXCEPT ![c] = NoCall]
    /\ UNCHANGED <<keyVars, cacheVars, held>>

\* getKey after the answer `keys` arrived.
Resumed(i, keys) ==
    IF ~Waiting(i) THEN i
    ELSE IF i.token.key \in keys THEN Verdict(i)
    ELSE IF i.at = "reload" /\ Options.cooldown = 0 THEN [i EXCEPT !.at = "second reload"]
    ELSE Refuse(i, "AUTH_INVALID_TOKEN")

FetchAnswered ==
    /\ fetch.at = "endpoint"
    /\ fetch' = [fetch EXCEPT !.at = "answered", !.keys = {k \in Keys : keyState[k] = "published"}]
    /\ UNCHANGED <<keyVars, cached, cacheAge, call, held>>

FetchArrives ==
    /\ fetch.at = "answered"
    /\ cached' = fetch.keys
    /\ cacheAge' = 0
    /\ call' = [c \in Calls |-> Resumed(call[c], fetch.keys)]
    /\ fetch' = IF \E c \in Calls : Waiting(call'[c]) THEN Sent ELSE NoFetch
    /\ UNCHANGED <<keyVars, held>>

\* Mutant: a fetch that fails is nobody's error.
MutantFetchFails ==
    /\ fetch.at # "none"
    /\ fetch' = NoFetch
    /\ UNCHANGED <<keyVars, cached, cacheAge, call, held>>

\* The endpoint is down, answers something else or not in time: every waiting
\* verify catches jose's error.
FetchFails ==
    /\ fetch.at # "none"
    /\ fetch' = NoFetch
    /\ call' = [c \in Calls |->
                   IF Waiting(call[c])
                   THEN [Refuse(call[c], "AUTH_INVALID_TOKEN") EXCEPT !.outage = TRUE]
                   ELSE call[c]]
    /\ UNCHANGED <<keyVars, cached, cacheAge, held>>
-----------------------------------------------------------------------------
\* auth-service rotates its keys, and time passes.

KeyChanges(k, from, to) ==
    /\ keyState[k] = from
    /\ keyState' = [keyState EXCEPT ![k] = to]
    /\ keyAge' = [keyAge EXCEPT ![k] = 0]
    /\ UNCHANGED <<cacheVars, call, held>>

\* The ages from which on nothing tells them apart: a cache that is stale cools
\* nothing down any more.
OldKey == MaxAge + TimeoutMs
Expired == -Tolerance

Tick ==
    /\ fetch.at = "none" \/ fetch.age < Options.timeout
    /\ keyAge' = [k \in Keys |-> IF keyState[k] = "new" THEN 0 ELSE Smaller(keyAge[k] + 1, OldKey)]
    /\ cacheAge' = IF cacheAge = NoAnswer THEN NoAnswer ELSE Smaller(cacheAge + 1, MaxAge)
    /\ fetch' = IF fetch.at = "none" THEN fetch ELSE [fetch EXCEPT !.age = @ + 1]
    /\ call' = [c \in Calls |->
                   IF Waiting(call[c]) /\ call[c].life > Expired
                   THEN [call[c] EXCEPT !.life = @ - 1] ELSE call[c]]
    /\ UNCHANGED <<keyState, cached, held>>

\* The timeout of the fetch is over, whatever the endpoint does.
FetchTimesOut == fetch.age >= Options.timeout /\ FetchFails

Environment ==
    \/ FetchAnswered
    \/ FetchArrives
    \/ FetchFails
    \/ \E k \in Keys : KeyChanges(k, "new", "published") \/ KeyChanges(k, "published", "retired")

Next ==
    \/ \E c \in Calls, t \in Tokens, n \in Lifetimes : Verify(c, t, n)
    \/ \E c \in Calls : Taken(c)
    \/ Environment
    \/ Tick

Spec == Init /\ [][Next]_vars
-----------------------------------------------------------------------------
Results == {"none", "ok", "AUTH_MISSING_TOKEN", "AUTH_INVALID_TOKEN", "AUTH_MISSING_SUBJECT"}

TypeOK ==
    /\ keyState \in [Keys -> {"new", "published", "retired"}]
    /\ keyAge \in [Keys -> 0..OldKey]
    /\ cached \subseteq Keys
    /\ cacheAge \in -1..MaxAge
    /\ fetch \in [at : {"none", "endpoint", "answered"}, keys : SUBSET Keys, age : 0..TimeoutMs]
    /\ call \in [Calls -> [at : {"idle", "reload", "second reload", "done"}, token : Tokens,
                           life : Int, result : Results, outage : BOOLEAN]]
    /\ held \in {{}} \cup {{keys} : keys \in SUBSET Keys}
    /\ fetch.at = "none" <=> \A c \in Calls : ~Waiting(call[c])

Ends(c) == call[c].at # "done" /\ call'[c].at = "done"
Expires(i) == i.life + Tolerance <= 0
Genuine(t) == t.form = "signed" /\ t.genuine /\ t.subject

\* Accepted: a token that is genuine, has a subject and has not expired when
\* the wait for its key is over; the key is published, or was retired no longer
\* ago than the cache and a fetch hide.  Keys held in memory are never looked up
\* again: a retired one is accepted as long as the process lives.
AcceptedFairly(c) ==
    LET t == call'[c].token IN
    call'[c].result = "ok" =>
        /\ Genuine(t) /\ ~Expires(call'[c])
        /\ \/ \E keys \in held : t.key \in keys
           \/ held = {} /\ keyState[t.key] = "published"
           \/ held = {} /\ keyState[t.key] = "retired" /\ keyAge[t.key] < MaxAge + TimeoutMs

\* Refused: for what the token is, for an outage of the endpoint, or because
\* the key is younger than a fetch and the cooldown (the age of the cache, where
\* that is smaller), or than a fetch that ends as its timeout does; with keys in
\* memory, because the key is none of them, and never for an outage.
RefusedFairly(c) ==
    LET t == call'[c].token IN
    call'[c].result # "ok" =>
        \/ call'[c].outage /\ held = {}
        \/ ~Genuine(t) \/ Expires(call'[c])
        \/ keyState[t.key] # "published"
        \/ held = {} /\ \/ keyAge[t.key] < Smaller(CooldownMs, MaxAge) + TimeoutMs
                        \/ keyAge[t.key] <= TimeoutMs
        \/ held # {} /\ \A keys \in held : t.key \notin keys

FetchBegins == fetch.at # "endpoint" /\ fetch'.at = "endpoint"
CooledDown == cacheAge' = NoAnswer \/ cacheAge' >= Smaller(CooldownMs, MaxAge)
=============================================================================
