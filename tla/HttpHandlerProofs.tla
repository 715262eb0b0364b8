-------------------------- MODULE HttpHandlerProofs --------------------------
(***************************************************************************)
(* Theorems about HttpHandler and the Authenticator its requests share, for *)
(* any requests, tokens and keys, and any cooldown, timeout, cache age and *)
(* tolerance.                                                              *)
(***************************************************************************)
EXTENDS HttpHandler, TLAPS

\* What an answer of the endpoint that is `age` ticks old tells of the keys: a
\* key it holds was not retired longer ago than that, one it does not hold was
\* not published longer ago.
Seen(keys, age) ==
    \A k \in Keys :
        /\ k \in keys => \/ keyState[k] = "published"
                         \/ keyState[k] = "retired" /\ keyAge[k] <= age
        /\ k \notin keys => keyState[k] # "published" \/ keyAge[k] <= age

\* The answer on its way is as old as its fetch at most, the one in the cache
\* was that old when it arrived.
AnswersSeen ==
    /\ fetch.at = "answered" => Seen(fetch.keys, fetch.age)
    /\ cacheAge # A!NoAnswer => Seen(cached, cacheAge + TimeoutMs)

\* Only a signed token waits for a key, and none for a key set in memory; a
\* token that was accepted is genuine.
CallsJudged ==
    \A r \in Requests :
        /\ A!Waiting(call[r]) => held = {} /\ call[r].token.form = "signed"
        /\ call[r].at = "done" /\ call[r].result = "ok" => A!Genuine(call[r].token)

AuthInv == A!TypeOK /\ AnswersSeen /\ CallsJudged

Inv == AuthInv /\ TypeOK /\ OnlyGenuineCallers /\ ReplyFitsCaller

(***************************************************************************)
(* A call of verify.                                                       *)
(***************************************************************************)

CallRecord == [at : {"idle", "reload", "second reload", "done"}, token : Tokens,
               life : Int, result : A!Results, outage : BOOLEAN]

\* How long an answer keeps a key unknown that it does not hold.
Cooldown == A!Smaller(CooldownMs, MaxAge)

Accepted(i) ==
    i.result = "ok" =>
        /\ A!Genuine(i.token) /\ ~A!Expires(i)
        /\ \/ \E keys \in held : i.token.key \in keys
           \/ held = {} /\ keyState[i.token.key] = "published"
           \/ held = {} /\ keyState[i.token.key] = "retired" /\ keyAge[i.token.key] < MaxAge + TimeoutMs

Refused(i) ==
    i.result # "ok" =>
        \/ i.outage /\ held = {}
        \/ ~A!Genuine(i.token) \/ A!Expires(i)
        \/ keyState[i.token.key] # "published"
        \/ held = {} /\ \/ keyAge[i.token.key] < Cooldown + TimeoutMs
                        \/ keyAge[i.token.key] <= TimeoutMs
        \/ held # {} /\ \A keys \in held : i.token.key \notin keys

\* What a call that was i may have become: it is judged fairly, or waits for a
\* key it cannot have from the cache.
Fair(i, j) ==
    /\ j \in CallRecord /\ j.token = i.token /\ j.at # "idle"
    /\ j.at = "done" => Accepted(j) /\ Refused(j)
    /\ A!Waiting(j) => held = {} /\ j.token.form = "signed"

LEMMA ParameterFacts ==
    /\ CooldownMs \in Nat /\ TimeoutMs \in Nat \ {0} /\ MaxAge \in Nat \ {0}
    /\ Tolerance \in Nat /\ Lifetimes \subseteq Int
    /\ HelperThrows \in BOOLEAN
    /\ Cooldown \in Nat /\ Cooldown <= CooldownMs /\ Cooldown <= MaxAge
    /\ Cooldown = CooldownMs \/ Cooldown = MaxAge
  BY HttpAssumption DEF A!Parameters, Cooldown, A!Smaller

LEMMA TokenFacts ==
    ASSUME NEW t \in Tokens
    PROVE  /\ t.form \in {"empty", "malformed", "signed"} /\ t.key \in Keys
           /\ t.genuine \in BOOLEAN /\ t.subject \in BOOLEAN
  <1>1. t \in A!AllTokens
    BY HttpAssumption DEF A!Parameters
  <1>2. QED
    BY <1>1 DEF A!AllTokens

LEMMA NoCallFacts ==
    /\ A!NoCall \in CallRecord /\ A!NoCall.token \in Tokens
    /\ A!NoCall.at = "idle" /\ A!NoCall.result = "none"
  <1>1. (CHOOSE t \in Tokens : TRUE) \in Tokens
    BY HttpAssumption DEF A!Parameters
  <1>2. QED
    BY <1>1 DEF A!NoCall, CallRecord, A!Results

LEMMA RefuseFacts ==
    ASSUME NEW i \in CallRecord, NEW code \in A!Results
    PROVE  /\ A!Refuse(i, code) \in CallRecord
           /\ A!Refuse(i, code).at = "done" /\ A!Refuse(i, code).result = code
           /\ A!Refuse(i, code).token = i.token
           /\ A!Expires(A!Refuse(i, code)) <=> A!Expires(i)
  BY DEF A!Refuse, CallRecord, A!Expires

LEMMA CodeFacts ==
    /\ "AUTH_MISSING_TOKEN" \in A!Results /\ "AUTH_INVALID_TOKEN" \in A!Results
    /\ "AUTH_MISSING_SUBJECT" \in A!Results /\ "ok" \in A!Results
  BY DEF A!Results

LEMMA VerdictFacts ==
    ASSUME NEW i \in CallRecord
    PROVE  /\ A!Verdict(i) \in CallRecord
           /\ A!Verdict(i).at = "done" /\ A!Verdict(i).token = i.token
           /\ A!Expires(A!Verdict(i)) <=> A!Expires(i)
           /\ A!Verdict(i).result = "ok" =>
                 i.token.genuine /\ i.token.subject /\ ~A!Expires(i)
           /\ A!Verdict(i).result # "ok" =>
                 ~i.token.genuine \/ ~i.token.subject \/ A!Expires(i)
  <1>1. CASE ~i.token.genuine \/ A!Expires(i)
    <2>1. A!Verdict(i) = A!Refuse(i, "AUTH_INVALID_TOKEN")
      BY <1>1 DEF A!Verdict, A!Expires
    <2>2. A!Refuse(i, "AUTH_INVALID_TOKEN") \in CallRecord
      BY RefuseFacts, CodeFacts
    <2>3. /\ A!Refuse(i, "AUTH_INVALID_TOKEN").at = "done"
          /\ A!Refuse(i, "AUTH_INVALID_TOKEN").token = i.token
          /\ A!Refuse(i, "AUTH_INVALID_TOKEN").result = "AUTH_INVALID_TOKEN"
          /\ A!Expires(A!Refuse(i, "AUTH_INVALID_TOKEN")) <=> A!Expires(i)
      BY RefuseFacts, CodeFacts
    <2>4. QED
      BY <1>1, <2>1, <2>2, <2>3
  <1>2. CASE ~(~i.token.genuine \/ A!Expires(i)) /\ ~i.token.subject
    <2>1. A!Verdict(i) = A!Refuse(i, "AUTH_MISSING_SUBJECT")
      BY <1>2 DEF A!Verdict, A!Expires
    <2>2. A!Refuse(i, "AUTH_MISSING_SUBJECT") \in CallRecord
      BY RefuseFacts, CodeFacts
    <2>3. /\ A!Refuse(i, "AUTH_MISSING_SUBJECT").at = "done"
          /\ A!Refuse(i, "AUTH_MISSING_SUBJECT").token = i.token
          /\ A!Refuse(i, "AUTH_MISSING_SUBJECT").result = "AUTH_MISSING_SUBJECT"
          /\ A!Expires(A!Refuse(i, "AUTH_MISSING_SUBJECT")) <=> A!Expires(i)
      BY RefuseFacts, CodeFacts
    <2>4. QED
      BY <1>2, <2>1, <2>2, <2>3
  <1>3. CASE ~(~i.token.genuine \/ A!Expires(i)) /\ i.token.subject
    <2>1. A!Verdict(i) = A!Refuse(i, "ok")
      BY <1>3 DEF A!Verdict, A!Expires, A!Refuse
    <2>2. A!Refuse(i, "ok") \in CallRecord
      BY RefuseFacts, CodeFacts
    <2>3. /\ A!Refuse(i, "ok").at = "done"
          /\ A!Refuse(i, "ok").token = i.token
          /\ A!Refuse(i, "ok").result = "ok"
          /\ A!Expires(A!Refuse(i, "ok")) <=> A!Expires(i)
      BY RefuseFacts, CodeFacts
    <2>4. QED
      BY <1>3, <2>1, <2>2, <2>3
  <1>4. QED
    BY <1>1, <1>2, <1>3

\* A verdict with a key at hand is fair if the key may be trusted.
LEMMA VerdictIsFair ==
    ASSUME NEW i \in CallRecord, i.token.form = "signed",
           \/ \E keys \in held : i.token.key \in keys
           \/ held = {} /\ keyState[i.token.key] = "published"
           \/ held = {} /\ keyState[i.token.key] = "retired" /\ keyAge[i.token.key] < MaxAge + TimeoutMs
    PROVE  Fair(i, A!Verdict(i)) /\ ~A!Waiting(A!Verdict(i))
  BY VerdictFacts DEF Fair, Accepted, Refused, A!Genuine, A!Waiting

\* A refusal is fair if the token or its key excuses it.
LEMMA RefusalIsFair ==
    ASSUME NEW i \in CallRecord, NEW code \in A!Results, code # "ok",
           \/ i.token.form # "signed"
           \/ keyState[i.token.key] # "published"
           \/ held = {} /\ \/ keyAge[i.token.key] < Cooldown + TimeoutMs
                           \/ keyAge[i.token.key] <= TimeoutMs
           \/ held # {} /\ \A keys \in held : i.token.key \notin keys
    PROVE  Fair(i, A!Refuse(i, code)) /\ ~A!Waiting(A!Refuse(i, code))
  <1> DEFINE j == A!Refuse(i, code)
  <1>1. j \in CallRecord
    BY RefuseFacts
  <1>2. j.at = "done" /\ j.result = code /\ j.token = i.token
    BY RefuseFacts
  <1> HIDE DEF j
  <1>3. Accepted(j) /\ Refused(j)
    BY <1>2 DEF Accepted, Refused, A!Genuine
  <1>4. Fair(i, j) /\ ~A!Waiting(j)
    BY <1>1, <1>2, <1>3 DEF Fair, A!Waiting
  <1>5. QED
    BY <1>4 DEF j

LEMMA WaitIsFair ==
    ASSUME NEW i \in CallRecord, held = {}, i.token.form = "signed",
           NEW where \in {"reload", "second reload"}
    PROVE  Fair(i, [i EXCEPT !.at = where]) /\ A!Waiting([i EXCEPT !.at = where])
  <1>1. /\ [i EXCEPT !.at = where] \in CallRecord
        /\ [i EXCEPT !.at = where].at = where
        /\ [i EXCEPT !.at = where].token = i.token
    BY DEF CallRecord
  <1>2. QED
    BY <1>1 DEF Fair, A!Waiting

LEMMA AgeFacts ==
    ASSUME A!TypeOK
    PROVE  /\ \A k \in Keys : keyAge[k] \in Nat /\ keyAge[k] <= MaxAge + TimeoutMs
           /\ \A k \in Keys : keyState[k] \in {"new", "published", "retired"}
           /\ cacheAge \in Int /\ cacheAge <= MaxAge /\ (cacheAge # A!NoAnswer => cacheAge \in Nat)
           /\ fetch.age \in Nat /\ fetch.age <= TimeoutMs
           /\ fetch.at \in {"none", "endpoint", "answered"}
           /\ fetch.keys \subseteq Keys
           /\ \A r \in Requests : call[r] \in CallRecord
  <1>1. /\ keyAge \in [Keys -> 0..(MaxAge + TimeoutMs)]
        /\ keyState \in [Keys -> {"new", "published", "retired"}]
    BY DEF A!TypeOK, A!OldKey
  <1>2. cacheAge \in -1..MaxAge
    BY DEF A!TypeOK
  <1>3. fetch \in [at : {"none", "endpoint", "answered"}, keys : SUBSET Keys, age : 0..TimeoutMs]
    BY DEF A!TypeOK
  <1>4. call \in [Requests -> CallRecord]
    BY DEF A!TypeOK, CallRecord
  <1>5. \A k \in Keys : keyAge[k] \in Nat /\ keyAge[k] <= MaxAge + TimeoutMs
    BY <1>1, ParameterFacts
  <1>6. cacheAge \in Int /\ cacheAge <= MaxAge /\ (cacheAge # A!NoAnswer => cacheAge \in Nat)
    BY <1>2, ParameterFacts DEF A!NoAnswer
  <1>7. fetch.age \in Nat /\ fetch.age <= TimeoutMs /\ fetch.keys \subseteq Keys
        /\ fetch.at \in {"none", "endpoint", "answered"}
    BY <1>3, ParameterFacts
  <1>8. QED
    BY <1>1, <1>4, <1>5, <1>6, <1>7

\* getKey: an unknown key waits only if the cooldown after the last answer is over.
LEMMA GetKeyIsFair ==
    ASSUME AuthInv, NEW i \in CallRecord, i.token.form = "signed"
    PROVE  /\ Fair(i, A!GetKey(i))
           /\ A!Waiting(A!GetKey(i)) => cacheAge = A!NoAnswer \/ cacheAge >= Cooldown
  <1>1. i.token \in Tokens /\ i.token.key \in Keys
    BY TokenFacts DEF CallRecord
  <1>2. /\ keyAge[i.token.key] \in Nat
        /\ keyState[i.token.key] \in {"new", "published", "retired"}
        /\ cacheAge \in Int /\ (cacheAge # A!NoAnswer => cacheAge \in Nat)
    BY <1>1, AgeFacts DEF AuthInv
  <1>3. CASE held # {} /\ \E keys \in held : i.token.key \in keys
    <2>1. A!GetKey(i) = A!Verdict(i)
      BY <1>3 DEF A!GetKey
    <2>2. QED
      BY <1>3, <2>1, VerdictIsFair
  <1>4. CASE held # {} /\ ~\E keys \in held : i.token.key \in keys
    <2>1. A!GetKey(i) = A!Refuse(i, "AUTH_INVALID_TOKEN")
      BY <1>4 DEF A!GetKey
    <2>2. QED
      BY <1>4, <2>1, RefusalIsFair, CodeFacts
  <1>5. CASE held = {} /\ ~A!Fresh
    <2>1. A!GetKey(i) = [i EXCEPT !.at = "reload"]
      BY <1>5 DEF A!GetKey
    <2>2. cacheAge = A!NoAnswer \/ cacheAge >= Cooldown
      BY <1>2, <1>5, ParameterFacts DEF A!Fresh
    <2>3. QED
      BY <1>5, <2>1, <2>2, WaitIsFair
  <1>6. CASE held = {} /\ A!Fresh /\ i.token.key \in cached
    <2>1. A!GetKey(i) = A!Verdict(i)
      BY <1>6 DEF A!GetKey
    <2>2. \/ keyState[i.token.key] = "published"
          \/ keyState[i.token.key] = "retired" /\ keyAge[i.token.key] < MaxAge + TimeoutMs
      BY <1>1, <1>2, <1>6, ParameterFacts DEF AuthInv, AnswersSeen, Seen, A!Fresh
    <2>3. QED
      BY <1>6, <2>1, <2>2, VerdictIsFair
  <1>7. CASE held = {} /\ A!Fresh /\ i.token.key \notin cached /\ A!Cooling
    <2>1. A!GetKey(i) = A!Refuse(i, "AUTH_INVALID_TOKEN")
      BY <1>7 DEF A!GetKey
    <2>2. keyState[i.token.key] # "published" \/ keyAge[i.token.key] < Cooldown + TimeoutMs
      BY <1>1, <1>2, <1>7, ParameterFacts
         DEF AuthInv, AnswersSeen, Seen, A!Cooling, A!Fresh, A!Options
    <2>3. QED
      BY <1>7, <2>1, <2>2, RefusalIsFair, CodeFacts
  <1>8. CASE held = {} /\ A!Fresh /\ i.token.key \notin cached /\ ~A!Cooling
    <2>1. A!GetKey(i) = [i EXCEPT !.at = "second reload"]
      BY <1>8 DEF A!GetKey
    <2>2. cacheAge = A!NoAnswer \/ cacheAge >= Cooldown
      BY <1>2, <1>8, ParameterFacts DEF A!Cooling, A!Options
    <2>3. QED
      BY <1>8, <2>1, <2>2, WaitIsFair
  <1>9. QED
    BY <1>3, <1>4, <1>5, <1>6, <1>7, <1>8

LEMMA PresentedIsFair ==
    ASSUME AuthInv, NEW i \in CallRecord
    PROVE  /\ Fair(i, A!Presented(i))
           /\ A!Waiting(A!Presented(i)) => cacheAge = A!NoAnswer \/ cacheAge >= Cooldown
  <1>1. i.token.form \in {"empty", "malformed", "signed"}
    BY TokenFacts DEF CallRecord
  <1>2. CASE i.token.form = "empty"
    <2>1. A!Presented(i) = A!Refuse(i, "AUTH_MISSING_TOKEN")
      BY <1>2 DEF A!Presented
    <2>2. QED
      BY <1>2, <2>1, RefusalIsFair, CodeFacts
  <1>3. CASE i.token.form = "malformed"
    <2>1. A!Presented(i) = A!Refuse(i, "AUTH_INVALID_TOKEN")
      BY <1>3 DEF A!Presented
    <2>2. QED
      BY <1>3, <2>1, RefusalIsFair, CodeFacts
  <1>4. CASE i.token.form = "signed"
    <2>1. A!Presented(i) = A!GetKey(i)
      BY <1>4 DEF A!Presented
    <2>2. QED
      BY <1>4, <2>1, GetKeyIsFair
  <1>5. QED
    BY <1>1, <1>2, <1>3, <1>4

\* getKey once the answer is there: only a cooldown of zero asks again.
LEMMA ResumedIsFair ==
    ASSUME AuthInv, fetch.at = "answered", NEW i \in CallRecord,
           A!Waiting(i), held = {}, i.token.form = "signed"
    PROVE  /\ Fair(i, A!Resumed(i, fetch.keys))
           /\ A!Waiting(A!Resumed(i, fetch.keys)) => CooldownMs = 0
  <1>1. i.token \in Tokens /\ i.token.key \in Keys
    BY TokenFacts DEF CallRecord
  <1>2. /\ keyAge[i.token.key] \in Nat /\ fetch.age \in Nat /\ fetch.age <= TimeoutMs
        /\ keyState[i.token.key] \in {"new", "published", "retired"}
    BY <1>1, AgeFacts DEF AuthInv
  <1>3. Seen(fetch.keys, fetch.age)
    BY DEF AuthInv, AnswersSeen
  <1>4. CASE i.token.key \in fetch.keys
    <2>1. A!Resumed(i, fetch.keys) = A!Verdict(i)
      BY <1>4 DEF A!Resumed
    <2>2. \/ keyState[i.token.key] = "published"
          \/ keyState[i.token.key] = "retired" /\ keyAge[i.token.key] < MaxAge + TimeoutMs
      BY <1>1, <1>2, <1>3, <1>4, ParameterFacts DEF Seen
    <2>3. QED
      BY <2>1, <2>2, VerdictIsFair
  <1>5. CASE i.token.key \notin fetch.keys /\ i.at = "reload" /\ CooldownMs = 0
    <2>1. A!Resumed(i, fetch.keys) = [i EXCEPT !.at = "second reload"]
      BY <1>5 DEF A!Resumed, A!Options
    <2>2. QED
      BY <1>5, <2>1, WaitIsFair
  <1>6. CASE i.token.key \notin fetch.keys /\ ~(i.at = "reload" /\ CooldownMs = 0)
    <2>1. A!Resumed(i, fetch.keys) = A!Refuse(i, "AUTH_INVALID_TOKEN")
      BY <1>6 DEF A!Resumed, A!Options
    <2>2. keyState[i.token.key] # "published" \/ keyAge[i.token.key] <= TimeoutMs
      BY <1>1, <1>2, <1>3, <1>6, ParameterFacts DEF Seen
    <2>3. QED
      BY <2>1, <2>2, RefusalIsFair, CodeFacts
  <1>7. QED
    BY <1>4, <1>5, <1>6

(***************************************************************************)
(* The steps of the Authenticator.                                         *)
(***************************************************************************)

FairStep ==
    /\ \A r \in Requests : A!Ends(r) => A!AcceptedFairly(r) /\ A!RefusedFairly(r)
    /\ A!FetchBegins => A!CooledDown

\* A call goes back to idle, goes on as it was, or is what a fair one became.
LEMMA CallsStayJudged ==
    ASSUME AuthInv, held' = held, DOMAIN call' = Requests, call' = [r \in Requests |-> call'[r]],
           \A r \in Requests : \/ call'[r] = A!NoCall
                               \/ /\ call'[r] \in CallRecord /\ call'[r].token = call[r].token
                                  /\ call'[r].at = call[r].at /\ call'[r].result = call[r].result
                               \/ \E i \in CallRecord : Fair(i, call'[r])
    PROVE  /\ call' \in [Requests -> CallRecord]
           /\ CallsJudged'
           /\ \A r \in Requests : A!Ends(r) => A!AcceptedFairly(r) /\ A!RefusedFairly(r)
  <1> SUFFICES ASSUME NEW r \in Requests
               PROVE  /\ call'[r] \in CallRecord
                      /\ A!Waiting(call'[r]) => held = {} /\ call'[r].token.form = "signed"
                      /\ call'[r].at = "done" /\ call'[r].result = "ok" => A!Genuine(call'[r].token)
                      /\ A!Ends(r) => Accepted(call'[r]) /\ Refused(call'[r])
    BY DEF CallsJudged, A!AcceptedFairly, A!RefusedFairly, Accepted, Refused, Cooldown,
           A!Waiting, A!Genuine
  <1>1. CASE call'[r] = A!NoCall
    BY <1>1, NoCallFacts DEF A!Waiting, A!Ends
  <1>2. CASE /\ call'[r] \in CallRecord /\ call'[r].token = call[r].token
             /\ call'[r].at = call[r].at /\ call'[r].result = call[r].result
    BY <1>2 DEF AuthInv, CallsJudged, A!Waiting, A!Ends
  <1>3. CASE \E i \in CallRecord : Fair(i, call'[r])
    BY <1>3 DEF Fair, Accepted, A!Ends
  <1>4. QED
    BY <1>1, <1>2, <1>3

LEMMA SeenLater ==
    ASSUME A!TypeOK, NEW keys, NEW a \in Nat, NEW b \in Nat, a <= b, Seen(keys, a)
    PROVE  Seen(keys, b)
  <1>1. \A k \in Keys : keyAge[k] \in Nat
    BY AgeFacts
  <1>2. QED
    BY <1>1 DEF Seen

LEMMA FetchRecords ==
    LET Record == [at : {"none", "endpoint", "answered"}, keys : SUBSET Keys, age : 0..TimeoutMs]
    IN  A!NoFetch \in Record /\ A!NoFetch.at = "none" /\ A!Sent \in Record /\ A!Sent.at = "endpoint"
  BY ParameterFacts DEF A!NoFetch, A!Sent

LEMMA VerifyStep ==
    ASSUME AuthInv, NEW r \in Requests, NEW t \in Tokens, NEW n \in Lifetimes, A!Verify(r, t, n)
    PROVE  /\ AuthInv' /\ FairStep
           /\ call'[r].at # "idle" /\ \A q \in Requests \ {r} : call'[q] = call[q]
  <1> DEFINE i == [A!NoCall EXCEPT !.token = t, !.life = n]
             j == A!Presented(i)
  <1>1. i \in CallRecord
    BY NoCallFacts, ParameterFacts DEF CallRecord
  <1>2. Fair(i, j) /\ (A!Waiting(j) => cacheAge = A!NoAnswer \/ cacheAge >= Cooldown)
    BY <1>1, PresentedIsFair
  <1>3. /\ call[r] = A!NoCall /\ call' = [call EXCEPT ![r] = j] /\ fetch' = A!FetchFor(call')
        /\ keyState' = keyState /\ keyAge' = keyAge /\ cached' = cached /\ cacheAge' = cacheAge
        /\ held' = held
    BY DEF A!Verify, A!keyVars
  <1> HIDE DEF i, j
  <1>4. call \in [Requests -> CallRecord] /\ \A q \in Requests : call[q] \in CallRecord
    BY DEF AuthInv, A!TypeOK, CallRecord
  <1>5. call'[r] = j /\ \A q \in Requests \ {r} : call'[q] = call[q]
    BY <1>3, <1>4
  <1>6. DOMAIN call' = Requests /\ call' = [q \in Requests |-> call'[q]]
    BY <1>3, <1>4
  <1>7. /\ call' \in [Requests -> CallRecord]
        /\ CallsJudged'
        /\ \A q \in Requests : A!Ends(q) => A!AcceptedFairly(q) /\ A!RefusedFairly(q)
    BY <1>1, <1>2, <1>3, <1>4, <1>5, <1>6, CallsStayJudged
  <1>8. ~A!Waiting(call[r])
    BY <1>3, NoCallFacts DEF A!Waiting
  <1>9. /\ fetch.at = "none" <=> \A q \in Requests : ~A!Waiting(call[q])
        /\ fetch.at # "none" => fetch' = fetch
        /\ fetch.at = "none" => fetch' = IF A!Waiting(j) THEN A!Sent ELSE fetch
    BY <1>3, <1>5, <1>8 DEF AuthInv, A!TypeOK, A!FetchFor
  <1>10. fetch'.at = "none" <=> \A q \in Requests : ~A!Waiting(call'[q])
    <2>1. CASE fetch.at = "none"
      BY <1>5, <1>9, <2>1, FetchRecords
    <2>2. CASE fetch.at # "none"
      <3>1. PICK q \in Requests \ {r} : A!Waiting(call[q])
        BY <1>8, <1>9, <2>2
      <3>2. A!Waiting(call'[q])
        BY <1>5, <3>1
      <3>3. QED
        BY <1>9, <2>2, <3>2
    <2>3. QED
      BY <2>1, <2>2
  <1>11. A!TypeOK'
    <2>1. fetch' \in [at : {"none", "endpoint", "answered"}, keys : SUBSET Keys, age : 0..TimeoutMs]
      BY <1>9, FetchRecords DEF AuthInv, A!TypeOK
    <2>2. QED
      BY <1>3, <1>7, <1>10, <2>1 DEF AuthInv, A!TypeOK, A!Waiting, CallRecord
  <1>12. fetch' = fetch \/ fetch'.at = "endpoint"
    BY <1>9, FetchRecords
  <1>13. AnswersSeen'
    BY <1>3, <1>12 DEF AuthInv, AnswersSeen, Seen, A!NoAnswer
  <1>14. A!FetchBegins => A!CooledDown
    BY <1>2, <1>3, <1>9, FetchRecords DEF A!FetchBegins, A!CooledDown, A!NoAnswer, Cooldown
  <1>15. call'[r].at # "idle"
    BY <1>2, <1>5 DEF Fair
  <1>16. QED
    BY <1>5, <1>7, <1>11, <1>13, <1>14, <1>15 DEF AuthInv, FairStep

LEMMA TakenStep ==
    ASSUME AuthInv, NEW r \in Requests, A!Taken(r)
    PROVE  /\ AuthInv' /\ FairStep
           /\ call'[r].at = "idle" /\ \A q \in Requests \ {r} : call'[q] = call[q]
  <1>1. /\ call[r].at = "done" /\ call' = [call EXCEPT ![r] = A!NoCall]
        /\ keyState' = keyState /\ keyAge' = keyAge /\ cached' = cached /\ cacheAge' = cacheAge
        /\ fetch' = fetch /\ held' = held
    BY DEF A!Taken, A!keyVars, A!cacheVars
  <1>2. call \in [Requests -> CallRecord] /\ \A q \in Requests : call[q] \in CallRecord
    BY DEF AuthInv, A!TypeOK, CallRecord
  <1>3. call'[r] = A!NoCall /\ \A q \in Requests \ {r} : call'[q] = call[q]
    BY <1>1, <1>2
  <1>4. DOMAIN call' = Requests /\ call' = [q \in Requests |-> call'[q]]
    BY <1>1, <1>2
  <1>5. /\ call' \in [Requests -> CallRecord]
        /\ CallsJudged'
        /\ \A q \in Requests : A!Ends(q) => A!AcceptedFairly(q) /\ A!RefusedFairly(q)
    BY <1>1, <1>2, <1>3, <1>4, CallsStayJudged
  <1>6. \A q \in Requests : A!Waiting(call'[q]) <=> A!Waiting(call[q])
    BY <1>1, <1>3, NoCallFacts DEF A!Waiting
  <1>7. A!TypeOK'
    BY <1>1, <1>5, <1>6 DEF AuthInv, A!TypeOK, CallRecord
  <1>8. AnswersSeen' /\ ~A!FetchBegins
    BY <1>1 DEF AuthInv, AnswersSeen, Seen, A!NoAnswer, A!FetchBegins
  <1>9. QED
    BY <1>3, <1>5, <1>7, <1>8, NoCallFacts DEF AuthInv, FairStep

\* Whose verify is active is the requests' business alone.
SameIdle == \A q \in Requests : call'[q].at = "idle" <=> call[q].at = "idle"

LEMMA FetchAnsweredStep ==
    ASSUME AuthInv, A!FetchAnswered
    PROVE  AuthInv' /\ FairStep /\ SameIdle
  <1> DEFINE keys == {k \in Keys : keyState[k] = "published"}
  <1>1. /\ fetch.at = "endpoint" /\ fetch' = [fetch EXCEPT !.at = "answered", !.keys = keys]
        /\ keyState' = keyState /\ keyAge' = keyAge /\ cached' = cached /\ cacheAge' = cacheAge
        /\ call' = call /\ held' = held
    BY DEF A!FetchAnswered, A!keyVars
  <1>2. fetch \in [at : {"none", "endpoint", "answered"}, keys : SUBSET Keys, age : 0..TimeoutMs]
        /\ keys \in SUBSET Keys
    BY DEF AuthInv, A!TypeOK
  <1>3. Seen(keys, fetch.age)
    BY DEF Seen
  <1> HIDE DEF keys
  <1>4. fetch' \in [at : {"none", "endpoint", "answered"}, keys : SUBSET Keys, age : 0..TimeoutMs]
        /\ fetch'.at = "answered" /\ fetch'.keys = keys /\ fetch'.age = fetch.age
    BY <1>1, <1>2
  <1>5. A!TypeOK'
    BY <1>1, <1>4 DEF AuthInv, A!TypeOK, A!Waiting
  <1>6. AnswersSeen'
    BY <1>1, <1>3, <1>4 DEF AuthInv, AnswersSeen, Seen, A!NoAnswer
  <1>7. CallsJudged'
    BY <1>1 DEF AuthInv, CallsJudged, A!Waiting, A!Genuine
  <1>8. FairStep /\ SameIdle
    BY <1>1, <1>4 DEF FairStep, SameIdle, A!Ends, A!FetchBegins
  <1>9. QED
    BY <1>5, <1>6, <1>7, <1>8 DEF AuthInv

LEMMA FetchArrivesStep ==
    ASSUME AuthInv, A!FetchArrives
    PROVE  AuthInv' /\ FairStep /\ SameIdle
  <1>1. /\ fetch.at = "answered" /\ cached' = fetch.keys /\ cacheAge' = 0
        /\ call' = [r \in Requests |-> A!Resumed(call[r], fetch.keys)]
        /\ fetch' = IF \E r \in Requests : A!Waiting(call'[r]) THEN A!Sent ELSE A!NoFetch
        /\ keyState' = keyState /\ keyAge' = keyAge /\ held' = held
    BY DEF A!FetchArrives, A!keyVars
  <1>2. \A r \in Requests : call[r] \in CallRecord /\ call'[r] = A!Resumed(call[r], fetch.keys)
    BY <1>1, AgeFacts DEF AuthInv
  <1>3. ASSUME NEW r \in Requests, ~A!Waiting(call[r])
        PROVE  call'[r] = call[r]
    BY <1>2, <1>3 DEF A!Resumed
  <1>4. ASSUME NEW r \in Requests, A!Waiting(call[r])
        PROVE  Fair(call[r], call'[r]) /\ (A!Waiting(call'[r]) => CooldownMs = 0)
    BY <1>1, <1>2, <1>4, ResumedIsFair DEF AuthInv, CallsJudged
  <1>5. DOMAIN call' = Requests /\ call' = [r \in Requests |-> call'[r]]
    BY <1>1
  <1>6. /\ call' \in [Requests -> CallRecord]
        /\ CallsJudged'
        /\ \A r \in Requests : A!Ends(r) => A!AcceptedFairly(r) /\ A!RefusedFairly(r)
    BY <1>1, <1>2, <1>3, <1>4, <1>5, CallsStayJudged
  <1>7. /\ fetch' \in [at : {"none", "endpoint", "answered"}, keys : SUBSET Keys, age : 0..TimeoutMs]
        /\ fetch'.at # "answered"
        /\ fetch'.at = "none" <=> \A r \in Requests : ~A!Waiting(call'[r])
    BY <1>1, FetchRecords
  <1>8. cached' \subseteq Keys /\ cacheAge' \in -1..MaxAge
    BY <1>1, AgeFacts, ParameterFacts DEF AuthInv
  <1>9. A!TypeOK'
    BY <1>1, <1>6, <1>7, <1>8 DEF AuthInv, A!TypeOK, A!Waiting, CallRecord
  <1>10. Seen(fetch.keys, 0 + TimeoutMs)
    <2>1. Seen(fetch.keys, fetch.age) /\ fetch.age \in Nat /\ fetch.age <= TimeoutMs
          /\ 0 + TimeoutMs = TimeoutMs /\ TimeoutMs \in Nat
      BY <1>1, AgeFacts, ParameterFacts DEF AuthInv, AnswersSeen
    <2>2. QED
      BY <2>1, SeenLater DEF AuthInv
  <1>11. AnswersSeen'
    BY <1>1, <1>7, <1>10 DEF AnswersSeen, Seen
  <1>12. A!FetchBegins => A!CooledDown
    <2>1. ASSUME A!FetchBegins  PROVE \E r \in Requests : A!Waiting(call'[r])
      BY <1>1, <2>1, FetchRecords DEF A!FetchBegins
    <2>2. ASSUME NEW r \in Requests, A!Waiting(call'[r])  PROVE CooldownMs = 0
      BY <1>3, <1>4, <2>2
    <2>3. ASSUME CooldownMs = 0  PROVE A!CooledDown
      BY <1>1, <2>3, ParameterFacts DEF A!CooledDown, Cooldown
    <2>4. QED
      BY <2>1, <2>2, <2>3
  <1>13. SameIdle
    BY <1>3, <1>4 DEF SameIdle, Fair, A!Waiting
  <1>14. QED
    BY <1>6, <1>9, <1>11, <1>12, <1>13 DEF AuthInv, FairStep

\* Everybody who waits is refused, and excused by the outage.
LEMMA FetchFailsStep ==
    ASSUME AuthInv, A!FetchFails
    PROVE  AuthInv' /\ FairStep /\ SameIdle
  <1>1. /\ fetch' = A!NoFetch
        /\ call' = [r \in Requests |-> IF A!Waiting(call[r])
                       THEN [A!Refuse(call[r], "AUTH_INVALID_TOKEN") EXCEPT !.outage = TRUE]
                       ELSE call[r]]
        /\ keyState' = keyState /\ keyAge' = keyAge /\ cached' = cached /\ cacheAge' = cacheAge
        /\ held' = held
    BY DEF A!FetchFails, A!keyVars
  <1>2. \A r \in Requests : call[r] \in CallRecord
    BY AgeFacts DEF AuthInv
  <1>3. ASSUME NEW r \in Requests, ~A!Waiting(call[r])
        PROVE  call'[r] = call[r]
    BY <1>1, <1>3
  <1>4. ASSUME NEW r \in Requests, A!Waiting(call[r])
        PROVE  Fair(call[r], call'[r]) /\ ~A!Waiting(call'[r])
    <2> DEFINE i == A!Refuse(call[r], "AUTH_INVALID_TOKEN")
    <2>1. i \in CallRecord /\ i.at = "done" /\ i.result = "AUTH_INVALID_TOKEN"
          /\ i.token = call[r].token
      BY <1>2, RefuseFacts, CodeFacts
    <2>2. call'[r] = [i EXCEPT !.outage = TRUE]
      BY <1>1, <1>4
    <2> HIDE DEF i
    <2>3. call'[r] \in CallRecord /\ call'[r].at = "done" /\ call'[r].result = "AUTH_INVALID_TOKEN"
          /\ call'[r].token = call[r].token /\ call'[r].outage = TRUE
      BY <2>1, <2>2 DEF CallRecord
    <2>4. held = {}
      BY <1>4 DEF AuthInv, CallsJudged
    <2>5. Accepted(call'[r]) /\ Refused(call'[r]) /\ ~A!Waiting(call'[r])
      BY <2>3, <2>4 DEF Accepted, Refused, A!Waiting
    <2>6. QED
      BY <2>3, <2>5 DEF Fair
  <1>5. DOMAIN call' = Requests /\ call' = [r \in Requests |-> call'[r]]
    BY <1>1
  <1>6. /\ call' \in [Requests -> CallRecord]
        /\ CallsJudged'
        /\ \A r \in Requests : A!Ends(r) => A!AcceptedFairly(r) /\ A!RefusedFairly(r)
    BY <1>1, <1>2, <1>3, <1>4, <1>5, CallsStayJudged
  <1>7. \A r \in Requests : ~A!Waiting(call'[r])
    BY <1>3, <1>4
  <1>8. A!TypeOK'
    BY <1>1, <1>6, <1>7, FetchRecords DEF AuthInv, A!TypeOK, A!Waiting, CallRecord
  <1>9. AnswersSeen' /\ ~A!FetchBegins
    BY <1>1, FetchRecords DEF AuthInv, AnswersSeen, Seen, A!NoAnswer, A!FetchBegins
  <1>10. SameIdle
    BY <1>3, <1>4 DEF SameIdle, Fair, A!Waiting
  <1>11. QED
    BY <1>6, <1>8, <1>9, <1>10 DEF AuthInv, FairStep

LEMMA KeyChangesStep ==
    ASSUME AuthInv, NEW k \in Keys,
           A!KeyChanges(k, "new", "published") \/ A!KeyChanges(k, "published", "retired")
    PROVE  AuthInv' /\ FairStep /\ SameIdle
  <1>1. /\ \/ keyState[k] = "new" /\ keyState' = [keyState EXCEPT ![k] = "published"]
           \/ keyState[k] = "published" /\ keyState' = [keyState EXCEPT ![k] = "retired"]
        /\ keyAge' = [keyAge EXCEPT ![k] = 0]
        /\ cached' = cached /\ cacheAge' = cacheAge /\ fetch' = fetch
        /\ call' = call /\ held' = held
    BY DEF A!KeyChanges, A!cacheVars
  <1>2. /\ keyState \in [Keys -> {"new", "published", "retired"}]
        /\ keyAge \in [Keys -> 0..A!OldKey]
    BY DEF AuthInv, A!TypeOK
  <1>3. /\ keyState' \in [Keys -> {"new", "published", "retired"}]
        /\ keyAge' \in [Keys -> 0..A!OldKey] /\ A!OldKey' = A!OldKey
    BY <1>1, <1>2, ParameterFacts DEF A!OldKey
  <1>4. A!TypeOK'
    BY <1>1, <1>3 DEF AuthInv, A!TypeOK, A!Waiting
  <1>5. ASSUME NEW keys, NEW age \in Nat, Seen(keys, age)
        PROVE  Seen(keys, age)'
    BY <1>1, <1>2, <1>5 DEF Seen
  <1>6. fetch.age \in Nat /\ (cacheAge # A!NoAnswer => cacheAge + TimeoutMs \in Nat)
    BY AgeFacts, ParameterFacts DEF AuthInv
  <1>7. AnswersSeen'
    <2>1. ASSUME fetch.at = "answered"  PROVE Seen(fetch.keys, fetch.age)'
      <3>1. PICK keys, age : keys = fetch.keys /\ age = fetch.age
        OBVIOUS
      <3>2. Seen(keys, age)'
        BY <1>5, <1>6, <2>1, <3>1 DEF AuthInv, AnswersSeen
      <3>3. QED
        BY <1>1, <3>1, <3>2 DEF Seen
    <2>2. ASSUME cacheAge # A!NoAnswer  PROVE Seen(cached, cacheAge + TimeoutMs)'
      <3>1. PICK keys, age : keys = cached /\ age = cacheAge + TimeoutMs
        OBVIOUS
      <3>2. Seen(keys, age)'
        BY <1>5, <1>6, <2>2, <3>1 DEF AuthInv, AnswersSeen
      <3>3. QED
        BY <1>1, <3>1, <3>2 DEF Seen
    <2>3. QED
      BY <1>1, <2>1, <2>2 DEF AnswersSeen, A!NoAnswer
  <1>8. CallsJudged'
    BY <1>1 DEF AuthInv, CallsJudged, A!Waiting, A!Genuine
  <1>9. FairStep /\ SameIdle
    BY <1>1 DEF FairStep, SameIdle, A!Ends, A!FetchBegins
  <1>10. QED
    BY <1>4, <1>7, <1>8, <1>9 DEF AuthInv

\* An answer ages as the keys do, also where the ages stop.
LEMMA TickStep ==
    ASSUME AuthInv, A!Tick
    PROVE  AuthInv' /\ FairStep /\ SameIdle
  <1>1. /\ fetch.at = "none" \/ fetch.age < TimeoutMs
        /\ keyAge' = [k \in Keys |-> IF keyState[k] = "new" THEN 0
                                     ELSE A!Smaller(keyAge[k] + 1, A!OldKey)]
        /\ cacheAge' = IF cacheAge = A!NoAnswer THEN A!NoAnswer ELSE A!Smaller(cacheAge + 1, MaxAge)
        /\ fetch' = IF fetch.at = "none" THEN fetch ELSE [fetch EXCEPT !.age = @ + 1]
        /\ keyState' = keyState /\ cached' = cached /\ held' = held
    BY DEF A!Tick, A!Options
  <1>2. call' = [r \in Requests |-> IF A!Waiting(call[r]) /\ call[r].life > A!Expired
                                    THEN [call[r] EXCEPT !.life = @ - 1] ELSE call[r]]
    BY DEF A!Tick
  <1>3. ASSUME NEW r \in Requests
        PROVE  /\ call'[r] \in CallRecord /\ call'[r].token = call[r].token
               /\ call'[r].at = call[r].at /\ call'[r].result = call[r].result
    <2>1. call[r] \in CallRecord
      BY AgeFacts DEF AuthInv
    <2>2. PICK life : life = call[r].life - 1
      OBVIOUS
    <2>3. life \in Int
      <3>1. call[r].life \in Int
        BY <2>1 DEF CallRecord
      <3>2. QED
        BY <2>2, <3>1
    <2>4. call'[r] = [call[r] EXCEPT !.life = life] \/ call'[r] = call[r]
      BY <1>2, <2>2
    <2>5. QED
      BY <2>1, <2>3, <2>4 DEF CallRecord
  <1>4. DOMAIN call' = Requests /\ call' = [r \in Requests |-> call'[r]]
    BY <1>2
  <1>5. /\ call' \in [Requests -> CallRecord]
        /\ CallsJudged'
        /\ \A r \in Requests : A!Ends(r) => A!AcceptedFairly(r) /\ A!RefusedFairly(r)
    BY <1>1, <1>3, <1>4, CallsStayJudged
  <1>6. fetch \in [at : {"none", "endpoint", "answered"}, keys : SUBSET Keys, age : 0..TimeoutMs]
    BY DEF AuthInv, A!TypeOK
  <1>7. /\ fetch' \in [at : {"none", "endpoint", "answered"}, keys : SUBSET Keys, age : 0..TimeoutMs]
        /\ fetch'.at = fetch.at /\ fetch'.keys = fetch.keys
        /\ fetch.at # "none" => fetch'.age = fetch.age + 1
    <2>1. CASE fetch.at = "none"
      BY <1>1, <1>6, <2>1
    <2>2. CASE fetch.at # "none"
      <3>1. fetch.age + 1 \in 0..TimeoutMs
        BY <1>1, <1>6, <2>2, ParameterFacts
      <3>2. fetch' = [fetch EXCEPT !.age = fetch.age + 1]
        BY <1>1, <2>2
      <3>3. QED
        BY <1>6, <2>2, <3>1, <3>2
    <2>3. QED
      BY <2>1, <2>2
  <1>8. A!OldKey = MaxAge + TimeoutMs /\ A!OldKey \in Nat /\ A!OldKey' = A!OldKey
    BY ParameterFacts DEF A!OldKey
  <1>9. \A k \in Keys : /\ keyAge[k] \in Nat /\ keyAge'[k] \in 0..A!OldKey
                        /\ keyAge'[k] <= keyAge[k] + 1
    BY <1>1, <1>8, AgeFacts DEF AuthInv, A!Smaller
  <1>10. keyAge' \in [Keys -> 0..A!OldKey]
    BY <1>1, <1>9
  <1>11. /\ cacheAge' \in -1..MaxAge
         /\ cacheAge = A!NoAnswer <=> cacheAge' = A!NoAnswer
         /\ cacheAge # A!NoAnswer => /\ cacheAge \in Nat
                                     /\ cacheAge' = cacheAge + 1 \/ cacheAge' = MaxAge
    BY <1>1, AgeFacts, ParameterFacts DEF AuthInv, A!Smaller, A!NoAnswer
  <1>12. \A r \in Requests : A!Waiting(call'[r]) <=> A!Waiting(call[r])
    BY <1>3 DEF A!Waiting
  <1>13. A!TypeOK'
    <2>1. fetch'.at = "none" <=> \A r \in Requests : ~A!Waiting(call'[r])
      BY <1>7, <1>12 DEF AuthInv, A!TypeOK
    <2>2. QED
      BY <1>1, <1>5, <1>7, <1>8, <1>10, <1>11, <2>1
         DEF AuthInv, A!TypeOK, A!Waiting, CallRecord
  <1>14. ASSUME fetch.at = "answered"  PROVE Seen(fetch.keys, fetch.age)'
    <2>1. Seen(fetch.keys, fetch.age) /\ fetch.age \in Nat
      BY <1>14, AgeFacts DEF AuthInv, AnswersSeen
    <2>2. fetch'.age = fetch.age + 1 /\ fetch'.keys = fetch.keys
      BY <1>7, <1>14
    <2>3. QED
      BY <1>1, <1>9, <2>1, <2>2 DEF Seen
  <1>15. ASSUME cacheAge # A!NoAnswer  PROVE Seen(cached, cacheAge + TimeoutMs)'
    <2>1. Seen(cached, cacheAge + TimeoutMs) /\ cacheAge \in Nat
      BY <1>15, AgeFacts DEF AuthInv, AnswersSeen
    <2>2. \A k \in Keys : keyAge[k] <= cacheAge + TimeoutMs => keyAge'[k] <= cacheAge' + TimeoutMs
      BY <1>8, <1>9, <1>11, <1>15, <2>1, ParameterFacts
    <2>3. QED
      BY <1>1, <2>1, <2>2 DEF Seen
  <1>16. AnswersSeen'
    BY <1>7, <1>11, <1>14, <1>15 DEF AnswersSeen, A!NoAnswer
  <1>17. ~A!FetchBegins /\ SameIdle
    BY <1>3, <1>7 DEF A!FetchBegins, SameIdle
  <1>18. QED
    BY <1>5, <1>13, <1>16, <1>17 DEF AuthInv, FairStep

LEMMA EnvironmentStep ==
    ASSUME AuthInv, A!Environment
    PROVE  AuthInv' /\ FairStep /\ SameIdle
  BY FetchAnsweredStep, FetchArrivesStep, FetchFailsStep, KeyChangesStep DEF A!Environment

LEMMA AuthStutter ==
    ASSUME AuthInv, UNCHANGED authVars
    PROVE  AuthInv' /\ FairStep /\ SameIdle
  <1>1. UNCHANGED <<keyState, keyAge, cached, cacheAge, fetch, call, held>>
    BY DEF authVars
  <1>2. A!TypeOK'
    BY <1>1 DEF AuthInv, A!TypeOK, A!Waiting
  <1>3. AnswersSeen'
    BY <1>1 DEF AuthInv, AnswersSeen, Seen, A!NoAnswer
  <1>4. CallsJudged'
    BY <1>1 DEF AuthInv, CallsJudged, A!Waiting, A!Genuine
  <1>5. FairStep /\ SameIdle
    BY <1>1 DEF FairStep, SameIdle, A!Ends, A!FetchBegins
  <1>6. QED
    BY <1>2, <1>3, <1>4, <1>5 DEF AuthInv

LEMMA AuthInit ==
    ASSUME A!Init
    PROVE  AuthInv
  <1>1. /\ keyState \in [Keys -> {"new", "published"}] /\ keyAge = [k \in Keys |-> 0]
        /\ cached = {} /\ cacheAge = A!NoAnswer /\ fetch = A!NoFetch
        /\ call = [r \in Requests |-> A!NoCall]
    BY DEF A!Init
  <1>2. held \in {{}} \cup {{keys} : keys \in SUBSET Keys}
    <2>1. {k \in Keys : keyState[k] = "published"} \in SUBSET Keys
      OBVIOUS
    <2>2. held = {} \/ held = {{k \in Keys : keyState[k] = "published"}}
      BY DEF A!Init
    <2>3. QED
      BY <2>1, <2>2
  <1>3. \A r \in Requests : call[r] = A!NoCall /\ ~A!Waiting(call[r]) /\ call[r].at # "done"
    BY <1>1, NoCallFacts DEF A!Waiting
  <1>4. call \in [Requests -> CallRecord]
    BY <1>1, NoCallFacts
  <1>5. A!OldKey \in Nat /\ A!NoAnswer \in -1..MaxAge
    BY ParameterFacts DEF A!OldKey, A!NoAnswer
  <1>6. A!TypeOK
    <2>1. keyAge \in [Keys -> 0..A!OldKey] /\ keyState \in [Keys -> {"new", "published", "retired"}]
      BY <1>1, <1>5
    <2>2. QED
      BY <1>1, <1>2, <1>3, <1>4, <1>5, <2>1, FetchRecords DEF A!TypeOK, CallRecord
  <1>7. QED
    BY <1>1, <1>3, <1>6, FetchRecords DEF AuthInv, AnswersSeen, CallsJudged

(***************************************************************************)
(* The requests.                                                           *)
(***************************************************************************)

Phases == Answers \cup {"idle", "authenticating", "handling"}
Callers == [result : A!Results \cup {"public"}, token : Tokens]
Sayings == [status : 0..599 \cup HelperStatuses, words : Speakers, about : Speakers]

LetIn(c) == \/ c.result = "public"
            \/ c.result = "ok" /\ A!Genuine(c.token)

\* A phase, a caller and words that go together.
Fits(p, c, words) ==
    /\ p \in Phases /\ c \in Callers /\ words \in Sayings
    /\ p \in {"handling", "success", "internal"} => LetIn(c)
    /\ c.result \notin {"none", "public", "ok"} => p \in {"error", "rejected"}
    /\ "exception" \notin {words.words, words.about}
    /\ p = "internal" => words.status = 500 /\ words.words = "none"
    /\ p = "error" /\ c.result \notin {"public", "ok"} =>
          /\ words.about \in {"package", "jose"}
          /\ words.words # "helper" => words.status = 401 /\ words.words = words.about
    /\ words.words = "helper" => p = "error" /\ words.status \in HelperStatuses

RequestsFit ==
    /\ phase \in [Requests -> Phases]
    /\ caller \in [Requests -> Callers]
    /\ said \in [Requests -> Sayings]
    /\ \A r \in Requests : /\ Fits(phase[r], caller[r], said[r])
                           /\ phase[r] = "authenticating" <=> call[r].at # "idle"

LEMMA InvSplits == Inv <=> AuthInv /\ RequestsFit
  <1> DEFINE Typed == /\ phase \in [Requests -> Phases]
                      /\ caller \in [Requests -> Callers]
                      /\ said \in [Requests -> Sayings]
             Awaited == \A r \in Requests : phase[r] = "authenticating" <=> call[r].at # "idle"
  <1>1. TypeOK <=> A!TypeOK /\ Typed /\ Awaited
    BY DEF TypeOK, Phases, Callers, Sayings
  <1>2. ASSUME Typed
        PROVE  OnlyGenuineCallers /\ ReplyFitsCaller <=>
                  \A r \in Requests : Fits(phase[r], caller[r], said[r])
    <2>1. \A r \in Requests : phase[r] \in Phases /\ caller[r] \in Callers /\ said[r] \in Sayings
      BY <1>2
    <2>2. ASSUME OnlyGenuineCallers, ReplyFitsCaller, NEW r \in Requests
          PROVE  Fits(phase[r], caller[r], said[r])
      <3>1. /\ phase[r] \in {"handling", "success", "internal"} => LetIn(caller[r])
            /\ caller[r].result \notin {"none", "public", "ok"} => phase[r] \in {"error", "rejected"}
        BY <2>2 DEF OnlyGenuineCallers, LetIn
      <3>2. /\ "exception" \notin {said[r].words, said[r].about}
            /\ phase[r] = "internal" => said[r].status = 500 /\ said[r].words = "none"
            /\ phase[r] = "error" /\ caller[r].result \notin {"public", "ok"} =>
                  /\ said[r].about \in {"package", "jose"}
                  /\ said[r].words # "helper" => said[r].status = 401 /\ said[r].words = said[r].about
            /\ said[r].words = "helper" => phase[r] = "error" /\ said[r].status \in HelperStatuses
        BY <2>2 DEF ReplyFitsCaller
      <3>3. QED
        BY <2>1, <3>1, <3>2 DEF Fits
    <2>3. (\A r \in Requests : Fits(phase[r], caller[r], said[r])) => OnlyGenuineCallers
      BY DEF OnlyGenuineCallers, Fits, LetIn
    <2>4. (\A r \in Requests : Fits(phase[r], caller[r], said[r])) => ReplyFitsCaller
      BY DEF ReplyFitsCaller, Fits
    <2>5. QED
      BY <2>2, <2>3, <2>4
  <1>3. RequestsFit <=>
           Typed /\ Awaited /\ \A r \in Requests : Fits(phase[r], caller[r], said[r])
    BY DEF RequestsFit
  <1> HIDE DEF Typed, Awaited
  <1>4. QED
    BY <1>1, <1>2, <1>3 DEF Inv, AuthInv

\* An error speaks for itself: its words are those of whoever made it.
Speaks(e, speakers) == e \in Sayings /\ e.words \in speakers /\ e.about = e.words

LEMMA SayingFacts ==
    /\ Speaks(InvalidInput, {"package"})
    /\ Speaks(MissingToken, {"package"}) /\ MissingToken.status = 401
    /\ \A x \in A!Results : Speaks(RefusedBy(x), {"package", "jose"}) /\ RefusedBy(x).status = 401
    /\ Speaks(Nothing, {"none"})
  BY DEF InvalidInput, MissingToken, RefusedBy, Nothing, Of, Sayings, Speaks, Speakers, E!DefaultStatus

LEMMA StatusFacts == \A class \in E!Classes : E!DefaultStatus[class] \in 0..599
  BY DEF E!Classes, E!DefaultStatus

\* No BaseError speaks for an exception.
LEMMA BaseErrorFacts ==
    ASSUME NEW e \in BaseErrors
    PROVE  Speaks(e, {"package", "jose", "service"})
  <1>1. CASE e \in ServiceError
    <2>1. PICK class \in ServiceErrors : e = Of(class, "service")
      BY <1>1 DEF ServiceError
    <2>2. E!DefaultStatus[class] \in 0..599
      BY HttpAssumption, StatusFacts
    <2>3. QED
      BY <2>1, <2>2 DEF Of, Sayings, Speaks, Speakers
  <1>2. CASE e \in {InvalidInput, MissingToken} \cup {RefusedBy(x) : x \in A!Results}
    BY <1>2, SayingFacts DEF Speaks
  <1>3. QED
    BY <1>1, <1>2 DEF BaseErrors

\* What the errorHelper of a route makes of an error is about that error.
LEMMA HelperFacts ==
    ASSUME NEW e \in Sayings, NEW status \in HelperStatuses
    PROVE  LET reply == [e EXCEPT !.status = status, !.words = "helper"] IN
           reply \in Sayings /\ reply.status = status /\ reply.words = "helper" /\ reply.about = e.about
  BY DEF Sayings, Speakers

\* The request has come to where its caller may be.
Answered(r, c) ==
    \E p \in Phases \ {"authenticating"}, words \in Sayings : Says(r, p, words) /\ Fits(p, c, words)

LEMMA ErrorReplyFits ==
    ASSUME NEW r \in Requests, NEW c \in Callers, NEW e \in BaseErrors, ErrorReply(r, e),
           \/ c.result \in {"public", "ok"}
           \/ e.status = 401 /\ e.words \in {"package", "jose"}
    PROVE  Answered(r, c)
  <1>1. e \in Sayings /\ e.about = e.words /\ e.words \in {"package", "jose", "service"}
    BY BaseErrorFacts DEF Speaks
  <1>2. "error" \in Phases \ {"authenticating"} /\ "rejected" \in Phases \ {"authenticating"}
    BY DEF Phases, Answers
  <1>3. CASE Says(r, "error", e)
    <2>1. Fits("error", c, e)
      BY <1>1, <1>2 DEF Fits
    <2>2. QED
      BY <1>1, <1>2, <1>3, <2>1 DEF Answered
  <1>4. ASSUME NEW status \in HelperStatuses,
               Says(r, "error", [e EXCEPT !.status = status, !.words = "helper"])
        PROVE  Answered(r, c)
    <2> DEFINE reply == [e EXCEPT !.status = status, !.words = "helper"]
    <2>1. reply \in Sayings /\ reply.status = status /\ reply.words = "helper" /\ reply.about = e.words
      BY <1>1, HelperFacts
    <2>2. Says(r, "error", reply)
      BY <1>4
    <2> HIDE DEF reply
    <2>3. Fits("error", c, reply)
      BY <1>1, <1>2, <2>1 DEF Fits
    <2>4. QED
      BY <1>2, <2>1, <2>2, <2>3 DEF Answered
  <1>5. CASE Says(r, "rejected", Nothing)
    <2>1. Nothing \in Sayings /\ Fits("rejected", c, Nothing)
      BY <1>2, SayingFacts DEF Fits, Speaks
    <2>2. QED
      BY <1>2, <1>5, <2>1 DEF Answered
  <1>6. QED
    BY <1>3, <1>4, <1>5 DEF ErrorReply, Become

LEMMA LetInFits ==
    ASSUME NEW r \in Requests, NEW c \in Callers, LetIn(c)
    PROVE  /\ \A p \in {"handling", "success"} : Become(r, p) => Answered(r, c)
           /\ Internal(r) => Answered(r, c)
           /\ \A thrown : MapThrown(r, thrown) => Answered(r, c)
           /\ Reply(r) => Answered(r, c)
           /\ Validate(r) => Answered(r, c)
  <1>1. c.result \in {"public", "ok"}
    BY DEF LetIn
  <1>2. ASSUME NEW p \in {"handling", "success"}, Become(r, p)  PROVE Answered(r, c)
    <2>1. p \in Phases \ {"authenticating"} /\ Nothing \in Sayings /\ Fits(p, c, Nothing)
      BY <1>1, SayingFacts DEF Fits, Phases, Answers, Speaks
    <2>2. QED
      BY <1>2, <2>1 DEF Answered, Become
  <1>3. ASSUME Internal(r)  PROVE Answered(r, c)
    <2> DEFINE words == [Nothing EXCEPT !.status = 500]
    <2>1. words \in Sayings /\ words.status = 500 /\ words.words = "none" /\ words.about = "none"
      BY DEF Sayings, Nothing, Speakers
    <2>2. Says(r, "internal", words)
      BY <1>3 DEF Internal
    <2> HIDE DEF words
    <2>3. "internal" \in Phases \ {"authenticating"} /\ Fits("internal", c, words)
      BY <1>1, <2>1 DEF Fits, Phases, Answers
    <2>4. QED
      BY <2>1, <2>2, <2>3 DEF Answered
  <1>4. ASSUME NEW thrown, MapThrown(r, thrown)  PROVE Answered(r, c)
    BY <1>1, <1>3, <1>4, ErrorReplyFits DEF MapThrown
  <1>5. InvalidInput \in BaseErrors
    BY DEF BaseErrors
  <1>6. QED
    BY <1>1, <1>2, <1>3, <1>4, <1>5, ErrorReplyFits DEF Reply, Validate

\* A request moves, and the others stay where they are.
LEMMA RequestMoves ==
    ASSUME RequestsFit, NEW r \in Requests, NEW p \in Phases, NEW words \in Sayings, NEW c \in Callers,
           Says(r, p, words), Fits(p, c, words), caller' = [caller EXCEPT ![r] = c],
           p = "authenticating" <=> call'[r].at # "idle",
           \A q \in Requests \ {r} : call'[q].at = "idle" <=> call[q].at = "idle"
    PROVE  RequestsFit'
  <1>1. phase' = [phase EXCEPT ![r] = p] /\ said' = [said EXCEPT ![r] = words]
    BY DEF Says
  <1>2. /\ phase' \in [Requests -> Phases] /\ caller' \in [Requests -> Callers]
        /\ said' \in [Requests -> Sayings]
    BY <1>1 DEF RequestsFit
  <1>3. phase'[r] = p /\ caller'[r] = c /\ said'[r] = words
    BY <1>1 DEF RequestsFit
  <1>4. ASSUME NEW q \in Requests \ {r}
        PROVE  phase'[q] = phase[q] /\ caller'[q] = caller[q] /\ said'[q] = said[q]
    BY <1>1 DEF RequestsFit
  <1>5. ASSUME NEW q \in Requests
        PROVE  /\ Fits(phase'[q], caller'[q], said'[q])
               /\ phase'[q] = "authenticating" <=> call'[q].at # "idle"
    <2>1. CASE q = r
      BY <1>3, <2>1
    <2>2. CASE q # r
      BY <1>4, <2>2 DEF RequestsFit
    <2>3. QED
      BY <2>1, <2>2
  <1>6. QED
    BY <1>2, <1>5 DEF RequestsFit, Fits, LetIn, Phases, Callers, Sayings, A!Genuine

LEMMA AnswerMoves ==
    ASSUME RequestsFit, NEW r \in Requests, NEW c \in Callers, Answered(r, c),
           caller' = [caller EXCEPT ![r] = c], call'[r].at = "idle",
           \A q \in Requests \ {r} : call'[q].at = "idle" <=> call[q].at = "idle"
    PROVE  RequestsFit'
  <1>1. PICK p \in Phases \ {"authenticating"}, words \in Sayings : Says(r, p, words) /\ Fits(p, c, words)
    BY DEF Answered
  <1>2. p \in Phases /\ (p = "authenticating" <=> call'[r].at # "idle")
    OBVIOUS
  <1>3. QED
    BY <1>1, <1>2, RequestMoves

LEMMA RequestFacts ==
    ASSUME Inv, NEW r \in Requests
    PROVE  /\ phase[r] \in Phases /\ caller[r] \in Callers
           /\ Fits(phase[r], caller[r], said[r])
           /\ phase[r] = "authenticating" <=> call[r].at # "idle"
           /\ caller = [caller EXCEPT ![r] = caller[r]]
  BY InvSplits DEF RequestsFit

LEMMA CallerFacts ==
    /\ Public \in Callers /\ LetIn(Public)
    /\ Nobody \in Callers /\ Nobody.result = "none"
  BY NoCallFacts DEF Public, Nobody, LetIn, Callers, A!Results

\* A step of a request that leaves the Authenticator alone.
LEMMA AnsweredStep ==
    ASSUME Inv, NEW r \in Requests, NEW c \in Callers, phase[r] # "authenticating",
           Answered(r, c), caller' = [caller EXCEPT ![r] = c], UNCHANGED authVars
    PROVE  Inv' /\ FairStep
  <1>1. AuthInv' /\ FairStep /\ SameIdle
    BY AuthStutter DEF Inv
  <1>2. call'[r].at = "idle" /\ \A q \in Requests \ {r} : call'[q].at = "idle" <=> call[q].at = "idle"
    BY <1>1, RequestFacts DEF SameIdle
  <1>3. RequestsFit'
    BY <1>2, InvSplits, AnswerMoves
  <1>4. Inv'
    BY <1>1, <1>3, InvSplits, PTL
  <1>5. QED
    BY <1>1, <1>4

LEMMA ReceiveStep ==
    ASSUME Inv, NEW r \in Requests, ReceivePublic(r) \/ ReceiveWithoutToken(r)
    PROVE  Inv' /\ FairStep
  <1>1. CASE ReceivePublic(r)
    <2>1. Answered(r, Public)
      BY <1>1, CallerFacts, LetInFits DEF ReceivePublic
    <2>2. QED
      BY <1>1, <2>1, CallerFacts, AnsweredStep DEF ReceivePublic
  <1>2. CASE ReceiveWithoutToken(r)
    <2>1. MissingToken \in BaseErrors
      BY DEF BaseErrors
    <2>2. caller[r] \in Callers /\ caller' = [caller EXCEPT ![r] = caller[r]]
      BY <1>2, RequestFacts DEF ReceiveWithoutToken
    <2>3. Answered(r, caller[r])
      BY <1>2, <2>1, <2>2, SayingFacts, ErrorReplyFits DEF ReceiveWithoutToken, Speaks
    <2>4. QED
      BY <1>2, <2>2, <2>3, AnsweredStep DEF ReceiveWithoutToken
  <1>3. QED
    BY <1>1, <1>2

LEMMA ReceiveWithTokenStep ==
    ASSUME Inv, NEW r \in Requests, NEW t \in Tokens, NEW n \in Lifetimes, ReceiveWithToken(r, t, n)
    PROVE  Inv' /\ FairStep
  <1>1. /\ AuthInv' /\ FairStep
        /\ call'[r].at # "idle" /\ \A q \in Requests \ {r} : call'[q] = call[q]
    BY VerifyStep DEF ReceiveWithToken, Inv
  <1>2. /\ phase[r] = "idle" /\ Says(r, "authenticating", Nothing)
        /\ caller[r] \in Callers /\ caller' = [caller EXCEPT ![r] = caller[r]]
    BY RequestFacts DEF ReceiveWithToken, Become
  <1>3. "authenticating" \in Phases /\ Fits("authenticating", caller[r], Nothing)
    BY <1>2, RequestFacts, SayingFacts DEF Fits, Phases, Speaks
  <1>4. RequestsFit'
    <2>1. PICK p \in Phases, words \in Sayings : p = "authenticating" /\ words = Nothing
      BY <1>3, SayingFacts DEF Speaks
    <2>2. /\ Says(r, p, words) /\ Fits(p, caller[r], words)
          /\ p = "authenticating" <=> call'[r].at # "idle"
          /\ \A q \in Requests \ {r} : call'[q].at = "idle" <=> call[q].at = "idle"
      BY <1>1, <1>2, <1>3, <2>1
    <2>3. QED
      BY <1>2, <2>2, InvSplits, RequestMoves
  <1>5. Inv'
    BY <1>1, <1>4, InvSplits, PTL
  <1>6. QED
    BY <1>1, <1>5

\* Whom verify accepted is let in, whom it refused hears a 401.
LEMMA AuthenticatedStep ==
    ASSUME Inv, NEW r \in Requests, Authenticated(r)
    PROVE  Inv' /\ FairStep
  <1> DEFINE c == [result |-> call[r].result, token |-> call[r].token]
  <1>1. call[r] \in CallRecord /\ call[r].at = "done"
    BY AgeFacts DEF Authenticated, A!Taken, Inv, AuthInv
  <1>2. call[r].result \in A!Results /\ call[r].token \in Tokens
    BY <1>1 DEF CallRecord
  <1>3. c \in Callers /\ c.result = call[r].result /\ c.token = call[r].token
    BY <1>2 DEF Callers
  <1>4. caller' = [caller EXCEPT ![r] = c]
    BY DEF Authenticated
  <1> HIDE DEF c
  <1>5. Answered(r, c)
    <2>1. CASE call[r].result = "ok" /\ Validate(r)
      <3>1. LetIn(c)
        BY <1>1, <1>3, <2>1 DEF LetIn, Inv, AuthInv, CallsJudged
      <3>2. QED
        BY <1>3, <2>1, <3>1, LetInFits
    <2>2. CASE ErrorReply(r, RefusedBy(call[r].result))
      <3>1. RefusedBy(call[r].result) \in BaseErrors
        BY <1>2 DEF BaseErrors
      <3>2. QED
        BY <1>2, <1>3, <2>2, <3>1, SayingFacts, ErrorReplyFits DEF Speaks
    <2>3. QED
      BY <2>1, <2>2 DEF Authenticated
  <1>6. /\ AuthInv' /\ FairStep
        /\ call'[r].at = "idle" /\ \A q \in Requests \ {r} : call'[q] = call[q]
    BY TakenStep DEF Authenticated, Inv
  <1>7. RequestsFit'
    BY <1>3, <1>4, <1>5, <1>6, InvSplits, AnswerMoves
  <1>8. Inv'
    BY <1>6, <1>7, InvSplits, PTL
  <1>9. QED
    BY <1>6, <1>8

LEMMA HandlerEndsStep ==
    ASSUME Inv, NEW r \in Requests, HandlerEnds(r)
    PROVE  Inv' /\ FairStep
  <1>1. /\ phase[r] = "handling" /\ UNCHANGED authVars
        /\ caller[r] \in Callers /\ caller' = [caller EXCEPT ![r] = caller[r]]
    BY RequestFacts DEF HandlerEnds, HandlerReturns, HandlerReturnsError, HandlerThrows
  <1>2. LetIn(caller[r]) /\ caller[r].result \in {"public", "ok"}
    BY <1>1, RequestFacts DEF Fits, LetIn
  <1>3. ServiceError \subseteq BaseErrors
    BY DEF BaseErrors
  <1>4. Answered(r, caller[r])
    BY <1>1, <1>2, <1>3, LetInFits, ErrorReplyFits
       DEF HandlerEnds, HandlerReturns, HandlerReturnsError, HandlerThrows
  <1>5. QED
    BY <1>1, <1>4, AnsweredStep

LEMMA SentStep ==
    ASSUME Inv, NEW r \in Requests, Sent(r)
    PROVE  Inv' /\ FairStep
  <1>1. /\ phase[r] # "authenticating" /\ Says(r, "idle", Nothing)
        /\ caller' = [caller EXCEPT ![r] = Nobody] /\ UNCHANGED authVars
    BY DEF Sent, Become, Answers
  <1>2. "idle" \in Phases \ {"authenticating"} /\ Fits("idle", Nobody, Nothing)
    BY CallerFacts, SayingFacts DEF Fits, Phases, Speaks
  <1>3. Answered(r, Nobody)
    BY <1>1, <1>2, SayingFacts DEF Answered, Speaks
  <1>4. QED
    BY <1>1, <1>3, CallerFacts, AnsweredStep

LEMMA UnseenStep ==
    ASSUME Inv, UNCHANGED <<phase, caller, said>>, AuthInv', FairStep, SameIdle
    PROVE  Inv' /\ FairStep
  <1>1. RequestsFit'
    BY InvSplits DEF RequestsFit, SameIdle, Fits, LetIn, Phases, Callers, Sayings, A!Genuine
  <1>2. QED
    BY <1>1, InvSplits, PTL

LEMMA InvInit ==
    ASSUME Init
    PROVE  Inv
  <1>1. AuthInv
    BY AuthInit DEF Init
  <1>2. "idle" \in Phases /\ Nothing \in Sayings /\ Nobody \in Callers /\ Fits("idle", Nobody, Nothing)
    BY CallerFacts, SayingFacts DEF Fits, Phases, Speaks
  <1>3. /\ phase = [r \in Requests |-> "idle"] /\ caller = [r \in Requests |-> Nobody]
        /\ said = [r \in Requests |-> Nothing] /\ call = [r \in Requests |-> A!NoCall]
    BY DEF Init, A!Init
  <1>4. RequestsFit
    BY <1>2, <1>3, NoCallFacts DEF RequestsFit
  <1>5. QED
    BY <1>1, <1>4, InvSplits

LEMMA NextStep ==
    ASSUME Inv, Next
    PROVE  Inv' /\ FairStep
  <1>1. ASSUME NEW r \in Requests, NEW t \in Tokens, NEW n \in Lifetimes, ReceiveWithToken(r, t, n)
        PROVE  Inv' /\ FairStep
    BY <1>1, ReceiveWithTokenStep
  <1>2. ASSUME NEW r \in Requests, \/ ReceivePublic(r) \/ ReceiveWithoutToken(r)
                                   \/ Authenticated(r) \/ Sent(r) \/ HandlerEnds(r)
        PROVE  Inv' /\ FairStep
    BY <1>2, ReceiveStep, AuthenticatedStep, SentStep, HandlerEndsStep
  <1>3. CASE Environment
    BY <1>3, EnvironmentStep, UnseenStep DEF Environment, Inv
  <1>4. CASE Tick
    BY <1>4, TickStep, UnseenStep DEF Tick, Inv
  <1>5. QED
    BY <1>1, <1>2, <1>3, <1>4 DEF Next

LEMMA StutterStep ==
    ASSUME Inv, UNCHANGED vars
    PROVE  Inv'
  <1>1. UNCHANGED authVars /\ UNCHANGED <<phase, caller, said>>
    BY DEF vars
  <1>2. QED
    BY <1>1, AuthStutter, UnseenStep DEF Inv

LEMMA InvStep == Inv /\ [Next]_vars => Inv' /\ [FairStep]_vars
  BY NextStep, StutterStep

LEMMA HttpInvariant == Spec => []Inv /\ [][FairStep]_vars
  BY InvInit, InvStep, PTL DEF Spec

(***************************************************************************)
(* The properties the run checks.                                          *)
(***************************************************************************)

\* Type correctness: a request awaits its verify exactly while it is
\* authenticating, and a fetch is open exactly while somebody waits for it.
THEOREM HttpTypeCorrect == Spec => []TypeOK
  BY HttpInvariant, PTL DEF Inv

\* The handler of an authenticated route runs, and its route succeeds, only for
\* a caller whose token is genuine and has a subject, whatever keys rotate and
\* fetches fail while the requests wait.  Whoever was not let in hears of what the
\* packages or jose found, as a 401 unless an errorHelper is configured, and no
\* reply is about an exception nobody foresaw, whatever an errorHelper answers.
THEOREM CallersAreTreatedFairly == Spec => []CallersTreatedFairly
  BY HttpInvariant, PTL DEF Inv, CallersTreatedFairly

\* A token is accepted only if its key is published, or was retired no longer
\* ago than the cache and a fetch hide it.
THEOREM AcceptedKeysAreFresh == Spec => AcceptedIsGenuine
  <1>1. FairStep => \A r \in Requests : A!Ends(r) => A!AcceptedFairly(r)
    BY DEF FairStep
  <1>2. QED
    BY <1>1, HttpInvariant, PTL DEF AcceptedIsGenuine

\* A good token is refused only for an outage, or because its key was published
\* later than the cooldown, or the age of the cache, and a fetch allow to be known.
THEOREM GoodTokensServed == Spec => ValidTokenServed
  <1>1. FairStep => \A r \in Requests : A!Ends(r) => A!RefusedFairly(r)
    BY DEF FairStep
  <1>2. QED
    BY <1>1, HttpInvariant, PTL DEF ValidTokenServed

\* A fetch begins only before the first answer, a cooldown after the last one or
\* once that is stale, for any cooldown and any age of the cache.
THEOREM FetchesAreSpaced == Spec => RefetchSpaced
  <1>1. FairStep => (A!FetchBegins => A!CooledDown)
    BY DEF FairStep
  <1>2. QED
    BY <1>1, HttpInvariant, PTL DEF RefetchSpaced

=============================================================================
