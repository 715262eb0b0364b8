----------------------------- MODULE MCLibrary -----------------------------
(***************************************************************************)
(* The arguments: strings over alphabets that hold one unit of every kind  *)
(* a function tells apart, long enough to pass its limits, which the       *)
(* configuration makes small; documents and phones of the real size.       *)
(***************************************************************************)
EXTENDS Library, FiniteSets, TLC

Units(numbers) == [i \in DOMAIN numbers |-> numbers[i] + 48]
Same(d, n) == [i \in 1..n |-> d]

\* Check digits: those of the rule, with nothing, the first or the last changed.
Checks(n, k, weight(_, _)) ==
    LET first == (SumFunction([i \in 1..k - 1 |-> weight(i, k) * n[i]]) % 11) % 10
        long == Append(n, first)
        second == (SumFunction([i \in 1..k |-> weight(i, k + 1) * long[i]]) % 11) % 10
    IN {n \o <<(first + a) % 10, (second + b) % 10>> : a, b \in {0, 1}}

\* Two digits anywhere, the others zero, or all the same digit.
Bases(n) ==
    {[i \in 1..n |-> IF i = a THEN x ELSE IF i = b THEN y ELSE 0] :
        a, b \in 1..n, x \in {1, 4, 9}, y \in {0, 5}}
    \cup {Same(d, n) : d \in 0..9}

CpfNumbers == UNION {Checks(n, 10, LAMBDA i, j : i + 10 - j) : n \in Bases(9)}
CnpjNumbers == UNION {Checks(n, 13, LAMBDA i, j : 9 - ((j - 1 - i) % 8)) : n \in Bases(12)}

Documents(numbers, punctuation) ==
    LET s == Units(numbers) IN
    {s, SubSeq(s, 1, 3) \o <<punctuation>> \o SubSeq(s, 4, Len(s))}

CpfRaws == UNION {Documents(n, Dot) : n \in CpfNumbers}
           \cup {<<>>, <<97>>, Units(Same(1, 12))} \cup Documents(Same(1, 11), 97)
CnpjRaws == UNION {Documents(n, Slash) : n \in CnpjNumbers} \cup {<<>>, Units(Same(1, 11))}

PhoneNumbers ==
    {prefix \o <<a, b>> \o local : prefix \in {<<>>, <<5, 5>>}, a, b \in 0..9,
        local \in {<<d>> \o Same(3, 7) : d \in {1, 2, 5, 6, 9}}
                  \cup {<<9, d>> \o Same(3, 7) : d \in {5, 6, 9}} \cup {<<8>> \o Same(7, 8)}}

PhoneRaws == {Units(n) : n \in PhoneNumbers} \cup {<<Plus>> \o Units(n) : n \in PhoneNumbers}
             \cup {<<>>, <<97>>, Units(Same(1, 7))}

EmailRaws == BoundedSeq({65, At, Dot, Space}, 6) \cup BoundedSeq({304, At, Dot}, 5)
NameRaws == BoundedSeq({97, 225, Space, 9, Apostrophe}, 5)
PasswordRaws == BoundedSeq({97, 49, 233, 20013, 55357, 56490}, 5)
FileNameRaws == BoundedSeq({109, 77, Dot, Slash, Space, 7}, 5)
VideoRaws == [name : {<<109, Dot, 109>>, <<Space, 109, Dot, 109>>, <<109>>},
              contentType : BoundedSeq({97, Slash, Space}, 5)]

SomeLetters == {65, 97, 109, 77, 225, 233, 20013}
OneExtension == {<<109>>}

TwoCommits == BoundedSeq(Commits, 2)

QueueNames == {<<"a">>, <<"a", "video">>}
Keys == {VideoProcessed, <<"video", "*">>, <<"#">>}
SomeOptions ==
    [consumerQueues : SUBSET [name : QueueNames, routingKeys : SUBSET Keys \ {{}}],
     deadLetterExchange : {Absent, <<"custom">>, Events},
     deadLetterQueue : {Absent, <<"dead">>, <<"a">>}]

DistinctNames(options) ==
    \A p, q \in options.consumerQueues : p.name = q.name => p = q
DeclaredOptions == {o \in SomeOptions : DistinctNames(o)}
\* The outcome events: the fields that have to be there, some that may be, and
\* at most one that does not fit.
Payloads(type) ==
    UNION {{[f \in fields |-> f # bad] : bad \in fields \cup {"none"}} :
               fields \in {Required(type) \cup more : more \in SUBSET Optional(type)}}
OneQueue ==
    [consumerQueues : {{[name |-> <<"a">>, routingKeys |-> keys]} : keys \in SUBSET Keys},
     deadLetterExchange : {Absent, <<"custom">>}, deadLetterQueue : {Absent}]
Notify(type) ==
    [type : {type}, input : [correlationIdFits : BOOLEAN, payload : Payloads(type)], topology : OneQueue]

SomeResults == BoundedSeq({Ok(1), Ok(2), Err("E1"), Err("E2")}, 4)
SomeChecks == BoundedSeq({Up, NeverSettles, ThrowsOther, ThrowsError("refused"), ThrowsError("timeout")}, 4)

SomeErrors ==
    [class : Classes \cup {"unknown"},
     options : [statusCode : {{}, {422}, {502}}, retryable : {{}, {TRUE}, {FALSE}},
                details : {{}, {"details"}}, cause : {{}, {"cause"}}]]

SomeWaits ==
    [attempt : 0..9, options : [baseDelayMs : {0, 1, 5, 30}, maxDelayMs : {0, 7, 40},
                                multiplier : {{}, {1}, {3}}]]

RegistryCalls ==
    [function : {"createMetrics"}, service : {"video", "auth"}, collectDefaults : BOOLEAN]
    \cup [function : {"register"}, name : {DefaultMetrics, "messages_handled_total", "videos_total"}]

AllArguments ==
    [Cpf |-> CpfRaws, Cnpj |-> CnpjRaws, Phone |-> PhoneRaws, Email |-> EmailRaws,
     Name |-> NameRaws, Password |-> PasswordRaws, VideoFileName |-> FileNameRaws,
     VideoFile |-> VideoRaws, all |-> SomeResults, createReadinessCheck |-> SomeChecks,
     isRetryableError |-> SomeErrors, computeBackoffMs |-> SomeWaits,
     createMetrics |-> BoundedSeq(RegistryCalls, 3), createDefaultTopology |-> DeclaredOptions,
     createNotifierEmailHelper |-> Notify(VideoProcessed) \cup Notify(VideoFailed), generateChangeset |-> TwoCommits]
=============================================================================
