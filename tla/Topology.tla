------------------------------ MODULE Topology ------------------------------
(***************************************************************************)
(* createDefaultTopology, and the queues to which a broker that declares   *)
(* it routes a message.  Names, routing keys and the patterns that queues  *)
(* are bound with are sequences of words.                                  *)
(***************************************************************************)
EXTENDS Integers, Sequences

Events == <<"zipframes", "events">>
Absent == <<>>
OrElse(option, default) == IF option = Absent THEN default ELSE option

DlxOf(options) == OrElse(options.deadLetterExchange, Events \o <<"dlx">>)
DlqOf(options) == OrElse(options.deadLetterQueue, Events \o <<"dlq">>)

Exchanges(options) == {Events, DlxOf(options)}

\* The queues, each with where its dead letters go.
Queues(options) ==
    {[name |-> DlqOf(options), dlx |-> Absent, key |-> Absent]}
    \cup {[name |-> q.name, dlx |-> DlxOf(options), key |-> q.name] : q \in options.consumerQueues}

ConsumerBindings(options) ==
    UNION {{[queue |-> q.name, exchange |-> Events, pattern |-> k] : k \in q.routingKeys} :
               q \in options.consumerQueues}

\* Mutant: the dead-letter queue is bound for names of one word.
MutantBindings(options) ==
    {[queue |-> DlqOf(options), exchange |-> DlxOf(options), pattern |-> <<"*">>]}
    \cup ConsumerBindings(options)

Bindings(options) ==
    {[queue |-> DlqOf(options), exchange |-> DlxOf(options), pattern |-> <<"#">>]}
    \cup ConsumerBindings(options)
-----------------------------------------------------------------------------
\* The broker: `*` stands for one word, `#` for any number of words.

\* cut[i] is how many words of the key the first i words of the pattern take.
Matches(pattern, key) ==
    \E cut \in [0..Len(pattern) -> 0..Len(key)] :
        /\ cut[0] = 0 /\ cut[Len(pattern)] = Len(key)
        /\ \A i \in 1..Len(pattern) :
              IF pattern[i] = "#" THEN cut[i - 1] <= cut[i]
              ELSE cut[i] = cut[i - 1] + 1 /\ pattern[i] \in {"*", key[cut[i]]}

Routed(options, exchange, key) ==
    {b.queue : b \in {c \in Bindings(options) : c.exchange = exchange /\ Matches(c.pattern, key)}}
=============================================================================
