------------------------------ MODULE Consumer ------------------------------
(***************************************************************************)
(* createConsumer: a pull-based consumer over the MessageQueue port.       *)
(*                                                                         *)
(* Every call of start() runs a loop of its own that shares `running` and  *)
(* the queue with the others: a second start() while the first one still   *)
(* awaits its handler is legal.  Loops are the calls that may be active at *)
(* once.  The handler is any ConsumeHandler: while it is awaited it may    *)
(* settle its delivery in any way, any number of times, and it ends by     *)
(* resolving or rejecting.                                                 *)
(*                                                                         *)
(* One action is the code that runs between two awaits.  The port is       *)
(* synchronous; behind it the message is either in the queue at once or,   *)
(* with a broker, on the wire until the broker delivers it.                *)
(***************************************************************************)
EXTENDS Retry, Sequences

CONSTANTS Messages,     \* the messages that may be published
          Loops,        \* the calls of start() that may be active at once
          MaxAttempts,  \* options.retry.maxAttempts
          Headers,      \* the attempt headers a publisher may send
          Delayed,      \* whether enqueue reaches the queue by way of a broker
          PortFails,    \* whether enqueue may throw
          NoMessage     \* what a loop that never had a delivery holds

BrokerMessages == [id : Messages, header : Int]

ASSUME ConsumerAssumption ==
    /\ MaxAttempts \in Int
    /\ Headers \subseteq Int
    /\ Delayed \in BOOLEAN
    /\ PortFails \in BOOLEAN
    /\ NoMessage \notin BrokerMessages

VARIABLES running,  \* the flag start() sets and stop() clears
          queue,    \* options.queue, oldest first
          wire,     \* enqueued, not yet delivered by the broker
          dlq,      \* options.deadLetterQueue, oldest first
          pc,       \* per loop: idle, handling (awaits the handler), next (awaits processOne)
          msg,      \* per loop: the message of its last delivery
          settled,  \* per loop: the `settled` flag of its last delivery
          sent,     \* history: the messages published so far
          acked,    \* history: the messages acknowledged
          lost      \* history: the messages whose settling threw in the port

held == <<pc, msg, settled>>
vars == <<running, queue, wire, dlq, held, sent, acked, lost>>

Init == /\ running = FALSE
        /\ queue = <<>>
        /\ wire = {}
        /\ dlq = <<>>
        /\ pc = [l \in Loops |-> "idle"]
        /\ msg = [l \in Loops |-> NoMessage]
        /\ settled = [l \in Loops |-> TRUE]
        /\ sent = {}
        /\ acked = {}
        /\ lost = {}
-----------------------------------------------------------------------------
\* The queue port.

Enqueue(m) == IF Delayed
              THEN wire' = wire \cup {m} /\ UNCHANGED queue
              ELSE queue' = Append(queue, m) /\ UNCHANGED wire

Publish(m, h) ==
    /\ m \notin sent
    /\ sent' = sent \cup {m}
    /\ Enqueue([id |-> m, header |-> h])
    /\ UNCHANGED <<running, dlq, held, acked, lost>>

\* The broker delivers in any order: a retry may sit in a delay queue.
Arrive(m) ==
    /\ m \in wire
    /\ wire' = wire \ {m}
    /\ queue' = Append(queue, m)
    /\ UNCHANGED <<running, dlq, held, sent, acked, lost>>
-----------------------------------------------------------------------------
\* settle(action) of processOne.

Attempt(l) == ReadAttempt(msg[l].header)

\* Mutant: the next attempt is sent without its headers.
MutantHeaderless(m) == [id |-> m.id]

\* Mutant: the next attempt counts from the header as it stands.
MutantNextAttempt(m) == [m EXCEPT !.header = @ + 1]

NextAttempt(m) == [m EXCEPT !.header = ReadAttempt(@) + 1]

Requeue(m) == Enqueue(NextAttempt(m)) /\ UNCHANGED <<dlq, acked, lost>>

DeadLetter(m) == dlq' = Append(dlq, m) /\ UNCHANGED <<queue, wire, acked, lost>>

Acknowledge(m) == acked' = acked \cup {m} /\ UNCHANGED <<queue, wire, dlq, lost>>

\* `settled` is already TRUE when enqueue throws, so nothing settles m again.
Lose(m) == lost' = lost \cup {m} /\ UNCHANGED <<queue, wire, dlq, acked>>

\* Mutant: a retry does not look at the attempts that are left.
MutantRetry(l, ok) ==
    \/ ok /\ Requeue(msg[l])
    \/ ~ok /\ PortFails /\ Lose(msg[l])

RetryMessage(l, ok) ==
    \/ ok /\ DecideRetry(Attempt(l), MaxAttempts) = "dlq" /\ DeadLetter(msg[l])
    \/ ok /\ DecideRetry(Attempt(l), MaxAttempts) = "retry" /\ Requeue(msg[l])
    \/ ~ok /\ (PortFails \/ DecideRetry(Attempt(l), MaxAttempts) = "RangeError") /\ Lose(msg[l])

\* What settle does to a delivery that is not settled yet; ok is FALSE when it throws.
Settle(l, action, ok) ==
    /\ settled' = [settled EXCEPT ![l] = TRUE]
    /\ \/ action = "ack" /\ ok /\ Acknowledge(msg[l])
       \/ action = "retry" /\ RetryMessage(l, ok)
       \/ action = "dlq" /\ ok /\ DeadLetter(msg[l])
       \/ action = "dlq" /\ ~ok /\ PortFails /\ Lose(msg[l])
-----------------------------------------------------------------------------
\* Mutant: a second settle is not ignored.
MutantHandlerSettles(l, action, ok) ==
    /\ pc[l] = "handling"
    /\ Settle(l, action, ok)
    /\ UNCHANGED <<running, pc, msg, sent>>

\* The handler calls ack, retry or deadLetter; a second call, and a call after
\* the handler returned, finds `settled` set and changes nothing.
HandlerSettles(l, action, ok) ==
    /\ pc[l] = "handling"
    /\ ~settled[l]
    /\ Settle(l, action, ok)
    /\ UNCHANGED <<running, pc, msg, sent>>

\* One turn of the while loop, from dequeue to the call of the handler.
Poll(l) ==
    \/ /\ queue = <<>>
       /\ pc' = [pc EXCEPT ![l] = "idle"]
       /\ UNCHANGED <<queue, msg, settled>>
    \/ /\ queue # <<>>
       /\ queue' = Tail(queue)
       /\ pc' = [pc EXCEPT ![l] = "handling"]
       /\ msg' = [msg EXCEPT ![l] = Head(queue)]
       /\ settled' = [settled EXCEPT ![l] = FALSE]

Start(l) ==
    /\ pc[l] = "idle"
    /\ running' = TRUE
    /\ Poll(l)
    /\ UNCHANGED <<wire, dlq, sent, acked, lost>>

\* The handler resolves; a delivery it did not settle is acknowledged.
Resolve(l) ==
    /\ pc[l] = "handling"
    /\ pc' = [pc EXCEPT ![l] = "next"]
    /\ \/ settled[l] /\ UNCHANGED <<queue, wire, dlq, settled, acked, lost>>
       \/ ~settled[l] /\ Settle(l, "ack", TRUE)
    /\ UNCHANGED <<running, msg, sent>>

\* The handler rejects; a delivery it did not settle is retried.  When that
\* throws too, processOne and start() reject and the loop is gone.
Reject(l, ok) ==
    /\ pc[l] = "handling"
    /\ pc' = [pc EXCEPT ![l] = IF ok THEN "next" ELSE "idle"]
    /\ \/ settled[l] /\ ok /\ UNCHANGED <<queue, wire, dlq, settled, acked, lost>>
       \/ ~settled[l] /\ Settle(l, "retry", ok)
    /\ UNCHANGED <<running, msg, sent>>

\* Mutant: the loop ends after one message.
MutantContinue(l) ==
    /\ pc[l] = "next"
    /\ pc' = [pc EXCEPT ![l] = "idle"]
    /\ UNCHANGED <<running, queue, wire, dlq, msg, settled, sent, acked, lost>>

Continue(l) ==
    /\ pc[l] = "next"
    /\ \/ running /\ Poll(l)
       \/ /\ ~running
          /\ pc' = [pc EXCEPT ![l] = "idle"]
          /\ UNCHANGED <<queue, msg, settled>>
    /\ UNCHANGED <<running, wire, dlq, sent, acked, lost>>

Stop ==
    /\ running' = FALSE
    /\ UNCHANGED <<queue, wire, dlq, held, sent, acked, lost>>

Next ==
    \/ \E m \in Messages, h \in Headers : Publish(m, h)
    \/ \E m \in wire : Arrive(m)
    \/ \E l \in Loops :
          \/ Start(l)
          \/ \E action \in {"ack", "retry", "dlq"}, ok \in BOOLEAN : HandlerSettles(l, action, ok)
          \/ Resolve(l)
          \/ \E ok \in BOOLEAN : Reject(l, ok)
          \/ Continue(l)
    \/ Stop

Spec == Init /\ [][Next]_vars
-----------------------------------------------------------------------------
\* Where a message can be.

Elements(seq) == {seq[i] : i \in DOMAIN seq}
IdsOf(seq) == {seq[i].id : i \in DOMAIN seq}
Open == {l \in Loops : ~settled[l]}

QueueIds == IdsOf(queue)
DlqIds == IdsOf(dlq)
WireIds == {m.id : m \in wire}
OpenIds == {msg[l].id : l \in Open}
AckedIds == {m.id : m \in acked}
LostIds == {m.id : m \in lost}

\* The loops, the queues and the history hold what they should.
TypeOK ==
    /\ running \in BOOLEAN
    /\ queue \in Seq(BrokerMessages)
    /\ wire \subseteq BrokerMessages
    /\ dlq \in Seq(BrokerMessages)
    /\ pc \in [Loops -> {"idle", "handling", "next"}]
    /\ msg \in [Loops -> BrokerMessages \cup {NoMessage}]
    /\ settled \in [Loops -> BOOLEAN]
    /\ sent \subseteq Messages
    /\ acked \subseteq BrokerMessages
    /\ lost \subseteq BrokerMessages

\* A loop that has left its handler has settled the delivery: what the handler
\* kept of its context can no longer change anything (lines 41-43, 71-75).
EndedIsSettled == \A l \in Loops : pc[l] # "handling" => settled[l]

OnceEach(seq) == \A i, j \in DOMAIN seq : seq[i].id = seq[j].id => i = j
OnceIn(set) == \A m, n \in set : m.id = n.id => m = n

PairwiseDisjoint ==
    /\ QueueIds \cap WireIds = {}  /\ QueueIds \cap OpenIds = {}  /\ QueueIds \cap DlqIds = {}
    /\ QueueIds \cap AckedIds = {} /\ QueueIds \cap LostIds = {}
    /\ WireIds \cap OpenIds = {}   /\ WireIds \cap DlqIds = {}    /\ WireIds \cap AckedIds = {}
    /\ WireIds \cap LostIds = {}   /\ OpenIds \cap DlqIds = {}    /\ OpenIds \cap AckedIds = {}
    /\ OpenIds \cap LostIds = {}   /\ DlqIds \cap AckedIds = {}   /\ DlqIds \cap LostIds = {}
    /\ AckedIds \cap LostIds = {}

NoDuplicates ==
    /\ OnceEach(queue) /\ OnceIn(wire) /\ OnceEach(dlq) /\ OnceIn(acked) /\ OnceIn(lost)
    /\ \A k, l \in Open : msg[k].id = msg[l].id => k = l

\* Every published message is in exactly one place: waiting, on the wire, in
\* one handler's hands, dead-lettered, acknowledged or lost with its error.
\* Two loops never hold it at once, and no settling duplicates it.
ExactlyOnePlace ==
    /\ sent = QueueIds \cup WireIds \cup OpenIds \cup DlqIds \cup AckedIds \cup LostIds
    /\ PairwiseDisjoint
    /\ NoDuplicates

\* A message that waits carries the header it was sent with, or an attempt
\* number the retry budget allows (lines 49-57).
AttemptsWithinBudget ==
    \A m \in Elements(queue) \cup wire :
        m.header \in Headers \/ m.header \in 2..MaxAttempts

\* README of the package and lines 40-61: a failed attempt is retried or
\* dead-lettered.  The code loses the message when enqueue throws.
NoMessageLost == lost = {}

\* The consumer keeps the promises of module Delivery.
Token(m) == [id |-> m.id, attempt |-> ReadAttempt(m.header)]
Tokens(ms) == {Token(m) : m \in ms}

D == INSTANCE Delivery WITH
        pending <- Tokens(Elements(queue) \cup wire),
        inFlight <- Tokens({msg[l] : l \in Open}),
        acked <- Tokens(acked),
        dead <- Tokens(Elements(dlq)),
        lost <- Tokens(lost)

ImplementsDelivery == D!Spec

\* While a loop is active and nobody stops the consumer, a waiting message is
\* taken: no retry of another message can keep it waiting for ever.
ServedWhileRunning ==
    \A m \in Messages :
        (m \in QueueIds /\ \E l \in Loops : pc[l] # "idle") ~> (m \notin QueueIds \/ ~running)
=============================================================================
