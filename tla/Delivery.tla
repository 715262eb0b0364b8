------------------------------ MODULE Delivery ------------------------------
(***************************************************************************)
(* What a consumer promises of the messages of one queue, whatever the     *)
(* queue, the loops and the handlers do: a message is sent once, and every *)
(* attempt at it is followed by exactly one of an acknowledgement, a next  *)
(* attempt within the retry budget, or a dead letter.  A port that may     *)
(* fail can also lose the message, and only while it is being settled.     *)
(*                                                                         *)
(* A token [id, attempt] stands for a message at its attempt.              *)
(***************************************************************************)
EXTENDS Retry

CONSTANTS Messages,     \* the messages that may be published
          MaxAttempts,  \* options.retry.maxAttempts of the consumer
          Headers,      \* the attempt headers a publisher may send
          PortFails     \* whether the queue port's enqueue may throw

VARIABLES pending,   \* tokens waiting for a delivery
          inFlight,  \* tokens a handler holds, not settled yet
          acked,     \* tokens whose attempt was acknowledged
          dead,      \* tokens on the dead-letter queue
          lost       \* tokens whose settling failed in the port

vars == <<pending, inFlight, acked, dead, lost>>

Ids(tokens) == {t.id : t \in tokens}

Init == /\ pending = {}
        /\ inFlight = {}
        /\ acked = {}
        /\ dead = {}
        /\ lost = {}

Publish(m, h) ==
    /\ m \notin Ids(pending) \cup Ids(inFlight) \cup Ids(acked) \cup Ids(dead) \cup Ids(lost)
    /\ pending' = pending \cup {[id |-> m, attempt |-> ReadAttempt(h)]}
    /\ UNCHANGED <<inFlight, acked, dead, lost>>

\* A delivery starts: a loop takes a waiting message.
Take(t) ==
    /\ t \in pending
    /\ pending' = pending \ {t}
    /\ inFlight' = inFlight \cup {t}
    /\ UNCHANGED <<acked, dead, lost>>

Ack(t) ==
    /\ t \in inFlight
    /\ inFlight' = inFlight \ {t}
    /\ acked' = acked \cup {t}
    /\ UNCHANGED <<pending, dead, lost>>

Retry(t) ==
    /\ t \in inFlight
    /\ t.attempt < MaxAttempts
    /\ inFlight' = inFlight \ {t}
    /\ pending' = pending \cup {[t EXCEPT !.attempt = @ + 1]}
    /\ UNCHANGED <<acked, dead, lost>>

DeadLetter(t) ==
    /\ t \in inFlight
    /\ inFlight' = inFlight \ {t}
    /\ dead' = dead \cup {t}
    /\ UNCHANGED <<pending, acked, lost>>

Lose(t) ==
    /\ PortFails
    /\ t \in inFlight
    /\ inFlight' = inFlight \ {t}
    /\ lost' = lost \cup {t}
    /\ UNCHANGED <<pending, acked, dead>>

Next == \/ \E m \in Messages, h \in Headers : Publish(m, h)
        \/ \E t \in pending : Take(t)
        \/ \E t \in inFlight : Ack(t) \/ Retry(t) \/ DeadLetter(t) \/ Lose(t)

Spec == Init /\ [][Next]_vars
=============================================================================
