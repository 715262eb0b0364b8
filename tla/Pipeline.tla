------------------------------ MODULE Pipeline ------------------------------
(***************************************************************************)
(* A consumer running a defined message handler: modules Consumer and      *)
(* MessageHandler joined.  A loop that takes a message calls the handler   *)
(* with a context; an operation the handler asks for is the consumer's     *)
(* settle, in the same step; the end of the handler's promise resumes the  *)
(* loop.  The two are configured apart: options.retry of the consumer      *)
(* (MaxAttempts) and config.retry of the handler (HandlerMax).             *)
(***************************************************************************)
EXTENDS Retry, Sequences

CONSTANTS Messages, Loops, MaxAttempts, Headers, Delayed, PortFails, NoMessage,
          HandlerMax, ObserverFails, ContextFails,
          PoisonMessages    \* the messages whose envelope does not match the schema

ASSUME PipelineAssumption ==
    /\ MaxAttempts \in Int
    /\ HandlerMax \in Int
    /\ Headers \subseteq Int
    /\ {Delayed, PortFails, ObserverFails, ContextFails} \subseteq BOOLEAN
    /\ NoMessage \notin [id : Messages, header : Int]
    /\ PoisonMessages \subseteq Messages

VARIABLES running, queue, wire, dlq, pc, msg, settled, sent, acked, lost,  \* Consumer
          phase, inv,                                                      \* MessageHandler
          handleCalls,   \* history: per message, the calls of handle
          handled,       \* history: the messages handle resolved for
          giveUps        \* history: per message, the calls of onExhausted

C == INSTANCE Consumer
H == INSTANCE MessageHandler WITH Slots <- Loops, Attempts <- Nat \ {0}

history == <<handleCalls, handled, giveUps>>
handlerVars == <<phase, inv, history>>
consumerVars == <<running, queue, wire, dlq, pc, msg, settled, sent, acked, lost>>
vars == <<consumerVars, handlerVars>>

Init == /\ C!Init
        /\ H!Init
        /\ handleCalls = [m \in Messages |-> 0]
        /\ handled = {}
        /\ giveUps = [m \in Messages |-> 0]

Publish == /\ \E m \in Messages, h \in Headers : C!Publish(m, h)
           /\ UNCHANGED handlerVars

Arrive == /\ \E m \in wire : C!Arrive(m)
          /\ UNCHANGED handlerVars

Stop == C!Stop /\ UNCHANGED handlerVars

\* Mutant: the context carries the attempt after this one.
MutantInvoke(l) ==
    \/ pc'[l] # "handling" /\ UNCHANGED <<phase, inv>>
    \/ /\ pc'[l] = "handling"
       /\ H!Begin(l, msg'[l].id \notin PoisonMessages, C!Attempt(l)' + 1)

\* The handler is called with the message the loop has just taken, if any.
Invoke(l) ==
    \/ pc'[l] # "handling" /\ UNCHANGED <<phase, inv>>
    \/ /\ pc'[l] = "handling"
       /\ H!Begin(l, msg'[l].id \notin PoisonMessages, C!Attempt(l)')

Start(l) == C!Start(l) /\ Invoke(l) /\ UNCHANGED history
Continue(l) == C!Continue(l) /\ Invoke(l) /\ UNCHANGED history

\* The context: ack, retry and deadLetter call settle, which resolves at once for
\* a delivery that is settled.
Action == [ack |-> "ack", retry |-> "retry", deadLetter |-> "dlq"]

Context(l, ok) ==
    LET asked == inv'[l].asked  op == asked[Len(asked)].op IN
    \/ asked = inv[l].asked /\ UNCHANGED consumerVars
    \/ asked # inv[l].asked /\ settled[l] /\ ok /\ UNCHANGED consumerVars
    \/ asked # inv[l].asked /\ C!HandlerSettles(l, Action[op], ok)

Record(l) ==
    LET m == msg[l].id
        began(ph) == phase[l] # ph /\ phase'[l] = ph
    IN  /\ handleCalls' = [handleCalls EXCEPT ![m] = IF began("handling") THEN @ + 1 ELSE @]
        /\ handled' = IF inv'[l].handled THEN handled \cup {m} ELSE handled
        /\ giveUps' = [giveUps EXCEPT ![m] = IF began("exhausting") THEN @ + 1 ELSE @]

HandlerStep(l) ==
    /\ pc[l] = "handling"
    /\ \E ok \in BOOLEAN : H!Step(l, ok) /\ Context(l, ok)
    /\ Record(l)

\* The promise of the handler settled: the consumer resumes after `await handler`.
Return(l) == /\ phase[l] = "returned"
             /\ C!Resolve(l)
             /\ UNCHANGED handlerVars

\* Mutant: a rejected handler is taken for one that settled its message.
MutantThrow(l) == /\ phase[l] = "threw"
                  /\ C!Resolve(l)
                  /\ UNCHANGED handlerVars

\* Mutant: the consumer swallows what the handler threw, and settles nothing.
MutantSwallow(l) ==
    /\ phase[l] = "threw"
    /\ pc[l] = "handling"
    /\ pc' = [pc EXCEPT ![l] = "next"]
    /\ UNCHANGED <<running, queue, wire, dlq, msg, settled, sent, acked, lost, handlerVars>>

Throw(l) == /\ phase[l] = "threw"
            /\ \E ok \in BOOLEAN : C!Reject(l, ok)
            /\ UNCHANGED handlerVars

Next == \/ Publish
        \/ Arrive
        \/ Stop
        \/ \E l \in Loops :
              Start(l) \/ Continue(l) \/ HandlerStep(l) \/ Return(l) \/ Throw(l)

Spec == Init /\ [][Next]_vars

\* Every callback of the service settles its promise, the event loop resumes
\* what awaited it, and the broker delivers.  Nobody has to call start or stop.
Fairness ==
    /\ \A l \in Loops : WF_vars(Continue(l) \/ HandlerStep(l) \/ Return(l) \/ Throw(l))
    /\ WF_vars(Arrive)

LiveSpec == Spec /\ Fairness
-----------------------------------------------------------------------------
\* README:53-56: a message is acknowledged only when handle resolved for it, so
\* the consumer's automatic ack never swallows one that was not handled; it is
\* dead only as poison, or after the one call of onExhausted.
OutcomesAreEarned ==
    /\ \A m \in C!AckedIds : m \in handled /\ m \notin PoisonMessages
    /\ \A m \in C!DlqIds : m \in PoisonMessages \/ giveUps[m] = 1

\* Handler lines 40 and 74: however callbacks fail, handle runs no more often
\* than the budget says and never for a poison message, and onExhausted runs
\* once, whatever fails after it.  It needs MaxAttempts <= HandlerMax.
CallsWithinBudget ==
    \A m \in Messages :
        /\ handleCalls[m] <= IF m \in PoisonMessages THEN 0
                             ELSE IF MaxAttempts > 1 THEN MaxAttempts ELSE 1
        /\ giveUps[m] <= 1

\* consumer.ts:80-89: while a loop is active and nobody stops the consumer, a
\* waiting message is taken, whatever the others need.
ServedWhileRunning == C!ServedWhileRunning

\* Every message that was published is handled and acknowledged, or dead, if
\* start() is called again: it returns while a retry is still on the wire.
EveryMessageEnds ==
    (\A l \in Loops : WF_vars(Start(l)))
        => \A m \in Messages : m \in sent ~> m \in C!AckedIds \cup C!DlqIds
=============================================================================
