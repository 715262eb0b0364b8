--------------------------- MODULE MessageHandler ---------------------------
(***************************************************************************)
(* defineMessageHandler: the handler a consumer is given.  It validates    *)
(* the envelope, calls `handle` inside runInContext and settles through    *)
(* its ConsumeContext, telling onOutcome before each settling.             *)
(*                                                                         *)
(* A slot runs one invocation at a time.  The callbacks handle,            *)
(* onExhausted, onOutcome and runInContext are the service's; the context  *)
(* is an adapter's, and here it may refuse any operation (ok = FALSE).     *)
(* Module Pipeline joins this module to the one consumer of the package.   *)
(***************************************************************************)
EXTENDS Retry, Sequences

CONSTANTS Slots,          \* the invocations that may be active at once
          Attempts,       \* the attempt numbers a context may carry
          HandlerMax,     \* config.retry.maxAttempts
          ObserverFails,  \* whether onOutcome may throw
          ContextFails    \* whether runInContext may reject by itself

ASSUME MessageHandlerAssumption ==
    /\ Attempts \subseteq Nat \ {0}
    /\ HandlerMax \in Int
    /\ ObserverFails \in BOOLEAN
    /\ ContextFails \in BOOLEAN

VARIABLES phase,  \* per slot: what the invocation awaits, or how it ended
          inv     \* per slot: the invocation's data and what it has done

vars == <<phase, inv>>

Invocation(isValid, n) ==
    [valid     |-> isValid,  \* parseSchema(...).ok
     attempt   |-> n,
     handled   |-> FALSE,    \* handle resolved
     exhausted |-> "no",     \* onExhausted: no, running, resolved or rejected
     reports   |-> <<>>,     \* the kinds given to onOutcome, oldest first
     asked     |-> <<>>]     \* the context operations called, with their result

Init == /\ phase = [s \in Slots |-> "idle"]
        /\ inv = [s \in Slots |-> Invocation(FALSE, 1)]

Report(i, kind) == [i EXCEPT !.reports = Append(@, kind)]
LastOk(i) == i.asked[Len(i.asked)].ok

Become(s, ph, i) == /\ phase' = [phase EXCEPT ![s] = ph]
                    /\ inv' = [inv EXCEPT ![s] = i]

Ask(s, ph, i, op, ok) ==
    Become(s, ph, [i EXCEPT !.asked = Append(@, [op |-> op, ok |-> ok])])

\* report(...); await context.op()
ReportThenAsk(s, i, kind, op, ok) ==
    \/ Ask(s, "settling", Report(i, kind), op, ok)
    \/ ObserverFails /\ Become(s, "threw", Report(i, kind))

\* Mutant: the dead-letter of the last attempt does not wait for onExhausted.
MutantCatch(s, i, ok) ==
    \/ /\ DecideRetry(i.attempt, HandlerMax) = "retry"
       /\ ReportThenAsk(s, i, "retry", "retry", ok)
    \/ /\ DecideRetry(i.attempt, HandlerMax) = "dlq"
       /\ ReportThenAsk(s, i, "exhausted", "deadLetter", ok)

\* The catch block.  It catches what handle throws, and what onOutcome and
\* context.ack throw after handle resolved.
Catch(s, i, ok) ==
    \/ /\ DecideRetry(i.attempt, HandlerMax) = "retry"
       /\ ReportThenAsk(s, i, "retry", "retry", ok)
    \/ /\ DecideRetry(i.attempt, HandlerMax) = "dlq"
       /\ Become(s, "exhausting", [i EXCEPT !.exhausted = "running"])
-----------------------------------------------------------------------------
Active(s) == phase[s] \notin {"idle", "returned", "threw"}

\* Mutant: the attempts are counted from zero.
MutantBegin(s, isValid, n) ==
    /\ ~Active(s)
    /\ Become(s, "parsed", Invocation(isValid, n - 1))

Begin(s, isValid, n) ==
    /\ ~Active(s)
    /\ Become(s, "parsed", Invocation(isValid, n))

\* Mutant: a poison message is acknowledged and dropped.
MutantPoison(s, ok) ==
    /\ phase[s] = "parsed"
    /\ ~inv[s].valid
    /\ ReportThenAsk(s, inv[s], "poison", "ack", ok)

Poison(s, ok) ==
    /\ phase[s] = "parsed"
    /\ ~inv[s].valid
    /\ ReportThenAsk(s, inv[s], "poison", "deadLetter", ok)

\* runInContext calls run, or rejects without.
CallHandle(s) ==
    /\ phase[s] = "parsed"
    /\ inv[s].valid
    /\ \/ Become(s, "handling", inv[s])
       \/ ContextFails /\ Become(s, "threw", inv[s])

HandleResolves(s, ok) ==
    LET done == Report([inv[s] EXCEPT !.handled = TRUE], "handled") IN
    /\ phase[s] = "handling"
    /\ \/ Ask(s, "acking", done, "ack", ok)
       \/ ObserverFails /\ Catch(s, done, ok)

HandleRejects(s, ok) ==
    /\ phase[s] = "handling"
    /\ Catch(s, inv[s], ok)

\* Mutant: an acknowledgement that was accepted is taken for a failure.
MutantAckEnds(s, ok) ==
    /\ phase[s] = "acking"
    /\ Catch(s, inv[s], ok)

\* context.ack() ended; run returns, and then runInContext does.
AckEnds(s, ok) ==
    /\ phase[s] = "acking"
    /\ \/ LastOk(inv[s]) /\ Become(s, "returned", inv[s])
       \/ LastOk(inv[s]) /\ ContextFails /\ Become(s, "threw", inv[s])
       \/ ~LastOk(inv[s]) /\ Catch(s, inv[s], ok)

\* Mutant: an onExhausted that rejects is logged and forgotten.
MutantExhaustedRejects(s, ok) ==
    /\ phase[s] = "exhausting"
    /\ ReportThenAsk(s, [inv[s] EXCEPT !.exhausted = "rejected"], "exhausted", "deadLetter", ok)

ExhaustedRejects(s, ok) ==
    /\ phase[s] = "exhausting"
    /\ Become(s, "threw", [inv[s] EXCEPT !.exhausted = "rejected"])

\* onExhausted resolves, or there is none.
ExhaustedResolves(s, ok) ==
    /\ phase[s] = "exhausting"
    /\ ReportThenAsk(s, [inv[s] EXCEPT !.exhausted = "resolved"], "exhausted", "deadLetter", ok)

\* context.retry() or context.deadLetter() ended.
SettlingEnds(s) ==
    /\ phase[s] = "settling"
    /\ \/ LastOk(inv[s]) /\ Become(s, "returned", inv[s])
       \/ ~LastOk(inv[s]) /\ Become(s, "threw", inv[s])
       \/ ContextFails /\ inv[s].valid /\ Become(s, "threw", inv[s])

\* A step of an active invocation; ok is the result of the operation it asks for.
Step(s, ok) ==
    \/ Poison(s, ok)
    \/ CallHandle(s)
    \/ HandleResolves(s, ok)
    \/ HandleRejects(s, ok)
    \/ AckEnds(s, ok)
    \/ ExhaustedResolves(s, ok)
    \/ ExhaustedRejects(s, ok)
    \/ SettlingEnds(s)

Next == \E s \in Slots :
           \/ \E isValid \in BOOLEAN, n \in Attempts : Begin(s, isValid, n)
           \/ \E ok \in BOOLEAN : Step(s, ok)

Spec == Init /\ [][Next]_vars
-----------------------------------------------------------------------------
Phases == {"idle", "parsed", "handling", "acking", "exhausting", "settling", "returned", "threw"}
Invocations == [valid : BOOLEAN, attempt : Nat \ {0}, handled : BOOLEAN,
                exhausted : {"no", "running", "resolved", "rejected"},
                reports : Seq({"poison", "handled", "retry", "exhausted"}),
                asked : Seq([op : {"ack", "retry", "deadLetter"}, ok : BOOLEAN])]

TypeOK == /\ phase \in [Slots -> Phases]
          /\ inv \in [Slots -> Invocations]

Done(i) == {i.asked[k].op : k \in {j \in DOMAIN i.asked : i.asked[j].ok}}

\* The context settles an invocation once at most: after an operation it
\* accepted, no path of the handler asks for another (lines 69-82).
SettledAtMostOnce ==
    \A s \in Slots : \A j, k \in DOMAIN inv[s].asked :
        inv[s].asked[j].ok /\ inv[s].asked[k].ok => j = k

\* Lines 40 and 79, README:58: a valid message is dead-lettered at its last
\* attempt only, after onExhausted resolved, and not settled at all when it
\* rejects; a poison one is only ever dead-lettered.
DeadLetterIsEarned ==
    \A s \in Slots :
        LET i == inv[s] IN
        /\ i.valid /\ "deadLetter" \in Done(i) =>
              i.attempt >= HandlerMax /\ i.exhausted = "resolved"
        /\ i.exhausted = "rejected" => Done(i) = {}
        /\ ~i.valid => Done(i) \subseteq {"deadLetter"} /\ ~i.handled

\* When the handler returns, the last outcome it told agrees with the one
\* operation the context carried out.
OutcomeAgrees ==
    \A s \in Slots :
        phase[s] = "returned" =>
            LET i == inv[s]  last == i.reports[Len(i.reports)] IN
            Done(i) = IF last = "handled" THEN {"ack"}
                      ELSE IF last = "retry" THEN {"retry"} ELSE {"deadLetter"}
=============================================================================
