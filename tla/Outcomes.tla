------------------------------ MODULE Outcomes ------------------------------
(***************************************************************************)
(* Result, the outcome of an operation that may fail, with its             *)
(* combinators, and the readiness check, which runs the pings of a service *)
(* until one of them fails.                                                *)
(***************************************************************************)
EXTENDS Integers, SequencesExt

Ok(value) == [ok |-> TRUE, value |-> value]
Err(error) == [ok |-> FALSE, error |-> error]

Match(result, onOk(_), onErr(_)) ==
    IF result.ok THEN onOk(result.value) ELSE onErr(result.error)

Map(result, fn(_)) == IF result.ok THEN Ok(fn(result.value)) ELSE result
MapErr(result, fn(_)) == IF result.ok THEN result ELSE Err(fn(result.error))
AndThen(result, fn(_)) == IF result.ok THEN fn(result.value) ELSE result
UnwrapOr(result, fallback) == IF result.ok THEN result.value ELSE fallback
UnwrapOrElse(result, fn(_)) == IF result.ok THEN result.value ELSE fn(result.error)

\* Mutant: the loop goes on after a failure, and the last one is returned.
MutantCollect(collected, result) ==
    IF ~result.ok THEN result
    ELSE IF ~collected.ok THEN collected
    ELSE Ok(Append(collected.value, result.value))

\* One round of the loop of `all`, which returns at the first failure.
Collect(collected, result) ==
    IF ~collected.ok THEN collected
    ELSE IF ~result.ok THEN result
    ELSE Ok(Append(collected.value, result.value))

All(results) == FoldLeft(Collect, Ok(<<>>), results)
-----------------------------------------------------------------------------
\* Readiness.  A ping is up, throws an Error with its message, throws another
\* value, or never settles, and then neither does the check.

Up == [settles |-> TRUE, throws |-> FALSE]
NeverSettles == [settles |-> FALSE]
ThrowsError(message) == [settles |-> TRUE, throws |-> TRUE, isError |-> TRUE, message |-> message]
ThrowsOther == [settles |-> TRUE, throws |-> TRUE, isError |-> FALSE]

Ready == [ready |-> TRUE]
NotReady(reason) == [ready |-> FALSE, reason |-> reason]
Waits == [waits |-> TRUE]   \* the promise of the check is pending for ever

\* One round of the loop: the checks run one after the other.
Ping(checked, ping) ==
    IF checked.result # Ready THEN checked
    ELSE [pings |-> checked.pings + 1,
          result |-> IF ~ping.settles THEN Waits
                     ELSE IF ~ping.throws THEN Ready
                     ELSE NotReady(IF ping.isError THEN ping.message ELSE "unknown")]

\* What the check answers, and how many pings it made.
ReadinessCheck(checks) == FoldLeft(Ping, [pings |-> 0, result |-> Ready], checks)
=============================================================================
