------------------------------- MODULE Retry -------------------------------
(***************************************************************************)
(* The pure functions a delivery is decided by: what attempt a message's   *)
(* header says, and whether a failed attempt is retried or dead-lettered.  *)
(*                                                                         *)
(* A header is the number its text denotes (JavaScript's Number(raw)).     *)
(* NoNumber stands for every header that is absent, empty, not a numeral   *)
(* or infinite: the code treats these, 0 and every negative number alike.  *)
(* A fraction, which no publisher sends, is left out.                      *)
(***************************************************************************)
EXTENDS Integers

NoNumber == 0

ReadAttempt(header) == IF header >= 1 THEN header ELSE 1

\* Mutant: the last attempt is retried once more.
MutantDecideRetry(attempt, maxAttempts) ==
    IF attempt <= maxAttempts THEN "retry" ELSE "dlq"

\* decideRetry throws a RangeError below 1; ReadAttempt never gives less, and
\* AttemptsWithinBudget of module Consumer checks that it never has to.
DecideRetry(attempt, maxAttempts) ==
    IF attempt < 1 THEN "RangeError"
    ELSE IF attempt < maxAttempts THEN "retry" ELSE "dlq"
=============================================================================
