------------------------------- MODULE Errors -------------------------------
(***************************************************************************)
(* The error classes and what they advise: which status to answer with,    *)
(* whether to try again, and how long to wait before the next attempt.     *)
(***************************************************************************)
EXTENDS Integers

CONSTANT Infinity   \* the numbers from here on are the double's Infinity

ASSUME InfinityAssumption == Infinity \in Nat \ {0}

\* An option is the set of the values given for it: empty when it is left out.
Given(option, default) == IF option = {} THEN default ELSE CHOOSE x \in option : TRUE

Kind(class) ==
    CASE class \in {"DomainError", "ValidationError"} -> "domain"
      [] class \in {"ApplicationError", "NotFoundError", "ConflictError",
                    "UnauthorizedError", "ForbiddenError"} -> "application"
      [] class \in {"InfrastructureError", "TimeoutError", "UnavailableError",
                    "InternalServerError"} -> "infrastructure"

DefaultStatus ==
    [DomainError |-> 400, ValidationError |-> 400, ApplicationError |-> 400,
     NotFoundError |-> 404, ConflictError |-> 409, UnauthorizedError |-> 401,
     ForbiddenError |-> 403, InfrastructureError |-> 500, TimeoutError |-> 504,
     UnavailableError |-> 503, InternalServerError |-> 500]
Classes == DOMAIN DefaultStatus

\* Two constructors take a status; the other classes fix theirs.
StatusOf(class, options) ==
    IF class \in {"ApplicationError", "InfrastructureError"}
    THEN Given(options.statusCode, DefaultStatus[class]) ELSE DefaultStatus[class]

\* Mutant: an InternalServerError has the default of its base class.
MutantRetryable(class, options) == Given(options.retryable, TRUE)

Retryable(class, options) == Given(options.retryable, class # "InternalServerError")

\* `new class(code, message, options)`.  Only infrastructure errors have the flag.
New(class, options) ==
    [name |-> class, kind |-> Kind(class), statusCode |-> StatusOf(class, options),
     details |-> options.details, cause |-> options.cause,
     retryable |-> IF Kind(class) = "infrastructure"
                   THEN {Retryable(class, options)} ELSE {}]

\* toJSON of an error: the fields of the error without its cause and those it does not have.
ErrorToJSON(error) ==
    [f \in DOMAIN error \ ({"cause"} \cup {g \in {"details", "retryable"} : error[g] = {}})
        |-> error[f]]

Unknown == [name |-> "unknown"]   \* a thrown value that is no BaseError

IsBaseError(thrown) == thrown.name \in Classes

IsRetryableError(thrown) == IsBaseError(thrown) => thrown.retryable = {TRUE}
-----------------------------------------------------------------------------
\* computeBackoffMs, on the doubles 0..Infinity and NaN.

NaN == -1
RangeError == -2

\* Math.pow for a whole exponent, which is infinite once a power on the way is.
Power(m, n) ==
    LET p[k \in 0..n] == IF k = 0 THEN 1
                         ELSE IF m * p[k - 1] < Infinity THEN m * p[k - 1] ELSE Infinity
    IN p[n]
Times(a, b) ==
    IF a = 0 /\ b = Infinity THEN NaN
    ELSE IF a * b < Infinity THEN a * b ELSE Infinity
Least(a, b) == IF NaN \in {a, b} THEN NaN ELSE IF a < b THEN a ELSE b

\* Mutant: the exponent is the attempt.
MutantBackoff(attempt, o) ==
    IF attempt < 1 THEN RangeError
    ELSE Least(Times(o.baseDelayMs, Power(Given(o.multiplier, 2), attempt)), o.maxDelayMs)

ComputeBackoffMs(attempt, o) ==
    IF attempt < 1 THEN RangeError
    ELSE Least(Times(o.baseDelayMs, Power(Given(o.multiplier, 2), attempt - 1)), o.maxDelayMs)
=============================================================================
