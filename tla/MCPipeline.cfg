\* Both sides configured alike; handle, onExhausted and onOutcome may throw.
SPECIFICATION LiveSpec
CONSTANTS
    good = good
    bad = bad
    Messages <- OneOfEach
    PoisonMessages <- OnlyBad
    Loops = {l1, l2}
    MaxAttempts = 3
    HandlerMax = 3
    Headers = {0, 4}
    Delayed = TRUE
    PortFails = FALSE
    ObserverFails = TRUE
    ContextFails = FALSE
    NoMessage = NoMessage
INVARIANTS
    OutcomesAreEarned
    CallsWithinBudget
PROPERTIES
    ServedWhileRunning
    EveryMessageEnds
