\* Safety: a broker behind the port, an enqueue that may throw, two loops.
SPECIFICATION Spec
CONSTANTS
    Messages = {m1, m2, m3}
    Loops = {l1, l2}
    MaxAttempts = 2
    Headers = {0, 5}
    Delayed = TRUE
    PortFails = TRUE
    NoMessage = NoMessage
SYMMETRY Symmetry
INVARIANTS
    TypeOK
    ExactlyOnePlace
    AttemptsWithinBudget
PROPERTY
    ImplementsDelivery
