\* One message, one loop and an enqueue that throws.
SPECIFICATION Spec
CONSTANTS
    Messages = {m1}
    Loops = {l1}
    MaxAttempts = 2
    Headers = {0}
    Delayed = FALSE
    PortFails = TRUE
    NoMessage = NoMessage
INVARIANT
    NoMessageLost
