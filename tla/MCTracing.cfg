\* A service that registered a context manager.
SPECIFICATION LoggingSpec
CONSTANTS
    Calls = {c1, c2, c3}
    Handles = {h1}
    ContextManager = TRUE
    NoCall = NoCall
    LoggerOptions <- SomeOptions
    LogCalls <- SomeLogCalls
    Bindings <- SomeBindings
SYMMETRY Symmetry
CHECK_DEADLOCK FALSE
INVARIANTS
    TypeOK
    SpansAccounted
    TraceContinues
    LinesTellTheirOperation
