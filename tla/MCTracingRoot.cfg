\* A service that calls initTracing and nothing else.
SPECIFICATION LoggingSpec
CONSTANTS
    Calls = {c1}
    Handles = {h1}
    ContextManager = FALSE
    NoCall = NoCall
    LoggerOptions = {}
    LogCalls = {}
    Bindings = {}
CHECK_DEADLOCK FALSE
INVARIANT
    HeadersNameSpan
