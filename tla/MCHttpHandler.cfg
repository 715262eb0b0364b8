\* Ticks: the cache is trusted for longer than the cooldown, a token may expire
\* while it waits for a fetch.
SPECIFICATION LiveSpec
CONSTANTS
    k = k
    Requests = {r1, r2}
    HelperStatuses = {200}
    HelperThrows = TRUE
    ServiceErrors = {"ConflictError"}
    Keys <- OneKey
    Tokens <- SomeTokens
    Lifetimes = {0, 2}
    CooldownMs = 1
    TimeoutMs = 1
    MaxAge = 2
    Tolerance = 1
INVARIANTS
    TypeOK
    CallersTreatedFairly
PROPERTIES
    AcceptedIsGenuine
    ValidTokenServed
    RefetchSpaced
    EveryRequestEnds
