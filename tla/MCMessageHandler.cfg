SPECIFICATION Spec
CONSTANTS
    Slots = {s1, s2}
    Attempts = {1, 2, 3}
    HandlerMax = 2
    ObserverFails = TRUE
    ContextFails = TRUE
SYMMETRY Symmetry
INVARIANTS
    TypeOK
    SettledAtMostOnce
    DeadLetterIsEarned
    OutcomeAgrees
