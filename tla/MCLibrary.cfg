\* Limits of a few units stand for 255, 2, 100, 8, 72, 255 and 100.
SPECIFICATION Spec
CONSTANTS
    EmailMax = 5
    NameMin = 2
    NameMax = 4
    PasswordMin = 3
    PasswordMaxBytes = 7
    FileNameMax = 4
    ContentTypeMax = 4
    Letters <- SomeLetters
    VideoExtensions <- OneExtension
    Packages = {core, http}
    Infinity = 64
    NoService = NoService
    Arguments <- AllArguments
CHECK_DEADLOCK FALSE
INVARIANTS
    ValidationAgrees
    ValuesAreStable
    BumpIsHighest
    MessagesArrive
    FirstFailureWins
    RetryAdviceHolds
