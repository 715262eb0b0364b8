\* Three pushes: one that runs, one that waits and one that takes its place;
\* the merges of the Version Packages PR trigger jobs besides.
SPECIFICATION LiveSpec
CONSTANT MaxPushes = 3
CHECK_DEADLOCK FALSE
INVARIANTS
    TypeOK
    CoveredOnce
    QuietMeansDone
PROPERTIES
    EveryChangesetReleased
    ImplementsReleasing
