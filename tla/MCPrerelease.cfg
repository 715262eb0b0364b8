\* Three commits: one before the last push, one of it and one after.
SPECIFICATION Spec
CONSTANTS
    core = core
    http = http
    Packages <- CoreAndHttp
    Commits <- AnyCommit
    DependsOn <- HttpOnCore
    MaxCommits = 3
INVARIANTS
    TypeOK
    SnapshotIsComplete
    CompleteUnlessCut
