CONSTANTS
    Artifacts = {a1, a2}
    NoArtifact = NoArtifact
    MaxAttempts = 3

SPECIFICATION Spec

INVARIANTS
    TypeOK
    NoUnexpectedCompletion
    NoOrphanFuture
    RegisteredIsLoaded
    OnlyRetriesAreLost
PROPERTIES
    ResolvesUnlessDead
    KeepsContract

\* The node may have made all its attempts.
CHECK_DEADLOCK FALSE
