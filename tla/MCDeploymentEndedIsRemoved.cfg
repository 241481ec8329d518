CONSTANTS
    Artifacts = {a1}
    NoArtifact = NoArtifact
    MaxAttempts = 1

SPECIFICATION Spec

PROPERTIES
    EndedIsRemoved

\* The node may have made all its attempts.
CHECK_DEADLOCK FALSE
