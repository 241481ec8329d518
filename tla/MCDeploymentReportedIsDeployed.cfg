CONSTANTS
    Artifacts = {a1}
    NoArtifact = NoArtifact
    MaxAttempts = 2

SPECIFICATION Spec

PROPERTIES
    ReportedIsDeployed

\* The node may have made all its attempts.
CHECK_DEADLOCK FALSE
