CONSTANTS
    Deployments = {d1, d2}
    NoDeployment = NoDeployment

SPECIFICATION Spec

INVARIANTS
    TypeOK
    NoLostWakeup
PROPERTIES
    SettlesOnce

\* The node may have every result and nothing left to poll.
CHECK_DEADLOCK FALSE
