CONSTANTS
    Threads = {node, loop}
    MaxReads = 1

SPECIFICATION Spec

INVARIANTS
    BytesAreRusts

\* Each thread may have made all its reads.
CHECK_DEADLOCK FALSE
