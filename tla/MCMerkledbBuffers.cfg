CONSTANTS
    Threads = {node, loop}
    MaxReads = 4

SPECIFICATION Spec

INVARIANTS
    TypeOK
    OneBufferEach
    AloneIsRight

\* Each thread may have made all its reads.
CHECK_DEADLOCK FALSE
