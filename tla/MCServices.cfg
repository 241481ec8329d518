CONSTANTS
    Instances = {s1, s2, s3}
    MaxBlocks = 2
    FirstPort = 65533
    LastPort = 65535
    FileNames = {wheel, dotted}
    PlainNames = {wheel}
    wheels = path
    Paths = {path}
    Path <- MCPath
    BadNames = {text}
    Bodies = {b1, b2}
    NoFile = nofile
    Torn = torn
    MaxFiles = 2
    UploadBlocks = 1

SPECIFICATION ApiSpec
SYMMETRY Symmetry
CONSTRAINT UploadsBesideNone

INVARIANTS
    ApiTypeOK
    NoneSkipped
    AggregatorIsConsistent
    StoppedWasBroken
    BrokenIsStopped
    ListedIsAccepted
    PortsAreDistinct
    PageIsRight
    AnsweredIsStored

PROPERTY PageFailsOnlyIf

\* The last block, and a panic, end the run.
CHECK_DEADLOCK FALSE
