CONSTANTS
    Instances = {s1, s2}
    MaxBlocks = 1
    FirstPort = 8080
    LastPort = 65535
    FileNames = {wheel}
    PlainNames = {wheel}
    wheels = path
    Paths = {path}
    Path <- MCPath
    BadNames = {text}
    Bodies = {b1, b2}
    NoFile = nofile
    Torn = torn
    MaxFiles = 1
    UploadBlocks = 1

SPECIFICATION ApiSpec
SYMMETRY Symmetry

INVARIANTS
    FailedStartIsDisabled

\* The last block, and a panic, end the run.
CHECK_DEADLOCK FALSE
