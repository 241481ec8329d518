CONSTANTS
    Names <- MCNames
    Declarations <- MCDeclarations
    Objects = {o1}
    Iterators = {it}
    Values = {v1, v2}
    NoObject = noobject
    NoValue = novalue
    MaxLen = 2
    MaxWrites = 2

SPECIFICATION FairSpec

INVARIANTS
    TypeOK
    OnlySharedOutlive
    PanicsOnlyAfterCommit
    IterationIsExact
    HashesDoNotFail

PROPERTY IterationsEnd
