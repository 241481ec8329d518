------------------------------ MODULE MCAccess ------------------------------
(* Services with one index: all classes of index, one without its generics   *)
(* (as in the docstring of Schema), one that is a map of the developer's own *)
(* by the name of a ProofMapIndex, and declarations that are refused.        *)
EXTENDS Access

MCNames == {"index"}

Of(class, generic) == [name |-> class, class |-> class, generic |-> generic]
Called(name, type) == [type EXCEPT !.name = name]
Declaration(type, stateHash) ==
    [bases |-> {"WithSchema", "Named"}, schema |-> "Schema",
     indices |-> [name \in MCNames |-> type],
     hashGiven |-> TRUE, stateHash |-> stateHash]

MCDeclarations ==
    LET list == Of("ListIndex", "bytes")
        map == Of("ProofMapIndex", "pair") IN
    {Declaration(list, <<>>),
     Declaration(Of("ProofListIndex", "bytes"), <<"index">>),
     Declaration(map, <<"index">>),
     Declaration(Of("ProofMapIndex", "none"), <<"index">>),
     Declaration(Called("ProofMapIndex", Of("MapIndex", "pair")), <<"index">>),
     Declaration(Called("own", map), <<"index">>),
     Declaration(Of("MapIndex", "pair"), <<"index">>),
     Declaration(Called("own", Of("no_index", "none")), <<>>),
     Declaration(map, <<"other">>),
     [Declaration(map, <<>>) EXCEPT !.bases = {"WithSchema"}]}
=============================================================================
