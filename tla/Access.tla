------------------------------- MODULE Access -------------------------------
(***************************************************************************)
(* The database as a service sees it. The node lends the runtime an access *)
(* for the time of a call; handlers of the HTTP API have one that is valid *)
(* for ever and reads the snapshot of the last block. Services make index  *)
(* objects and iterators of an access, may keep them for longer, and may   *)
(* share them: their code runs on the node's thread and, for the handlers  *)
(* of their API, on the event loop's. Python checks what it hands to Rust, *)
(* where a pointer that has gone is used as if it had not; between the     *)
(* check and the end of the call the other thread goes on.                 *)
(*                                                                         *)
(* A map has one key: its contents are a sequence of at most one value.    *)
(***************************************************************************)
EXTENDS Schemas, FiniteSets

CONSTANTS
    Names,        \* names of indices
    Declarations, \* classes with a schema a developer may write
    Objects,      \* index objects alive at a time
    Iterators,    \* iterators alive at a time
    Values,
    NoObject,
    NoValue,
    MaxLen,       \* bound: items in a list
    MaxWrites     \* bound: writes

Threads == {"node", "loop"}

\* index: the wrapper of the Rust index was never made, is made, or is stale:
\* __call__ has replaced the bytes of the name it points to.
\* users: history, the threads that made it or called it; the node, which gives
\* the access back, is a user of whatever is made of an access it lent.
BaseIndex == [access : {"lent", "expired", "api"}, name : Names,
              index : {"none", "made", "stale"}, users : SUBSET Threads]

ASSUME AccessAssumption ==
    /\ Names # {}
    /\ \A d \in Declarations : d.indices \in [Names -> IndexTypes]
    /\ NoObject \notin Objects \union BaseIndex /\ NoValue \notin Values
    /\ MaxLen \in Nat \ {0} /\ MaxWrites \in Nat

VARIABLES
    declaration, \* the class of the service
    lent,        \* access lent by the node: "none", "fork", "snapshot", or "late",
                 \* the snapshot of after_commit which Python takes for a Fork
    store,       \* contents of the indices, as the node's access sees them
    published,   \* the same in BLOCK_SNAPSHOT
    objects,     \* index objects
    iterators,
    hashing,     \* what get_state_hashes did in this call of the node
    doing,       \* what each thread is in the middle of
    writes,      \* number of writes
    panicked     \* Rust panicked (what memory that is gone leads to is left open)

dataVars == <<declaration, store, published>>
vars == <<dataVars, lent, objects, iterators, hashing, doing, writes, panicked>>

Contents == UNION {[1..n -> Values] : n \in 0..MaxLen}

ObjectType == BaseIndex \union {NoObject}

\* of: the object that owns the name, NoObject when that was freed.
IteratorType == [state : {"new", "running", "ended", "raised"}, access : {"lent", "expired", "api"},
                 name : Names, of : Objects \union {NoObject}, pos : 0..MaxLen, len : 0..MaxLen,
                 seen : [1..MaxLen -> Values \union {NoValue}], clean : BOOLEAN]

Idle == [op |-> "none", of |-> NoObject, use |-> "own"]

\* An operation of an index object that reads or writes, the call of an index
\* object, or __next__ of an iterator. use: the wrapper it took is still the
\* object's ("own"), points to a name that was replaced ("stale"), or a fork was
\* used on both threads at once ("raced").
OpType ==
    {Idle} \union [op : {"read", "write", "call"}, of : Objects, use : {"own", "stale", "raced"}]
           \union [op : {"next"}, of : Iterators, use : {"own", "stale", "raced"}]

NoItems == [i \in 1..MaxLen |-> NoValue]
NewIterator(access, name, o, len) ==
    [state |-> "running", access |-> access, name |-> name, of |-> o, pos |-> 0, len |-> len,
     seen |-> NoItems, clean |-> TRUE]

Init ==
    /\ declaration \in {d \in Declarations : Accepted(d)}
    /\ lent = "none"
    /\ store = [name \in Names |-> <<>>]
    /\ published = [name \in Names |-> <<>>]
    /\ objects = [o \in Objects |-> NoObject]
    /\ iterators = [it \in Iterators |->
        [NewIterator("expired", CHOOSE name \in Names : TRUE, NoObject, 0) EXCEPT !.state = "new"]]
    /\ doing = [t \in Threads |-> Idle]
    /\ hashing = "none" /\ writes = 0 /\ panicked = FALSE

Running == ~panicked
Free(t) == Running /\ doing[t].op = "none"
Class(name) == declaration.indices[name].class

\* An iterator under the feet of which something was changed.
Disturbed(i) == [i EXCEPT !.clean = FALSE, !.seen = NoItems]

Touch(matches(_)) ==
    iterators' = [it \in Iterators |->
        IF matches(iterators[it]) THEN Disturbed(iterators[it]) ELSE iterators[it]]

-----------------------------------------------------------------------------
(* Accesses *)

\* A call of the node that writes (initialize, execute, before_commit), or one
\* that reads (state_hashes).
Lend(kind) ==
    /\ Free("node") /\ lent = "none"
    /\ lent' = kind
    /\ UNCHANGED <<dataVars, objects, iterators, hashing, doing, writes, panicked>>

\* PythonRuntime::after_commit: the snapshot of the API is replaced, and
\* before_commit is called with a snapshot.
LendLate ==
    /\ Free("node") /\ lent = "none"
    /\ lent' = "late"
    /\ published' = store
    /\ Touch(LAMBDA it : it.access = "api" /\ store[it.name] # published[it.name])
    /\ UNCHANGED <<declaration, store, objects, hashing, doing, writes, panicked>>

\* Access.__exit__, when the service has returned: whatever it kept is of an
\* access that expired, and whose memory is gone, be the loop's thread in the
\* middle of using it.
Return ==
    /\ Free("node") /\ lent # "none"
    /\ lent' = "none"
    /\ objects' = [o \in Objects |->
        IF objects[o] # NoObject /\ objects[o].access = "lent"
        THEN [objects[o] EXCEPT !.access = "expired"] ELSE objects[o]]
    /\ iterators' = [it \in Iterators |->
        IF iterators[it].access = "lent"
        THEN [Disturbed(iterators[it]) EXCEPT !.access = "expired"] ELSE iterators[it]]
    /\ hashing' = "none"
    /\ UNCHANGED <<dataVars, doing, writes, panicked>>

Valid(access) == access = "api" \/ (access = "lent" /\ lent # "none")
IsFork(access) == access = "lent" /\ lent \in {"fork", "late"}
Seen(access, name) == IF access = "api" THEN published[name] ELSE store[name]

-----------------------------------------------------------------------------
(* Index objects *)

\* Schema.__getattribute__: an object for the index of that name.
Create(t, o, access, name) ==
    /\ Free(t) /\ objects[o] = NoObject
    /\ access = "lent" => lent # "none"
    /\ objects' = [objects EXCEPT ![o] = [access |-> access, name |-> name, index |-> "none",
            users |-> IF access = "lent" THEN {t, "node"} ELSE {t}]]
    /\ UNCHANGED <<dataVars, lent, iterators, hashing, doing, writes, panicked>>

\* The name an object has handed out is freed.
Unname(o) ==
    iterators' = [it \in Iterators |->
        IF iterators[it].of = o THEN [Disturbed(iterators[it]) EXCEPT !.of = NoObject]
                                ELSE iterators[it]]

\* A thread is in the middle of something with this object.
UsedNow(o) == \E t \in Threads : doing[t].op \notin {"none", "next"} /\ doing[t].of = o

\* BaseIndex.__call__: the name is made anew under the wrapper that there is,
\* and under whom it serves on the other thread.
CallBegins(t, o) ==
    /\ Free(t) /\ objects[o] # NoObject
    /\ Unname(o)
    /\ objects' = [objects EXCEPT ![o].index = IF @ = "none" THEN "none" ELSE "stale",
                                  ![o].users = @ \union {t}]
    /\ doing' = [u \in Threads |->
        IF u = t THEN [op |-> "call", of |-> o, use |-> "own"]
        ELSE IF doing[u].op \notin {"none", "next"} /\ doing[u].of = o
        THEN [doing[u] EXCEPT !.use = "stale"] ELSE doing[u]]
    /\ UNCHANGED <<dataVars, lent, hashing, writes, panicked>>

\* Then the index is initialized, which raises when the type lacks its generics
\* or the access has expired. (Two threads may do so with either's name.)
CallEnds(t) ==
    LET o == doing[t].of IN
    /\ Running /\ doing[t].op = "call"
    /\ \/ /\ Instantiated(declaration.indices[objects[o].name]) /\ Valid(objects[o].access)
          /\ \E index \in IF doing[t].use = "own" THEN {"made"} ELSE {"made", "stale"} :
                objects' = [objects EXCEPT ![o].index = index]
       \/ /\ ~(Instantiated(declaration.indices[objects[o].name]) /\ Valid(objects[o].access))
          /\ UNCHANGED objects
    /\ doing' = [doing EXCEPT ![t] = Idle]
    /\ UNCHANGED <<dataVars, lent, iterators, hashing, writes, panicked>>

Drop(t, o) ==
    /\ Free(t) /\ objects[o] # NoObject /\ ~UsedNow(o)
    /\ objects' = [objects EXCEPT ![o] = NoObject]
    /\ Unname(o)
    /\ UNCHANGED <<dataVars, lent, hashing, doing, writes, panicked>>

-----------------------------------------------------------------------------
(* Calls into Rust *)

InRust(t) == doing[t].op \notin {"none", "call"}

\* The access a thread is using there.
Using(t) == IF doing[t].op = "next" THEN iterators[doing[t].of].access
                                   ELSE objects[doing[t].of].access

\* A fork is not made for two threads at once; the snapshots are.
Races(t, access) ==
    /\ access = "lent" /\ lent = "fork"
    /\ \E u \in Threads \ {t} : InRust(u) /\ Using(u) = "lent"

\* The thread enters Rust. What it hands over was checked before; the wrapper
\* may point to a name that the other thread is replacing.
Enters(t, op, of, access, use) ==
    doing' = [u \in Threads |->
        IF u = t THEN [op |-> op, of |-> of, use |-> IF Races(t, access) THEN "raced" ELSE use]
        ELSE IF Races(t, access) THEN [doing[u] EXCEPT !.use = "raced"] ELSE doing[u]]

\* What was handed over is there until the call has ended, and was used alone.
Live(t) ==
    /\ doing[t].use = "own"
    /\ Valid(Using(t))
    /\ doing[t].op = "next" => iterators[doing[t].of].of # NoObject

\* A thread is on its way to Rust, or there, with memory that is gone.
Misuses(t) == InRust(t) /\ ~Live(t)

\* It comes back. Without memory Rust may do anything; shown is that it does
\* nothing, or what it should. (A crash would end the run.)
Leaves(t) == Running /\ doing' = [doing EXCEPT ![t] = Idle]

-----------------------------------------------------------------------------
(* Operations of index objects *)

\* Fault: the access is not checked.
EnsureInitialized(o) == objects[o] # NoObject /\ objects[o].index # "none"

\* BaseIndex.ensure_access, called before every operation.
EnsureAccess(o) ==
    /\ objects[o] # NoObject
    /\ objects[o].index # "none"
    /\ Valid(objects[o].access)

\* Fault: any access will do.
MutableByAny(o) == TRUE

\* BaseIndex.mutable.
Mutable(o) == IsFork(objects[o].access)

\* What push, pop and clear make of a list; a ProofListIndex has push only.
\* (__setitem__ raises: the binding calls a method that Rust does not have.)
ListWrites(class, items) ==
    {Append(items, v) : v \in Values}
    \union IF class = "ListIndex" THEN {<<>>, SubSeq(items, 1, Len(items) - 1)} ELSE {}

\* And put, remove and clear of a map.
MapWrites == {<<v>> : v \in Values} \union {<<>>}

Written(class, items) ==
    Contents \intersect IF class \in Lists THEN ListWrites(class, items) ELSE MapWrites

\* The checks of an operation, in Python; then Rust is called.
OpBegins(t, op, o) ==
    /\ Free(t) /\ EnsureAccess(o)
    /\ op = "write" => Mutable(o) /\ writes < MaxWrites
    /\ writes' = IF op = "write" THEN writes + 1 ELSE writes
    /\ Enters(t, op, o, objects[o].access, IF objects[o].index = "made" THEN "own" ELSE "stale")
    /\ objects' = [objects EXCEPT ![o].users = @ \union {t}]
    /\ UNCHANGED <<dataVars, lent, iterators, hashing, panicked>>

\* Reading operations (get, len, object_hash) change nothing; len of a
\* ProofListIndex raises.
Read(t) ==
    /\ doing[t].op = "read"
    /\ Leaves(t)
    /\ UNCHANGED <<dataVars, lent, objects, iterators, hashing, writes, panicked>>

\* Rust has no way to write to a snapshot. (A list of MaxLen items takes no
\* further one.)
Writable == lent = "fork"

Write(t) ==
    LET name == objects[doing[t].of].name IN
    /\ doing[t].op = "write"
    /\ Leaves(t)
    /\ Live(t) => Writable
    /\ \/ /\ \E items \in Written(Class(name), store[name]) :
                store' = [store EXCEPT ![name] = items]
          /\ Touch(LAMBDA it : it.access = "lent" /\ it.name = name)
       \/ /\ ~Live(t) \/ Written(Class(name), store[name]) = {}
          /\ UNCHANGED <<store, iterators>>
    /\ UNCHANGED <<declaration, published, lent, objects, hashing, writes, panicked>>

WritePanics(t) ==
    /\ doing[t].op = "write"
    /\ Leaves(t)
    /\ Live(t) /\ ~Writable
    /\ panicked' = TRUE
    /\ UNCHANGED <<dataVars, lent, objects, iterators, hashing, writes>>

-----------------------------------------------------------------------------
(* Iterators *)

\* Fault: a ProofListIndex can be measured.
IterableAny(name) == Class(name) \in Lists

\* The iterator asks for the length, which raises for a ProofListIndex: the
\* binding takes it for a ctypes object. Maps have no iterator.
Iterable(name) == Class(name) = "ListIndex"

\* __iter__ reads the length that there is (without memory, any).
Iterate(t, it) ==
    LET o == doing[t].of
        object == objects[o] IN
    /\ doing[t].op = "read" /\ Iterable(object.name)
    /\ Leaves(t)
    /\ iterators[it].state # "running"
    /\ \/ /\ Live(t)
          /\ iterators' = [iterators EXCEPT ![it] =
                NewIterator(object.access, object.name, o, Len(Seen(object.access, object.name)))]
       \/ /\ ~Live(t)
          /\ \E len \in 0..MaxLen :
                iterators' = [iterators EXCEPT ![it] =
                    Disturbed(NewIterator(object.access, object.name, NoObject, len))]
    /\ UNCHANGED <<dataVars, lent, objects, hashing, writes, panicked>>

\* Fault: the last item is not reached.
AtEndTooEarly(it) == it.pos + 1 >= it.len

\* Fault: the end is noticed one item too late.
AtEndTooLate(it) == it.pos > it.len

AtEnd(it) == it.pos >= it.len

\* The iterator of a ListIndex goes on to the next item, that of a
\* ProofListIndex does not.
Advanced(it) == IF Class(it.name) = "ListIndex" THEN it.pos + 1 ELSE it.pos

\* It gives an item, which is recorded as long as nothing has disturbed it.
Gives(it, i, value) ==
    iterators' = [iterators EXCEPT ![it] =
        [i EXCEPT !.seen[i.pos + 1] = IF i.clean THEN value ELSE @,
                  !.pos = Advanced(i)]]

Ends(it, i, state) == iterators' = [iterators EXCEPT ![it] = [i EXCEPT !.state = state]]

\* __next__ is not guarded: it calls Rust as long as it knows of more items. (One
\* thread at a time asks an iterator.)
NextBegins(t, it) ==
    LET i == iterators[it] IN
    /\ Free(t) /\ i.state = "running"
    /\ \A u \in Threads : doing[u].op = "next" => doing[u].of # it
    /\ \/ AtEnd(i) /\ Ends(it, i, "ended") /\ UNCHANGED doing
       \/ ~AtEnd(i) /\ Enters(t, "next", it, i.access, "own") /\ UNCHANGED iterators
    /\ UNCHANGED <<dataVars, lent, objects, hashing, writes, panicked>>

\* With memory that is gone, Rust answers anything, or that there is no such item,
\* which raises.
NextEnds(t) ==
    LET it == doing[t].of
        i == iterators[it]
        items == Seen(i.access, i.name) IN
    /\ doing[t].op = "next"
    /\ Leaves(t)
    /\ \/ Live(t) /\ i.pos < Len(items) /\ Gives(it, i, items[i.pos + 1])
       \/ Live(t) /\ i.pos >= Len(items) /\ Ends(it, i, "raised")
       \/ ~Live(t) /\ Gives(it, Disturbed(i), NoValue)
       \/ ~Live(t) /\ Ends(it, Disturbed(i), "raised")
    /\ UNCHANGED <<dataVars, lent, objects, hashing, writes, panicked>>

-----------------------------------------------------------------------------
(* State hashes *)

\* WithSchema.get_state_hashes, one object per name; without names it makes
\* none.
GetStateHashes ==
    /\ Free("node") /\ lent = "snapshot"
    /\ hashing' = IF \A i \in DOMAIN declaration.stateHash :
                        Hashable(declaration.indices[declaration.stateHash[i]])
                  THEN "answered" ELSE "raised"
    /\ UNCHANGED <<dataVars, lent, objects, iterators, doing, writes, panicked>>

\* The process is gone.
Halted == ~Running /\ UNCHANGED vars

-----------------------------------------------------------------------------
Next ==
    \/ \E kind \in {"fork", "snapshot"} : Lend(kind)
    \/ LendLate \/ Return
    \/ \E t \in Threads, o \in Objects, access \in {"lent", "api"}, name \in Names :
        Create(t, o, access, name)
    \/ \E t \in Threads, o \in Objects :
        CallBegins(t, o) \/ Drop(t, o) \/ \E op \in {"read", "write"} : OpBegins(t, op, o)
    \/ \E t \in Threads : CallEnds(t) \/ Read(t) \/ Write(t) \/ WritePanics(t)
    \/ \E t \in Threads, it \in Iterators : Iterate(t, it) \/ NextBegins(t, it)
    \/ \E t \in Threads : NextEnds(t)
    \/ GetStateHashes
    \/ Halted

Spec == Init /\ [][Next]_vars

\* Who has begun to iterate goes on, whatever the thread does between two items,
\* and calls into Rust come to an end; nothing else has to happen.
Fairness ==
    /\ \A it \in Iterators : SF_vars(\E t \in Threads : NextBegins(t, it))
    /\ \A t \in Threads : WF_vars(\/ CallEnds(t) \/ Read(t) \/ Write(t) \/ WritePanics(t)
                                  \/ NextEnds(t) \/ \E it \in Iterators : Iterate(t, it))
FairSpec == Spec /\ Fairness

-----------------------------------------------------------------------------
(* Properties *)

\* Every variable has its type.
TypeOK ==
    /\ declaration \in Declarations
    /\ lent \in {"none", "fork", "snapshot", "late"}
    /\ store \in [Names -> Contents]
    /\ published \in [Names -> Contents]
    /\ objects \in [Objects -> ObjectType]
    /\ iterators \in [Iterators -> IteratorType]
    /\ hashing \in {"none", "answered", "raised"}
    /\ doing \in [Threads -> OpType]
    /\ writes \in 0..MaxWrites
    /\ panicked \in BOOLEAN

\* What a thread keeps to itself is checked well enough: memory that is gone is
\* reached by iterators, and by objects (or a fork) that both threads use, and by
\* nothing else, in whatever order a service calls and whatever it keeps. So an
\* object that one thread alone uses never reaches Rust with an access that was
\* given back or a name that was freed.
OnlySharedOutlive ==
    \A t \in Threads : Misuses(t) =>
        \/ doing[t].op = "next"
        \/ doing[t].use = "raced"
        \/ objects[doing[t].of].users = Threads

\* Rust panics on a write in one case only: in the before_commit that
\* PythonRuntime::after_commit calls. Any other snapshot is known to be one.
PanicsOnlyAfterCommit == panicked => lent = "late"

\* An iterator whose index nothing has changed, and whose access and name are
\* there, gives every item once and in order; it raises only when the index has
\* changed or memory is gone.
IterationIsExact ==
    \A it \in Iterators :
        LET i == iterators[it]
            items == Seen(i.access, i.name) IN
        /\ i.state = "raised" => ~i.clean
        /\ i.state = "ended" /\ i.clean =>
            items = [n \in 1..Len(items) |-> i.seen[n]]

\* A class that was accepted always answers its state hashes, unless an index it
\* hashes lacks its generics, or is not what it is called.
HashesDoNotFail ==
    hashing = "raised" =>
        \E i \in DOMAIN declaration.stateHash :
            LET type == declaration.indices[declaration.stateHash[i]] IN
            ~Instantiated(type) \/ type.class # type.name

\* Every iteration ends, whatever happens to the index meanwhile.
IterationsEnd ==
    \A it \in Iterators :
        iterators[it].state = "running" ~> iterators[it].state # "running" \/ ~Running
=============================================================================
