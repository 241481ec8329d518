---------------------------- MODULE AccessProofs ----------------------------
(***************************************************************************)
(* Proofs about Access: whatever a service keeps, only its iterators, and  *)
(* what its two threads share, ever reach memory that is gone.             *)
(***************************************************************************)
EXTENDS Access, SequenceTheorems, TLAPS

-----------------------------------------------------------------------------
(* Types *)

LEMMA ContentsAreShort ==
    ASSUME NEW items \in Contents
    PROVE  /\ Len(items) \in 0..MaxLen
           /\ \A n \in 1..Len(items) : items[n] \in Values
<1>1. PICK n \in 0..MaxLen : items \in [1..n -> Values]
    BY DEF Contents
<1>2. items \in Seq(Values) /\ Len(items) = n
    BY <1>1, AccessAssumption
<1> QED
    BY <1>1, <1>2

LEMMA EmptyIsContents == <<>> \in Contents
<1>1. <<>> \in [1..0 -> Values]
    OBVIOUS
<1>2. 0 \in 0..MaxLen
    BY AccessAssumption
<1> QED
    BY <1>1, <1>2 DEF Contents

LEMMA SeenIsContents ==
    ASSUME TypeOK, NEW access, NEW name \in Names
    PROVE  Seen(access, name) \in Contents
BY DEF TypeOK, Seen

LEMMA NoItemsType == NoItems \in [1..MaxLen -> Values \union {NoValue}]
BY DEF NoItems

\* An iterator that is made of an object, or a field of which is changed.
LEMMA NewIteratorType ==
    ASSUME NEW access \in {"lent", "expired", "api"}, NEW name \in Names,
           NEW of \in Objects \union {NoObject}, NEW len \in 0..MaxLen
    PROVE  NewIterator(access, name, of, len) \in IteratorType
BY NoItemsType, AccessAssumption DEF NewIterator, IteratorType

LEMMA IteratorState ==
    ASSUME NEW i \in IteratorType, NEW state \in {"new", "running", "ended", "raised"}
    PROVE  [i EXCEPT !.state = state] \in IteratorType
BY DEF IteratorType

LEMMA DisturbedType ==
    ASSUME NEW i \in IteratorType
    PROVE  /\ Disturbed(i) \in IteratorType
           /\ ~Disturbed(i).clean
           /\ Disturbed(i).state = i.state /\ Disturbed(i).access = i.access
           /\ Disturbed(i).name = i.name /\ Disturbed(i).of = i.of
           /\ Disturbed(i).pos = i.pos /\ Disturbed(i).len = i.len
BY NoItemsType DEF IteratorType, Disturbed

LEMMA FreedType ==
    ASSUME NEW i \in IteratorType
    PROVE  /\ [Disturbed(i) EXCEPT !.of = NoObject] \in IteratorType
           /\ ~[Disturbed(i) EXCEPT !.of = NoObject].clean
           /\ [Disturbed(i) EXCEPT !.of = NoObject].state = i.state
           /\ [Disturbed(i) EXCEPT !.of = NoObject].pos = i.pos
           /\ [Disturbed(i) EXCEPT !.of = NoObject].len = i.len
           /\ [Disturbed(i) EXCEPT !.access = "expired"] \in IteratorType
           /\ ~[Disturbed(i) EXCEPT !.access = "expired"].clean
           /\ [Disturbed(i) EXCEPT !.access = "expired"].state = i.state
           /\ [Disturbed(i) EXCEPT !.access = "expired"].pos = i.pos
           /\ [Disturbed(i) EXCEPT !.access = "expired"].len = i.len
BY NoItemsType DEF IteratorType, Disturbed

\* An iterator that gave an item.
Given(i, value) == [i EXCEPT !.seen[i.pos + 1] = IF i.clean THEN value ELSE @,
                             !.pos = Advanced(i)]

LEMMA GivenType ==
    ASSUME NEW i \in IteratorType, ~AtEnd(i), NEW value \in Values \union {NoValue}
    PROVE  /\ Given(i, value) \in IteratorType
           /\ Given(i, value).clean = i.clean
<1> DEFINE item == IF i.clean THEN value ELSE i.seen[i.pos + 1]
<1>1. i.pos \in 0..MaxLen /\ i.len \in 0..MaxLen
    BY DEF IteratorType
<1>2. i.pos + 1 \in 1..MaxLen
    BY <1>1, AccessAssumption DEF AtEnd
<1>3. Advanced(i) \in 0..MaxLen
    BY <1>1, <1>2, AccessAssumption DEF Advanced
<1>4. item \in Values \union {NoValue}
    BY <1>2 DEF IteratorType
<1>5. Given(i, value) = [i EXCEPT !.seen = [i.seen EXCEPT ![i.pos + 1] = item],
                                  !.pos = Advanced(i)]
    BY DEF Given, IteratorType
<1> HIDE DEF item
<1>6. [i.seen EXCEPT ![i.pos + 1] = item] \in [1..MaxLen -> Values \union {NoValue}]
    BY <1>2, <1>4 DEF IteratorType
<1> QED
    BY <1>3, <1>5, <1>6 DEF IteratorType

LEMMA InitType == Init => TypeOK
<1> SUFFICES ASSUME Init
             PROVE  TypeOK
    OBVIOUS
<1>1. store \in [Names -> Contents] /\ published \in [Names -> Contents]
    BY EmptyIsContents DEF Init
<1>2. \A it \in Iterators : iterators[it] \in IteratorType
    <2> TAKE it \in Iterators
    <2>1. (CHOOSE name \in Names : TRUE) \in Names
        BY AccessAssumption
    <2>2. NewIterator("expired", CHOOSE name \in Names : TRUE, NoObject, 0) \in IteratorType
        BY <2>1, NewIteratorType, AccessAssumption
    <2> QED
        BY <2>2, IteratorState DEF Init
<1>3. iterators \in [Iterators -> IteratorType]
    BY <1>2 DEF Init
<1>4. objects \in [Objects -> ObjectType] /\ doing \in [Threads -> OpType]
    BY DEF Init, ObjectType, OpType
<1>5. /\ declaration \in Declarations /\ lent = "none" /\ hashing = "none"
      /\ writes \in 0..MaxWrites
    BY AccessAssumption DEF Init
<1>6. panicked \in BOOLEAN
    BY Zenon DEF Init
<1> QED
    BY <1>1, <1>3, <1>4, <1>5, <1>6 DEF TypeOK

-----------------------------------------------------------------------------
(* What a step does to what the threads do *)

\* A thread that enters Rust may turn what the other does there into a race.
LEMMA EntersDoing ==
    ASSUME TypeOK, NEW t \in Threads, NEW op, NEW of, NEW access, NEW use,
           Enters(t, op, of, access, use)
    PROVE  /\ \/ doing'[t] = [op |-> op, of |-> of, use |-> use]
              \/ doing'[t] = [op |-> op, of |-> of, use |-> "raced"]
           /\ \A u \in Threads \ {t} :
                \/ doing'[u] = doing[u]
                \/ InRust(u) /\ doing'[u] = [doing[u] EXCEPT !.use = "raced"]
<1>1. doing'[t] = [op |-> op, of |-> of, use |-> IF Races(t, access) THEN "raced" ELSE use]
    BY DEF Enters
<1>2. ASSUME NEW u \in Threads \ {t}
      PROVE  \/ doing'[u] = doing[u]
             \/ InRust(u) /\ doing'[u] = [doing[u] EXCEPT !.use = "raced"]
    <2>1. doing'[u] = IF Races(t, access) THEN [doing[u] EXCEPT !.use = "raced"] ELSE doing[u]
        BY DEF Enters
    <2>2. Races(t, access) => InRust(u)
        BY DEF Races, Threads
    <2> QED
        BY <2>1, <2>2
<1> QED
    BY <1>1, <1>2

LEMMA RacedType ==
    ASSUME NEW d \in OpType, d.op # "none", NEW use \in {"own", "stale", "raced"}
    PROVE  /\ [d EXCEPT !.use = use] \in OpType
           /\ [d EXCEPT !.use = use].op = d.op
           /\ [d EXCEPT !.use = use].of = d.of
           /\ [d EXCEPT !.use = use].use = use
BY DEF OpType, Idle

\* The other thread enters Rust, or calls the object that a thread uses: the op
\* and what it is on stay.
LEMMA EntersKeepsType ==
    ASSUME TypeOK, NEW t \in Threads, NEW u \in Threads, u # t,
           NEW op, NEW of, NEW access, NEW use, Enters(u, op, of, access, use)
    PROVE  /\ doing'[t] \in OpType
           /\ doing'[t].op = doing[t].op /\ doing'[t].of = doing[t].of
           /\ \/ doing'[t].use = doing[t].use
              \/ InRust(t) /\ doing'[t].use = "raced"
<1>1. \/ doing'[t] = doing[t]
      \/ InRust(t) /\ doing'[t] = [doing[t] EXCEPT !.use = "raced"]
    BY EntersDoing
<1>2. doing[t] \in OpType
    BY DEF TypeOK
<1>3. InRust(t) => doing[t].op # "none"
    BY DEF InRust
<1>4. doing[t].op # "none" =>
        /\ [doing[t] EXCEPT !.use = "raced"] \in OpType
        /\ [doing[t] EXCEPT !.use = "raced"].op = doing[t].op
        /\ [doing[t] EXCEPT !.use = "raced"].of = doing[t].of
        /\ [doing[t] EXCEPT !.use = "raced"].use = "raced"
    BY <1>2, RacedType
<1>5. CASE doing'[t] = doing[t]
    BY <1>2, <1>5 DEF InRust
<1>6. CASE InRust(t) /\ doing'[t] = [doing[t] EXCEPT !.use = "raced"]
    BY <1>3, <1>4, <1>6
<1> QED
    BY <1>1, <1>5, <1>6

LEMMA CallKeepsType ==
    ASSUME TypeOK, NEW t \in Threads, NEW u \in Threads, u # t,
           NEW o \in Objects, CallBegins(u, o)
    PROVE  /\ doing'[t] \in OpType
           /\ doing'[t].op = doing[t].op /\ doing'[t].of = doing[t].of
           /\ \/ doing'[t] = doing[t]
              \/ doing[t].op \notin {"none", "next"} /\ doing[t].of = o
<1>1. \/ doing'[t] = doing[t]
      \/ doing[t].op \notin {"none", "next"} /\ doing[t].of = o
            /\ doing'[t] = [doing[t] EXCEPT !.use = "stale"]
    BY DEF CallBegins
<1>2. doing[t] \in OpType
    BY DEF TypeOK
<1>4. doing[t].op # "none" =>
        /\ [doing[t] EXCEPT !.use = "stale"] \in OpType
        /\ [doing[t] EXCEPT !.use = "stale"].op = doing[t].op
        /\ [doing[t] EXCEPT !.use = "stale"].of = doing[t].of
    BY <1>2, RacedType
<1> QED
    BY <1>1, <1>2, <1>4

\* What a step may do to what a thread does: nothing, end it, begin something,
\* or have the other thread begin something.
LEMMA DoingStep ==
    ASSUME [Next]_vars
    PROVE  \/ UNCHANGED doing
           \/ \E u \in Threads : doing' = [doing EXCEPT ![u] = Idle]
           \/ \E u \in Threads, o \in Objects : CallBegins(u, o)
           \/ \E u \in Threads, o \in Objects, op \in {"read", "write"} : OpBegins(u, op, o)
           \/ \E u \in Threads, it \in Iterators :
                NextBegins(u, it) /\ Enters(u, "next", it, iterators[it].access, "own")
<1> DEFINE P1 == UNCHANGED doing
           P2 == \E u \in Threads : doing' = [doing EXCEPT ![u] = Idle]
           P3 == \E u \in Threads, o \in Objects : CallBegins(u, o)
           P4 == \E u \in Threads, o \in Objects, op \in {"read", "write"} : OpBegins(u, op, o)
           P5 == \E u \in Threads, it \in Iterators :
                    NextBegins(u, it) /\ Enters(u, "next", it, iterators[it].access, "own")
<1>1. ASSUME NEW kind \in {"fork", "snapshot"}, Lend(kind)
      PROVE  P1
    BY <1>1 DEF Lend
<1>2. CASE LendLate \/ Return \/ GetStateHashes \/ Halted \/ UNCHANGED vars
    BY <1>2 DEF LendLate, Return, GetStateHashes, Halted, vars
<1>3. ASSUME NEW u \in Threads, NEW o \in Objects, NEW access, NEW name, Create(u, o, access, name)
      PROVE  P1
    BY <1>3 DEF Create
<1>4. ASSUME NEW u \in Threads, NEW o \in Objects, Drop(u, o)
      PROVE  P1
    BY <1>4 DEF Drop
<1>5. ASSUME NEW u \in Threads, CallEnds(u) \/ Read(u) \/ Write(u) \/ WritePanics(u) \/ NextEnds(u)
      PROVE  P2
    BY <1>5 DEF CallEnds, Read, Write, WritePanics, NextEnds, Leaves
<1>6. ASSUME NEW u \in Threads, NEW it \in Iterators, Iterate(u, it)
      PROVE  P2
    BY <1>6 DEF Iterate, Leaves
<1>7. ASSUME NEW u \in Threads, NEW it \in Iterators, NextBegins(u, it)
      PROVE  P1 \/ P5
    BY <1>7 DEF NextBegins
<1>8. P1 \/ P2 \/ P3 \/ P4 \/ P5
    <2>0. ASSUME NEW u \in Threads, NEW o \in Objects, CallBegins(u, o)
          PROVE  P3
        BY <2>0
    <2>1. ASSUME NEW u \in Threads, NEW o \in Objects, NEW op \in {"read", "write"}, OpBegins(u, op, o)
          PROVE  P4
        BY <2>1
    <2>2. CASE LendLate \/ Return \/ GetStateHashes \/ Halted \/ UNCHANGED vars
        BY <1>2, <2>2
    <2> HIDE DEF P1, P2, P3, P4, P5
    <2> QED
        BY <1>1, <1>3, <1>4, <1>5, <1>6, <1>7, <2>0, <2>1, <2>2 DEF Next
<1> QED
    BY <1>8

LEMMA DoingKeepsType ==
    ASSUME TypeOK, [Next]_vars
    PROVE  doing' \in [Threads -> OpType]
<1>0. doing \in [Threads -> OpType] /\ Idle \in OpType
    BY DEF TypeOK, OpType
<1>1. CASE UNCHANGED doing \/ \E u \in Threads : doing' = [doing EXCEPT ![u] = Idle]
    BY <1>0, <1>1
<1>2. ASSUME NEW u \in Threads, NEW o \in Objects, CallBegins(u, o)
      PROVE  doing' \in [Threads -> OpType]
    <2>1. doing'[u] = [op |-> "call", of |-> o, use |-> "own"] /\ DOMAIN doing' = Threads
        BY <1>2 DEF CallBegins
    <2>2. doing'[u] \in OpType
        BY <2>1 DEF OpType
    <2>3. \A t \in Threads \ {u} : doing'[t] \in OpType
        BY <1>2, CallKeepsType
    <2>4. doing' = [t \in Threads |-> doing'[t]]
        BY <1>2 DEF CallBegins
    <2> QED
        BY <2>2, <2>3, <2>4
<1>3. ASSUME NEW u \in Threads, NEW op, NEW of, NEW access, NEW use \in {"own", "stale"},
             Enters(u, op, of, access, use),
             \/ op \in {"read", "write"} /\ of \in Objects
             \/ op = "next" /\ of \in Iterators
      PROVE  doing' \in [Threads -> OpType]
    <2>1. \/ doing'[u] = [op |-> op, of |-> of, use |-> use]
          \/ doing'[u] = [op |-> op, of |-> of, use |-> "raced"]
        BY <1>3, EntersDoing
    <2>2. doing'[u] \in OpType
        BY <1>3, <2>1 DEF OpType
    <2>3. \A t \in Threads \ {u} : doing'[t] \in OpType
        BY <1>3, EntersKeepsType
    <2>4. doing' = [t \in Threads |-> doing'[t]]
        BY <1>3 DEF Enters
    <2> QED
        BY <2>2, <2>3, <2>4
<1>4. ASSUME NEW u \in Threads, NEW o \in Objects, NEW op \in {"read", "write"}, OpBegins(u, op, o)
      PROVE  doing' \in [Threads -> OpType]
    <2> DEFINE use == IF objects[o].index = "made" THEN "own" ELSE "stale"
    <2>1. Enters(u, op, o, objects[o].access, use) /\ use \in {"own", "stale"}
        BY <1>4 DEF OpBegins
    <2>2. \/ op \in {"read", "write"} /\ o \in Objects
          \/ op = "next" /\ o \in Iterators
        OBVIOUS
    <2> HIDE DEF use
    <2> QED
        BY <1>3, <2>1, <2>2, Zenon
<1>5. ASSUME NEW u \in Threads, NEW it \in Iterators,
             Enters(u, "next", it, iterators[it].access, "own")
      PROVE  doing' \in [Threads -> OpType]
    <2>1. "own" \in {"own", "stale"}
        OBVIOUS
    <2>2. \/ "next" \in {"read", "write"} /\ it \in Objects
          \/ "next" = "next" /\ it \in Iterators
        OBVIOUS
    <2> QED
        BY <1>3, <1>5, <2>1, <2>2, Zenon
<1>6. CASE \E u \in Threads, it \in Iterators :
              NextBegins(u, it) /\ Enters(u, "next", it, iterators[it].access, "own")
    BY <1>5, <1>6
<1>7. CASE \/ \E u \in Threads, o \in Objects : CallBegins(u, o)
           \/ \E u \in Threads, o \in Objects, op \in {"read", "write"} : OpBegins(u, op, o)
    BY <1>2, <1>4, <1>7
<1> QED
    BY <1>1, <1>6, <1>7, DoingStep

\* What a thread does after a step is what it did before, or what it has begun.
LEMMA OpBefore ==
    ASSUME TypeOK, [Next]_vars, NEW t \in Threads
    PROVE  \/ doing'[t].op = "none"
           \/ doing'[t].op = doing[t].op /\ doing'[t].of = doing[t].of
           \/ \E o \in Objects :
                CallBegins(t, o) /\ doing'[t].op = "call" /\ doing'[t].of = o
           \/ \E o \in Objects, op \in {"read", "write"} :
                OpBegins(t, op, o) /\ doing'[t].op = op /\ doing'[t].of = o
           \/ \E it \in Iterators :
                /\ NextBegins(t, it) /\ Enters(t, "next", it, iterators[it].access, "own")
                /\ doing'[t].op = "next" /\ doing'[t].of = it
<1> DEFINE Was == \/ doing'[t].op = "none"
                  \/ doing'[t].op = doing[t].op /\ doing'[t].of = doing[t].of
           Calls == \E o \in Objects :
                        CallBegins(t, o) /\ doing'[t].op = "call" /\ doing'[t].of = o
           Begins == \E o \in Objects, op \in {"read", "write"} :
                        OpBegins(t, op, o) /\ doing'[t].op = op /\ doing'[t].of = o
           Asks == \E it \in Iterators :
                        /\ NextBegins(t, it) /\ Enters(t, "next", it, iterators[it].access, "own")
                        /\ doing'[t].op = "next" /\ doing'[t].of = it
<1>0. doing \in [Threads -> OpType] /\ Idle.op = "none"
    BY DEF TypeOK, Idle
<1>1. CASE UNCHANGED doing
    BY <1>1
<1>2. ASSUME NEW u \in Threads, doing' = [doing EXCEPT ![u] = Idle]
      PROVE  Was
    <2>1. doing'[t] = Idle \/ doing'[t] = doing[t]
        BY <1>0, <1>2
    <2> QED
        BY <1>0, <2>1
<1>3. ASSUME NEW u \in Threads, NEW o \in Objects, CallBegins(u, o)
      PROVE  Was \/ Calls
    <2>1. CASE t = u
        <3>1. doing'[t] = [op |-> "call", of |-> o, use |-> "own"]
            BY <1>3, <2>1 DEF CallBegins
        <3> QED
            BY <1>3, <2>1, <3>1
    <2>2. CASE t # u
        BY <1>3, <2>2, CallKeepsType
    <2> QED
        BY <2>1, <2>2
<1>4. ASSUME NEW u \in Threads, NEW op, NEW of, NEW access, NEW use,
             Enters(u, op, of, access, use)
      PROVE  Was \/ (t = u /\ doing'[t].op = op /\ doing'[t].of = of)
    <2>1. CASE t = u
        <3>1. \/ doing'[t] = [op |-> op, of |-> of, use |-> use]
              \/ doing'[t] = [op |-> op, of |-> of, use |-> "raced"]
            BY <1>4, <2>1, EntersDoing
        <3> QED
            BY <2>1, <3>1
    <2>2. CASE t # u
        BY <1>4, <2>2, EntersKeepsType
    <2> QED
        BY <2>1, <2>2
<1>5. ASSUME NEW u \in Threads, NEW o \in Objects, NEW op \in {"read", "write"}, OpBegins(u, op, o)
      PROVE  Was \/ Begins
    <2>1. Was \/ (t = u /\ doing'[t].op = op /\ doing'[t].of = o)
        BY <1>4, <1>5 DEF OpBegins
    <2> HIDE DEF Was
    <2> QED
        BY <1>5, <2>1
<1>6. ASSUME NEW u \in Threads, NEW it \in Iterators,
             NextBegins(u, it), Enters(u, "next", it, iterators[it].access, "own")
      PROVE  Was \/ Asks
    <2>1. Was \/ (t = u /\ doing'[t].op = "next" /\ doing'[t].of = it)
        BY <1>4, <1>6
    <2> HIDE DEF Was
    <2> QED
        BY <1>6, <2>1
<1>7. Was \/ Calls \/ Begins \/ Asks
    <2>1. CASE UNCHANGED doing
        BY <1>1, <2>1
    <2> HIDE DEF Was, Calls, Begins, Asks
    <2> QED
        BY <1>2, <1>3, <1>5, <1>6, <2>1, DoingStep
<1> QED
    BY <1>7

-----------------------------------------------------------------------------
(* What the threads use *)

Asks(t, it) == doing[t].op = "next" /\ doing[t].of = it

\* An iterator that is asked runs and is not at its end, and one thread asks it.
AskedRuns(it) ==
    \A t \in Threads : Asks(t, it) =>
        /\ iterators[it].state = "running" /\ ~AtEnd(iterators[it])
        /\ \A u \in Threads : Asks(u, it) => u = t

\* An object that is used is there.
UsedIsThere(t) == doing[t].op \in {"read", "write", "call"} => objects[doing[t].of] # NoObject

TypeInv ==
    /\ TypeOK
    /\ \A it \in Iterators : AskedRuns(it)
    /\ \A t \in Threads : UsedIsThere(t)

\* How a step changes an iterator.
LEMMA IteratorStep ==
    ASSUME [Next]_vars
    PROVE  \/ UNCHANGED iterators
           \/ LendLate \/ Return
           \/ \E t \in Threads, o \in Objects : (CallBegins(t, o) \/ Drop(t, o)) /\ Unname(o)
           \/ \E t \in Threads : Write(t) \/ NextEnds(t)
           \/ \E t \in Threads, it \in Iterators : Iterate(t, it)
           \/ \E t \in Threads, it \in Iterators :
                /\ NextBegins(t, it)
                /\ AtEnd(iterators[it]) /\ Ends(it, iterators[it], "ended") /\ UNCHANGED doing
<1> DEFINE P1 == UNCHANGED iterators
           P2 == \E t \in Threads, o \in Objects : (CallBegins(t, o) \/ Drop(t, o)) /\ Unname(o)
           P3 == \E t \in Threads : Write(t) \/ NextEnds(t)
           P4 == \E t \in Threads, it \in Iterators : Iterate(t, it)
           P5 == \E t \in Threads, it \in Iterators :
                    /\ NextBegins(t, it)
                    /\ AtEnd(iterators[it]) /\ Ends(it, iterators[it], "ended") /\ UNCHANGED doing
<1>1. ASSUME NEW kind \in {"fork", "snapshot"}, Lend(kind)
      PROVE  P1
    BY <1>1 DEF Lend
<1>2. CASE GetStateHashes \/ Halted \/ UNCHANGED vars
    BY <1>2 DEF GetStateHashes, Halted, vars
<1>3. ASSUME NEW u \in Threads, NEW o \in Objects, NEW access, NEW name, Create(u, o, access, name)
      PROVE  P1
    BY <1>3 DEF Create
<1>4. ASSUME NEW u \in Threads, NEW o \in Objects, CallBegins(u, o) \/ Drop(u, o)
      PROVE  P2
    <2>1. Unname(o)
        BY <1>4 DEF CallBegins, Drop
    <2> QED
        BY <1>4, <2>1
<1>5. ASSUME NEW u \in Threads, NEW o \in Objects, NEW op, OpBegins(u, op, o)
      PROVE  P1
    BY <1>5 DEF OpBegins
<1>6. ASSUME NEW u \in Threads, CallEnds(u) \/ Read(u) \/ WritePanics(u)
      PROVE  P1
    BY <1>6 DEF CallEnds, Read, WritePanics
<1>7. ASSUME NEW u \in Threads, Write(u) \/ NextEnds(u)
      PROVE  P3
    BY <1>7
<1>8. ASSUME NEW u \in Threads, NEW it \in Iterators, Iterate(u, it)
      PROVE  P4
    BY <1>8
<1>9. ASSUME NEW u \in Threads, NEW it \in Iterators, NextBegins(u, it)
      PROVE  P1 \/ P5
    BY <1>9 DEF NextBegins
<1>10. P1 \/ LendLate \/ Return \/ P2 \/ P3 \/ P4 \/ P5
    <2>1. CASE GetStateHashes \/ Halted \/ UNCHANGED vars
        BY <1>2, <2>1
    <2> HIDE DEF P1, P2, P3, P4, P5
    <2> QED
        BY <1>1, <1>3, <1>4, <1>5, <1>6, <1>7, <1>8, <1>9, <2>1 DEF Next
<1> QED
    BY <1>10

\* What becomes of an iterator when an access or a name goes, or an index changes.
LEMMA IteratorIsDisturbed ==
    ASSUME TypeOK, NEW it \in Iterators,
           \/ LendLate \/ Return
           \/ \E o \in Objects : Unname(o)
           \/ \E t \in Threads : Write(t)
    PROVE  /\ iterators'[it] \in IteratorType
           /\ iterators'[it].state = iterators[it].state
           /\ iterators'[it].pos = iterators[it].pos /\ iterators'[it].len = iterators[it].len
           /\ iterators'[it] = iterators[it] \/ ~iterators'[it].clean
<1> DEFINE i == iterators[it]
<1>0. i \in IteratorType /\ iterators \in [Iterators -> IteratorType]
    BY DEF TypeOK
<1>1. \/ iterators'[it] = i
      \/ iterators'[it] = Disturbed(i)
      \/ iterators'[it] = [Disturbed(i) EXCEPT !.of = NoObject]
      \/ iterators'[it] = [Disturbed(i) EXCEPT !.access = "expired"]
    <2>1. CASE LendLate
        BY <2>1, Zenon DEF LendLate, Touch
    <2>2. CASE Return
        BY <2>2, Zenon DEF Return
    <2>3. ASSUME NEW o \in Objects, Unname(o)
          PROVE  iterators'[it] \in {i, [Disturbed(i) EXCEPT !.of = NoObject]}
        BY <2>3, Zenon DEF Unname
    <2>4. ASSUME NEW t \in Threads, Write(t)
          PROVE  iterators'[it] \in {i, Disturbed(i)}
        BY <2>4, Zenon DEF Write, Touch
    <2> QED
        BY <2>1, <2>2, <2>3, <2>4
<1>2. /\ Disturbed(i) \in IteratorType /\ ~Disturbed(i).clean
      /\ Disturbed(i).state = i.state /\ Disturbed(i).pos = i.pos /\ Disturbed(i).len = i.len
    BY <1>0, DisturbedType
<1> DEFINE freed == [Disturbed(i) EXCEPT !.of = NoObject]
           expired == [Disturbed(i) EXCEPT !.access = "expired"]
<1>3. /\ freed \in IteratorType /\ ~freed.clean
      /\ freed.state = i.state /\ freed.pos = i.pos /\ freed.len = i.len
      /\ expired \in IteratorType /\ ~expired.clean
      /\ expired.state = i.state /\ expired.pos = i.pos /\ expired.len = i.len
    BY <1>0, FreedType
<1> HIDE DEF i, freed, expired
<1>4. iterators'[it] \in {i, Disturbed(i), freed, expired}
    BY <1>1 DEF freed, expired
<1> QED
    BY <1>0, <1>2, <1>3, <1>4 DEF i

LEMMA UsedObject ==
    ASSUME TypeInv, NEW t \in Threads, doing[t].op \in {"read", "write", "call"}
    PROVE  /\ doing[t].of \in Objects
           /\ objects[doing[t].of] \in ObjectType /\ objects[doing[t].of] # NoObject
           /\ objects[doing[t].of].access \in {"lent", "expired", "api"}
           /\ objects[doing[t].of].name \in Names
<1>1. doing[t] \in OpType /\ objects \in [Objects -> ObjectType]
    BY DEF TypeInv, TypeOK
<1>2. doing[t].of \in Objects
    BY <1>1 DEF OpType, Idle
<1>3. objects[doing[t].of] \in ObjectType /\ objects[doing[t].of] # NoObject
    BY <1>1, <1>2 DEF TypeInv, UsedIsThere
<1> QED
    BY <1>2, <1>3 DEF ObjectType, BaseIndex

LEMMA UsedIterator ==
    ASSUME TypeInv, NEW t \in Threads, doing[t].op = "next"
    PROVE  /\ doing[t].of \in Iterators
           /\ iterators[doing[t].of] \in IteratorType
           /\ iterators[doing[t].of].state = "running" /\ ~AtEnd(iterators[doing[t].of])
<1>1. doing[t] \in OpType /\ iterators \in [Iterators -> IteratorType]
    BY DEF TypeInv, TypeOK
<1>2. doing[t].of \in Iterators
    BY <1>1 DEF OpType, Idle
<1> QED
    BY <1>1, <1>2 DEF TypeInv, AskedRuns, Asks

\* __iter__ and __next__ replace one iterator.
LEMMA IterateMakes ==
    ASSUME TypeInv, NEW t \in Threads, NEW it \in Iterators, Iterate(t, it)
    PROVE  /\ \E i \in IteratorType : iterators' = [iterators EXCEPT ![it] = i]
           /\ iterators[it].state # "running"
<1> DEFINE o == doing[t].of
           object == objects[o]
<1>1. /\ o \in Objects
      /\ object.access \in {"lent", "expired", "api"} /\ object.name \in Names
    BY UsedObject DEF Iterate
<1>2. Len(Seen(object.access, object.name)) \in 0..MaxLen
    BY <1>1, SeenIsContents, ContentsAreShort DEF TypeInv
<1>3. NewIterator(object.access, object.name, o, Len(Seen(object.access, object.name))) \in IteratorType
    BY <1>1, <1>2, NewIteratorType
<1>4. \A len \in 0..MaxLen :
          Disturbed(NewIterator(object.access, object.name, NoObject, len)) \in IteratorType
    BY <1>1, NewIteratorType, DisturbedType
<1> QED
    BY <1>3, <1>4 DEF Iterate

LEMMA EndsMakes ==
    ASSUME NEW it, NEW i \in IteratorType, NEW state \in {"ended", "raised"}, Ends(it, i, state)
    PROVE  \E j \in IteratorType : iterators' = [iterators EXCEPT ![it] = j]
<1>1. [i EXCEPT !.state = state] \in IteratorType
    BY IteratorState
<1> QED
    BY <1>1 DEF Ends

LEMMA GivesMakes ==
    ASSUME NEW it, NEW i \in IteratorType, ~AtEnd(i), NEW value \in Values \union {NoValue},
           Gives(it, i, value)
    PROVE  /\ Given(i, value) \in IteratorType
           /\ iterators' = [iterators EXCEPT ![it] = Given(i, value)]
<1>1. Given(i, value) \in IteratorType
    BY GivenType
<1> QED
    BY <1>1 DEF Gives, Given

LEMMA NextEndsMakes ==
    ASSUME TypeInv, NEW t \in Threads, NextEnds(t)
    PROVE  \E i \in IteratorType : iterators' = [iterators EXCEPT ![doing[t].of] = i]
<1> DEFINE it == doing[t].of
           i == iterators[it]
           items == Seen(i.access, i.name)
<1>1. i \in IteratorType /\ ~AtEnd(i)
    BY UsedIterator DEF NextEnds
<1>2. Disturbed(i) \in IteratorType /\ ~AtEnd(Disturbed(i))
    BY <1>1, DisturbedType DEF AtEnd
<1>3. ASSUME i.pos < Len(items)
      PROVE  items[i.pos + 1] \in Values
    <2>1. items \in Contents
        BY <1>1, SeenIsContents DEF IteratorType, TypeInv
    <2>2. i.pos \in Nat
        BY <1>1, AccessAssumption DEF IteratorType
    <2>3. i.pos + 1 \in 1..Len(items)
        BY <1>3, <2>1, <2>2, ContentsAreShort
    <2> QED
        BY <2>1, <2>3, ContentsAreShort
<1>4. \/ i.pos < Len(items) /\ Gives(it, i, items[i.pos + 1])
      \/ Ends(it, i, "raised")
      \/ Gives(it, Disturbed(i), NoValue)
      \/ Ends(it, Disturbed(i), "raised")
    BY DEF NextEnds
<1> HIDE DEF it, i, items
<1>5. CASE i.pos < Len(items) /\ Gives(it, i, items[i.pos + 1])
    BY <1>1, <1>3, <1>5, GivesMakes DEF it
<1>6. CASE Ends(it, i, "raised")
    BY <1>1, <1>6, EndsMakes DEF it
<1>7. CASE Gives(it, Disturbed(i), NoValue)
    BY <1>2, <1>7, GivesMakes DEF it
<1>8. CASE Ends(it, Disturbed(i), "raised")
    BY <1>2, <1>8, EndsMakes DEF it
<1> QED
    BY <1>4, <1>5, <1>6, <1>7, <1>8

LEMMA IteratorsKeepType ==
    ASSUME TypeInv, [Next]_vars
    PROVE  iterators' \in [Iterators -> IteratorType]
<1> DEFINE Goal == iterators' \in [Iterators -> IteratorType]
<1>0. iterators \in [Iterators -> IteratorType] /\ TypeOK
    BY DEF TypeInv, TypeOK
<1>1. ASSUME UNCHANGED iterators
      PROVE  Goal
    BY <1>0, <1>1
<1>2. ASSUME \/ LendLate \/ Return
             \/ \E o \in Objects : Unname(o)
             \/ \E t \in Threads : Write(t)
      PROVE  Goal
    <2>1. \A it \in Iterators : iterators'[it] \in IteratorType
        BY <1>0, <1>2, IteratorIsDisturbed
    <2>2. iterators' = [it \in Iterators |-> iterators'[it]]
        <3>1. CASE LendLate
            BY <3>1, Zenon DEF LendLate, Touch
        <3>2. CASE Return
            BY <3>2 DEF Return
        <3>3. ASSUME NEW o \in Objects, Unname(o)
              PROVE  iterators' = [it \in Iterators |-> iterators'[it]]
            BY <3>3 DEF Unname
        <3>4. ASSUME NEW t \in Threads, Write(t)
              PROVE  iterators' = [it \in Iterators |-> iterators'[it]]
            <4>1. CASE UNCHANGED iterators
                BY <1>0, <4>1
            <4>2. CASE Touch(LAMBDA it : it.access = "lent" /\ it.name = objects[doing[t].of].name)
                BY <4>2 DEF Touch
            <4> QED
                BY <3>4, <4>1, <4>2, Zenon DEF Write
        <3> QED
            BY <1>2, <3>1, <3>2, <3>3, <3>4
    <2> QED
        BY <2>1, <2>2
<1>3. ASSUME NEW it, NEW i \in IteratorType, iterators' = [iterators EXCEPT ![it] = i]
      PROVE  Goal
    BY <1>0, <1>3
<1>4. ASSUME NEW t \in Threads, NextEnds(t)
      PROVE  Goal
    BY <1>3, <1>4, NextEndsMakes
<1>5. ASSUME NEW t \in Threads, NEW it \in Iterators, Iterate(t, it)
      PROVE  Goal
    BY <1>3, <1>5, IterateMakes
<1>6. ASSUME NEW it \in Iterators, Ends(it, iterators[it], "ended")
      PROVE  Goal
    BY <1>0, <1>3, <1>6, EndsMakes
<1> HIDE DEF Goal
<1>7. Goal
    BY <1>1, <1>2, <1>4, <1>5, <1>6, IteratorStep
<1> QED
    BY <1>7 DEF Goal

\* Who asks an iterator after a step did so before, or begins to.
LEMMA AsksBefore ==
    ASSUME TypeOK, [Next]_vars, NEW t \in Threads, NEW it \in Iterators, Asks(t, it)'
    PROVE  \/ Asks(t, it)
           \/ NextBegins(t, it) /\ Enters(t, "next", it, iterators[it].access, "own")
<1>1. doing'[t].op = "next" /\ doing'[t].of = it
    BY DEF Asks
<1> QED
    BY <1>1, OpBefore DEF Asks

\* As long as an iterator is asked, it does not move.
LEMMA AskedStays ==
    ASSUME TypeInv, [Next]_vars, NEW t \in Threads, NEW it \in Iterators,
           Asks(t, it), Asks(t, it)'
    PROVE  /\ iterators'[it].state = iterators[it].state
           /\ iterators'[it].pos = iterators[it].pos /\ iterators'[it].len = iterators[it].len
<1> DEFINE Stays == /\ iterators'[it].state = iterators[it].state
                    /\ iterators'[it].pos = iterators[it].pos
                    /\ iterators'[it].len = iterators[it].len
<1>0. /\ iterators \in [Iterators -> IteratorType] /\ doing \in [Threads -> OpType] /\ TypeOK
      /\ iterators[it].state = "running"
      /\ \A u \in Threads : Asks(u, it) => u = t
    BY DEF TypeInv, TypeOK, AskedRuns
<1>1. ASSUME UNCHANGED iterators
      PROVE  Stays
    BY <1>1
<1>2. ASSUME \/ LendLate \/ Return
             \/ \E o \in Objects : Unname(o)
             \/ \E u \in Threads : Write(u)
      PROVE  Stays
    BY <1>0, <1>2, IteratorIsDisturbed
<1>3. ASSUME NEW jt, NEW i, jt # it, iterators' = [iterators EXCEPT ![jt] = i]
      PROVE  Stays
    BY <1>0, <1>3
<1>4. ASSUME NEW u \in Threads, NextEnds(u)
      PROVE  Stays
    <2>1. CASE doing[u].of = it
        <3>1. Asks(u, it)
            BY <1>4, <2>1 DEF NextEnds, Asks
        <3>2. u = t
            BY <1>0, <3>1
        <3>3. doing'[t] = Idle
            BY <1>0, <1>4, <3>2 DEF NextEnds, Leaves
        <3> QED
            BY <3>3 DEF Asks, Idle
    <2>2. CASE doing[u].of # it
        BY <1>3, <1>4, <2>2, NextEndsMakes
    <2> QED
        BY <2>1, <2>2
<1>5. ASSUME NEW u \in Threads, NEW jt \in Iterators, Iterate(u, jt)
      PROVE  Stays
    <2>1. jt # it
        BY <1>0, <1>5, IterateMakes
    <2> QED
        BY <1>3, <1>5, <2>1, IterateMakes
<1>6. ASSUME NEW u \in Threads, NEW jt \in Iterators,
             NextBegins(u, jt), Ends(jt, iterators[jt], "ended")
      PROVE  Stays
    <2>1. jt # it
        BY <1>6 DEF NextBegins, Asks
    <2> QED
        BY <1>3, <1>6, <2>1 DEF Ends
<1> HIDE DEF Stays
<1>7. Stays
    BY <1>1, <1>2, <1>4, <1>5, <1>6, IteratorStep
<1> QED
    BY <1>7 DEF Stays

LEMMA AskedKeepsRunning ==
    ASSUME TypeInv, [Next]_vars, NEW it \in Iterators
    PROVE  AskedRuns(it)'
<1> SUFFICES ASSUME NEW t \in Threads, Asks(t, it)'
             PROVE  /\ iterators'[it].state = "running" /\ ~AtEnd(iterators[it])'
                    /\ \A u \in Threads : Asks(u, it)' => u = t
    BY DEF AskedRuns
<1>0. TypeOK /\ AskedRuns(it)
    BY DEF TypeInv
<1>1. CASE Asks(t, it)
    <2>1. /\ iterators'[it].state = "running" /\ ~AtEnd(iterators[it])'
        BY <1>0, <1>1, AskedStays DEF AskedRuns, AtEnd
    <2>2. ASSUME NEW u \in Threads, Asks(u, it)'
          PROVE  u = t
        <3>1. Asks(u, it) \/ NextBegins(u, it)
            BY <1>0, <2>2, AsksBefore
        <3>2. ~NextBegins(u, it)
            BY <1>1 DEF NextBegins, Asks
        <3> QED
            BY <1>0, <1>1, <3>1, <3>2 DEF AskedRuns
    <2> QED
        BY <2>1, <2>2
<1>2. CASE ~Asks(t, it)
    <2>1. NextBegins(t, it) /\ Enters(t, "next", it, iterators[it].access, "own")
        BY <1>0, <1>2, AsksBefore
    <2>2. UNCHANGED iterators /\ ~AtEnd(iterators[it])
        <3>1. CASE AtEnd(iterators[it]) /\ UNCHANGED doing
            BY <1>2, <3>1 DEF Asks
        <3> QED
            BY <2>1, <3>1 DEF NextBegins
    <2>3. iterators'[it].state = "running" /\ ~AtEnd(iterators[it])'
        BY <2>1, <2>2 DEF NextBegins, AtEnd
    <2>4. ASSUME NEW u \in Threads, Asks(u, it)'
          PROVE  u = t
        <3>1. ~Asks(u, it)
            BY <2>1 DEF NextBegins, Asks
        <3>2. u # t => doing'[u].op = doing[u].op /\ doing'[u].of = doing[u].of
            BY <1>0, <2>1, EntersKeepsType
        <3> QED
            BY <2>4, <3>1, <3>2 DEF Asks
    <2> QED
        BY <2>3, <2>4
<1> QED
    BY <1>1, <1>2

-----------------------------------------------------------------------------
(* Objects *)

\* How a step changes the objects.
LEMMA ObjectStep ==
    ASSUME [Next]_vars
    PROVE  \/ UNCHANGED objects
           \/ Return
           \/ \E t \in Threads, o \in Objects, access \in {"lent", "api"}, name \in Names :
                Create(t, o, access, name)
           \/ \E t \in Threads, o \in Objects : CallBegins(t, o) \/ Drop(t, o)
           \/ \E t \in Threads, o \in Objects, op \in {"read", "write"} : OpBegins(t, op, o)
           \/ \E t \in Threads : CallEnds(t)
<1> DEFINE P1 == UNCHANGED objects
<1>1. ASSUME NEW kind \in {"fork", "snapshot"}, Lend(kind)
      PROVE  P1
    BY <1>1 DEF Lend
<1>2. CASE LendLate \/ GetStateHashes \/ Halted \/ UNCHANGED vars
    BY <1>2 DEF LendLate, GetStateHashes, Halted, vars
<1>3. ASSUME NEW u \in Threads, Read(u) \/ Write(u) \/ WritePanics(u) \/ NextEnds(u)
      PROVE  P1
    BY <1>3 DEF Read, Write, WritePanics, NextEnds
<1>4. ASSUME NEW u \in Threads, NEW it \in Iterators, Iterate(u, it) \/ NextBegins(u, it)
      PROVE  P1
    BY <1>4 DEF Iterate, NextBegins
<1> QED
    BY <1>1, <1>2, <1>3, <1>4 DEF Next

LEMMA ObjectsKeepType ==
    ASSUME TypeInv, [Next]_vars
    PROVE  objects' \in [Objects -> ObjectType]
<1> DEFINE Goal == objects' \in [Objects -> ObjectType]
<1>0. objects \in [Objects -> ObjectType] /\ NoObject \in ObjectType /\ TypeOK
    BY DEF TypeInv, TypeOK, ObjectType
<1>1. ASSUME UNCHANGED objects
      PROVE  Goal
    BY <1>0, <1>1
<1>2. ASSUME Return
      PROVE  Goal
    <2>1. \A o \in Objects : objects[o] # NoObject =>
              [objects[o] EXCEPT !.access = "expired"] \in ObjectType
        BY <1>0 DEF ObjectType, BaseIndex
    <2> QED
        BY <1>0, <1>2, <2>1 DEF Return
<1>3. ASSUME NEW t \in Threads, NEW o \in Objects, NEW access \in {"lent", "api"},
             NEW name \in Names, Create(t, o, access, name)
      PROVE  Goal
    <2>1. (IF access = "lent" THEN {t, "node"} ELSE {t}) \in SUBSET Threads
        BY DEF Threads
    <2>2. [access |-> access, name |-> name, index |-> "none",
           users |-> IF access = "lent" THEN {t, "node"} ELSE {t}] \in ObjectType
        BY <2>1 DEF ObjectType, BaseIndex
    <2> QED
        BY <1>0, <1>3, <2>2 DEF Create
<1>4. ASSUME NEW t \in Threads, NEW o \in Objects, CallBegins(t, o)
      PROVE  Goal
    <2> DEFINE index == IF objects[o].index = "none" THEN "none" ELSE "stale"
    <2>1. objects[o] \in ObjectType /\ objects[o] # NoObject
        BY <1>0, <1>4 DEF CallBegins
    <2>2. [objects[o] EXCEPT !.index = index, !.users = objects[o].users \union {t}] \in ObjectType
        BY <2>1 DEF ObjectType, BaseIndex
    <2>3. objects' = [objects EXCEPT ![o] =
              [objects[o] EXCEPT !.index = index, !.users = objects[o].users \union {t}]]
        BY <1>0, <1>4, <2>1 DEF CallBegins
    <2> HIDE DEF index
    <2> QED
        BY <1>0, <2>2, <2>3
<1>5. ASSUME NEW t \in Threads, NEW o \in Objects, Drop(t, o)
      PROVE  Goal
    BY <1>0, <1>5 DEF Drop
<1>6. ASSUME NEW t \in Threads, NEW o \in Objects, NEW op \in {"read", "write"}, OpBegins(t, op, o)
      PROVE  Goal
    <2>1. objects[o] \in ObjectType /\ objects[o] # NoObject
        BY <1>0, <1>6 DEF OpBegins, EnsureAccess
    <2>2. [objects[o] EXCEPT !.users = objects[o].users \union {t}] \in ObjectType
        BY <2>1 DEF ObjectType, BaseIndex
    <2>3. objects' = [objects EXCEPT ![o] = [objects[o] EXCEPT !.users = objects[o].users \union {t}]]
        BY <1>6 DEF OpBegins
    <2> QED
        BY <1>0, <2>2, <2>3
<1>7. ASSUME NEW t \in Threads, CallEnds(t)
      PROVE  Goal
    <2> DEFINE o == doing[t].of
    <2>1. o \in Objects /\ objects[o] \in ObjectType /\ objects[o] # NoObject
        BY <1>7, UsedObject DEF CallEnds
    <2>2. \A index \in {"made", "stale"} : [objects[o] EXCEPT !.index = index] \in ObjectType
        BY <2>1 DEF ObjectType, BaseIndex
    <2>3. \/ UNCHANGED objects
          \/ \E index \in {"made", "stale"} :
                objects' = [objects EXCEPT ![o] = [objects[o] EXCEPT !.index = index]]
        BY <1>7 DEF CallEnds
    <2> HIDE DEF o
    <2> QED
        BY <1>0, <2>1, <2>2, <2>3
<1> HIDE DEF Goal
<1>8. Goal
    BY <1>1, <1>2, <1>3, <1>4, <1>5, <1>6, <1>7, ObjectStep
<1> QED
    BY <1>8 DEF Goal

\* An object that is called.
Called(r, t) == [r EXCEPT !.index = IF r.index = "none" THEN "none" ELSE "stale",
                          !.users = r.users \union {t}]

LEMMA CalledType ==
    ASSUME NEW r \in BaseIndex, NEW t \in Threads
    PROVE  /\ Called(r, t) \in BaseIndex
           /\ Called(r, t).name = r.name /\ Called(r, t).access = r.access
           /\ Called(r, t).users = r.users \union {t}
           /\ r.index = "none" => Called(r, t).index = "none"
<1> DEFINE index == IF r.index = "none" THEN "none" ELSE "stale"
           users == r.users \union {t}
           new == [r EXCEPT !.index = index, !.users = users]
<1>1. index \in {"none", "made", "stale"} /\ (r.index = "none" => index = "none")
    OBVIOUS
<1>2. users \in SUBSET Threads
    BY DEF BaseIndex
<1>3. Called(r, t) = new
    BY DEF Called
<1> HIDE DEF index, users
<1>4. new \in BaseIndex
    BY <1>1, <1>2 DEF BaseIndex
<1>5. new.name = r.name /\ new.access = r.access /\ new.users = users /\ new.index = index
    BY DEF BaseIndex
<1> HIDE DEF new
<1> QED
    BY <1>1, <1>3, <1>4, <1>5 DEF users

\* What becomes of an object that is there.
LEMMA ObjectBecomes ==
    ASSUME TypeInv, [Next]_vars, NEW o \in Objects, objects[o] # NoObject,
           ~\E t \in Threads : Drop(t, o)
    PROVE  /\ objects'[o] \in BaseIndex
           /\ objects'[o].name = objects[o].name
           /\ objects[o].users \subseteq objects'[o].users
           /\ \/ objects'[o].access = objects[o].access
              \/ Return /\ objects[o].access = "lent" /\ objects'[o].access = "expired"
           /\ \/ objects'[o].index = objects[o].index
              \/ objects[o].index # "none" /\ \E t \in Threads : CallBegins(t, o)
              \/ \E t \in Threads : CallEnds(t) /\ doing[t].of = o
<1> DEFINE old == objects[o]
           new == objects'[o]
           Kept == /\ new \in BaseIndex /\ new.name = old.name /\ old.users \subseteq new.users
                   /\ \/ new.access = old.access
                      \/ Return /\ old.access = "lent" /\ new.access = "expired"
                   /\ \/ new.index = old.index
                      \/ old.index # "none" /\ \E t \in Threads : CallBegins(t, o)
                      \/ \E t \in Threads : CallEnds(t) /\ doing[t].of = o
<1>0. objects \in [Objects -> ObjectType] /\ old \in BaseIndex
    BY DEF TypeInv, TypeOK, ObjectType
<1>1. ASSUME new = old
      PROVE  Kept
    BY <1>0, <1>1
<1>2. ASSUME Return
      PROVE  Kept
    <2>1. new = old \/ (old.access = "lent" /\ new = [old EXCEPT !.access = "expired"])
        BY <1>2 DEF Return
    <2>2. CASE old.access = "lent" /\ new = [old EXCEPT !.access = "expired"]
        <3>1. /\ new \in BaseIndex /\ new.name = old.name /\ new.users = old.users
              /\ new.access = "expired" /\ new.index = old.index
            BY <1>0, <2>2 DEF BaseIndex
        <3> QED
            BY <1>2, <2>2, <3>1
    <2> QED
        BY <1>1, <2>1, <2>2
<1>3. ASSUME NEW t \in Threads, NEW p \in Objects, NEW access, NEW name, Create(t, p, access, name)
      PROVE  Kept
    <2>1. p # o
        BY <1>3 DEF Create
    <2>2. new = old
        BY <1>0, <1>3, <2>1 DEF Create
    <2> QED
        BY <1>1, <2>2
<1>4. ASSUME NEW t \in Threads, NEW p \in Objects, CallBegins(t, p)
      PROVE  Kept
    <2>1. CASE p # o
        BY <1>0, <1>1, <1>4, <2>1 DEF CallBegins
    <2>2. CASE p = o
        <3>1. new = Called(old, t)
            BY <1>0, <1>4, <2>2 DEF CallBegins, BaseIndex, Called
        <3>2. /\ new \in BaseIndex /\ new.name = old.name /\ new.users = old.users \union {t}
              /\ new.access = old.access
              /\ old.index = "none" => new.index = "none"
            BY <1>0, <3>1, CalledType
        <3> QED
            BY <1>4, <2>2, <3>2
    <2> QED
        BY <2>1, <2>2
<1>5. ASSUME NEW t \in Threads, NEW p \in Objects, Drop(t, p)
      PROVE  Kept
    <2>1. p # o
        BY <1>5
    <2>2. new = old
        BY <1>0, <1>5, <2>1 DEF Drop
    <2> QED
        BY <1>1, <2>2
<1>6. ASSUME NEW t \in Threads, NEW p \in Objects, NEW op \in {"read", "write"}, OpBegins(t, op, p)
      PROVE  Kept
    <2>1. CASE p # o
        BY <1>0, <1>1, <1>6, <2>1 DEF OpBegins
    <2>2. CASE p = o
        <3>1. new = [old EXCEPT !.users = old.users \union {t}]
            BY <1>0, <1>6, <2>2 DEF OpBegins, BaseIndex
        <3>2. /\ new \in BaseIndex /\ new.name = old.name /\ new.users = old.users \union {t}
              /\ new.access = old.access /\ new.index = old.index
            BY <1>0, <3>1 DEF BaseIndex
        <3> QED
            BY <3>2
    <2> QED
        BY <2>1, <2>2
<1>7. ASSUME NEW t \in Threads, CallEnds(t)
      PROVE  Kept
    <2>1. \/ UNCHANGED objects
          \/ \E index \in {"made", "stale"} : objects' = [objects EXCEPT ![doing[t].of].index = index]
        BY <1>7 DEF CallEnds
    <2>2. CASE UNCHANGED objects \/ doing[t].of # o
        BY <1>0, <1>1, <2>1, <2>2
    <2>3. ASSUME NEW index \in {"made", "stale"}, doing[t].of = o,
                 objects' = [objects EXCEPT ![doing[t].of].index = index]
          PROVE  Kept
        <3>1. new = [old EXCEPT !.index = index]
            BY <1>0, <2>3
        <3>2. /\ new \in BaseIndex /\ new.name = old.name /\ new.users = old.users
              /\ new.access = old.access
            BY <1>0, <3>1 DEF BaseIndex
        <3> QED
            BY <1>7, <2>3, <3>2
    <2> QED
        BY <2>1, <2>2, <2>3
<1>8. ASSUME UNCHANGED objects
      PROVE  Kept
    BY <1>1, <1>8
<1> HIDE DEF Kept
<1>9. Kept
    BY <1>2, <1>3, <1>4, <1>5, <1>6, <1>7, <1>8, ObjectStep
<1> QED
    BY <1>9 DEF Kept

\* An object that is used is not dropped.
LEMMA UsedIsKept ==
    ASSUME NEW t \in Threads, doing[t].op \in {"read", "write", "call"}, NEW u, Drop(u, doing[t].of)
    PROVE  FALSE
BY DEF Drop, UsedNow

\* What a thread begins makes it a user.
LEMMA BeginsAsUser ==
    ASSUME TypeInv, NEW t \in Threads, NEW o \in Objects, NEW op \in {"read", "write"},
           CallBegins(t, o) \/ OpBegins(t, op, o)
    PROVE  /\ objects'[o] \in BaseIndex
           /\ objects'[o].users = objects[o].users \union {t}
           /\ objects'[o].access = objects[o].access /\ objects'[o].name = objects[o].name
           /\ objects[o] # NoObject
<1>0. objects[o] \in BaseIndex /\ objects \in [Objects -> ObjectType] /\ objects[o] # NoObject
    BY DEF TypeInv, TypeOK, ObjectType, CallBegins, OpBegins, EnsureAccess
<1>1. CASE CallBegins(t, o)
    <2>1. objects'[o] = Called(objects[o], t)
        BY <1>0, <1>1 DEF CallBegins, BaseIndex, Called
    <2> QED
        BY <1>0, <2>1, CalledType
<1>2. CASE OpBegins(t, op, o)
    <2>1. objects'[o] = [objects[o] EXCEPT !.users = objects[o].users \union {t}]
        BY <1>0, <1>2 DEF OpBegins, BaseIndex
    <2> QED
        BY <1>0, <2>1 DEF BaseIndex
<1> QED
    BY <1>1, <1>2

LEMMA UsedStaysThere ==
    ASSUME TypeInv, [Next]_vars, NEW t \in Threads
    PROVE  UsedIsThere(t)'
<1> SUFFICES ASSUME doing'[t].op \in {"read", "write", "call"}
             PROVE  objects'[doing'[t].of] # NoObject
    BY DEF UsedIsThere
<1>0. TypeOK /\ NoObject \notin BaseIndex
    BY AccessAssumption DEF TypeInv
<1>1. CASE doing'[t].op = doing[t].op /\ doing'[t].of = doing[t].of
    <2>1. doing[t].of \in Objects /\ objects[doing[t].of] # NoObject
        BY <1>1, UsedObject
    <2>2. ~\E u \in Threads : Drop(u, doing[t].of)
        BY <1>1, UsedIsKept
    <2>3. objects'[doing[t].of] \in BaseIndex
        BY <2>1, <2>2, ObjectBecomes
    <2> QED
        BY <1>0, <1>1, <2>3
<1>2. ASSUME NEW o \in Objects, CallBegins(t, o), doing'[t].of = o
      PROVE  objects'[doing'[t].of] # NoObject
    BY <1>0, <1>2, BeginsAsUser
<1>3. ASSUME NEW o \in Objects, NEW op \in {"read", "write"}, OpBegins(t, op, o), doing'[t].of = o
      PROVE  objects'[doing'[t].of] # NoObject
    BY <1>0, <1>3, BeginsAsUser
<1> QED
    BY <1>0, <1>1, <1>2, <1>3, OpBefore

LEMMA RestKeepsType ==
    ASSUME TypeInv, [Next]_vars
    PROVE  /\ declaration' = declaration
           /\ lent' \in {"none", "fork", "snapshot", "late"}
           /\ store' \in [Names -> Contents]
           /\ published' \in [Names -> Contents]
           /\ hashing' \in {"none", "answered", "raised"}
           /\ writes' \in 0..MaxWrites
<1> DEFINE Rest == /\ declaration' = declaration
                   /\ lent' \in {"none", "fork", "snapshot", "late"}
                   /\ store' \in [Names -> Contents]
                   /\ published' \in [Names -> Contents]
                   /\ hashing' \in {"none", "answered", "raised"}
                   /\ writes' \in 0..MaxWrites
<1>0. TypeOK
    BY DEF TypeInv
<1>1. ASSUME NEW kind \in {"fork", "snapshot"}, Lend(kind)
      PROVE  Rest
    BY <1>0, <1>1 DEF Lend, TypeOK, dataVars
<1>2. ASSUME LendLate \/ Return
      PROVE  Rest
    BY <1>0, <1>2 DEF LendLate, Return, TypeOK, dataVars
<1>3. ASSUME NEW t, NEW o, NEW access, NEW name, Create(t, o, access, name)
      PROVE  Rest
    BY <1>0, <1>3 DEF Create, TypeOK, dataVars
<1>4. ASSUME NEW t, NEW o, CallBegins(t, o) \/ Drop(t, o)
      PROVE  Rest
    BY <1>0, <1>4 DEF CallBegins, Drop, TypeOK, dataVars
<1>5. ASSUME NEW t, NEW op, NEW o, OpBegins(t, op, o)
      PROVE  Rest
    <2>1. writes' \in 0..MaxWrites
        BY <1>0, <1>5, AccessAssumption DEF OpBegins, TypeOK
    <2> QED
        BY <1>0, <1>5, <2>1 DEF OpBegins, TypeOK, dataVars
<1>6. ASSUME NEW t, CallEnds(t) \/ Read(t) \/ WritePanics(t) \/ NextEnds(t)
      PROVE  Rest
    BY <1>0, <1>6 DEF CallEnds, Read, WritePanics, NextEnds, TypeOK, dataVars
<1>7. ASSUME NEW t, Write(t)
      PROVE  Rest
    <2>1. store' \in [Names -> Contents]
        BY <1>0, <1>7 DEF Write, Written, TypeOK
    <2> QED
        BY <1>0, <1>7, <2>1 DEF Write, TypeOK
<1>8. ASSUME NEW t, NEW it, Iterate(t, it) \/ NextBegins(t, it)
      PROVE  Rest
    BY <1>0, <1>8 DEF Iterate, NextBegins, TypeOK, dataVars
<1>9. ASSUME GetStateHashes \/ Halted \/ UNCHANGED vars
      PROVE  Rest
    BY <1>0, <1>9 DEF GetStateHashes, Halted, vars, TypeOK, dataVars
<1> HIDE DEF Rest
<1>10. Rest
    BY <1>1, <1>2, <1>3, <1>4, <1>5, <1>6, <1>7, <1>8, <1>9 DEF Next
<1> QED
    BY <1>10 DEF Rest

\* Rust panics in WritePanics only.
LEMMA PanicStep ==
    ASSUME [Next]_vars
    PROVE  UNCHANGED panicked \/ \E t \in Threads : WritePanics(t) /\ panicked' = TRUE
<1> DEFINE P1 == UNCHANGED panicked
<1>1. ASSUME NEW kind, Lend(kind)
      PROVE  P1
    BY <1>1 DEF Lend
<1>2. CASE LendLate \/ Return \/ GetStateHashes \/ Halted \/ UNCHANGED vars
    BY <1>2 DEF LendLate, Return, GetStateHashes, Halted, vars
<1>3. ASSUME NEW t, NEW o, NEW access, NEW name, Create(t, o, access, name)
      PROVE  P1
    BY <1>3 DEF Create
<1>4. ASSUME NEW t, NEW o, CallBegins(t, o) \/ Drop(t, o)
      PROVE  P1
    BY <1>4 DEF CallBegins, Drop
<1>5. ASSUME NEW t, NEW op, NEW o, OpBegins(t, op, o)
      PROVE  P1
    BY <1>5 DEF OpBegins
<1>6. ASSUME NEW t, CallEnds(t) \/ Read(t) \/ Write(t) \/ NextEnds(t)
      PROVE  P1
    BY <1>6 DEF CallEnds, Read, Write, NextEnds
<1>7. ASSUME NEW t, WritePanics(t)
      PROVE  panicked' = TRUE
    BY <1>7 DEF WritePanics
<1>8. ASSUME NEW t, NEW it, Iterate(t, it) \/ NextBegins(t, it)
      PROVE  P1
    BY <1>8 DEF Iterate, NextBegins
<1> QED
    BY <1>1, <1>2, <1>3, <1>4, <1>5, <1>6, <1>7, <1>8 DEF Next

LEMMA NextType == TypeInv /\ [Next]_vars => TypeInv'
<1> SUFFICES ASSUME TypeInv, [Next]_vars
             PROVE  TypeInv'
    OBVIOUS
<1>1. panicked' \in BOOLEAN
    <2>1. panicked \in BOOLEAN
        BY DEF TypeInv, TypeOK
    <2> QED
        BY <2>1, PanicStep, Zenon
<1>2. declaration' \in Declarations
    BY RestKeepsType DEF TypeInv, TypeOK
<1>3. TypeOK'
    BY <1>1, <1>2, RestKeepsType, ObjectsKeepType, IteratorsKeepType, DoingKeepsType
       DEF TypeOK, TypeInv
<1> QED
    BY <1>3, AskedKeepsRunning, UsedStaysThere DEF TypeInv

LEMMA InitTypeInv == Init => TypeInv
BY InitType DEF Init, TypeInv, AskedRuns, Asks, UsedIsThere, Idle

\* Every variable has its type.
THEOREM TypeCorrect == Spec => []TypeOK
<1>1. TypeInv => TypeOK
    BY DEF TypeInv
<1> QED
    BY <1>1, InitTypeInv, NextType, PTL DEF Spec

-----------------------------------------------------------------------------
(* The inductive invariant *)

\* What has an index has an index type with its generics. A lent access is there
\* as long as something has it, and the node is to give it back. A name that was
\* replaced under an index belongs to an access that expired, to both threads, or
\* is about to be replaced in the index too.
ObjectInv(o) ==
    objects[o] # NoObject =>
        /\ objects[o].access = "lent" => lent # "none" /\ "node" \in objects[o].users
        /\ objects[o].index # "none" => Instantiated(declaration.indices[objects[o].name])
        /\ objects[o].index = "stale" =>
            \/ objects[o].access = "expired" \/ objects[o].users = Threads
            \/ \E t \in Threads : doing[t].op = "call" /\ doing[t].of = o

\* Who uses an object is among its users. It was made stale by the other thread, or
\* raced with it in Rust; it has an access that expired only when the node gave it
\* back meanwhile. Writing needs what Python takes for a Fork.
UserInv(t) ==
    doing[t].op \in {"read", "write", "call"} =>
        LET object == objects[doing[t].of] IN
        /\ t \in object.users
        /\ doing[t].use # "own" =>
            \/ object.users = Threads
            \/ doing[t].use = "raced" /\ doing[t].op # "call"
        /\ doing[t].op # "call" /\ object.access = "expired" => object.users = Threads
        /\ doing[t].op = "write" =>
            \/ object.access = "expired"
            \/ object.access = "lent" /\ lent \in {"fork", "late"}

IInv ==
    /\ TypeInv
    /\ Accepted(declaration)
    /\ \A o \in Objects : ObjectInv(o)
    /\ \A t \in Threads : UserInv(t)
    /\ PanicsOnlyAfterCommit
    /\ HashesDoNotFail

LEMMA InitIInv == Init => IInv
<1> SUFFICES ASSUME Init
             PROVE  IInv
    OBVIOUS
<1>1. PanicsOnlyAfterCommit
    BY Zenon DEF Init, PanicsOnlyAfterCommit
<1>2. HashesDoNotFail /\ Accepted(declaration)
    BY DEF Init, HashesDoNotFail
<1>3. \A o \in Objects : ObjectInv(o)
    BY DEF Init, ObjectInv
<1>4. \A t \in Threads : UserInv(t)
    BY DEF Init, UserInv, Idle
<1> QED
    BY <1>1, <1>2, <1>3, <1>4, InitTypeInv DEF IInv

LEMMA TwoThreads ==
    ASSUME NEW t \in Threads, NEW u \in Threads, t # u, NEW S \in SUBSET Threads,
           t \in S, u \in S
    PROVE  S = Threads
<1>1. \A v \in Threads : v = t \/ v = u
    BY DEF Threads
<1>2. \A v \in S : v \in Threads
    OBVIOUS
<1>3. \A v \in Threads : v \in S
    BY <1>1
<1> QED
    BY <1>2, <1>3

\* A lent access stays until it is given back, when the node's thread is free.
LEMMA LentStays ==
    ASSUME [Next]_vars, lent # "none"
    PROVE  UNCHANGED lent \/ Return
<1> DEFINE P1 == UNCHANGED lent
<1>1. ASSUME NEW kind, Lend(kind) \/ LendLate
      PROVE  P1
    BY <1>1 DEF Lend, LendLate
<1>2. CASE GetStateHashes \/ Halted \/ UNCHANGED vars
    BY <1>2 DEF GetStateHashes, Halted, vars
<1>3. ASSUME NEW t, NEW o, NEW access, NEW name, Create(t, o, access, name)
      PROVE  P1
    BY <1>3 DEF Create
<1>4. ASSUME NEW t, NEW o, CallBegins(t, o) \/ Drop(t, o)
      PROVE  P1
    BY <1>4 DEF CallBegins, Drop
<1>5. ASSUME NEW t, NEW op, NEW o, OpBegins(t, op, o)
      PROVE  P1
    BY <1>5 DEF OpBegins
<1>6. ASSUME NEW t, CallEnds(t) \/ Read(t) \/ Write(t) \/ WritePanics(t) \/ NextEnds(t)
      PROVE  P1
    BY <1>6 DEF CallEnds, Read, Write, WritePanics, NextEnds
<1>7. ASSUME NEW t, NEW it, Iterate(t, it) \/ NextBegins(t, it)
      PROVE  P1
    BY <1>7 DEF Iterate, NextBegins
<1> QED
    BY <1>1, <1>2, <1>3, <1>4, <1>5, <1>6, <1>7 DEF Next

\* A call of an object goes on until it has ended.
LEMMA CallStays ==
    ASSUME TypeInv, [Next]_vars, NEW t \in Threads, doing[t].op = "call", ~CallEnds(t)
    PROVE  doing'[t].op = "call" /\ doing'[t].of = doing[t].of
<1> DEFINE Stays == doing'[t].op = "call" /\ doing'[t].of = doing[t].of
<1>0. TypeOK /\ doing \in [Threads -> OpType]
    BY DEF TypeInv, TypeOK
<1>1. ASSUME UNCHANGED doing
      PROVE  Stays
    BY <1>1
<1>2. ASSUME NEW kind, Lend(kind)
      PROVE  Stays
    BY <1>2 DEF Lend
<1>3. CASE LendLate \/ Return \/ GetStateHashes \/ Halted \/ UNCHANGED vars
    BY <1>3 DEF LendLate, Return, GetStateHashes, Halted, vars
<1>4. ASSUME NEW u, NEW o, NEW access, NEW name, Create(u, o, access, name)
      PROVE  Stays
    BY <1>4 DEF Create
<1>5. ASSUME NEW u, NEW o, Drop(u, o)
      PROVE  Stays
    BY <1>5 DEF Drop
<1>6. ASSUME NEW u \in Threads, NEW o \in Objects, CallBegins(u, o)
      PROVE  Stays
    <2>1. u # t
        BY <1>6 DEF CallBegins, Free
    <2> QED
        BY <1>0, <1>6, <2>1, CallKeepsType
<1>7. ASSUME NEW u \in Threads, NEW op, NEW of, NEW access, NEW use,
             Free(u), Enters(u, op, of, access, use)
      PROVE  Stays
    <2>1. u # t
        BY <1>7 DEF Free
    <2> QED
        BY <1>0, <1>7, <2>1, EntersKeepsType
<1>8. ASSUME NEW u \in Threads, NEW op, NEW o, OpBegins(u, op, o)
      PROVE  Stays
    BY <1>7, <1>8 DEF OpBegins
<1>9. ASSUME NEW u \in Threads, NEW it, NextBegins(u, it)
      PROVE  Stays
    BY <1>1, <1>7, <1>9 DEF NextBegins
<1>10. ASSUME NEW u \in Threads, u # t, doing' = [doing EXCEPT ![u] = Idle]
       PROVE  Stays
    BY <1>0, <1>10
<1>11. ASSUME NEW u \in Threads,
              CallEnds(u) \/ Read(u) \/ Write(u) \/ WritePanics(u) \/ NextEnds(u)
       PROVE  Stays
    <2>1. u # t
        BY <1>11 DEF Read, Write, WritePanics, NextEnds
    <2> QED
        BY <1>10, <1>11, <2>1 DEF CallEnds, Read, Write, WritePanics, NextEnds, Leaves
<1>12. ASSUME NEW u \in Threads, NEW it, Iterate(u, it)
       PROVE  Stays
    <2>1. u # t
        BY <1>12 DEF Iterate
    <2> QED
        BY <1>10, <1>12, <2>1 DEF Iterate, Leaves
<1> HIDE DEF Stays
<1>13. Stays
    <2>1. CASE LendLate \/ Return \/ GetStateHashes \/ Halted \/ UNCHANGED vars
        BY <1>3, <2>1 DEF Stays
    <2> QED
        BY <1>2, <1>4, <1>5, <1>6, <1>8, <1>9, <1>11, <1>12, <2>1 DEF Next
<1> QED
    BY <1>13 DEF Stays

LEMMA NextObject ==
    ASSUME IInv, [Next]_vars, NEW o \in Objects
    PROVE  ObjectInv(o)'
<1> SUFFICES ASSUME objects'[o] # NoObject
             PROVE  /\ objects'[o].access = "lent" => lent' # "none" /\ "node" \in objects'[o].users
                    /\ objects'[o].index # "none" =>
                            Instantiated(declaration'.indices[objects'[o].name])
                    /\ objects'[o].index = "stale" =>
                        \/ objects'[o].access = "expired" \/ objects'[o].users = Threads
                        \/ \E t \in Threads : doing'[t].op = "call" /\ doing'[t].of = o
    BY DEF ObjectInv, Instantiated
<1>0. /\ TypeInv /\ ObjectInv(o) /\ objects \in [Objects -> ObjectType]
      /\ \A t \in Threads : UserInv(t)
      /\ declaration' = declaration
    BY RestKeepsType DEF IInv, TypeInv, TypeOK
<1>1. CASE objects[o] = NoObject
    <2> DEFINE New == \E t \in Threads, access \in {"lent", "api"}, name \in Names :
                        Create(t, o, access, name)
    <2>1. ASSUME UNCHANGED objects
          PROVE  FALSE
        BY <1>1, <2>1
    <2>2. ASSUME Return
          PROVE  FALSE
        BY <1>1, <2>2 DEF Return
    <2>3. ASSUME NEW t \in Threads, NEW p \in Objects, NEW access \in {"lent", "api"},
                 NEW name \in Names, Create(t, p, access, name)
          PROVE  New
        <3>1. p = o
            BY <1>0, <1>1, <2>3 DEF Create
        <3> QED
            BY <2>3, <3>1
    <2>4. ASSUME NEW t \in Threads, NEW p \in Objects, CallBegins(t, p) \/ Drop(t, p)
          PROVE  FALSE
        <3>1. p # o
            BY <1>1, <2>4 DEF CallBegins, Drop
        <3> QED
            BY <1>0, <1>1, <2>4, <3>1 DEF CallBegins, Drop
    <2>5. ASSUME NEW t \in Threads, NEW p \in Objects, NEW op \in {"read", "write"}, OpBegins(t, op, p)
          PROVE  FALSE
        <3>1. p # o
            BY <1>1, <2>5 DEF OpBegins, EnsureAccess
        <3> QED
            BY <1>0, <1>1, <2>5, <3>1 DEF OpBegins
    <2>6. ASSUME NEW t \in Threads, CallEnds(t)
          PROVE  FALSE
        <3>1. doing[t].of # o
            BY <1>0, <1>1, <2>6, UsedObject DEF CallEnds
        <3> QED
            BY <1>0, <1>1, <2>6, <3>1 DEF CallEnds
    <2> HIDE DEF New
    <2>7. New
        BY <2>1, <2>2, <2>3, <2>4, <2>5, <2>6, ObjectStep
    <2>8. PICK t \in Threads, access \in {"lent", "api"}, name \in Names : Create(t, o, access, name)
        BY <2>7 DEF New
    <2>9. /\ objects'[o] = [access |-> access, name |-> name, index |-> "none",
                            users |-> IF access = "lent" THEN {t, "node"} ELSE {t}]
          /\ UNCHANGED lent /\ (access = "lent" => lent # "none")
        BY <1>0, <2>8 DEF Create
    <2> QED
        BY <2>9
<1>2. CASE objects[o] # NoObject
    <2>1. ~\E t \in Threads : Drop(t, o)
        BY <1>0 DEF Drop
    <2> DEFINE old == objects[o]
               new == objects'[o]
    <2>2. /\ new \in BaseIndex /\ old \in BaseIndex /\ new.name = old.name
          /\ old.users \subseteq new.users
          /\ new.access = old.access \/ (old.access = "lent" /\ new.access = "expired")
          /\ \/ new.index = old.index
             \/ old.index # "none" /\ \E t \in Threads : CallBegins(t, o)
             \/ \E t \in Threads : CallEnds(t) /\ doing[t].of = o
        BY <1>0, <1>2, <2>1, ObjectBecomes DEF ObjectType
    <2>3. /\ old.access = "lent" => lent # "none" /\ "node" \in old.users
          /\ old.index # "none" => Instantiated(declaration.indices[old.name])
          /\ old.index = "stale" =>
                \/ old.access = "expired" \/ old.users = Threads
                \/ \E t \in Threads : doing[t].op = "call" /\ doing[t].of = o
        BY <1>0, <1>2 DEF ObjectInv
    <2>u. /\ new.users \subseteq Threads /\ old.users \subseteq Threads
          /\ old.access \in {"lent", "expired", "api"} /\ old.index \in {"none", "made", "stale"}
          /\ new.index \in {"none", "made", "stale"}
        BY <2>2 DEF BaseIndex
    <2>4. Return /\ old.access = "lent" => new.access = "expired"
        <3>1. Return /\ old.access = "lent" => new = [old EXCEPT !.access = "expired"]
            BY <1>2 DEF Return
        <3>2. [old EXCEPT !.access = "expired"].access = "expired"
            BY <2>2 DEF BaseIndex
        <3> QED
            BY <3>1, <3>2
    <2> HIDE DEF old, new
    <2>5. new.access = "lent" => lent' # "none" /\ "node" \in new.users
        BY <2>2, <2>3, <2>4, LentStays
    <2>6. CASE \E t \in Threads : CallEnds(t) /\ doing[t].of = o
        <3>1. PICK t \in Threads : CallEnds(t) /\ doing[t].of = o
            BY <2>6
        <3>2. /\ t \in old.users /\ (doing[t].use # "own" => old.users = Threads)
            BY <1>0, <3>1 DEF UserInv, CallEnds, old
        <3>3. \/ /\ Instantiated(declaration.indices[old.name])
                 /\ \E index \in IF doing[t].use = "own" THEN {"made"} ELSE {"made", "stale"} :
                        objects' = [objects EXCEPT ![o].index = index]
              \/ /\ ~(Instantiated(declaration.indices[old.name]) /\ Valid(old.access))
                 /\ new = old
            BY <3>1 DEF CallEnds, old, new
        <3>4. CASE /\ Instantiated(declaration.indices[old.name])
                   /\ \E index \in IF doing[t].use = "own" THEN {"made"} ELSE {"made", "stale"} :
                        objects' = [objects EXCEPT ![o].index = index]
            <4>1. PICK index \in IF doing[t].use = "own" THEN {"made"} ELSE {"made", "stale"} :
                        objects' = [objects EXCEPT ![o].index = index]
                BY <3>4
            <4>2. new = [old EXCEPT !.index = index]
                BY <1>0, <4>1 DEF old, new
            <4>3. new.index = index
                BY <2>2, <4>2 DEF BaseIndex
            <4>4. new.index = "stale" => doing[t].use # "own"
                BY <4>1, <4>3
            <4>5. new.index = "stale" => new.users = Threads
                BY <2>2, <2>u, <3>2, <4>4
            <4> QED
                BY <1>0, <2>2, <2>5, <3>4, <4>5 DEF new
        <3>5. CASE /\ ~(Instantiated(declaration.indices[old.name]) /\ Valid(old.access))
                   /\ new = old
            <4>1. old.index # "none" => old.access = "expired"
                BY <2>3, <2>u, <3>5 DEF Valid
            <4> QED
                BY <1>0, <2>3, <2>5, <3>5, <4>1 DEF new
        <3> QED
            BY <3>3, <3>4, <3>5
    <2>7. CASE ~\E t \in Threads : CallEnds(t) /\ doing[t].of = o
        <3>1. new.index # "none" => Instantiated(declaration'.indices[new.name])
            BY <1>0, <2>2, <2>3, <2>7
        <3>2. ASSUME new.index = "stale"
              PROVE  \/ new.access = "expired" \/ new.users = Threads
                     \/ \E t \in Threads : doing'[t].op = "call" /\ doing'[t].of = o
            <4>1. ASSUME NEW t \in Threads, CallBegins(t, o)
                  PROVE  doing'[t].op = "call" /\ doing'[t].of = o
                <5>1. doing'[t] = [op |-> "call", of |-> o, use |-> "own"]
                    BY <4>1 DEF CallBegins
                <5> QED
                    BY <5>1
            <4>2. ASSUME NEW t \in Threads, doing[t].op = "call", doing[t].of = o
                  PROVE  doing'[t].op = "call" /\ doing'[t].of = o
                BY <1>0, <2>7, <4>2, CallStays
            <4>3. CASE new.index = old.index
                BY <2>2, <2>3, <2>u, <3>2, <4>2, <4>3
            <4> QED
                BY <2>2, <2>7, <4>1, <4>3
        <3> QED
            BY <2>5, <3>1, <3>2 DEF new
    <2> QED
        BY <2>6, <2>7
<1> QED
    BY <1>1, <1>2

\* The way a thread uses something changes when the other thread calls the object,
\* or enters Rust beside it.
LEMMA UseBecomes ==
    ASSUME TypeOK, [Next]_vars, NEW t \in Threads,
           doing'[t].op # "none", doing'[t].op = doing[t].op, doing'[t].of = doing[t].of
    PROVE  \/ doing'[t].use = doing[t].use
           \/ doing'[t].use = "raced" /\ doing'[t].op # "call"
           \/ \E u \in Threads \ {t} :
                /\ CallBegins(u, doing[t].of)
                /\ doing[t].op \in {"read", "write", "call"} => doing[t].of \in Objects
           \/ Free(t)
<1> DEFINE Same == \/ doing'[t].use = doing[t].use
                   \/ doing'[t].use = "raced" /\ doing'[t].op # "call"
           Calls == \E u \in Threads \ {t} :
                        /\ CallBegins(u, doing[t].of)
                        /\ doing[t].op \in {"read", "write", "call"} => doing[t].of \in Objects
<1>0. doing \in [Threads -> OpType] /\ Idle.op = "none"
    BY DEF TypeOK, Idle
<1>1. ASSUME UNCHANGED doing
      PROVE  Same
    BY <1>1
<1>2. ASSUME NEW u \in Threads, doing' = [doing EXCEPT ![u] = Idle]
      PROVE  Same
    <2>1. u # t
        BY <1>0, <1>2
    <2> QED
        BY <1>0, <1>2, <2>1
<1>3. ASSUME NEW u \in Threads, NEW o \in Objects, CallBegins(u, o)
      PROVE  Same \/ Calls \/ Free(t)
    <2>1. CASE u = t
        BY <1>3, <2>1 DEF CallBegins
    <2>2. CASE u # t
        <3>1. doing'[t] = doing[t] \/ doing[t].of = o
            BY <1>3, <2>2, CallKeepsType
        <3> QED
            BY <1>3, <2>2, <3>1
    <2> QED
        BY <2>1, <2>2
<1>4. ASSUME NEW u \in Threads, NEW op, NEW of, NEW access, NEW use,
             Free(u), Enters(u, op, of, access, use)
      PROVE  Same \/ Free(t)
    <2>1. CASE u # t
        BY <1>4, <2>1, EntersKeepsType DEF InRust
    <2> QED
        BY <1>4, <2>1
<1>5. ASSUME NEW u \in Threads, NEW o \in Objects, NEW op \in {"read", "write"}, OpBegins(u, op, o)
      PROVE  Same \/ Free(t)
    BY <1>4, <1>5 DEF OpBegins
<1>6. ASSUME NEW u \in Threads, NEW it \in Iterators,
             NextBegins(u, it), Enters(u, "next", it, iterators[it].access, "own")
      PROVE  Same \/ Free(t)
    <2>1. Free(u)
        BY <1>6 DEF NextBegins
    <2> QED
        BY <1>4, <1>6, <2>1
<1> HIDE DEF Same, Calls
<1>7. Same \/ Calls \/ Free(t)
    BY <1>1, <1>2, <1>3, <1>5, <1>6, DoingStep
<1> QED
    BY <1>7 DEF Same, Calls

LEMMA NextUser ==
    ASSUME IInv, [Next]_vars, NEW t \in Threads
    PROVE  UserInv(t)'
<1> DEFINE o == doing'[t].of
           op == doing'[t].op
           use == doing'[t].use
           new == objects'[o]
<1> SUFFICES ASSUME op \in {"read", "write", "call"}
             PROVE  /\ t \in new.users
                    /\ use # "own" => new.users = Threads \/ (use = "raced" /\ op # "call")
                    /\ op # "call" /\ new.access = "expired" => new.users = Threads
                    /\ op = "write" =>
                        \/ new.access = "expired"
                        \/ new.access = "lent" /\ lent' \in {"fork", "late"}
    BY DEF UserInv
<1>0. /\ TypeInv /\ TypeOK /\ objects \in [Objects -> ObjectType] /\ doing \in [Threads -> OpType]
      /\ UserInv(t)
      /\ \A p \in Objects : ObjectInv(p)
      /\ \A u \in Threads : UserInv(u)
    BY DEF IInv, TypeInv, TypeOK
<1>1. CASE doing[t].op # "none" /\ op = doing[t].op /\ o = doing[t].of
    <2> DEFINE old == objects[o]
    <2>1. o \in Objects /\ old # NoObject /\ old \in BaseIndex
        BY <1>0, <1>1, UsedObject DEF ObjectType
    <2>2. ~\E u \in Threads : Drop(u, o)
        BY <1>1, UsedIsKept
    <2>3. /\ new \in BaseIndex /\ old.users \subseteq new.users
          /\ \/ new.access = old.access
             \/ Return /\ old.access = "lent" /\ new.access = "expired"
        BY <1>0, <2>1, <2>2, ObjectBecomes
    <2>4. /\ t \in old.users
          /\ doing[t].use # "own" => old.users = Threads \/ (doing[t].use = "raced" /\ op # "call")
          /\ op # "call" /\ old.access = "expired" => old.users = Threads
          /\ op = "write" =>
                old.access = "expired" \/ (old.access = "lent" /\ lent \in {"fork", "late"})
          /\ old.access = "lent" => lent # "none" /\ "node" \in old.users
        BY <1>0, <1>1, <2>1 DEF UserInv, ObjectInv
    <2>5. use = doing[t].use \/ (use = "raced" /\ op # "call")
          \/ \E u \in Threads \ {t} : CallBegins(u, o)
        BY <1>0, <1>1, UseBecomes DEF Free
    <2>6. new.users \in SUBSET Threads /\ old.users \in SUBSET Threads
        BY <2>1, <2>3 DEF BaseIndex
    <2>7. ASSUME NEW u \in Threads \ {t}, CallBegins(u, o)
          PROVE  new.users = Threads
        <3>1. new.users = old.users \union {u}
            BY <1>0, <2>1, <2>7, BeginsAsUser
        <3> HIDE DEF new, old
        <3> QED
            BY <2>4, <2>6, <3>1, TwoThreads
    <2>8. ASSUME Return, old.access = "lent"
          PROVE  new.users = Threads
        <3>1. t # "node"
            BY <1>1, <2>8 DEF Return, Free
        <3>2. "node" \in Threads
            BY DEF Threads
        <3> HIDE DEF new, old
        <3> QED
            BY <2>3, <2>4, <2>6, <2>8, <3>1, <3>2, TwoThreads
    <2> HIDE DEF new, old, use, op, o
    <2>9. use # "own" => new.users = Threads \/ (use = "raced" /\ op # "call")
        BY <2>3, <2>4, <2>5, <2>6, <2>7
    <2>10. op # "call" /\ new.access = "expired" => new.users = Threads
        BY <2>3, <2>4, <2>6, <2>8
    <2>11. op = "write" =>
              new.access = "expired" \/ (new.access = "lent" /\ lent' \in {"fork", "late"})
        <3>1. CASE new.access = old.access /\ ~(Return /\ old.access = "lent")
            <4>1. old.access = "lent" => lent' = lent
                BY <2>4, <3>1, LentStays
            <4> QED
                BY <2>4, <3>1, <4>1
        <3>2. CASE Return /\ old.access = "lent"
            <4>1. new = [old EXCEPT !.access = "expired"]
                BY <2>1, <3>2 DEF Return, new, old
            <4>2. new.access = "expired"
                BY <2>1, <4>1 DEF BaseIndex
            <4> QED
                BY <4>2
        <3> QED
            BY <2>3, <3>1, <3>2
    <2> QED
        BY <2>3, <2>4, <2>9, <2>10, <2>11
<1>2. ASSUME NEW p \in Objects, CallBegins(t, p), op = "call", o = p
      PROVE  /\ t \in new.users /\ use = "own"
    <2>1. doing'[t] = [op |-> "call", of |-> p, use |-> "own"]
        BY <1>2 DEF CallBegins
    <2>2. objects'[p].users = objects[p].users \union {t}
        BY <1>0, <1>2, BeginsAsUser
    <2> QED
        BY <1>2, <2>1, <2>2
<1>3. ASSUME NEW p \in Objects, NEW begun \in {"read", "write"},
             OpBegins(t, begun, p), op = begun, o = p
      PROVE  /\ t \in new.users
             /\ use # "own" => new.users = Threads \/ use = "raced"
             /\ new.access # "expired"
             /\ op = "write" => new.access = "lent" /\ lent' \in {"fork", "late"}
    <2> DEFINE old == objects[p]
    <2>1. /\ new \in BaseIndex /\ new.users = old.users \union {t} /\ new.access = old.access
          /\ old # NoObject /\ old \in BaseIndex
        BY <1>0, <1>3, BeginsAsUser DEF ObjectType
    <2>2. /\ old.index # "none" /\ Valid(old.access) /\ lent' = lent
          /\ begun = "write" => IsFork(old.access)
        BY <1>3 DEF OpBegins, EnsureAccess, Mutable
    <2>3. new.access # "expired"
        BY <2>1, <2>2 DEF Valid
    <2>4. old.index = "stale" => new.users = Threads
        <3> SUFFICES ASSUME old.index = "stale"
                     PROVE  new.users = Threads
            OBVIOUS
        <3>1. old.users = Threads \/ \E u \in Threads : doing[u].op = "call" /\ doing[u].of = p
            BY <1>0, <2>1, <2>3 DEF ObjectInv
        <3>2. new.users \in SUBSET Threads
            BY <2>1 DEF BaseIndex
        <3>3. ASSUME NEW u \in Threads, doing[u].op = "call", doing[u].of = p
              PROVE  new.users = Threads
            <4>1. u \in old.users
                BY <1>0, <3>3 DEF UserInv
            <4>2. u # t
                BY <1>3, <3>3 DEF OpBegins, Free
            <4> HIDE DEF new, old
            <4> QED
                BY <2>1, <3>2, <4>1, <4>2, TwoThreads
        <3> HIDE DEF new, old
        <3> QED
            BY <2>1, <3>1, <3>2, <3>3
    <2>5. use \in {"own", "raced"} \/ old.index = "stale"
        <3> DEFINE taken == IF old.index = "made" THEN "own" ELSE "stale"
        <3>1. Enters(t, begun, p, old.access, taken)
            BY <1>3 DEF OpBegins
        <3> HIDE DEF taken
        <3>2. \/ doing'[t] = [op |-> begun, of |-> p, use |-> taken]
              \/ doing'[t] = [op |-> begun, of |-> p, use |-> "raced"]
            BY <1>0, <3>1, EntersDoing
        <3>3. old.index \in {"none", "made", "stale"}
            BY <2>1 DEF BaseIndex
        <3>4. use = taken \/ use = "raced"
            BY <3>2
        <3> QED
            BY <2>2, <3>3, <3>4 DEF taken
    <2>6. op = "write" => new.access = "lent" /\ lent' \in {"fork", "late"}
        BY <1>3, <2>1, <2>2 DEF IsFork
    <2> QED
        BY <2>1, <2>3, <2>4, <2>5, <2>6
<1>4. \/ doing[t].op # "none" /\ op = doing[t].op /\ o = doing[t].of
      \/ \E p \in Objects : CallBegins(t, p) /\ op = "call" /\ o = p
      \/ \E p \in Objects, begun \in {"read", "write"} :
            OpBegins(t, begun, p) /\ op = begun /\ o = p
    BY <1>0, OpBefore
<1> HIDE DEF new, use, op, o
<1> QED
    BY <1>1, <1>2, <1>3, <1>4

\* Nothing happens after a panic.
LEMMA PanicIsLast ==
    ASSUME [Next]_vars, panicked
    PROVE  UNCHANGED lent
<1>1. ~Running /\ \A t : ~Free(t)
    BY DEF Running, Free
<1>2. ~LendLate /\ ~Return /\ ~GetStateHashes /\ \A kind : ~Lend(kind)
    BY <1>1 DEF Lend, LendLate, Return, GetStateHashes
<1>3. \A t, o : /\ \A access, name : ~Create(t, o, access, name)
               /\ \A op : ~OpBegins(t, op, o)
               /\ ~CallBegins(t, o) /\ ~Drop(t, o)
    BY <1>1 DEF Create, CallBegins, Drop, OpBegins
<1>4. \A t : ~CallEnds(t) /\ ~Read(t) /\ ~Write(t) /\ ~WritePanics(t) /\ ~NextEnds(t)
    BY <1>1 DEF CallEnds, Read, Write, WritePanics, NextEnds, Leaves
<1>5. \A t, it : ~Iterate(t, it) /\ ~NextBegins(t, it)
    BY <1>1 DEF Iterate, NextBegins, Leaves
<1>6. Halted \/ UNCHANGED vars
    BY <1>2, <1>3, <1>4, <1>5 DEF Next
<1> QED
    BY <1>6 DEF Halted, vars

\* A thread writes to what it may, or to a snapshot that passes for a Fork.
LEMMA NextPanics ==
    ASSUME IInv, [Next]_vars
    PROVE  PanicsOnlyAfterCommit'
<1>1. CASE panicked
    BY <1>1, PanicIsLast DEF IInv, PanicsOnlyAfterCommit
<1>2. CASE ~panicked /\ UNCHANGED panicked
    BY <1>2 DEF PanicsOnlyAfterCommit
<1>3. ASSUME NEW t \in Threads, WritePanics(t)
      PROVE  PanicsOnlyAfterCommit'
    <2>1. doing[t].op = "write" /\ Valid(Using(t)) /\ lent # "fork" /\ lent' = lent
        BY <1>3 DEF WritePanics, Live, Writable
    <2>2. Using(t) = objects[doing[t].of].access
        BY <2>1 DEF Using
    <2>3. lent = "late"
        BY <2>1, <2>2 DEF IInv, UserInv, Valid
    <2> QED
        BY <2>1, <2>3 DEF PanicsOnlyAfterCommit
<1> QED
    BY <1>1, <1>2, <1>3, PanicStep

\* An accepted class names what is called a proof index only.
LEMMA NextHashes ==
    ASSUME IInv, [Next]_vars
    PROVE  HashesDoNotFail'
<1>0. TypeOK /\ TypeInv /\ Accepted(declaration) /\ HashesDoNotFail
    BY DEF IInv, TypeInv
<1>1. ASSUME hashing' \in {hashing, "none", "answered"}
      PROVE  HashesDoNotFail'
    BY <1>0, <1>1, RestKeepsType DEF HashesDoNotFail, Instantiated
<1>2. CASE GetStateHashes
    <2>1. CASE \A i \in DOMAIN declaration.stateHash :
                    Hashable(declaration.indices[declaration.stateHash[i]])
        BY <1>1, <1>2, <2>1 DEF GetStateHashes
    <2>2. ASSUME NEW i \in DOMAIN declaration.stateHash,
                 ~Hashable(declaration.indices[declaration.stateHash[i]])
          PROVE  HashesDoNotFail'
        <3> DEFINE type == declaration.indices[declaration.stateHash[i]]
        <3>1. type.name \in ProofIndices
            BY <1>0 DEF Accepted, StateHashAccepted
        <3>2. ~Instantiated(type) \/ type.class # type.name
            BY <2>2, <3>1 DEF Hashable
        <3>3. declaration' = declaration
            BY <1>0, RestKeepsType
        <3> QED
            BY <3>2, <3>3 DEF HashesDoNotFail, Instantiated
    <2> QED
        BY <2>1, <2>2
<1>3. ASSUME NEW kind, Lend(kind)
      PROVE  HashesDoNotFail'
    BY <1>1, <1>3 DEF Lend
<1>4. ASSUME LendLate \/ Return \/ Halted \/ UNCHANGED vars
      PROVE  HashesDoNotFail'
    BY <1>1, <1>4 DEF LendLate, Return, Halted, vars
<1>5. ASSUME NEW t, NEW o, NEW access, NEW name, Create(t, o, access, name)
      PROVE  HashesDoNotFail'
    BY <1>1, <1>5 DEF Create
<1>6. ASSUME NEW t, NEW o, CallBegins(t, o) \/ Drop(t, o)
      PROVE  HashesDoNotFail'
    BY <1>1, <1>6 DEF CallBegins, Drop
<1>7. ASSUME NEW t, NEW op, NEW o, OpBegins(t, op, o)
      PROVE  HashesDoNotFail'
    BY <1>1, <1>7 DEF OpBegins
<1>8. ASSUME NEW t, CallEnds(t) \/ Read(t) \/ Write(t) \/ WritePanics(t) \/ NextEnds(t)
      PROVE  HashesDoNotFail'
    BY <1>1, <1>8 DEF CallEnds, Read, Write, WritePanics, NextEnds
<1>9. ASSUME NEW t, NEW it, Iterate(t, it) \/ NextBegins(t, it)
      PROVE  HashesDoNotFail'
    BY <1>1, <1>9 DEF Iterate, NextBegins
<1> QED
    BY <1>2, <1>3, <1>4, <1>5, <1>6, <1>7, <1>8, <1>9 DEF Next

LEMMA NextIInv == IInv /\ [Next]_vars => IInv'
<1> SUFFICES ASSUME IInv, [Next]_vars
             PROVE  IInv'
    OBVIOUS
<1>1. declaration' = declaration
    BY RestKeepsType DEF IInv
<1>2. Accepted(declaration)'
    BY <1>1 DEF IInv, Accepted, SchemaAccepted, StateHashAccepted
<1>3. TypeInv'
    BY NextType DEF IInv
<1> QED
    BY <1>2, <1>3, NextObject, NextUser, NextPanics, NextHashes DEF IInv

THEOREM InductiveInvariant == Spec => []IInv
BY InitIInv, NextIInv, PTL DEF Spec

\* Memory that is gone is reached by iterators, and by what both threads use, and
\* by nothing else, for any number of objects and iterators.
THEOREM OthersAreGuarded == Spec => []OnlySharedOutlive
<1>1. IInv => OnlySharedOutlive
    <2> SUFFICES ASSUME IInv, NEW t \in Threads, Misuses(t),
                        doing[t].op # "next", doing[t].use # "raced"
                 PROVE  objects[doing[t].of].users = Threads
        BY DEF OnlySharedOutlive
    <2> DEFINE object == objects[doing[t].of]
    <2>1. doing[t].op \in {"read", "write"}
        BY DEF Misuses, InRust, IInv, TypeInv, TypeOK, OpType, Idle
    <2>2. TypeInv /\ UserInv(t) /\ \A o \in Objects : ObjectInv(o)
        BY DEF IInv
    <2>3. /\ doing[t].of \in Objects /\ object # NoObject
          /\ object.access \in {"lent", "expired", "api"}
        BY <2>1, <2>2, UsedObject
    <2>4. doing[t].use # "own" \/ ~Valid(object.access)
        BY <2>1 DEF Misuses, Live, Using
    <2>5. CASE doing[t].use # "own"
        BY <2>1, <2>2, <2>5 DEF UserInv
    <2>6. CASE ~Valid(object.access)
        <3>1. object.access = "expired"
            BY <2>2, <2>3, <2>6 DEF Valid, ObjectInv
        <3> QED
            BY <2>1, <2>2, <3>1 DEF UserInv
    <2> QED
        BY <2>4, <2>5, <2>6
<1> QED
    BY <1>1, InductiveInvariant, PTL

\* A write panics in the before_commit called by after_commit only.
THEOREM OtherWritesAreChecked == Spec => []PanicsOnlyAfterCommit
<1>1. IInv => PanicsOnlyAfterCommit
    BY DEF IInv
<1> QED
    BY <1>1, InductiveInvariant, PTL

\* The checks on a class suffice for its state hashes, but for its generics and
\* for types that are not what they are called.
THEOREM AcceptedClassesAnswer == Spec => []HashesDoNotFail
<1>1. IInv => HashesDoNotFail
    BY DEF IInv
<1> QED
    BY <1>1, InductiveInvariant, PTL

-----------------------------------------------------------------------------
(* Iterations *)

\* An iterator that has begun and that nothing disturbed has memory, belongs to
\* a list of the length it asked for, and has given the items before its
\* position; at the end these are all.
Exact(it) ==
    LET i == iterators[it]
        items == Seen(i.access, i.name) IN
    i.state # "new" /\ i.clean =>
        /\ i.state # "raised"
        /\ i.of # NoObject /\ Valid(i.access)
        /\ Class(i.name) = "ListIndex"
        /\ i.len = Len(items) /\ i.pos <= i.len
        /\ \A n \in 1..i.pos : i.seen[n] = items[n]
        /\ i.state = "ended" => i.pos = i.len

IterInv == IInv /\ \A it \in Iterators : Exact(it)

\* What readers see changes by a write, or when a block is published.
LEMMA DataStep ==
    ASSUME [Next]_vars
    PROVE  \/ UNCHANGED <<store, published>>
           \/ LendLate
           \/ \E t \in Threads :
                /\ Touch(LAMBDA it : it.access = "lent" /\ it.name = objects[doing[t].of].name)
                /\ UNCHANGED <<published, lent>>
                /\ \E items : store' = [store EXCEPT ![objects[doing[t].of].name] = items]
<1> DEFINE P1 == UNCHANGED <<store, published>>
           P2 == \E t \in Threads :
                /\ Touch(LAMBDA it : it.access = "lent" /\ it.name = objects[doing[t].of].name)
                /\ UNCHANGED <<published, lent>>
                /\ \E items : store' = [store EXCEPT ![objects[doing[t].of].name] = items]
<1>1. ASSUME NEW kind, Lend(kind)
      PROVE  P1
    BY <1>1 DEF Lend, dataVars
<1>2. ASSUME Return \/ GetStateHashes \/ Halted \/ UNCHANGED vars
      PROVE  P1
    BY <1>2 DEF Return, GetStateHashes, Halted, vars, dataVars
<1>3. ASSUME NEW t, NEW o, NEW access, NEW name, Create(t, o, access, name)
      PROVE  P1
    BY <1>3 DEF Create, dataVars
<1>4. ASSUME NEW t, NEW o, CallBegins(t, o) \/ Drop(t, o)
      PROVE  P1
    BY <1>4 DEF CallBegins, Drop, dataVars
<1>5. ASSUME NEW t, NEW op, NEW o, OpBegins(t, op, o)
      PROVE  P1
    BY <1>5 DEF OpBegins, dataVars
<1>6. ASSUME NEW t, CallEnds(t) \/ Read(t) \/ WritePanics(t) \/ NextEnds(t)
      PROVE  P1
    BY <1>6 DEF CallEnds, Read, WritePanics, NextEnds, dataVars
<1>7. ASSUME NEW t \in Threads, Write(t)
      PROVE  P1 \/ P2
    BY <1>7, Zenon DEF Write
<1>8. ASSUME NEW t, NEW it, Iterate(t, it) \/ NextBegins(t, it)
      PROVE  P1
    BY <1>8 DEF Iterate, NextBegins, dataVars
<1> HIDE DEF P1, P2
<1>9. P1 \/ LendLate \/ P2
    BY <1>1, <1>2, <1>3, <1>4, <1>5, <1>6, <1>7, <1>8 DEF Next
<1> QED
    BY <1>9, Zenon DEF P1, P2

\* An iterator that stays undisturbed reads what it did.
LEMMA SeenStays ==
    ASSUME TypeInv, [Next]_vars, NEW it \in Iterators,
           iterators'[it] = iterators[it], iterators'[it].clean,
           Valid(iterators[it].access)
    PROVE  /\ iterators[it].access = "lent" => lent' # "none"
           /\ iterators[it].access = "lent" =>
                store'[iterators[it].name] = store[iterators[it].name]
           /\ iterators[it].access = "api" =>
                published'[iterators[it].name] = published[iterators[it].name]
<1> DEFINE i == iterators[it]
<1>0. i \in IteratorType /\ store \in [Names -> Contents] /\ iterators \in [Iterators -> IteratorType]
    BY DEF TypeInv, TypeOK
<1>1. ASSUME i.access = "lent"
      PROVE  lent' # "none"
    <2>1. lent # "none"
        BY <1>1 DEF Valid
    <2>2. ~Return
        <3>1. Return => iterators'[it] = [Disturbed(i) EXCEPT !.access = "expired"]
            BY <1>1 DEF Return
        <3>2. ~[Disturbed(i) EXCEPT !.access = "expired"].clean
            BY <1>0, FreedType
        <3> QED
            BY <3>1, <3>2
    <2> QED
        BY <2>1, <2>2, LentStays
<1>d. ~Disturbed(i).clean
    BY <1>0, DisturbedType
<1>2. CASE UNCHANGED <<store, published>>
    BY <1>1, <1>2
<1>3. CASE LendLate
    <2>1. iterators'[it] = IF i.access = "api" /\ store[i.name] # published[i.name]
                           THEN Disturbed(i) ELSE i
        BY <1>3, Zenon DEF LendLate, Touch
    <2>2. ~(i.access = "api" /\ store[i.name] # published[i.name])
        BY <1>d, <2>1
    <2> QED
        BY <1>1, <1>3, <2>2 DEF LendLate
<1>4. ASSUME NEW t \in Threads, NEW items,
             Touch(LAMBDA jt : jt.access = "lent" /\ jt.name = objects[doing[t].of].name),
             UNCHANGED <<published, lent>>,
             store' = [store EXCEPT ![objects[doing[t].of].name] = items]
      PROVE  i.access = "lent" => store'[i.name] = store[i.name]
    <2>1. iterators'[it] = IF i.access = "lent" /\ i.name = objects[doing[t].of].name
                           THEN Disturbed(i) ELSE i
        BY <1>4, Zenon DEF Touch
    <2>2. ~(i.access = "lent" /\ i.name = objects[doing[t].of].name)
        BY <1>d, <2>1
    <2>3. i.name \in Names
        BY <1>0 DEF IteratorType
    <2> QED
        BY <1>0, <1>4, <2>2, <2>3
<1>5. CASE \E t \in Threads :
              /\ Touch(LAMBDA jt : jt.access = "lent" /\ jt.name = objects[doing[t].of].name)
              /\ UNCHANGED <<published, lent>>
              /\ \E items : store' = [store EXCEPT ![objects[doing[t].of].name] = items]
    BY <1>1, <1>4, <1>5
<1> QED
    BY <1>2, <1>3, <1>5, DataStep, Zenon

\* What is not clean is exact, and so is what stays what it was.
LEMMA ExactKept ==
    ASSUME IterInv, [Next]_vars, NEW it \in Iterators,
           iterators'[it].clean => iterators'[it] = iterators[it]
    PROVE  Exact(it)'
<1> SUFFICES ASSUME iterators'[it].clean, iterators'[it].state # "new"
             PROVE  Exact(it)'
    BY DEF Exact
<1> DEFINE i == iterators[it]
<1>1. iterators'[it] = i /\ i.clean /\ i.state # "new"
    OBVIOUS
<1>2. TypeInv /\ declaration' = declaration /\ Exact(it)
    BY RestKeepsType DEF IterInv, IInv
<1>3. Valid(i.access)
    BY <1>1, <1>2 DEF Exact
<1>4. /\ i.access = "lent" => lent' # "none" /\ store'[i.name] = store[i.name]
      /\ i.access = "api" => published'[i.name] = published[i.name]
    BY <1>1, <1>2, <1>3, SeenStays
<1>5. i.access \in {"lent", "api"}
    BY <1>3 DEF Valid
<1>6. Seen(i.access, i.name)' = Seen(i.access, i.name) /\ Valid(i.access)'
    BY <1>1, <1>4, <1>5 DEF Seen, Valid
<1> QED
    BY <1>1, <1>2, <1>6 DEF Exact, Class

\* __iter__ of an object with memory begins exactly.
LEMMA IterateIsExact ==
    ASSUME IterInv, NEW t \in Threads, NEW it \in Iterators, Iterate(t, it)
    PROVE  Exact(it)'
<1> DEFINE o == doing[t].of
           object == objects[o]
           len == Len(Seen(object.access, object.name))
<1>0. TypeInv /\ iterators \in [Iterators -> IteratorType]
    BY DEF IterInv, IInv, TypeInv, TypeOK
<1>1. /\ o \in Objects /\ object.name \in Names
      /\ object.access \in {"lent", "expired", "api"}
    BY <1>0, UsedObject DEF Iterate
<1>2. /\ UNCHANGED <<declaration, store, published, lent>>
      /\ Iterable(object.name) /\ Using(t) = object.access
    BY DEF Iterate, dataVars, Using
<1>3. CASE Live(t) /\ iterators' = [iterators EXCEPT ![it] =
                                    NewIterator(object.access, object.name, o, len)]
    <2>1. iterators'[it] = NewIterator(object.access, object.name, o, len)
        BY <1>0, <1>3
    <2>2. Valid(object.access)
        BY <1>2, <1>3 DEF Live
    <2>3. len \in Nat
        BY <1>0, <1>1, SeenIsContents, ContentsAreShort, AccessAssumption DEF TypeInv
    <2>4. o # NoObject
        BY <1>1, AccessAssumption
    <2> DEFINE new == iterators'[it]
    <2>5. /\ new.state = "running" /\ new.access = object.access /\ new.name = object.name
          /\ new.of = o /\ new.pos = 0 /\ new.len = len
        BY <2>1 DEF NewIterator
    <2>6. Seen(iterators[it].access, iterators[it].name)' = Seen(object.access, object.name)
        BY <1>2, <2>5 DEF Seen
    <2>7. Valid(iterators[it].access)' /\ Class(iterators[it].name)' = "ListIndex"
        BY <1>2, <2>2, <2>5 DEF Valid, Iterable, Class
    <2> QED
        BY <2>3, <2>4, <2>5, <2>6, <2>7 DEF Exact
<1>4. CASE \E length \in 0..MaxLen : iterators' = [iterators EXCEPT ![it] =
                Disturbed(NewIterator(object.access, object.name, NoObject, length))]
    <2>1. PICK length \in 0..MaxLen : iterators' = [iterators EXCEPT ![it] =
                Disturbed(NewIterator(object.access, object.name, NoObject, length))]
        BY <1>4
    <2>2. NewIterator(object.access, object.name, NoObject, length) \in IteratorType
        BY <1>1, NewIteratorType
    <2>3. ~iterators'[it].clean
        BY <1>0, <2>1, <2>2, DisturbedType
    <2> QED
        BY <2>3 DEF Exact
<1> QED
    BY <1>3, <1>4 DEF Iterate

\* An iterator at its end has given everything.
LEMMA EndIsExact ==
    ASSUME IterInv, NEW it \in Iterators, iterators[it].state = "running", AtEnd(iterators[it]),
           UNCHANGED <<declaration, store, published, lent>>,
           Ends(it, iterators[it], "ended")
    PROVE  Exact(it)'
<1> DEFINE i == iterators[it]
           new == iterators'[it]
<1>0. iterators \in [Iterators -> IteratorType] /\ i \in IteratorType /\ Exact(it)
    BY DEF IterInv, IInv, TypeInv, TypeOK
<1>1. new = [i EXCEPT !.state = "ended"]
    BY <1>0 DEF Ends
<1>2. /\ new.state = "ended" /\ new.clean = i.clean /\ new.of = i.of /\ new.access = i.access
      /\ new.name = i.name /\ new.pos = i.pos /\ new.len = i.len /\ new.seen = i.seen
    BY <1>0, <1>1 DEF IteratorType
<1> SUFFICES ASSUME i.clean
             PROVE  Exact(it)'
    BY <1>2 DEF Exact
<1>3. /\ i.of # NoObject /\ Valid(i.access) /\ Class(i.name) = "ListIndex"
      /\ i.len = Len(Seen(i.access, i.name)) /\ i.pos <= i.len
      /\ \A n \in 1..i.pos : i.seen[n] = Seen(i.access, i.name)[n]
    BY <1>0 DEF Exact
<1>4. i.pos \in Int /\ i.len \in Int
    BY <1>0, AccessAssumption DEF IteratorType
<1>5. i.pos = i.len
    BY <1>3, <1>4 DEF AtEnd
<1>6. Seen(iterators[it].access, iterators[it].name)' = Seen(i.access, i.name)
    BY <1>2 DEF Seen
<1>7. Valid(iterators[it].access)' /\ Class(iterators[it].name)' = "ListIndex"
    BY <1>2, <1>3 DEF Valid, Class
<1> QED
    BY <1>2, <1>3, <1>4, <1>5, <1>6, <1>7 DEF Exact

\* The next item is the one after those that were given.
LEMMA NextIsExact ==
    ASSUME IterInv, NEW t \in Threads, NextEnds(t), NEW it \in Iterators, doing[t].of = it
    PROVE  Exact(it)'
<1> DEFINE i == iterators[it]
           items == Seen(i.access, i.name)
           new == iterators'[it]
<1>0. /\ TypeInv /\ iterators \in [Iterators -> IteratorType]
      /\ \A jt \in Iterators : Exact(jt)
    BY DEF IterInv, IInv, TypeInv, TypeOK
<1>1. i \in IteratorType /\ i.state = "running" /\ ~AtEnd(i)
    BY <1>0, UsedIterator DEF NextEnds
<1>2. UNCHANGED <<declaration, store, published, lent>>
    BY DEF NextEnds, dataVars
<1>3. Disturbed(i) \in IteratorType /\ ~Disturbed(i).clean /\ ~AtEnd(Disturbed(i))
    BY <1>1, DisturbedType DEF AtEnd
<1>4. /\ Exact(it)
      /\ i.pos \in Nat /\ i.len \in Nat
    BY <1>0, <1>1, AccessAssumption DEF IteratorType
<1>5. \/ Live(t) /\ i.pos < Len(items) /\ Gives(it, i, items[i.pos + 1])
      \/ Live(t) /\ i.pos >= Len(items) /\ Ends(it, i, "raised")
      \/ ~Live(t) /\ Gives(it, Disturbed(i), NoValue)
      \/ ~Live(t) /\ Ends(it, Disturbed(i), "raised")
    BY DEF NextEnds
<1>6. ASSUME NEW j \in IteratorType, ~j.clean, ~AtEnd(j),
             Gives(it, j, NoValue) \/ Ends(it, j, "raised")
      PROVE  ~new.clean
    <2>1. CASE Gives(it, j, NoValue)
        <3>1. new = Given(j, NoValue)
            BY <1>0, <1>1, <1>6, <2>1, GivesMakes
        <3>2. Given(j, NoValue).clean = j.clean
            BY <1>6, GivenType
        <3> QED
            BY <1>6, <3>1, <3>2
    <2>2. CASE Ends(it, j, "raised")
        <3>1. new = [j EXCEPT !.state = "raised"]
            BY <1>0, <1>1, <2>2 DEF Ends
        <3>2. [j EXCEPT !.state = "raised"].clean = j.clean
            BY DEF IteratorType
        <3> QED
            BY <1>6, <3>1, <3>2
    <2> QED
        BY <1>6, <2>1, <2>2
<1>7. CASE ~Live(t)
    <2>1. ~new.clean
        BY <1>3, <1>5, <1>6, <1>7
    <2> QED
        BY <2>1 DEF Exact
<1>8. CASE Live(t) /\ ~i.clean
    <2>1. CASE i.pos >= Len(items) /\ Ends(it, i, "raised")
        BY <1>1, <1>6, <1>8, <2>1 DEF Exact
    <2>2. CASE i.pos < Len(items) /\ Gives(it, i, items[i.pos + 1])
        <3>1. new.clean = i.clean
            <4>1. new = Given(i, items[i.pos + 1])
                BY <1>0, <1>1, <2>2 DEF Gives, Given
            <4>2. Given(i, items[i.pos + 1]).clean = i.clean
                BY <1>1 DEF Given, IteratorType
            <4> QED
                BY <4>1, <4>2
        <3> QED
            BY <1>8, <3>1 DEF Exact
    <2> QED
        BY <1>5, <1>8, <2>1, <2>2
<1>9. CASE Live(t) /\ i.clean
    <2>1. /\ i.of # NoObject /\ Valid(i.access) /\ Class(i.name) = "ListIndex"
          /\ i.len = Len(items) /\ i.pos <= i.len
          /\ \A n \in 1..i.pos : i.seen[n] = items[n]
        BY <1>1, <1>4, <1>9 DEF Exact
    <2>2. i.pos < Len(items) /\ Gives(it, i, items[i.pos + 1])
        BY <1>1, <1>4, <1>5, <1>9, <2>1 DEF AtEnd
    <2>3. items \in Contents
        BY <1>0, <1>1, SeenIsContents DEF IteratorType, TypeInv
    <2>4. i.pos + 1 \in 1..Len(items)
        BY <1>4, <2>2, <2>3, ContentsAreShort
    <2>5. items[i.pos + 1] \in Values \union {NoValue}
        BY <2>3, <2>4, ContentsAreShort
    <2>6. new = [i EXCEPT !.seen = [i.seen EXCEPT ![i.pos + 1] = items[i.pos + 1]],
                          !.pos = i.pos + 1]
        <3>1. new = Given(i, items[i.pos + 1])
            BY <1>0, <1>1, <2>2, <2>5, GivesMakes
        <3>2. Advanced(i) = i.pos + 1
            BY <2>1 DEF Advanced
        <3>3. Given(i, items[i.pos + 1]) =
                [i EXCEPT !.seen = [i.seen EXCEPT ![i.pos + 1] = items[i.pos + 1]],
                          !.pos = Advanced(i)]
            BY <1>9 DEF Given, IteratorType
        <3> QED
            BY <3>1, <3>2, <3>3
    <2>7. /\ new.state = "running" /\ new.of = i.of /\ new.access = i.access /\ new.name = i.name
          /\ new.len = i.len /\ new.pos = i.pos + 1
          /\ new.seen = [i.seen EXCEPT ![i.pos + 1] = items[i.pos + 1]]
        BY <1>1, <2>6 DEF IteratorType
    <2>8. i.pos + 1 \in DOMAIN i.seen
        BY <1>1, <1>4, <2>1, <2>2, AccessAssumption DEF IteratorType
    <2>9. \A n \in 1..(i.pos + 1) : new.seen[n] = items[n]
        <3> SUFFICES ASSUME NEW n \in 1..(i.pos + 1)
                     PROVE  new.seen[n] = items[n]
            OBVIOUS
        <3>1. n = i.pos + 1 \/ n \in 1..i.pos
            BY <1>4
        <3> QED
            BY <2>1, <2>7, <2>8, <3>1
    <2>10. Seen(iterators[it].access, iterators[it].name)' = items
        BY <1>2, <2>7 DEF Seen
    <2>11. Valid(iterators[it].access)' /\ Class(iterators[it].name)' = "ListIndex"
        BY <1>2, <2>1, <2>7 DEF Valid, Class
    <2>12. i.pos + 1 <= i.len
        BY <1>4, <2>1, <2>2
    <2> HIDE DEF items, i
    <2> QED
        BY <2>1, <2>7, <2>9, <2>10, <2>11, <2>12 DEF Exact
<1> QED
    BY <1>7, <1>8, <1>9

LEMMA NextExact ==
    ASSUME IterInv, [Next]_vars, NEW it \in Iterators
    PROVE  Exact(it)'
<1> DEFINE Goal == Exact(it)'
<1>0. TypeInv /\ TypeOK /\ iterators \in [Iterators -> IteratorType]
    BY DEF IterInv, IInv, TypeInv, TypeOK
<1>1. ASSUME iterators'[it].clean => iterators'[it] = iterators[it]
      PROVE  Goal
    BY <1>1, ExactKept
<1>2. ASSUME UNCHANGED iterators
      PROVE  Goal
    BY <1>1, <1>2
<1>3. ASSUME \/ LendLate \/ Return
             \/ \E o \in Objects : Unname(o)
             \/ \E t \in Threads : Write(t)
      PROVE  Goal
    BY <1>0, <1>1, <1>3, IteratorIsDisturbed
<1>4. ASSUME NEW t \in Threads, NextEnds(t)
      PROVE  Goal
    <2>1. CASE doing[t].of = it
        BY <1>4, <2>1, NextIsExact
    <2>2. CASE doing[t].of # it
        BY <1>0, <1>1, <1>4, <2>2, NextEndsMakes
    <2> QED
        BY <2>1, <2>2
<1>5. ASSUME NEW t \in Threads, NEW jt \in Iterators, Iterate(t, jt)
      PROVE  Goal
    <2>1. CASE jt = it
        BY <1>5, <2>1, IterateIsExact
    <2>2. CASE jt # it
        BY <1>0, <1>1, <1>5, <2>2, IterateMakes
    <2> QED
        BY <2>1, <2>2
<1>6. ASSUME NEW t \in Threads, NEW jt \in Iterators, NextBegins(t, jt),
             AtEnd(iterators[jt]), Ends(jt, iterators[jt], "ended")
      PROVE  Goal
    <2>1. CASE jt = it
        <3>1. iterators[it].state = "running" /\ UNCHANGED <<declaration, store, published, lent>>
            BY <1>6, <2>1 DEF NextBegins, dataVars
        <3> QED
            BY <1>6, <2>1, <3>1, EndIsExact
    <2>2. CASE jt # it
        BY <1>0, <1>1, <1>6, <2>2 DEF Ends
    <2> QED
        BY <2>1, <2>2
<1> HIDE DEF Goal
<1>7. Goal
    BY <1>2, <1>3, <1>4, <1>5, <1>6, IteratorStep
<1> QED
    BY <1>7 DEF Goal

LEMMA InitExact == Init => IterInv
<1> SUFFICES ASSUME Init, NEW it \in Iterators
             PROVE  Exact(it)
    BY InitIInv DEF IterInv
<1> QED
    BY DEF Init, NewIterator, Exact

\* An iteration that nothing disturbs gives all items in order, for lists of
\* any length and any number of iterators.
THEOREM IterationsAreExact == Spec => []IterationIsExact
<1>1. IterInv => IterationIsExact
    <2> SUFFICES ASSUME IterInv, NEW it \in Iterators
                 PROVE  IterationIsExact!(it)
        BY DEF IterationIsExact
    <2> DEFINE i == iterators[it]
               items == Seen(i.access, i.name)
    <2>1. Exact(it) /\ i \in IteratorType /\ TypeOK
        BY DEF IterInv, IInv, TypeInv, TypeOK
    <2>2. items \in Contents
        BY <2>1, SeenIsContents DEF IteratorType
    <2>3. items = [n \in 1..Len(items) |-> items[n]]
        BY <2>2, AccessAssumption DEF Contents
    <2> QED
        BY <2>1, <2>3 DEF Exact
<1>2. IInv /\ [Next]_vars => IInv'
    BY NextIInv
<1>3. IterInv /\ [Next]_vars => IterInv'
    BY <1>2, NextExact DEF IterInv
<1> QED
    BY <1>1, <1>3, InitExact, PTL DEF Spec

-----------------------------------------------------------------------------
(* Identifiers of indices *)

LEMMA ConcatParts ==
    ASSUME NEW S, NEW s \in Seq(S), NEW t \in Seq(S)
    PROVE  /\ Len(s \o t) = Len(s) + Len(t)
           /\ \A k \in 1..Len(s) : (s \o t)[k] = s[k]
           /\ \A k \in 1..Len(t) : (s \o t)[Len(s) + k] = t[k]
OBVIOUS

\* Sequences that are equal and begin with parts of one length are made of equal
\* parts.
LEMMA ConcatCancel ==
    ASSUME NEW S, NEW s1 \in Seq(S), NEW s2 \in Seq(S), NEW t1 \in Seq(S), NEW t2 \in Seq(S),
           Len(s1) = Len(s2), s1 \o t1 = s2 \o t2
    PROVE  s1 = s2 /\ t1 = t2
<1>1. Len(s1) \in Nat /\ Len(t1) \in Nat /\ Len(t2) \in Nat
    OBVIOUS
<1>2. \A k \in 1..Len(s1) : s1[k] = s2[k]
    <2> TAKE k \in 1..Len(s1)
    <2>1. (s1 \o t1)[k] = s1[k]
        OBVIOUS
    <2>2. (s2 \o t2)[k] = s2[k]
        OBVIOUS
    <2> QED
        BY <2>1, <2>2, Zenon
<1>3. Len(t1) = Len(t2)
    <2>1. Len(s1 \o t1) = Len(s1) + Len(t1)
        BY ConcatParts, Zenon
    <2>2. Len(s2 \o t2) = Len(s2) + Len(t2)
        BY ConcatParts, Zenon
    <2> DEFINE L == Len(s1 \o t1)
    <2>3. L = Len(s1) + Len(t1) /\ L = Len(s1) + Len(t2)
        BY <2>1, <2>2, Zenon
    <2> HIDE DEF L
    <2> QED
        BY <1>1, <2>3
<1>4. \A k \in 1..Len(t1) : t1[k] = t2[k]
    <2> TAKE k \in 1..Len(t1)
    <2>1. (s1 \o t1)[Len(s1) + k] = t1[k]
        OBVIOUS
    <2>2. (s2 \o t2)[Len(s2) + k] = t2[k]
        BY <1>3
    <2> QED
        BY <2>1, <2>2, Zenon
<1>5. s1 = s2
    BY <1>2, SeqEqual
<1> QED
    BY <1>3, <1>4, <1>5, SeqEqual

\* Of instances whose names have as many dots (none, say), no two indices share
\* an identifier, families included. With names of different length they may:
\* "a" with a family "c" of index "b", and "a.b" with index "c".
THEOREM IdsAreDistinct ==
    ASSUME NEW Parts,
           NEW instance1 \in Seq(Parts), NEW name1 \in Parts, NEW family1 \in Seq(Parts),
           NEW instance2 \in Seq(Parts), NEW name2 \in Parts, NEW family2 \in Seq(Parts),
           Len(instance1) = Len(instance2),
           IndexId(instance1, name1, family1) = IndexId(instance2, name2, family2)
    PROVE  instance1 = instance2 /\ name1 = name2 /\ family1 = family2
<1> DEFINE head1 == instance1 \o <<name1>>
           head2 == instance2 \o <<name2>>
<1>1. <<name1>> \in Seq(Parts) /\ <<name2>> \in Seq(Parts)
    OBVIOUS
<1>2. head1 \in Seq(Parts) /\ head2 \in Seq(Parts) /\ Len(head1) = Len(head2)
    OBVIOUS
<1>3. head1 \o family1 = head2 \o family2
    BY Zenon DEF IndexId
<1>4. head1 = head2 /\ family1 = family2
    <2> HIDE DEF head1, head2
    <2> QED
        BY <1>2, <1>3, ConcatCancel
<1>5. instance1 = instance2 /\ <<name1>> = <<name2>>
    BY <1>1, <1>4, ConcatCancel, Zenon
<1>6. name1 = name2
    BY <1>5
<1> QED
    BY <1>4, <1>5, <1>6
=============================================================================
