----------------------- MODULE MerkledbBuffersProofs -----------------------
(***************************************************************************)
(* Theorems about the buffers of the database, for any set of threads and  *)
(* any number of reads.                                                    *)
(***************************************************************************)
EXTENDS MerkledbBuffers, FiniteSetTheorems, SequenceTheorems, TLAPS

\* A read that nobody overlapped is the only one there is ...
LoneReads ==
    \A t \in Reading : ~overlapped[t] => Reading = {t}

\* ... and, once it has its buffer, the list is that buffer.
LoneBuffers ==
    \A t \in Holding : ~overlapped[t] => allocated = <<Buffer(t)>>

\* A read that used memory not its own was overlapped.
IInv ==
    /\ TypeOK
    /\ OneBufferEach
    /\ LoneReads
    /\ LoneBuffers
    /\ AloneIsRight

\* Dropping the last element of a sequence leaves a sequence.
LEMMA FrontIsSeq ==
    ASSUME NEW S, NEW s \in Seq(S)
    PROVE  SubSeq(s, 1, Len(s) - 1) \in Seq(S)
<1>1. \A i \in 1..(Len(s) - 1) : s[i] \in S
  OBVIOUS
<1> QED BY <1>1, SubSeqProperties

\* The set of holders is finite, so that its members can be counted.
LEMMA HoldingIsFinite == IsFiniteSet(Holding)
  BY BuffersAssumption, FS_Subset DEF Holding

\* A thread that enters the set of holders makes them one more, and one that
\* leaves it one less.
LEMMA HoldingGrows ==
    ASSUME NEW t, t \in Threads \ Holding, Holding' = Holding \union {t}
    PROVE  Cardinality(Holding') = Cardinality(Holding) + 1
  BY HoldingIsFinite, FS_AddElement

LEMMA HoldingShrinks ==
    ASSUME NEW t, t \in Holding, Holding' = Holding \ {t}
    PROVE  Cardinality(Holding') = Cardinality(Holding) - 1
  BY HoldingIsFinite, FS_RemoveElement

-----------------------------------------------------------------------------
\* There are no reads and no buffers at first.
LEMMA InitIInv == Init => IInv
<1> SUFFICES ASSUME Init PROVE IInv
  OBVIOUS
<1>1. Holding = {} /\ Reading = {}
  BY DEF Init, Holding, Reading
<1>2. TypeOK
  BY BuffersAssumption DEF Init, TypeOK
<1>3. OneBufferEach
  <2>1. Len(allocated) = 0
    BY DEF Init
  <2> QED BY <1>1, <2>1, FS_EmptySet DEF OneBufferEach
<1>4. LoneReads /\ LoneBuffers /\ AloneIsRight
  BY <1>1 DEF Init, LoneReads, LoneBuffers, AloneIsRight
<1> QED BY <1>2, <1>3, <1>4 DEF IInv

\* Every step keeps the types.
LEMMA NextTypeOK == TypeOK /\ [Next]_vars => TypeOK'
<1> SUFFICES ASSUME TypeOK, [Next]_vars PROVE TypeOK'
  OBVIOUS
<1> USE BuffersAssumption DEF TypeOK
<1>1. ASSUME NEW t \in Threads, Get(t) PROVE TypeOK'
  <2>1. \A u \in Threads : overlapped'[u] \in BOOLEAN
    BY <1>1, Zenon DEF Get
  <2>2. overlapped' = [u \in Threads |-> overlapped'[u]]
    BY <1>1, Zenon DEF Get
  <2>3. overlapped' \in [Threads -> BOOLEAN]
    BY <2>1, <2>2, Zenon
  <2>4. wrong' \in [Threads -> BOOLEAN]
    BY <1>1, Zenon DEF Get
  <2>5. reads' \in [Threads -> 0..MaxReads]
    BY <1>1 DEF Get
  <2> QED BY <1>1, <2>3, <2>4, <2>5 DEF Get, Goto
<1>2. ASSUME NEW t \in Threads, Allocate(t) PROVE TypeOK'
  <2>1. Buffer(t) \in [thread : Threads, read : 0..MaxReads]
    BY DEF Buffer
  <2> QED BY <1>2, <2>1 DEF Allocate, Goto
<1>3. ASSUME NEW t \in Threads, Fill(t) \/ IntoBytes(t) PROVE TypeOK'
  BY <1>3 DEF Fill, IntoBytes, Goto, Use
<1>4. ASSUME NEW t \in Threads, FreeMerkledbAllocated(t) PROVE TypeOK'
  <2>1. SubSeq(allocated, 1, Len(allocated) - 1)
            \in Seq([thread : Threads, read : 0..MaxReads])
    BY FrontIsSeq DEF TypeOK
  <2> QED BY <1>4, <2>1 DEF FreeMerkledbAllocated, Goto
<1>5. CASE UNCHANGED vars
  BY <1>5 DEF vars
<1> QED BY <1>1, <1>2, <1>3, <1>4, <1>5 DEF Next

\* Allocating and freeing keep the list as long as the holders are many.
LEMMA NextOneBufferEach == IInv /\ [Next]_vars => OneBufferEach'
<1> SUFFICES ASSUME IInv, [Next]_vars PROVE OneBufferEach'
  OBVIOUS
<1> USE DEF IInv, OneBufferEach, TypeOK
<1>1. ASSUME NEW t \in Threads, Get(t) PROVE OneBufferEach'
  <2>1. Holding' = Holding
    BY <1>1 DEF Get, Goto, Holding
  <2> QED BY <1>1, <2>1 DEF Get
<1>2. ASSUME NEW t \in Threads, Allocate(t) PROVE OneBufferEach'
  <2>1. t \notin Holding /\ Holding' = Holding \union {t}
    BY <1>2 DEF Allocate, Goto, Holding
  <2>2. Cardinality(Holding') = Cardinality(Holding) + 1
    BY <2>1, HoldingGrows
  <2>3. Len(allocated') = Len(allocated) + 1
    BY <1>2 DEF Allocate
  <2> QED BY <2>2, <2>3
<1>3. ASSUME NEW t \in Threads, Fill(t) \/ IntoBytes(t) PROVE OneBufferEach'
  <2>1. Holding' = Holding
    BY <1>3 DEF Fill, IntoBytes, Goto, Holding
  <2> QED BY <1>3, <2>1 DEF Fill, IntoBytes
<1>4. ASSUME NEW t \in Threads, FreeMerkledbAllocated(t) PROVE OneBufferEach'
  <2>1. t \in Holding /\ Holding' = Holding \ {t}
    BY <1>4 DEF FreeMerkledbAllocated, Goto, Holding
  <2>2. Cardinality(Holding') = Cardinality(Holding) - 1
    BY <2>1, HoldingShrinks
  <2>3. Len(allocated') = Len(allocated) - 1
    BY <1>4 DEF FreeMerkledbAllocated
  <2> QED BY <2>2, <2>3
<1>5. CASE UNCHANGED vars
  BY <1>5 DEF vars, Holding
<1> QED BY <1>1, <1>2, <1>3, <1>4, <1>5 DEF Next

\* A read that begins beside another overlaps it, and is overlapped by it.
LEMMA NextLoneReads == IInv /\ [Next]_vars => LoneReads'
<1> SUFFICES ASSUME IInv, [Next]_vars PROVE LoneReads'
  OBVIOUS
<1> USE DEF IInv, LoneReads, TypeOK
<1>1. ASSUME NEW t \in Threads, Get(t) PROVE LoneReads'
  <2>1. t \notin Reading /\ Reading' = Reading \union {t}
    BY <1>1 DEF Get, Goto, Reading
  <2>2. overlapped'[t] = (Reading # {})
    BY <1>1 DEF Get
  <2>3. \A u \in Reading : overlapped'[u]
    BY <1>1, <2>1 DEF Get, Reading
  <2> QED BY <2>1, <2>2, <2>3
<1>2. ASSUME NEW t \in Threads,
             Allocate(t) \/ Fill(t) \/ IntoBytes(t)
      PROVE LoneReads'
  <2>1. Reading' = Reading /\ overlapped' = overlapped
    BY <1>2 DEF Allocate, Fill, IntoBytes, Goto, Reading
  <2> QED BY <2>1
<1>3. ASSUME NEW t \in Threads, FreeMerkledbAllocated(t) PROVE LoneReads'
  <2>1. Reading' = Reading \ {t} /\ overlapped' = overlapped
    BY <1>3 DEF FreeMerkledbAllocated, Goto, Reading
  <2> QED BY <2>1
<1>4. CASE UNCHANGED vars
  BY <1>4 DEF vars, Reading
<1> QED BY <1>1, <1>2, <1>3, <1>4 DEF Next

\* A lone read allocates in an empty list, which is the sum of the argument:
\* what overlapping reads left behind is gone when the last of them ends.
LEMMA NextLoneBuffers == IInv /\ [Next]_vars => LoneBuffers'
<1> SUFFICES ASSUME IInv, [Next]_vars,
                    NEW u \in Holding', ~overlapped'[u]
             PROVE  allocated' = <<Buffer(u)'>>
  BY DEF LoneBuffers
<1> USE DEF IInv, TypeOK
<1>0. u \in Threads /\ Holding \subseteq Reading
  BY DEF Holding, Reading
<1>1. ASSUME NEW t \in Threads, Get(t) PROVE allocated' = <<Buffer(u)'>>
  <2>1. u # t /\ u \in Holding
    BY <1>0, <1>1 DEF Get, Goto, Holding
  <2>2. overlapped'[u]
    BY <1>0, <1>1, <2>1 DEF Get, Reading
  <2> QED BY <2>2
<1>2. ASSUME NEW t \in Threads, Allocate(t) PROVE allocated' = <<Buffer(u)'>>
  <2>1. u \in Reading /\ t \in Reading /\ ~overlapped[u] /\ t \notin Holding
    BY <1>0, <1>2 DEF Allocate, Goto, Holding, Reading
  <2>2. u = t /\ Holding = {}
    BY <2>1, <1>0 DEF LoneReads
  <2>3. Len(allocated) = 0
    BY <2>2, FS_EmptySet DEF OneBufferEach
  <2>4. allocated = <<>>
    BY <2>3
  <2>5. allocated' = Append(<<>>, Buffer(t)) /\ Buffer(t)' = Buffer(t)
    BY <1>2, <2>4 DEF Allocate, Buffer
  <2> QED BY <2>2, <2>5
<1>3. ASSUME NEW t \in Threads, Fill(t) \/ IntoBytes(t)
      PROVE allocated' = <<Buffer(u)'>>
  <2>1. u \in Holding /\ ~overlapped[u]
    BY <1>0, <1>3 DEF Fill, IntoBytes, Goto, Holding
  <2>2. allocated' = allocated /\ Buffer(u)' = Buffer(u)
    BY <1>3 DEF Fill, IntoBytes, Buffer
  <2> QED BY <2>1, <2>2 DEF LoneBuffers
<1>4. ASSUME NEW t \in Threads, FreeMerkledbAllocated(t)
      PROVE allocated' = <<Buffer(u)'>>
  <2>1. u # t /\ u \in Reading /\ t \in Reading /\ ~overlapped[u]
    BY <1>0, <1>4 DEF FreeMerkledbAllocated, Goto, Holding, Reading
  <2> QED BY <2>1 DEF LoneReads
<1>5. CASE UNCHANGED vars
  BY <1>5 DEF vars, Holding, Buffer, LoneBuffers
<1> QED BY <1>1, <1>2, <1>3, <1>4, <1>5 DEF Next

\* A lone holder finds its buffer alive, and so never uses any other memory.
LEMMA NextAloneIsRight == IInv /\ [Next]_vars => AloneIsRight'
<1> SUFFICES ASSUME IInv, [Next]_vars, NEW u \in Threads, wrong'[u]
             PROVE  overlapped'[u]
  BY DEF AloneIsRight
<1> USE DEF IInv, TypeOK, AloneIsRight
<1>1. ASSUME NEW t \in Threads, Get(t) PROVE overlapped'[u]
  BY <1>1 DEF Get
<1>2. ASSUME NEW t \in Threads, Fill(t) \/ IntoBytes(t) PROVE overlapped'[u]
  <2>1. t \in Holding /\ overlapped' = overlapped
    BY <1>2 DEF Fill, IntoBytes, Goto, Holding
  <2>2. wrong[u] \/ (u = t /\ ~Live(t))
    BY <1>2 DEF Fill, IntoBytes, Use
  <2>3. ~overlapped[t] => Live(t)
    <3>1. ASSUME ~overlapped[t] PROVE Live(t)
      <4>1. allocated = <<Buffer(t)>>
        BY <2>1, <3>1 DEF LoneBuffers
      <4>2. 1 \in 1..Len(allocated) /\ allocated[1] = Buffer(t)
        BY <4>1
      <4> QED BY <4>2 DEF Live
    <3> QED BY <3>1
  <2> QED BY <2>1, <2>2, <2>3
<1>3. ASSUME NEW t \in Threads, Allocate(t) \/ FreeMerkledbAllocated(t)
      PROVE overlapped'[u]
  BY <1>3 DEF Allocate, FreeMerkledbAllocated
<1>4. CASE UNCHANGED vars
  BY <1>4 DEF vars
<1> QED BY <1>1, <1>2, <1>3, <1>4 DEF Next

-----------------------------------------------------------------------------
\* The invariant is inductive.
LEMMA NextIInv == IInv /\ [Next]_vars => IInv'
<1> SUFFICES ASSUME IInv, [Next]_vars PROVE IInv'
  OBVIOUS
<1>1. TypeOK'
  BY NextTypeOK DEF IInv
<1> QED
  BY <1>1, NextOneBufferEach, NextLoneReads, NextLoneBuffers, NextAloneIsRight
  DEF IInv

\* The inductive invariant holds throughout (c_callbacks.py:150-177).
THEOREM InductiveInvariant == Spec => []IInv
  BY InitIInv, NextIInv, PTL DEF Spec

\* Every variable has its type.
THEOREM TypeCorrect == Spec => []TypeOK
<1>1. IInv => TypeOK
  BY DEF IInv
<1> QED BY <1>1, InductiveInvariant, PTL

\* However many threads read, no buffer leaks for good and `pop` never finds
\* the list empty (c_callbacks.py:177).
THEOREM BuffersAreCounted == Spec => []OneBufferEach
<1>1. IInv => OneBufferEach
  BY DEF IInv
<1> QED BY <1>1, InductiveInvariant, PTL

\* A read that no other overlapped got its own bytes (common.py:16-20), for
\* any number of threads and any earlier overlaps: the shared list is safe as
\* long as reads are made one at a time.
THEOREM LoneReadsAreRight == Spec => []AloneIsRight
<1>1. IInv => AloneIsRight
  BY DEF IInv
<1> QED BY <1>1, InductiveInvariant, PTL
=============================================================================
