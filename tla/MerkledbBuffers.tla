-------------------------- MODULE MerkledbBuffers --------------------------
(***************************************************************************)
(* The buffers in which the Rust side hands values of the database to      *)
(* Python. A read asks Python for memory (`merkledb_allocate`), fills it,  *)
(* and returns a pointer; Python copies the bytes out and frees the        *)
(* buffer. All buffers are kept alive by one list, of which the last       *)
(* element is dropped.                                                     *)
(*                                                                         *)
(* Both threads that run Python read the database: the node thread while   *)
(* it executes services, the event loop thread while it answers requests.  *)
(* ctypes gives up the GIL on the way into Rust, and the interpreter may   *)
(* give it up between any two of the steps below.                          *)
(***************************************************************************)
EXTENDS Naturals, Sequences, FiniteSets

CONSTANTS
    Threads,    \* the threads that read the database
    MaxReads    \* bound on the reads of each thread

ASSUME BuffersAssumption == IsFiniteSet(Threads) /\ MaxReads \in Nat

VARIABLES
    allocated,  \* _MERKLEDB_ALLOCATED
    pc,         \* where each thread is in a read
    reads,      \* number of reads each thread began
    \* history of each thread's last read
    overlapped, \* another thread was reading meanwhile
    wrong       \* it used memory that was not its own any more

vars == <<allocated, pc, reads, overlapped, wrong>>

\* The buffer of the last read of a thread.
Buffer(t) == [thread |-> t, read |-> reads[t]]

Live(t) == \E k \in 1..Len(allocated) : allocated[k] = Buffer(t)

\* Threads that hold a buffer, and threads in the middle of a read.
Holding == {t \in Threads : pc[t] \in {"allocated", "filled", "copied"}}
Reading == {t \in Threads : pc[t] # "idle"}

\* Fault: a placeholder keeps the list from ever being empty.
InitWithPlaceholder ==
    /\ allocated = <<[thread |-> "none", read |-> 0]>>
    /\ pc = [t \in Threads |-> "idle"]
    /\ reads = [t \in Threads |-> 0]
    /\ overlapped = [t \in Threads |-> FALSE]
    /\ wrong = [t \in Threads |-> FALSE]

Init ==
    /\ allocated = <<>>
    /\ pc = [t \in Threads |-> "idle"]
    /\ reads = [t \in Threads |-> 0]
    /\ overlapped = [t \in Threads |-> FALSE]
    /\ wrong = [t \in Threads |-> FALSE]

Goto(t, from, to) == pc[t] = from /\ pc' = [pc EXCEPT ![t] = to]

\* Memory that was freed may have been reused, or not yet.
Use(t) ==
    \/ UNCHANGED wrong
    \/ ~Live(t) /\ wrong' = [wrong EXCEPT ![t] = TRUE]

\* Rust finds the value. Without one the read has no further steps: it
\* returns a null pointer, of which Python makes None.
Get(t) ==
    /\ Goto(t, "idle", "found")
    /\ reads[t] < MaxReads
    /\ reads' = [reads EXCEPT ![t] = @ + 1]
    /\ wrong' = [wrong EXCEPT ![t] = FALSE]
    /\ overlapped' = [u \in Threads |->
            IF u = t THEN Reading # {}
                     ELSE overlapped[u] \/ pc[u] # "idle"]
    /\ UNCHANGED allocated

\* `merkledb_allocate`.
Allocate(t) ==
    /\ Goto(t, "found", "allocated")
    /\ allocated' = Append(allocated, Buffer(t))
    /\ UNCHANGED <<reads, overlapped, wrong>>

\* Rust copies the value into the buffer, and returns it.
Fill(t) ==
    /\ Goto(t, "allocated", "filled")
    /\ Use(t)
    /\ UNCHANGED <<allocated, reads, overlapped>>

\* Fault: the buffer is freed before its bytes are copied.
IntoBytesAfterFree(t) ==
    /\ Goto(t, "filled", "copied")
    /\ allocated' = SubSeq(allocated, 1, Len(allocated) - 1)
    /\ \/ UNCHANGED wrong
       \/ wrong' = [wrong EXCEPT ![t] = TRUE]
    /\ UNCHANGED <<reads, overlapped>>

\* `into_bytes` copies the bytes out of the buffer ...
IntoBytes(t) ==
    /\ Goto(t, "filled", "copied")
    /\ Use(t)
    /\ UNCHANGED <<allocated, reads, overlapped>>

\* Fault: the copy is made, and the buffer stays in the list.
FreeNone(t) ==
    /\ Goto(t, "copied", "idle")
    /\ UNCHANGED <<allocated, reads, overlapped, wrong>>

\* ... and drops the last buffer of the list, whosever it is. On an empty
\* list `pop` would raise.
FreeMerkledbAllocated(t) ==
    /\ Goto(t, "copied", "idle")
    /\ allocated # <<>>
    /\ allocated' = SubSeq(allocated, 1, Len(allocated) - 1)
    /\ UNCHANGED <<reads, overlapped, wrong>>

Next == \E t \in Threads :
    \/ Get(t)
    \/ Allocate(t)
    \/ Fill(t)
    \/ IntoBytes(t)
    \/ FreeMerkledbAllocated(t)

Spec == Init /\ [][Next]_vars

-----------------------------------------------------------------------------
(* Properties *)

\* Every variable has its type.
TypeOK ==
    /\ allocated \in Seq([thread : Threads, read : 0..MaxReads])
    /\ pc \in [Threads -> {"idle", "found", "allocated", "filled", "copied"}]
    /\ reads \in [Threads -> 0..MaxReads]
    /\ overlapped \in [Threads -> BOOLEAN]
    /\ wrong \in [Threads -> BOOLEAN]

\* The list has one buffer for each read that has yet to free one, though
\* which thread frees which is left to chance: nothing leaks for good, and
\* `pop` never finds the list empty (c_callbacks.py:177).
OneBufferEach == Len(allocated) = Cardinality(Holding)

\* A read that no other overlapped got the bytes of its own buffer, whatever
\* earlier reads that did overlap left in the list.
AloneIsRight == \A t \in Threads : wrong[t] => overlapped[t]

-----------------------------------------------------------------------------
(* What the repository says and the code does not do *)

\* `into_bytes` "casts BinaryData obtained from Rust to bytes"
\* (ffi/merkledb/common.py:14): the bytes are those that Rust obtained.
BytesAreRusts == \A t \in Threads : ~wrong[t]
=============================================================================
