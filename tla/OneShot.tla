------------------------------ MODULE OneShot ------------------------------
(***************************************************************************)
(* What a set of one-shot completions promises, whatever threads implement *)
(* them: each is settled at most once, its waiter is handed exactly the    *)
(* outcome it was settled to, never before it was settled, and once it is  *)
(* settled the waiter is eventually handed the outcome.                    *)
(***************************************************************************)
CONSTANTS
    Items,      \* the completions
    Outcomes,   \* what a completion can settle to
    NoOutcome   \* not settled yet, or not handed over yet

VARIABLES
    settled,    \* the outcome of each item
    handed      \* what the waiter of each item was given

vars == <<settled, handed>>

Init ==
    /\ settled = [i \in Items |-> NoOutcome]
    /\ handed = [i \in Items |-> NoOutcome]

Settle(i, o) ==
    /\ settled[i] = NoOutcome
    /\ settled' = [settled EXCEPT ![i] = o]
    /\ UNCHANGED handed

HandOver(i) ==
    /\ settled[i] # NoOutcome
    /\ handed[i] = NoOutcome
    /\ handed' = [handed EXCEPT ![i] = settled[i]]
    /\ UNCHANGED settled

Next == \E i \in Items : HandOver(i) \/ \E o \in Outcomes : Settle(i, o)

Safety == Init /\ [][Next]_vars

Spec == Safety /\ \A i \in Items : WF_vars(HandOver(i))
=============================================================================
