---------------------- MODULE PendingDeploymentProofs ----------------------
(***************************************************************************)
(* Proofs about PendingDeployment, for any set of deployments: its types,  *)
(* that no wakeup is lost, and that the safety part of OneShot holds.      *)
(***************************************************************************)
EXTENDS PendingDeployment, TLAPS

-----------------------------------------------------------------------------
(* The inductive invariant *)

\* A poll that found no result still finds none: the read guard keeps the
\* result from being written until the poll has ended.
ReadingIsCurrent ==
    \A d \in Deployments :
        poll[d] \in {"reading", "ready"} => seen[d] = result[d]

\* A future the node waits on without being scheduled has stored its task, so
\* whoever completes it later has somebody to notify.
UnscheduledHasTask ==
    \A d \in Deployments :
        poll[d] = "waiting" /\ ~scheduled[d] => task[d]

\* An ongoing deployment is one the node started and nobody completed.
OngoingIsOpen ==
    \A d \in ongoing : poll[d] # "absent" /\ result[d] = NoOutcome

\* The completing thread stored the result before it looks for a task.
CompleterWroteResult ==
    completer # IdleCompleter => result[completer.of] # NoOutcome

\* Nothing is known of a deployment the node did not start.
AbsentIsUntouched ==
    \A d \in Deployments : poll[d] = "absent" => result[d] = NoOutcome

\* A poll is over once it has handed out a result.
ReadyHasResult ==
    \A d \in Deployments : poll[d] = "ready" => seen[d] # NoOutcome

IInv ==
    /\ TypeOK
    /\ NoLostWakeup
    /\ ReadingIsCurrent
    /\ UnscheduledHasTask
    /\ OngoingIsOpen
    /\ CompleterWroteResult
    /\ AbsentIsUntouched
    /\ ReadyHasResult

-----------------------------------------------------------------------------
(* Types *)

LEMMA InitTypeOK == Init => TypeOK
BY DEF Init, TypeOK, IdleCompleter

LEMMA NextTypeOK == TypeOK /\ [Next]_vars => TypeOK'
<1> SUFFICES ASSUME TypeOK, [Next]_vars
             PROVE  TypeOK'
    OBVIOUS
<1> USE DEF TypeOK
<1>1. ASSUME NEW d \in Deployments, NotifyDeploymentStarted(d)
      PROVE  TypeOK'
    BY <1>1 DEF NotifyDeploymentStarted
<1>2. ASSUME NEW d \in Deployments, PollRead(d)
      PROVE  TypeOK'
    BY <1>2 DEF PollRead
<1>3. ASSUME NEW d \in Deployments, PollReady(d)
      PROVE  TypeOK'
    BY <1>3 DEF PollReady
<1>4. ASSUME NEW d \in Deployments, PollNotReady(d)
      PROVE  TypeOK'
    BY <1>4 DEF PollNotReady
<1>5. ASSUME NEW d \in Deployments, NEW o \in Outcomes, SetResult(d, o)
      PROVE  TypeOK'
    BY <1>5 DEF SetResult
<1>6. CASE ReadTask
    BY <1>6, DeploymentsAssumption DEF ReadTask, IdleCompleter
<1>7. CASE Notify
    BY <1>7, DeploymentsAssumption DEF Notify, IdleCompleter
<1>8. CASE UNCHANGED vars
    BY <1>8 DEF vars
<1> QED
    BY <1>1, <1>2, <1>3, <1>4, <1>5, <1>6, <1>7, <1>8
    DEF Next, Poll, PollScheduled, PollSpurious, Complete

\* Every variable has its type in every reachable state, for any set of
\* deployments.
THEOREM TypeCorrect == Spec => []TypeOK
<1>1. Init => TypeOK
    BY InitTypeOK
<1>2. TypeOK /\ [Next]_vars => TypeOK'
    BY NextTypeOK
<1> QED
    BY <1>1, <1>2, PTL DEF Spec

-----------------------------------------------------------------------------
(* No lost wakeup *)

LEMMA InitIInv == Init => IInv
BY InitTypeOK, DeploymentsAssumption
DEF Init, IInv, TypeOK, NoLostWakeup, ReadingIsCurrent, UnscheduledHasTask,
    OngoingIsOpen, CompleterWroteResult, AbsentIsUntouched,
    ReadyHasResult, IdleCompleter,
    NoOutcome, Outcomes

LEMMA NextIInv == IInv /\ [Next]_vars => IInv'
<1> SUFFICES ASSUME IInv, [Next]_vars
             PROVE  IInv'
    OBVIOUS
<1>t. TypeOK'
    BY NextTypeOK DEF IInv
<1> USE <1>t, DeploymentsAssumption
    DEF IInv, TypeOK, NoLostWakeup, ReadingIsCurrent, UnscheduledHasTask,
        OngoingIsOpen, CompleterWroteResult, AbsentIsUntouched,
        ReadyHasResult, IdleCompleter
<1>1. ASSUME NEW d \in Deployments, NotifyDeploymentStarted(d)
      PROVE  IInv'
    BY <1>1 DEF NotifyDeploymentStarted
<1>2. ASSUME NEW d \in Deployments, PollRead(d)
      PROVE  IInv'
    BY <1>2 DEF PollRead
<1>3. ASSUME NEW d \in Deployments, PollReady(d)
      PROVE  IInv'
    BY <1>3 DEF PollReady
<1>4. ASSUME NEW d \in Deployments, PollNotReady(d)
      PROVE  IInv'
    BY <1>4 DEF PollNotReady
<1>5. ASSUME NEW d \in Deployments, NEW o \in Outcomes, SetResult(d, o)
      PROVE  IInv'
    BY <1>5 DEF SetResult, ResultUnread, Outcomes, NoOutcome
<1>6. CASE ReadTask
    BY <1>6 DEF ReadTask
<1>7. CASE Notify
    BY <1>7 DEF Notify
<1>8. CASE UNCHANGED vars
    BY <1>8 DEF vars
<1> QED
    BY <1>1, <1>2, <1>3, <1>4, <1>5, <1>6, <1>7, <1>8
    DEF Next, Poll, PollScheduled, PollSpurious, Complete

LEMMA InvariantHolds == Spec => []IInv
<1>1. Init => IInv
    BY InitIInv
<1>2. IInv /\ [Next]_vars => IInv'
    BY NextIInv
<1> QED
    BY <1>1, <1>2, PTL DEF Spec

\* No wakeup is lost, however the polls of the node and the completions of
\* the event loop thread interleave.
THEOREM WakeupsAreKept == Spec => []NoLostWakeup
<1>1. IInv => NoLostWakeup
    BY DEF IInv
<1> QED
    BY <1>1, InvariantHolds, PTL

-----------------------------------------------------------------------------
(* The one-shot contract *)

LEMMA InitSettles == Init => Settlement!Init
BY DEF Init, Settlement!Init, NoOutcome

LEMMA NextSettles ==
    IInv /\ [Next]_vars => [Settlement!Next]_(Settlement!vars)
<1> SUFFICES ASSUME IInv, [Next]_vars
             PROVE  [Settlement!Next]_(Settlement!vars)
    OBVIOUS
<1> DEFINE handed == [d \in Deployments |->
                         IF poll[d] = "ready" THEN seen[d] ELSE NoOutcome]
<1>s. ASSUME UNCHANGED <<result, handed>>
      PROVE  UNCHANGED Settlement!vars
    BY <1>s DEF Settlement!vars
<1>1. ASSUME NEW d \in Deployments, NotifyDeploymentStarted(d)
      PROVE  UNCHANGED <<result, handed>>
    BY <1>1 DEF NotifyDeploymentStarted, IInv, TypeOK
<1>2. ASSUME NEW d \in Deployments, PollRead(d)
      PROVE  UNCHANGED <<result, handed>>
    BY <1>2 DEF PollRead, IInv, TypeOK
<1>3. ASSUME NEW d \in Deployments, PollReady(d)
      PROVE  Settlement!HandOver(d)
    <2>1. seen[d] = result[d] /\ result[d] # NoOutcome
        BY <1>3 DEF PollReady, IInv, ReadingIsCurrent
    <2>2. handed[d] = NoOutcome /\ handed' = [handed EXCEPT ![d] = result[d]]
        BY <1>3, <2>1 DEF PollReady, IInv, TypeOK
    <2> QED
        BY <1>3, <2>1, <2>2 DEF PollReady, Settlement!HandOver
<1>4. ASSUME NEW d \in Deployments, PollNotReady(d)
      PROVE  UNCHANGED <<result, handed>>
    BY <1>4 DEF PollNotReady, IInv, TypeOK
<1>5. ASSUME NEW d \in Deployments, NEW o \in Outcomes, SetResult(d, o)
      PROVE  Settlement!Settle(d, o)
    BY <1>5 DEF SetResult, Settlement!Settle, IInv, OngoingIsOpen
<1>6. CASE ReadTask \/ Notify
    BY <1>6 DEF ReadTask, Notify, Settlement!vars
<1>7. CASE UNCHANGED vars
    BY <1>7 DEF vars, Settlement!vars
<1> QED
    BY <1>s, <1>1, <1>2, <1>3, <1>4, <1>5, <1>6, <1>7
    DEF Next, Poll, PollScheduled, PollSpurious, Complete, Settlement!Next

\* Every behaviour of the two threads is a behaviour of the one-shot contract:
\* a deployment is settled at most once, and what the node is handed is what
\* it was settled to. (That it is handed over eventually is left to TLC.)
THEOREM ImplementsOneShot == Spec => Settlement!Safety
<1>1. Init => Settlement!Init
    BY InitSettles
<1>2. IInv /\ [Next]_vars => [Settlement!Next]_(Settlement!vars)
    BY NextSettles
<1> QED
    BY <1>1, <1>2, InvariantHolds, PTL DEF Spec, Settlement!Safety
=============================================================================
