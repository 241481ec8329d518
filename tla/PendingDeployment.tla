------------------------- MODULE PendingDeployment -------------------------
(***************************************************************************)
(* The future that connects a deployment running on the Python side to the *)
(* Rust node that waits for it (rust_interface/src/pending_deployment.rs), *)
(* and the two threads that meet in it:                                    *)
(*                                                                         *)
(*   - the executor of the node polls the future of a deployment when its  *)
(*     task is scheduled;                                                  *)
(*   - the Python event loop thread calls `deployment_completed`, which    *)
(*     takes the deployment out of `ongoing_deployments` and completes it. *)
(*                                                                         *)
(* Both sides share `result` and `task`, each behind an RwLock of its own. *)
(* A lock is not a variable here: it is held between two actions exactly   *)
(* when a program counter says so (ResultUnread, TaskUnread).              *)
(***************************************************************************)
CONSTANTS
    Deployments,    \* the deployments the node may start
    NoDeployment    \* the event loop thread is completing none

ASSUME DeploymentsAssumption == NoDeployment \notin Deployments

VARIABLES
    ongoing,    \* PythonRuntimeInterface::ongoing_deployments
    result,     \* PendingDeployment::result
    task,       \* PendingDeployment::task is Some
    poll,       \* where the node is with the future
    seen,       \* what the running (or last) poll read of `result`
    scheduled,  \* the executor will poll the task again
    completer   \* where the event loop thread is in `deployment_completed`

vars == <<ongoing, result, task, poll, seen, scheduled, completer>>

Outcomes == {"ok", "err"}
NoOutcome == "none"
IdleCompleter == [pc |-> "idle", of |-> NoDeployment]

Init ==
    /\ ongoing = {}
    /\ result = [d \in Deployments |-> NoOutcome]
    /\ task = [d \in Deployments |-> FALSE]
    /\ poll = [d \in Deployments |-> "absent"]
    /\ seen = [d \in Deployments |-> NoOutcome]
    /\ scheduled = [d \in Deployments |-> FALSE]
    /\ completer = IdleCompleter

-----------------------------------------------------------------------------
(* Locks *)

\* Fault: `poll` drops the read guard as soon as it has copied the result.
ResultAlwaysUnread(d) == TRUE

\* No poll holds the read guard on result[d]: it is held during the whole
\* `match` of `poll`, so over the store into `task` too.
ResultUnread(d) == poll[d] # "reading"

\* The completing thread does not hold the read guard on task[d].
TaskUnread(d) == completer # [pc |-> "notifying", of |-> d]

-----------------------------------------------------------------------------
(* The node *)

\* `deploy_artifact` creates the future, registers a clone of it as ongoing
\* and hands it to the executor, which schedules its first poll.
NotifyDeploymentStarted(d) ==
    /\ poll[d] = "absent"
    /\ ongoing' = ongoing \union {d}
    /\ poll' = [poll EXCEPT ![d] = "waiting"]
    /\ scheduled' = [scheduled EXCEPT ![d] = TRUE]
    /\ UNCHANGED <<result, task, seen, completer>>

\* `poll` begins: takes the read guard and looks at the result.
PollRead(d) ==
    /\ poll[d] = "waiting"
    /\ poll' = [poll EXCEPT ![d] = "reading"]
    /\ seen' = [seen EXCEPT ![d] = result[d]]
    /\ scheduled' = [scheduled EXCEPT ![d] = FALSE]
    /\ UNCHANGED <<ongoing, result, task, completer>>

\* A scheduled task is polled; an executor may also poll one that is not.
PollScheduled(d) == scheduled[d] /\ PollRead(d)
PollSpurious(d) == ~scheduled[d] /\ PollRead(d)

\* The arms `Some(Ok(_))` and `Some(Err(ref err))`.
PollReady(d) ==
    /\ poll[d] = "reading"
    /\ seen[d] # NoOutcome
    /\ poll' = [poll EXCEPT ![d] = "ready"]
    /\ UNCHANGED <<ongoing, result, task, seen, scheduled, completer>>

\* The arm `None`: stores the current task and returns `NotReady`.
PollNotReady(d) ==
    /\ poll[d] = "reading"
    /\ seen[d] = NoOutcome
    /\ TaskUnread(d)
    /\ task' = [task EXCEPT ![d] = TRUE]
    /\ poll' = [poll EXCEPT ![d] = "waiting"]
    /\ UNCHANGED <<ongoing, result, seen, scheduled, completer>>

-----------------------------------------------------------------------------
(* The event loop thread *)

\* Fault: `deployment_completed` looks the deployment up (`get`) instead of
\* removing it.
SetResultKeepsOngoing(d, o) ==
    /\ completer = IdleCompleter
    /\ d \in ongoing
    /\ ResultUnread(d)
    /\ result' = [result EXCEPT ![d] = o]
    /\ completer' = [pc |-> "written", of |-> d]
    /\ UNCHANGED <<ongoing, task, poll, seen, scheduled>>

\* `deployment_completed` removes the ongoing deployment and `complete` or
\* `error` stores the result; the write guard ends with that statement.
SetResult(d, o) ==
    /\ completer = IdleCompleter
    /\ d \in ongoing
    /\ ResultUnread(d)
    /\ ongoing' = ongoing \ {d}
    /\ result' = [result EXCEPT ![d] = o]
    /\ completer' = [pc |-> "written", of |-> d]
    /\ UNCHANGED <<task, poll, seen, scheduled>>

\* `if let Some(ref task) = self.task.read()`: the guard lives as long as
\* the body of the `if let`.
ReadTask ==
    /\ completer.pc = "written"
    /\ completer' = IF task[completer.of]
                    THEN [completer EXCEPT !.pc = "notifying"]
                    ELSE IdleCompleter
    /\ UNCHANGED <<ongoing, result, task, poll, seen, scheduled>>

\* Fault: the thread is left at the deployment it completed.
NotifyKeepsDeployment ==
    /\ completer.pc = "notifying"
    /\ scheduled' = [scheduled EXCEPT ![completer.of] = TRUE]
    /\ completer' = [completer EXCEPT !.pc = "idle"]
    /\ UNCHANGED <<ongoing, result, task, poll, seen>>

\* `task.notify()`.
Notify ==
    /\ completer.pc = "notifying"
    /\ scheduled' = [scheduled EXCEPT ![completer.of] = TRUE]
    /\ completer' = IdleCompleter
    /\ UNCHANGED <<ongoing, result, task, poll, seen>>

-----------------------------------------------------------------------------
Poll(d) == PollScheduled(d) \/ PollReady(d) \/ PollNotReady(d)
Complete == ReadTask \/ Notify

Next ==
    \/ \E d \in Deployments :
        \/ NotifyDeploymentStarted(d)
        \/ Poll(d)
        \/ PollSpurious(d)
        \/ \E o \in Outcomes : SetResult(d, o)
    \/ Complete

\* The executor runs every scheduled task and finishes the polls it began;
\* the event loop thread finishes a completion it began. Nothing says that a
\* deployment ever completes.
Fairness ==
    /\ \A d \in Deployments : WF_vars(Poll(d))
    /\ WF_vars(Complete)

Spec == Init /\ [][Next]_vars /\ Fairness

-----------------------------------------------------------------------------
(* Properties *)

\* Every variable has its type, and the completing thread is on a deployment
\* exactly while it runs `deployment_completed`.
TypeOK ==
    /\ ongoing \in SUBSET Deployments
    /\ result \in [Deployments -> Outcomes \union {NoOutcome}]
    /\ task \in [Deployments -> BOOLEAN]
    /\ poll \in [Deployments -> {"absent", "waiting", "reading", "ready"}]
    /\ seen \in [Deployments -> Outcomes \union {NoOutcome}]
    /\ scheduled \in [Deployments -> BOOLEAN]
    /\ \/ completer = IdleCompleter
       \/ completer \in [pc : {"written", "notifying"}, of : Deployments]

\* No lost wakeup: when the node waits for a deployment that has its result,
\* and the completing thread is past it, the task is scheduled. Between the
\* two threads stands only the read guard `poll` keeps until it has stored
\* its task.
NoLostWakeup ==
    \A d \in Deployments :
        poll[d] = "waiting" /\ result[d] # NoOutcome /\ completer.of # d
            => scheduled[d]

\* Each deployment is a one-shot completion: settled once, handed to the node
\* unchanged, and, once settled, eventually handed over.
Settlement == INSTANCE OneShot
    WITH Items <- Deployments,
         settled <- result,
         handed <- [d \in Deployments |->
                       IF poll[d] = "ready" THEN seen[d] ELSE NoOutcome]

SettlesOnce == Settlement!Spec
=============================================================================
