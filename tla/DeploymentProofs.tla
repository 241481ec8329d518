-------------------------- MODULE DeploymentProofs --------------------------
(***************************************************************************)
(* Proofs about Deployment, for any set of artifacts and any number of     *)
(* attempts: its types, its safety properties, and that it implements the  *)
(* contract the node relies on.                                            *)
(***************************************************************************)
EXTENDS Deployment, TLAPS

-----------------------------------------------------------------------------
(* The inductive invariant *)

\* The attempts made are 1..started; the others have no state.
AttemptsInOrder ==
    \A i \in Attempts :
        IF i <= started
        THEN owner[i] \in Artifacts
        ELSE owner[i] = NoArtifact /\ future[i] = "none" /\ coro[i] = "none"

\* The node thread is in the middle of the last attempt, which has a
\* coroutine from `create_task` on.
NodeAtLatest ==
    node # Idle =>
        /\ node.attempt = started
        /\ future[started] = "none"
        /\ coro[started] = "none" <=> node.pc = "request_deploy"

\* Every other attempt was answered.
OthersAnswered ==
    \A i \in Attempts : i <= started /\ future[i] = "none" => node.attempt = i

\* There is a later attempt at an artifact only when this one failed.
OneAtATime ==
    \A i, j \in Attempts :
        i < j /\ owner[j] = owner[i] /\ owner[i] \in Artifacts
            => future[i] = "err"

\* The two halves of NoOrphanFuture.
OngoingIsWaiting ==
    \A a \in Artifacts : ongoing[a] # NoAttempt =>
        owner[ongoing[a]] = a /\ future[ongoing[a]] = "waiting"

WaitingIsOngoing ==
    \A i \in Attempts : future[i] = "waiting" => ongoing[owner[i]] = i

\* The coroutine has not come to its end.
Live(i) == coro[i] \notin {"none", "done", "lost"}

\* The event loop thread told Rust the result of the attempt, and is still in
\* the done callback.
Reported(i) == loop = At("returned", i) \/ loop = At("cleanup", i)

\* A result is reported to a future that is not resolved.
LiveIsUnresolved ==
    \A i \in Attempts :
        Live(i) /\ ~Reported(i) => future[i] \in {"none", "waiting"}

\* The done callback runs for a coroutine that set a result, and reports it.
CallbackFollowsResult ==
    \A i \in Attempts :
        /\ loop = At("completing", i) => coro[i] \in {"set_ok", "set_err"}
        /\ loop = At("returned", i) => coro[i] \in {"set_ok", "set_err"}
        /\ loop = At("cleanup", i) => coro[i] = "set_ok"
        /\ Reported(i) => future[i] = Outcome(i)

\* The attempt's Artifact was stored in `_pending_deployments`.
Stored(i) == coro[i] # "none" /\ node # At("register", i)

\* What is pending under an artifact's id is an attempt at it, and no earlier
\* one than any attempt that was stored there.
PendingIsLatest ==
    \A a \in Artifacts : pending[a] # NoAttempt =>
        /\ owner[pending[a]] = a
        /\ \A i \in Attempts : owner[i] = a /\ Stored(i) => i <= pending[a]

\* A stored attempt is removed before its end only by an earlier one.
RemovedIsRetry ==
    \A i \in Attempts :
        Stored(i) /\ Live(i) /\ pending[owner[i]] = NoAttempt =>
            \E j \in Attempts : j < i /\ owner[j] = owner[i]

\* `_service_class` is set before the future is.
OkIsLoaded == \A i \in Attempts : coro[i] = "set_ok" => i \in loaded

IInv ==
    /\ TypeOK
    /\ AttemptsInOrder
    /\ NodeAtLatest
    /\ OthersAnswered
    /\ OneAtATime
    /\ OngoingIsWaiting
    /\ WaitingIsOngoing
    /\ LiveIsUnresolved
    /\ CallbackFollowsResult
    /\ PendingIsLatest
    /\ RemovedIsRetry
    /\ OkIsLoaded
    /\ NoUnexpectedCompletion
    /\ RegisteredIsLoaded
    /\ OnlyRetriesAreLost

-----------------------------------------------------------------------------
(* Types *)

LEMMA InitTypeOK == Init => TypeOK
BY DeploymentAssumption
DEF Init, TypeOK, Attempts, AttemptOrNone, NoAttempt, At, Idle, Starting

\* An attempt fits where an attempt or none does, and is not none.
LEMMA AttemptFacts ==
    /\ NoAttempt \in AttemptOrNone
    /\ \A i \in Attempts : i \in AttemptOrNone /\ i # NoAttempt
    /\ \A i \in AttemptOrNone : i # NoAttempt => i \in Attempts
    /\ \A i \in AttemptOrNone :
        i < MaxAttempts => i + 1 \in Attempts /\ i + 1 \in AttemptOrNone
BY DeploymentAssumption DEF Attempts, AttemptOrNone, NoAttempt

LEMMA NextTypeOK == TypeOK /\ AttemptsInOrder /\ [Next]_vars => TypeOK'
<1> SUFFICES ASSUME TypeOK, AttemptsInOrder, [Next]_vars
             PROVE  TypeOK'
    OBVIOUS
<1> USE AttemptFacts
    DEF TypeOK, At, Idle, Starting, rustVars, pythonVars, diskVars
<1>1. CASE InitRust
    BY <1>1 DEF InitRust
<1>2. ASSUME NEW a \in Artifacts, DeployNotReady(a)
      PROVE  TypeOK'
    BY <1>2 DEF DeployNotReady, Attempt
<1>3. ASSUME NEW a \in Artifacts, DeployArtifact(a)
      PROVE  TypeOK'
    BY <1>3 DEF DeployArtifact, Attempt
<1>4. ASSUME NEW i \in Attempts, RequestDeployWrongSpec(i)
      PROVE  TypeOK'
    BY <1>4 DEF RequestDeployWrongSpec
<1>5. ASSUME NEW i \in Attempts, RequestDeploy(i)
      PROVE  TypeOK'
    BY <1>5 DEF RequestDeploy
<1>6. ASSUME NEW i \in Attempts, RegisterPending(i)
      PROVE  TypeOK'
    BY <1>6 DEF RegisterPending
<1>7. ASSUME NEW i \in Attempts, NotifyDeploymentStarted(i)
      PROVE  TypeOK'
    BY <1>7 DEF NotifyDeploymentStarted
<1>8. ASSUME NEW i \in Attempts, StartDeploy(i)
      PROVE  TypeOK'
    BY <1>8 DEF StartDeploy, LoadServiceClass, LoadRaises, InstallTarball
<1>9. ASSUME NEW i \in Attempts, PipExit(i)
      PROVE  TypeOK'
    <2>1. owner[i] \in Artifacts
        BY <1>9, DeploymentAssumption DEF PipExit, AttemptsInOrder
    <2> QED
        BY <1>9, <2>1 DEF PipExit
<1>10. ASSUME NEW i \in Attempts, FinishDeploy(i)
      PROVE  TypeOK'
    BY <1>10 DEF FinishDeploy, LoadServiceClass, LoadRaises, InstallFailed
<1>11. ASSUME NEW i \in Attempts, BeginCompleted(i)
      PROVE  TypeOK'
    BY <1>11 DEF BeginCompleted
<1>12. ASSUME NEW i \in Attempts, DeploymentCompleted(i)
      PROVE  TypeOK'
    BY <1>12 DEF DeploymentCompleted, Outcome
<1>13. ASSUME NEW i \in Attempts, RegisterArtifact(i)
      PROVE  TypeOK'
    BY <1>13 DEF RegisterArtifact
<1>14. ASSUME NEW i \in Attempts, RemovePending(i)
      PROVE  TypeOK'
    BY <1>14 DEF RemovePending
<1>15. CASE UNCHANGED vars
    BY <1>15 DEF vars
<1> QED
    BY <1>1, <1>2, <1>3, <1>4, <1>5, <1>6, <1>7, <1>8, <1>9, <1>10, <1>11,
       <1>12, <1>13, <1>14, <1>15
    DEF Next, NodeSteps, LoopSteps

-----------------------------------------------------------------------------
(* The steps of the coroutine differ in how far it gets; to the invariant    *)
(* they are one step.                                                        *)

Running == {"queued", "pip", "pip_ok", "pip_failed"}

Coroutine(i) ==
    /\ coro[i] \in Running
    /\ \E c \in (Running \ {"queued"}) \union {"set_ok", "set_err", "dead"} :
        /\ coro' = [coro EXCEPT ![i] = c]
        /\ c = "set_ok" => i \in loaded'
    /\ loaded \subseteq loaded'
    /\ UNCHANGED <<rustVars, loop, pending, artifacts>>

LEMMA CoroutineSteps ==
    ASSUME TypeOK, NEW i \in Attempts,
           StartDeploy(i) \/ PipExit(i) \/ FinishDeploy(i)
    PROVE  Coroutine(i)
<1> USE DEF Coroutine, Running, TypeOK
<1>1. CASE StartDeploy(i)
    BY <1>1 DEF StartDeploy, LoadServiceClass, LoadRaises, InstallTarball
<1>2. CASE PipExit(i)
    BY <1>2 DEF PipExit
<1>3. CASE FinishDeploy(i)
    BY <1>3 DEF FinishDeploy, LoadServiceClass, LoadRaises, InstallFailed
<1> QED
    BY <1>1, <1>2, <1>3

-----------------------------------------------------------------------------
(* Invariance, one lemma for each step. The conjuncts a step may disturb     *)
(* have a proof of their own; the others are taken together, grouped by what *)
(* they rest on.                                                             *)

LEMMA KeepInitRust ==
    ASSUME IInv, TypeOK', InitRust
    PROVE  IInv'
<1> USE AttemptFacts, DeploymentAssumption
    DEF IInv, InitRust, TypeOK, At, Idle, Starting, NoAttempt,
        rustVars, pythonVars, diskVars
<1>1. /\ AttemptsInOrder' /\ NodeAtLatest' /\ OthersAnswered' /\ OneAtATime'
    BY DEF AttemptsInOrder, NodeAtLatest, OthersAnswered, OneAtATime,
       Attempts, AttemptOrNone
<1>2. /\ OngoingIsWaiting' /\ WaitingIsOngoing'
    BY DEF AttemptsInOrder, NodeAtLatest, OthersAnswered, OneAtATime,
       OngoingIsWaiting, WaitingIsOngoing, Attempts, AttemptOrNone
<1>3. /\ LiveIsUnresolved' /\ CallbackFollowsResult'
    BY DEF AttemptsInOrder, NodeAtLatest, OthersAnswered, OneAtATime,
       LiveIsUnresolved, CallbackFollowsResult, Live, Reported, Outcome
<1>4. /\ PendingIsLatest' /\ RemovedIsRetry'
    BY DEF AttemptsInOrder, NodeAtLatest, OthersAnswered, OneAtATime,
       LiveIsUnresolved, CallbackFollowsResult, Live, Reported, Outcome,
       PendingIsLatest, RemovedIsRetry, Stored
<1>5. /\ OkIsLoaded' /\ NoUnexpectedCompletion' /\ RegisteredIsLoaded'
       /\ OnlyRetriesAreLost'
    BY DEF AttemptsInOrder, NodeAtLatest, OthersAnswered, OneAtATime,
       LiveIsUnresolved, CallbackFollowsResult, Live, Reported, Outcome,
       OkIsLoaded, NoUnexpectedCompletion, RegisteredIsLoaded,
       OnlyRetriesAreLost
<1> QED
    BY <1>1, <1>2, <1>3, <1>4, <1>5

LEMMA KeepDeployNotReady ==
    ASSUME IInv, TypeOK', NEW a \in Artifacts, DeployNotReady(a)
    PROVE  IInv'
<1> USE AttemptFacts, DeploymentAssumption
    DEF IInv, DeployNotReady, Attempt, TypeOK, At, Idle, Starting, NoAttempt,
        rustVars, pythonVars, diskVars
<1>1. OneAtATime'
    <2> SUFFICES ASSUME NEW i \in Attempts, NEW j \in Attempts,
                        i < j, owner'[j] = owner'[i], owner'[i] \in Artifacts
                 PROVE  future'[i] = "err"
        BY DEF OneAtATime
    <2>1. j <= started + 1 /\ i <= started
        BY DEF AttemptsInOrder, Attempts, AttemptOrNone
    <2>2. CASE j = started + 1
        BY <2>1, <2>2 DEF MayDeploy, Attempts, AttemptOrNone
    <2>3. CASE j <= started
        BY <2>1, <2>3 DEF OneAtATime, Attempts, AttemptOrNone
    <2> QED
        BY <2>1, <2>2, <2>3 DEF Attempts, AttemptOrNone
<1>2. /\ AttemptsInOrder' /\ NodeAtLatest' /\ OthersAnswered'
    BY DEF AttemptsInOrder, NodeAtLatest, OthersAnswered, OneAtATime,
       Attempts, AttemptOrNone
<1>3. /\ OngoingIsWaiting' /\ WaitingIsOngoing'
    BY DEF AttemptsInOrder, NodeAtLatest, OthersAnswered, OneAtATime,
       OngoingIsWaiting, WaitingIsOngoing, Attempts, AttemptOrNone
<1>4. /\ LiveIsUnresolved' /\ CallbackFollowsResult'
    BY DEF AttemptsInOrder, NodeAtLatest, OthersAnswered, OneAtATime,
       LiveIsUnresolved, CallbackFollowsResult, Live, Reported, Outcome
<1>5. /\ PendingIsLatest' /\ RemovedIsRetry'
    BY DEF AttemptsInOrder, NodeAtLatest, OthersAnswered, OneAtATime,
       LiveIsUnresolved, CallbackFollowsResult, Live, Reported, Outcome,
       PendingIsLatest, RemovedIsRetry, Stored
<1>6. /\ OkIsLoaded' /\ NoUnexpectedCompletion' /\ RegisteredIsLoaded'
       /\ OnlyRetriesAreLost'
    BY DEF AttemptsInOrder, NodeAtLatest, OthersAnswered, OneAtATime,
       LiveIsUnresolved, CallbackFollowsResult, Live, Reported, Outcome,
       OkIsLoaded, NoUnexpectedCompletion, RegisteredIsLoaded,
       OnlyRetriesAreLost
<1> QED
    BY <1>1, <1>2, <1>3, <1>4, <1>5, <1>6

LEMMA KeepDeployArtifact ==
    ASSUME IInv, TypeOK', NEW a \in Artifacts, DeployArtifact(a)
    PROVE  IInv'
<1> USE AttemptFacts, DeploymentAssumption
    DEF IInv, DeployArtifact, Attempt, TypeOK, At, Idle, Starting, NoAttempt,
        rustVars, pythonVars, diskVars
<1>1. OneAtATime'
    <2> SUFFICES ASSUME NEW i \in Attempts, NEW j \in Attempts,
                        i < j, owner'[j] = owner'[i], owner'[i] \in Artifacts
                 PROVE  future'[i] = "err"
        BY DEF OneAtATime
    <2>1. j <= started + 1 /\ i <= started
        BY DEF AttemptsInOrder, Attempts, AttemptOrNone
    <2>2. CASE j = started + 1
        BY <2>1, <2>2 DEF MayDeploy, Attempts, AttemptOrNone
    <2>3. CASE j <= started
        BY <2>1, <2>3 DEF OneAtATime, Attempts, AttemptOrNone
    <2> QED
        BY <2>1, <2>2, <2>3 DEF Attempts, AttemptOrNone
<1>2. RemovedIsRetry'
    <2> SUFFICES ASSUME NEW k \in Attempts,
                        Stored(k)', Live(k)', pending'[owner'[k]] = NoAttempt
                 PROVE  \E j \in Attempts : j < k /\ owner'[j] = owner'[k]
        BY DEF RemovedIsRetry
    <2>1. Stored(k) /\ Live(k) /\ pending[owner[k]] = NoAttempt
        BY DEF Stored, Live, AttemptsInOrder, NodeAtLatest, Attempts,
               AttemptOrNone
    <2>2. PICK j \in Attempts : j < k /\ owner[j] = owner[k]
        BY <2>1 DEF RemovedIsRetry
    <2>3. owner'[j] = owner'[k]
        BY <2>1, <2>2 DEF Live, Stored, AttemptsInOrder, Attempts, AttemptOrNone
    <2> QED
        BY <2>2, <2>3
<1>3. /\ AttemptsInOrder' /\ NodeAtLatest' /\ OthersAnswered'
    BY DEF AttemptsInOrder, NodeAtLatest, OthersAnswered, OneAtATime,
       Attempts, AttemptOrNone
<1>4. /\ OngoingIsWaiting' /\ WaitingIsOngoing'
    BY DEF AttemptsInOrder, NodeAtLatest, OthersAnswered, OneAtATime,
       OngoingIsWaiting, WaitingIsOngoing, Attempts, AttemptOrNone
<1>5. /\ LiveIsUnresolved' /\ CallbackFollowsResult'
    BY DEF AttemptsInOrder, NodeAtLatest, OthersAnswered, OneAtATime,
       LiveIsUnresolved, CallbackFollowsResult, Live, Reported, Outcome
<1>6. PendingIsLatest'
    BY DEF AttemptsInOrder, NodeAtLatest, OthersAnswered, OneAtATime,
       LiveIsUnresolved, CallbackFollowsResult, Live, Reported, Outcome,
       PendingIsLatest, RemovedIsRetry, Stored
<1>7. /\ OkIsLoaded' /\ NoUnexpectedCompletion' /\ RegisteredIsLoaded'
       /\ OnlyRetriesAreLost'
    BY DEF AttemptsInOrder, NodeAtLatest, OthersAnswered, OneAtATime,
       LiveIsUnresolved, CallbackFollowsResult, Live, Reported, Outcome,
       OkIsLoaded, NoUnexpectedCompletion, RegisteredIsLoaded,
       OnlyRetriesAreLost
<1> QED
    BY <1>1, <1>2, <1>3, <1>4, <1>5, <1>6, <1>7

LEMMA KeepRequestDeployWrongSpec ==
    ASSUME IInv, TypeOK', NEW i \in Attempts, RequestDeployWrongSpec(i)
    PROVE  IInv'
<1> USE AttemptFacts, DeploymentAssumption
    DEF IInv, RequestDeployWrongSpec, TypeOK, At, Idle, Starting, NoAttempt,
        rustVars, pythonVars, diskVars
<1>1. /\ AttemptsInOrder' /\ NodeAtLatest' /\ OthersAnswered' /\ OneAtATime'
    BY DEF AttemptsInOrder, NodeAtLatest, OthersAnswered, OneAtATime,
       Attempts, AttemptOrNone
<1>2. /\ OngoingIsWaiting' /\ WaitingIsOngoing'
    BY DEF AttemptsInOrder, NodeAtLatest, OthersAnswered, OneAtATime,
       OngoingIsWaiting, WaitingIsOngoing, Attempts, AttemptOrNone
<1>3. /\ LiveIsUnresolved' /\ CallbackFollowsResult'
    BY DEF AttemptsInOrder, NodeAtLatest, OthersAnswered, OneAtATime,
       LiveIsUnresolved, CallbackFollowsResult, Live, Reported, Outcome
<1>4. PendingIsLatest'
    BY DEF AttemptsInOrder, NodeAtLatest, OthersAnswered, OneAtATime,
       LiveIsUnresolved, CallbackFollowsResult, Live, Reported, Outcome,
       PendingIsLatest, RemovedIsRetry, Stored
<1>5. RemovedIsRetry'
    BY DEF AttemptsInOrder, NodeAtLatest, OthersAnswered, OneAtATime,
       LiveIsUnresolved, CallbackFollowsResult, Live, Reported, Outcome,
       PendingIsLatest, RemovedIsRetry, Stored
<1>6. /\ OkIsLoaded' /\ NoUnexpectedCompletion' /\ RegisteredIsLoaded'
       /\ OnlyRetriesAreLost'
    BY DEF AttemptsInOrder, NodeAtLatest, OthersAnswered, OneAtATime,
       LiveIsUnresolved, CallbackFollowsResult, Live, Reported, Outcome,
       OkIsLoaded, NoUnexpectedCompletion, RegisteredIsLoaded,
       OnlyRetriesAreLost
<1> QED
    BY <1>1, <1>2, <1>3, <1>4, <1>5, <1>6

LEMMA KeepRequestDeploy ==
    ASSUME IInv, TypeOK', NEW i \in Attempts, RequestDeploy(i)
    PROVE  IInv'
<1> USE AttemptFacts, DeploymentAssumption
    DEF IInv, RequestDeploy, TypeOK, At, Idle, Starting, NoAttempt,
        rustVars, pythonVars, diskVars
<1>1. RemovedIsRetry'
    <2> SUFFICES ASSUME NEW k \in Attempts,
                        Stored(k)', Live(k)', pending'[owner'[k]] = NoAttempt
                 PROVE  \E j \in Attempts : j < k /\ owner'[j] = owner'[k]
        BY DEF RemovedIsRetry
    <2>1. Stored(k) /\ Live(k) /\ pending[owner[k]] = NoAttempt
        BY DEF Stored, Live, AttemptsInOrder, NodeAtLatest, Attempts,
               AttemptOrNone
    <2>2. PICK j \in Attempts : j < k /\ owner[j] = owner[k]
        BY <2>1 DEF RemovedIsRetry
    <2>3. owner'[j] = owner'[k]
        BY <2>1, <2>2 DEF Live, Stored, AttemptsInOrder, Attempts, AttemptOrNone
    <2> QED
        BY <2>2, <2>3
<1>2. /\ AttemptsInOrder' /\ NodeAtLatest' /\ OthersAnswered' /\ OneAtATime'
    BY DEF AttemptsInOrder, NodeAtLatest, OthersAnswered, OneAtATime,
       Attempts, AttemptOrNone
<1>3. /\ OngoingIsWaiting' /\ WaitingIsOngoing'
    BY DEF AttemptsInOrder, NodeAtLatest, OthersAnswered, OneAtATime,
       OngoingIsWaiting, WaitingIsOngoing, Attempts, AttemptOrNone
<1>4. /\ LiveIsUnresolved' /\ CallbackFollowsResult'
    BY DEF AttemptsInOrder, NodeAtLatest, OthersAnswered, OneAtATime,
       LiveIsUnresolved, CallbackFollowsResult, Live, Reported, Outcome
<1>5. PendingIsLatest'
    BY DEF AttemptsInOrder, NodeAtLatest, OthersAnswered, OneAtATime,
       LiveIsUnresolved, CallbackFollowsResult, Live, Reported, Outcome,
       PendingIsLatest, RemovedIsRetry, Stored
<1>6. /\ OkIsLoaded' /\ NoUnexpectedCompletion' /\ RegisteredIsLoaded'
       /\ OnlyRetriesAreLost'
    BY DEF AttemptsInOrder, NodeAtLatest, OthersAnswered, OneAtATime,
       LiveIsUnresolved, CallbackFollowsResult, Live, Reported, Outcome,
       OkIsLoaded, NoUnexpectedCompletion, RegisteredIsLoaded,
       OnlyRetriesAreLost
<1> QED
    BY <1>1, <1>2, <1>3, <1>4, <1>5, <1>6

LEMMA KeepRegisterPending ==
    ASSUME IInv, TypeOK', NEW i \in Attempts, RegisterPending(i)
    PROVE  IInv'
<1> USE AttemptFacts, DeploymentAssumption
    DEF IInv, RegisterPending, TypeOK, At, Idle, Starting, NoAttempt,
        rustVars, pythonVars, diskVars
<1>1. RemovedIsRetry'
    <2> SUFFICES ASSUME NEW k \in Attempts,
                        Stored(k)', Live(k)', pending'[owner'[k]] = NoAttempt
                 PROVE  \E j \in Attempts : j < k /\ owner'[j] = owner'[k]
        BY DEF RemovedIsRetry
    <2>1. Stored(k) /\ Live(k) /\ pending[owner[k]] = NoAttempt
        BY DEF Stored, Live, AttemptsInOrder, NodeAtLatest, Attempts,
               AttemptOrNone
    <2>2. PICK j \in Attempts : j < k /\ owner[j] = owner[k]
        BY <2>1 DEF RemovedIsRetry
    <2>3. owner'[j] = owner'[k]
        BY <2>1, <2>2 DEF Live, Stored, AttemptsInOrder, Attempts, AttemptOrNone
    <2> QED
        BY <2>2, <2>3
<1>2. /\ AttemptsInOrder' /\ NodeAtLatest' /\ OthersAnswered' /\ OneAtATime'
    BY DEF AttemptsInOrder, NodeAtLatest, OthersAnswered, OneAtATime,
       Attempts, AttemptOrNone
<1>3. /\ OngoingIsWaiting' /\ WaitingIsOngoing'
    BY DEF AttemptsInOrder, NodeAtLatest, OthersAnswered, OneAtATime,
       OngoingIsWaiting, WaitingIsOngoing, Attempts, AttemptOrNone
<1>4. /\ LiveIsUnresolved' /\ CallbackFollowsResult'
    BY DEF AttemptsInOrder, NodeAtLatest, OthersAnswered, OneAtATime,
       LiveIsUnresolved, CallbackFollowsResult, Live, Reported, Outcome
<1>5. PendingIsLatest'
    BY DEF AttemptsInOrder, NodeAtLatest, OthersAnswered, OneAtATime,
       LiveIsUnresolved, CallbackFollowsResult, Live, Reported, Outcome,
       PendingIsLatest, RemovedIsRetry, Stored
<1>6. /\ OkIsLoaded' /\ NoUnexpectedCompletion' /\ RegisteredIsLoaded'
       /\ OnlyRetriesAreLost'
    BY DEF AttemptsInOrder, NodeAtLatest, OthersAnswered, OneAtATime,
       LiveIsUnresolved, CallbackFollowsResult, Live, Reported, Outcome,
       OkIsLoaded, NoUnexpectedCompletion, RegisteredIsLoaded,
       OnlyRetriesAreLost
<1> QED
    BY <1>1, <1>2, <1>3, <1>4, <1>5, <1>6

LEMMA KeepNotifyDeploymentStarted ==
    ASSUME IInv, TypeOK', NEW i \in Attempts, NotifyDeploymentStarted(i)
    PROVE  IInv'
<1> USE AttemptFacts, DeploymentAssumption
    DEF IInv, NotifyDeploymentStarted, TypeOK, At, Idle, Starting, NoAttempt,
        rustVars, pythonVars, diskVars
<1>1. /\ AttemptsInOrder' /\ NodeAtLatest' /\ OthersAnswered' /\ OneAtATime'
    BY DEF AttemptsInOrder, NodeAtLatest, OthersAnswered, OneAtATime,
       Attempts, AttemptOrNone
<1>2. /\ OngoingIsWaiting' /\ WaitingIsOngoing'
    BY DEF AttemptsInOrder, NodeAtLatest, OthersAnswered, OneAtATime,
       OngoingIsWaiting, WaitingIsOngoing, Attempts, AttemptOrNone
<1>3. /\ LiveIsUnresolved' /\ CallbackFollowsResult'
    BY DEF AttemptsInOrder, NodeAtLatest, OthersAnswered, OneAtATime,
       LiveIsUnresolved, CallbackFollowsResult, Live, Reported, Outcome
<1>4. PendingIsLatest'
    BY DEF AttemptsInOrder, NodeAtLatest, OthersAnswered, OneAtATime,
       LiveIsUnresolved, CallbackFollowsResult, Live, Reported, Outcome,
       PendingIsLatest, RemovedIsRetry, Stored
<1>5. RemovedIsRetry'
    BY DEF AttemptsInOrder, NodeAtLatest, OthersAnswered, OneAtATime,
       LiveIsUnresolved, CallbackFollowsResult, Live, Reported, Outcome,
       PendingIsLatest, RemovedIsRetry, Stored
<1>6. /\ OkIsLoaded' /\ NoUnexpectedCompletion' /\ RegisteredIsLoaded'
       /\ OnlyRetriesAreLost'
    BY DEF AttemptsInOrder, NodeAtLatest, OthersAnswered, OneAtATime,
       LiveIsUnresolved, CallbackFollowsResult, Live, Reported, Outcome,
       OkIsLoaded, NoUnexpectedCompletion, RegisteredIsLoaded,
       OnlyRetriesAreLost
<1> QED
    BY <1>1, <1>2, <1>3, <1>4, <1>5, <1>6

LEMMA KeepCoroutine ==
    ASSUME IInv, TypeOK', NEW i \in Attempts, Coroutine(i)
    PROVE  IInv'
<1> USE AttemptFacts, DeploymentAssumption
    DEF IInv, Coroutine, Running, TypeOK, At, Idle, Starting, NoAttempt,
        rustVars, pythonVars, diskVars
<1>1. /\ AttemptsInOrder' /\ NodeAtLatest' /\ OthersAnswered' /\ OneAtATime'
    BY DEF AttemptsInOrder, NodeAtLatest, OthersAnswered, OneAtATime,
       Attempts, AttemptOrNone
<1>2. /\ OngoingIsWaiting' /\ WaitingIsOngoing'
    BY DEF AttemptsInOrder, NodeAtLatest, OthersAnswered, OneAtATime,
       OngoingIsWaiting, WaitingIsOngoing, Attempts, AttemptOrNone
<1>3. /\ LiveIsUnresolved' /\ CallbackFollowsResult'
    BY DEF AttemptsInOrder, NodeAtLatest, OthersAnswered, OneAtATime,
       LiveIsUnresolved, CallbackFollowsResult, Live, Reported, Outcome
<1>4. /\ PendingIsLatest' /\ RemovedIsRetry'
    BY DEF AttemptsInOrder, NodeAtLatest, OthersAnswered, OneAtATime,
       LiveIsUnresolved, CallbackFollowsResult, Live, Reported, Outcome,
       PendingIsLatest, RemovedIsRetry, Stored
<1>5. /\ OkIsLoaded' /\ NoUnexpectedCompletion' /\ RegisteredIsLoaded'
       /\ OnlyRetriesAreLost'
    BY DEF AttemptsInOrder, NodeAtLatest, OthersAnswered, OneAtATime,
       LiveIsUnresolved, CallbackFollowsResult, Live, Reported, Outcome,
       OkIsLoaded, NoUnexpectedCompletion, RegisteredIsLoaded,
       OnlyRetriesAreLost
<1> QED
    BY <1>1, <1>2, <1>3, <1>4, <1>5

LEMMA KeepBeginCompleted ==
    ASSUME IInv, TypeOK', NEW i \in Attempts, BeginCompleted(i)
    PROVE  IInv'
<1> USE AttemptFacts, DeploymentAssumption
    DEF IInv, BeginCompleted, TypeOK, At, Idle, Starting, NoAttempt,
        rustVars, pythonVars, diskVars
<1>1. /\ AttemptsInOrder' /\ NodeAtLatest' /\ OthersAnswered' /\ OneAtATime'
    BY DEF AttemptsInOrder, NodeAtLatest, OthersAnswered, OneAtATime,
       Attempts, AttemptOrNone
<1>2. /\ OngoingIsWaiting' /\ WaitingIsOngoing'
    BY DEF AttemptsInOrder, NodeAtLatest, OthersAnswered, OneAtATime,
       OngoingIsWaiting, WaitingIsOngoing, Attempts, AttemptOrNone
<1>3. /\ LiveIsUnresolved' /\ CallbackFollowsResult'
    BY DEF AttemptsInOrder, NodeAtLatest, OthersAnswered, OneAtATime,
       LiveIsUnresolved, CallbackFollowsResult, Live, Reported, Outcome
<1>4. /\ PendingIsLatest' /\ RemovedIsRetry'
    BY DEF AttemptsInOrder, NodeAtLatest, OthersAnswered, OneAtATime,
       LiveIsUnresolved, CallbackFollowsResult, Live, Reported, Outcome,
       PendingIsLatest, RemovedIsRetry, Stored
<1>5. /\ OkIsLoaded' /\ NoUnexpectedCompletion' /\ RegisteredIsLoaded'
       /\ OnlyRetriesAreLost'
    BY DEF AttemptsInOrder, NodeAtLatest, OthersAnswered, OneAtATime,
       LiveIsUnresolved, CallbackFollowsResult, Live, Reported, Outcome,
       OkIsLoaded, NoUnexpectedCompletion, RegisteredIsLoaded,
       OnlyRetriesAreLost
<1> QED
    BY <1>1, <1>2, <1>3, <1>4, <1>5

LEMMA KeepDeploymentCompleted ==
    ASSUME IInv, TypeOK', NEW i \in Attempts, DeploymentCompleted(i)
    PROVE  IInv'
<1> USE AttemptFacts, DeploymentAssumption
    DEF IInv, TypeOK, At, Idle, Starting, NoAttempt,
        rustVars, pythonVars, diskVars
<1>1. i <= started /\ owner[i] \in Artifacts
    BY DeploymentAssumption
    DEF DeploymentCompleted, CallbackFollowsResult, AttemptsInOrder
<1>2. future[i] = "waiting"
    <2>1. loop = At("completing", i) /\ node = Idle
        BY DEF DeploymentCompleted, InterfaceFree
    <2>2. Live(i) /\ ~Reported(i)
        BY <2>1 DEF CallbackFollowsResult, Live, Reported
    <2>3. future[i] # "none"
        BY <1>1, <2>1, AttemptFacts DEF OthersAnswered
    <2> QED
        BY <2>2, <2>3 DEF LiveIsUnresolved
<1>3. ongoing[owner[i]] = i
    BY <1>2 DEF WaitingIsOngoing
<1>4. /\ ongoing' = [ongoing EXCEPT ![owner[i]] = NoAttempt]
      /\ future' = [future EXCEPT ![i] = Outcome(i)]
      /\ loop' = At("returned", i)
      /\ node = Idle
      /\ loop = At("completing", i)
      /\ UNCHANGED <<methods, node, started, owner>>
      /\ UNCHANGED <<coro, loaded, pending, artifacts>>
    BY <1>3 DEF DeploymentCompleted, InterfaceFree
<1>5. \A j \in Attempts :
          future[j] = "waiting" /\ j # i => owner[j] # owner[i]
    BY <1>1, <1>2 DEF OneAtATime, Attempts
<1>6. /\ AttemptsInOrder' /\ NodeAtLatest' /\ OthersAnswered' /\ OneAtATime'
    BY <1>1, <1>2, <1>4, <1>5
    DEF Outcome, AttemptsInOrder, NodeAtLatest, OthersAnswered, OneAtATime,
        Attempts,
        AttemptOrNone
<1>7. /\ OngoingIsWaiting' /\ WaitingIsOngoing'
    BY <1>1, <1>2, <1>4, <1>5
    DEF Outcome, AttemptsInOrder, NodeAtLatest, OthersAnswered, OneAtATime,
        OngoingIsWaiting, WaitingIsOngoing, Attempts, AttemptOrNone
<1>8. LiveIsUnresolved'
    BY <1>1, <1>2, <1>4, <1>5
    DEF Outcome, AttemptsInOrder, NodeAtLatest, OthersAnswered, OneAtATime,
        LiveIsUnresolved, CallbackFollowsResult, Live, Reported, Outcome
<1>9. CallbackFollowsResult'
    <2> SUFFICES ASSUME NEW k \in Attempts
                 PROVE  /\ loop' = At("completing", k) =>
                               coro'[k] \in {"set_ok", "set_err"}
                        /\ loop' = At("returned", k) =>
                               coro'[k] \in {"set_ok", "set_err"}
                        /\ loop' = At("cleanup", k) => coro'[k] = "set_ok"
                        /\ Reported(k)' => future'[k] = Outcome(k)'
        BY DEF CallbackFollowsResult
    <2>1. CASE k = i
        BY <1>4, <2>1 DEF CallbackFollowsResult, Reported, Outcome
    <2>2. CASE k # i
        BY <1>4, <2>2 DEF CallbackFollowsResult, Reported, Outcome
    <2> QED
        BY <2>1, <2>2
<1>10. PendingIsLatest'
    BY <1>1, <1>2, <1>4, <1>5
    DEF Outcome, AttemptsInOrder, NodeAtLatest, OthersAnswered, OneAtATime,
        LiveIsUnresolved, CallbackFollowsResult, Live, Reported, Outcome,
        PendingIsLatest, RemovedIsRetry, Stored
<1>11. RemovedIsRetry'
    BY <1>1, <1>2, <1>4, <1>5
    DEF Outcome, AttemptsInOrder, NodeAtLatest, OthersAnswered, OneAtATime,
        LiveIsUnresolved, CallbackFollowsResult, Live, Reported, Outcome,
        PendingIsLatest, RemovedIsRetry, Stored
<1>12. /\ OkIsLoaded' /\ NoUnexpectedCompletion' /\ RegisteredIsLoaded'
       /\ OnlyRetriesAreLost'
    BY <1>1, <1>2, <1>4, <1>5
    DEF Outcome, AttemptsInOrder, NodeAtLatest, OthersAnswered, OneAtATime,
        LiveIsUnresolved, CallbackFollowsResult, Live, Reported, Outcome,
        OkIsLoaded, NoUnexpectedCompletion, RegisteredIsLoaded,
        OnlyRetriesAreLost
<1> QED
    BY <1>6, <1>7, <1>8, <1>9, <1>10, <1>11, <1>12

LEMMA KeepRegisterArtifact ==
    ASSUME IInv, TypeOK', NEW i \in Attempts, RegisterArtifact(i)
    PROVE  IInv'
<1> USE AttemptFacts, DeploymentAssumption
    DEF IInv, TypeOK, At, Idle, Starting, NoAttempt,
        rustVars, pythonVars, diskVars
<1>1. i <= started /\ owner[i] \in Artifacts /\ future[i] = "ok" /\ Stored(i)
    <2>1. loop = At("returned", i) /\ coro[i] = "set_ok"
        BY DEF RegisterArtifact
    <2>2. i <= started /\ owner[i] \in Artifacts
        BY <2>1 DEF AttemptsInOrder
    <2>3. future[i] = "ok"
        BY <2>1 DEF CallbackFollowsResult, Reported, Outcome
    <2>4. Stored(i)
        BY <2>1, <2>3 DEF Stored, NodeAtLatest
    <2> QED
        BY <2>2, <2>3, <2>4
<1>2. CASE pending[owner[i]] # NoAttempt
    <2>1. pending[owner[i]] = i
        <3>1. /\ pending[owner[i]] \in Attempts
              /\ owner[pending[owner[i]]] = owner[i]
              /\ i <= pending[owner[i]]
            BY <1>1, <1>2 DEF PendingIsLatest
        <3>2. ~(i < pending[owner[i]])
            BY <1>1, <3>1 DEF OneAtATime
        <3> QED
            BY <3>1, <3>2 DEF Attempts
    <2>2. /\ artifacts' = [artifacts EXCEPT ![owner[i]] = i]
          /\ loop = At("returned", i) /\ loop' = At("cleanup", i)
          /\ coro[i] = "set_ok"
          /\ UNCHANGED <<rustVars, coro, loaded, pending>>
        BY <1>2, <2>1 DEF RegisterArtifact
    <2>3. /\ AttemptsInOrder' /\ NodeAtLatest' /\ OthersAnswered'
          /\ OneAtATime'
        BY <1>1, <2>1, <2>2
        DEF AttemptsInOrder, NodeAtLatest, OthersAnswered, OneAtATime,
            Attempts, AttemptOrNone
    <2>4. /\ OngoingIsWaiting' /\ WaitingIsOngoing'
        BY <1>1, <2>1, <2>2
        DEF AttemptsInOrder, NodeAtLatest, OthersAnswered, OneAtATime,
            OngoingIsWaiting, WaitingIsOngoing, Attempts, AttemptOrNone
    <2>5. /\ LiveIsUnresolved' /\ CallbackFollowsResult'
        BY <1>1, <2>1, <2>2
        DEF AttemptsInOrder, NodeAtLatest, OthersAnswered, OneAtATime,
            LiveIsUnresolved, CallbackFollowsResult, Live, Reported, Outcome
    <2>6. /\ PendingIsLatest' /\ RemovedIsRetry'
        BY <1>1, <2>1, <2>2
        DEF AttemptsInOrder, NodeAtLatest, OthersAnswered, OneAtATime,
            LiveIsUnresolved, CallbackFollowsResult, Live, Reported, Outcome,
            PendingIsLatest, RemovedIsRetry, Stored
    <2>7. /\ OkIsLoaded' /\ NoUnexpectedCompletion' /\ RegisteredIsLoaded'
           /\ OnlyRetriesAreLost'
        BY <1>1, <2>1, <2>2
        DEF AttemptsInOrder, NodeAtLatest, OthersAnswered, OneAtATime,
            LiveIsUnresolved, CallbackFollowsResult, Live, Reported, Outcome,
            OkIsLoaded, NoUnexpectedCompletion, RegisteredIsLoaded,
            OnlyRetriesAreLost
    <2> QED
        BY <2>3, <2>4, <2>5, <2>6, <2>7
<1>3. CASE pending[owner[i]] = NoAttempt
    <2>1. PICK j \in Attempts : j < i /\ owner[j] = owner[i] /\ future[j] = "err"
        <3>1. Live(i)
            BY DEF RegisterArtifact, Live
        <3>2. PICK j \in Attempts : j < i /\ owner[j] = owner[i]
            BY <1>1, <1>3, <3>1 DEF RemovedIsRetry
        <3> QED
            BY <1>1, <3>2 DEF OneAtATime
    <2>2. /\ coro' = [coro EXCEPT ![i] = "lost"]
          /\ loop = At("returned", i) /\ loop' = Idle
          /\ coro[i] = "set_ok"
          /\ UNCHANGED <<rustVars, loaded, pending, artifacts>>
        BY <1>3 DEF RegisterArtifact
    <2>3. /\ AttemptsInOrder' /\ NodeAtLatest' /\ OthersAnswered'
          /\ OneAtATime'
        BY <1>1, <2>1, <2>2
        DEF AttemptsInOrder, NodeAtLatest, OthersAnswered, OneAtATime,
            Attempts, AttemptOrNone
    <2>4. /\ OngoingIsWaiting' /\ WaitingIsOngoing'
        BY <1>1, <2>1, <2>2
        DEF AttemptsInOrder, NodeAtLatest, OthersAnswered, OneAtATime,
            OngoingIsWaiting, WaitingIsOngoing, Attempts, AttemptOrNone
    <2>5. LiveIsUnresolved'
        <3> SUFFICES ASSUME NEW k \in Attempts, Live(k)', ~Reported(k)'
                     PROVE  future'[k] \in {"none", "waiting"}
            BY DEF LiveIsUnresolved
        <3>1. k # i /\ Live(k) /\ ~Reported(k)
            BY <2>2 DEF Live, Reported
        <3> QED
            BY <2>2, <3>1 DEF LiveIsUnresolved
    <2>6. CallbackFollowsResult'
        BY <1>1, <2>1, <2>2
        DEF AttemptsInOrder, NodeAtLatest, OthersAnswered, OneAtATime,
            LiveIsUnresolved, CallbackFollowsResult, Live, Reported, Outcome
    <2>7. /\ PendingIsLatest' /\ RemovedIsRetry'
        BY <1>1, <2>1, <2>2
        DEF AttemptsInOrder, NodeAtLatest, OthersAnswered, OneAtATime,
            LiveIsUnresolved, CallbackFollowsResult, Live, Reported, Outcome,
            PendingIsLatest, RemovedIsRetry, Stored
    <2>8. /\ OkIsLoaded' /\ NoUnexpectedCompletion' /\ RegisteredIsLoaded'
           /\ OnlyRetriesAreLost'
        BY <1>1, <2>1, <2>2
        DEF AttemptsInOrder, NodeAtLatest, OthersAnswered, OneAtATime,
            LiveIsUnresolved, CallbackFollowsResult, Live, Reported, Outcome,
            OkIsLoaded, NoUnexpectedCompletion, RegisteredIsLoaded,
            OnlyRetriesAreLost
    <2> QED
        BY <2>3, <2>4, <2>5, <2>6, <2>7, <2>8
<1> QED
    BY <1>2, <1>3

LEMMA KeepRemovePending ==
    ASSUME IInv, TypeOK', NEW i \in Attempts, RemovePending(i)
    PROVE  IInv'
<1> USE AttemptFacts, DeploymentAssumption
    DEF IInv, RemovePending, TypeOK, At, Idle, Starting, NoAttempt,
        rustVars, pythonVars, diskVars
<1>1. i <= started /\ owner[i] \in Artifacts /\ Reported(i)
    BY DEF CallbackFollowsResult, AttemptsInOrder, Reported
<1>2. RemovedIsRetry'
    <2> SUFFICES ASSUME NEW k \in Attempts,
                        Stored(k)', Live(k)', pending'[owner'[k]] = NoAttempt
                 PROVE  \E j \in Attempts : j < k /\ owner'[j] = owner'[k]
        BY DEF RemovedIsRetry
    <2>1. k # i /\ Stored(k) /\ Live(k) /\ ~Reported(k)
        BY <1>1 DEF Stored, Live, Reported, AttemptsInOrder
    <2>2. CASE owner[k] = owner[i]
        <3>1. future[k] # "err"
            BY <2>1 DEF LiveIsUnresolved
        <3>2. i < k
            BY <1>1, <2>1, <2>2, <3>1 DEF OneAtATime, Attempts
        <3> QED
            BY <2>2, <3>2
    <2>3. CASE owner[k] # owner[i]
        <3>1. pending[owner[k]] = NoAttempt
            BY <1>1, <2>1, <2>3
        <3> QED
            BY <2>1, <3>1 DEF RemovedIsRetry
    <2> QED
        BY <2>2, <2>3
<1>3. /\ AttemptsInOrder' /\ NodeAtLatest' /\ OthersAnswered' /\ OneAtATime'
    BY <1>1
    DEF CallbackFollowsResult, AttemptsInOrder, NodeAtLatest, OthersAnswered,
       OneAtATime,
       Attempts, AttemptOrNone
<1>4. /\ OngoingIsWaiting' /\ WaitingIsOngoing'
    BY DEF AttemptsInOrder, NodeAtLatest, OthersAnswered, OneAtATime,
       OngoingIsWaiting, WaitingIsOngoing, Attempts, AttemptOrNone
<1>5. /\ LiveIsUnresolved' /\ CallbackFollowsResult'
    BY DEF AttemptsInOrder, NodeAtLatest, OthersAnswered, OneAtATime,
       LiveIsUnresolved, CallbackFollowsResult, Live, Reported, Outcome
<1>6. PendingIsLatest'
    BY DEF AttemptsInOrder, NodeAtLatest, OthersAnswered, OneAtATime,
       LiveIsUnresolved, CallbackFollowsResult, Live, Reported, Outcome,
       PendingIsLatest, RemovedIsRetry, Stored
<1>7. /\ OkIsLoaded' /\ NoUnexpectedCompletion' /\ RegisteredIsLoaded'
       /\ OnlyRetriesAreLost'
    BY DEF AttemptsInOrder, NodeAtLatest, OthersAnswered, OneAtATime,
       LiveIsUnresolved, CallbackFollowsResult, Live, Reported, Outcome,
       OkIsLoaded, NoUnexpectedCompletion, RegisteredIsLoaded,
       OnlyRetriesAreLost
<1> QED
    BY <1>2, <1>3, <1>4, <1>5, <1>6, <1>7

LEMMA KeepUnchanged ==
    ASSUME IInv, UNCHANGED vars
    PROVE  IInv'
BY DEF vars, rustVars, pythonVars, diskVars, IInv, TypeOK, AttemptsInOrder,
    NodeAtLatest, OthersAnswered, OneAtATime, OngoingIsWaiting,
    WaitingIsOngoing, LiveIsUnresolved, CallbackFollowsResult, PendingIsLatest,
    RemovedIsRetry, OkIsLoaded, NoUnexpectedCompletion, RegisteredIsLoaded,
    OnlyRetriesAreLost, Live, Reported, Stored, Outcome

LEMMA InitIInv == Init => IInv
<1> SUFFICES ASSUME Init
             PROVE  IInv
    OBVIOUS
<1>1. TypeOK
    BY InitTypeOK
<1> QED
    BY <1>1, DeploymentAssumption, AttemptFacts
    DEF Init, Attempts, AttemptOrNone, NoAttempt, At, Idle, Starting, IInv,
        AttemptsInOrder, NodeAtLatest, OthersAnswered, OneAtATime,
        OngoingIsWaiting, WaitingIsOngoing, LiveIsUnresolved,
        CallbackFollowsResult, PendingIsLatest, RemovedIsRetry, OkIsLoaded,
        NoUnexpectedCompletion, RegisteredIsLoaded, OnlyRetriesAreLost, Live,
        Reported, Stored

LEMMA NextIInv == IInv /\ [Next]_vars => IInv'
<1> SUFFICES ASSUME IInv, [Next]_vars
             PROVE  IInv'
    OBVIOUS
<1>1. TypeOK /\ AttemptsInOrder
    BY DEF IInv
<1>2. TypeOK'
    BY <1>1, NextTypeOK
<1>3. CASE InitRust
    BY <1>2, <1>3, KeepInitRust
<1>4. ASSUME NEW a \in Artifacts, DeployNotReady(a) \/ DeployArtifact(a)
      PROVE  IInv'
    BY <1>2, <1>4, KeepDeployNotReady, KeepDeployArtifact
<1>5. ASSUME NEW i \in Attempts, NodeSteps(i)
      PROVE  IInv'
    BY <1>2, <1>5, KeepRequestDeployWrongSpec, KeepRequestDeploy,
       KeepRegisterPending, KeepNotifyDeploymentStarted DEF NodeSteps
<1>6. ASSUME NEW i \in Attempts,
             StartDeploy(i) \/ PipExit(i) \/ FinishDeploy(i)
      PROVE  IInv'
    BY <1>1, <1>2, <1>6, CoroutineSteps, KeepCoroutine
<1>7. ASSUME NEW i \in Attempts,
             BeginCompleted(i) \/ DeploymentCompleted(i)
                 \/ RegisterArtifact(i) \/ RemovePending(i)
      PROVE  IInv'
    BY <1>2, <1>7, KeepBeginCompleted, KeepDeploymentCompleted,
       KeepRegisterArtifact, KeepRemovePending
<1>8. CASE UNCHANGED vars
    BY <1>8, KeepUnchanged
<1> QED
    BY <1>3, <1>4, <1>5, <1>6, <1>7, <1>8 DEF Next, LoopSteps

LEMMA InvariantHolds == Spec => []IInv
<1>1. Init => IInv
    BY InitIInv
<1>2. IInv /\ [Next]_vars => IInv'
    BY NextIInv
<1> QED
    BY <1>1, <1>2, PTL DEF Spec

-----------------------------------------------------------------------------
(* What follows from it *)

\* Every variable has its type in every reachable state.
THEOREM TypeCorrect == Spec => []TypeOK
<1>1. IInv => TypeOK
    BY DEF IInv
<1> QED
    BY <1>1, InvariantHolds, PTL

\* `deployment_completed` never meets a deployment Rust does not expect,
\* however early the coroutine ends: the node keeps PYTHON_INTERFACE from
\* before `create_task` until it has registered the deployment.
THEOREM CompletionsAreExpected == Spec => []NoUnexpectedCompletion
<1>1. IInv => NoUnexpectedCompletion
    BY DEF IInv
<1> QED
    BY <1>1, InvariantHolds, PTL

\* No future the node waits for is dropped from `ongoing_deployments`.
THEOREM FuturesAreKept == Spec => []NoOrphanFuture
<1>1. IInv => NoOrphanFuture
    <2> SUFFICES ASSUME IInv, NEW i \in Attempts
                 PROVE  future[i] = "waiting" <=>
                            \E a \in Artifacts : owner[i] = a /\ ongoing[a] = i
        BY DEF NoOrphanFuture
    <2>1. ASSUME future[i] = "waiting"
          PROVE  owner[i] \in Artifacts /\ ongoing[owner[i]] = i
        BY <2>1 DEF IInv, AttemptsInOrder, WaitingIsOngoing
    <2>2. ASSUME NEW a \in Artifacts, owner[i] = a, ongoing[a] = i
          PROVE  future[i] = "waiting"
        BY <2>2, AttemptFacts DEF IInv, OngoingIsWaiting
    <2> QED
        BY <2>1, <2>2
<1> QED
    BY <1>1, InvariantHolds, PTL

\* The artifact that is registered is one whose class was loaded.
THEOREM RegistrationFollowsLoading == Spec => []RegisteredIsLoaded
<1>1. IInv => RegisteredIsLoaded
    BY DEF IInv
<1> QED
    BY <1>1, InvariantHolds, PTL

\* A first attempt that was reported successful is never lost.
THEOREM FirstAttemptsAreKept == Spec => []OnlyRetriesAreLost
<1>1. IInv => OnlyRetriesAreLost
    BY DEF IInv
<1> QED
    BY <1>1, InvariantHolds, PTL

-----------------------------------------------------------------------------
(* The contract *)

LEMMA InitContract == Init => Contract!Init
BY DEF Init, Contract!Init

LEMMA NextContract ==
    IInv /\ [Next]_vars => [Contract!Next]_(Contract!vars)
<1> SUFFICES ASSUME IInv, [Next]_vars
             PROVE  [Contract!Next]_(Contract!vars)
    OBVIOUS
<1> DEFINE Stutter == UNCHANGED <<owner, future, artifacts>>
<1>s. Stutter => UNCHANGED Contract!vars
    BY DEF Contract!vars
<1>f. TypeOK /\ AttemptsInOrder /\ started \in Nat /\ MaxAttempts \in Nat
    BY DeploymentAssumption DEF IInv, TypeOK, AttemptOrNone
<1>1. CASE InitRust
    BY <1>s, <1>1 DEF InitRust, pythonVars
<1>2. ASSUME NEW a \in Artifacts, Attempt(a)
      PROVE  started + 1 \in Attempts /\ owner[started + 1] = NoArtifact
                 /\ future[started + 1] = "none"
    BY <1>f, <1>2 DEF Attempt, Attempts, AttemptsInOrder
<1>3. ASSUME NEW a \in Artifacts, DeployNotReady(a)
      PROVE  Contract!Ask(started + 1, a)
    BY <1>f, <1>2, <1>3
    DEF DeployNotReady, Attempt, Contract!Ask, pythonVars
<1>4. ASSUME NEW a \in Artifacts, DeployArtifact(a)
      PROVE  Contract!Ask(started + 1, a)
    <2>1. future' = [future EXCEPT ![started + 1] = "none"]
        BY <1>f, <1>2, <1>4 DEF DeployArtifact, TypeOK
    <2> QED
        BY <1>f, <1>2, <1>4, <2>1
        DEF DeployArtifact, Attempt, Contract!Ask, pythonVars
<1>5. ASSUME NEW i \in Attempts,
             RequestDeployWrongSpec(i) \/ NotifyDeploymentStarted(i)
      PROVE  Contract!Answer(i)
    <2>1. node # Idle /\ node.attempt = i
        BY <1>5, AttemptFacts
        DEF RequestDeployWrongSpec, NotifyDeploymentStarted, At, Idle
    <2>2. future[i] = "none" /\ owner[i] # NoArtifact
        BY <1>f, <2>1, DeploymentAssumption
        DEF IInv, NodeAtLatest, AttemptsInOrder
    <2> QED
        BY <1>5, <2>2
        DEF RequestDeployWrongSpec, NotifyDeploymentStarted, Contract!Answer,
            pythonVars
<1>6. ASSUME NEW i \in Attempts, RequestDeploy(i) \/ RegisterPending(i)
      PROVE  Stutter
    BY <1>6 DEF RequestDeploy, RegisterPending
<1>7. ASSUME NEW i \in Attempts,
             StartDeploy(i) \/ PipExit(i) \/ FinishDeploy(i)
      PROVE  Stutter
    BY <1>7 DEF StartDeploy, PipExit, FinishDeploy, rustVars
<1>8. ASSUME NEW i \in Attempts, BeginCompleted(i) \/ RemovePending(i)
      PROVE  Stutter
    BY <1>8 DEF BeginCompleted, RemovePending, rustVars
<1>9. ASSUME NEW i \in Attempts, DeploymentCompleted(i)
      PROVE  Contract!Resolve(ongoing[owner[i]]) \/ Stutter
    <2>1. owner[i] \in Artifacts
        BY <1>9, DeploymentAssumption
        DEF DeploymentCompleted, IInv, CallbackFollowsResult, AttemptsInOrder
    <2>2. CASE ongoing[owner[i]] # NoAttempt
        BY <1>9, <2>1, <2>2
        DEF DeploymentCompleted, Outcome, IInv, OngoingIsWaiting,
            Contract!Resolve
    <2>3. CASE ongoing[owner[i]] = NoAttempt
        BY <1>9, <2>3 DEF DeploymentCompleted
    <2> QED
        BY <2>2, <2>3
<1>10. ASSUME NEW i \in Attempts, RegisterArtifact(i)
       PROVE  Contract!Publish(i) \/ Stutter
    <2>1. owner[i] \in Artifacts /\ future[i] = "ok"
        BY <1>10, DeploymentAssumption
        DEF RegisterArtifact, IInv, CallbackFollowsResult, AttemptsInOrder,
            Reported, Outcome
    <2>2. CASE pending[owner[i]] # NoAttempt
        <3>1. /\ artifacts' = [artifacts EXCEPT ![owner[i]] = pending[owner[i]]]
              /\ UNCHANGED <<owner, future>>
            BY <1>10, <2>2 DEF RegisterArtifact, rustVars
        <3>2. {a \in Artifacts : artifacts'[a] # NoAttempt}
                  = {a \in Artifacts : artifacts[a] # NoAttempt} \union {owner[i]}
            BY <1>f, <2>1, <2>2, <3>1 DEF TypeOK
        <3> QED
            BY <2>1, <3>1, <3>2 DEF Contract!Publish
    <2>3. CASE pending[owner[i]] = NoAttempt
        BY <1>10, <2>3 DEF RegisterArtifact, rustVars
    <2> QED
        BY <2>2, <2>3
<1>11. CASE UNCHANGED vars
    BY <1>s, <1>11 DEF vars, rustVars, pythonVars
<1>12. ASSUME NEW i \in Attempts, LoopSteps(i) \/ PipExit(i)
       PROVE  [Contract!Next]_(Contract!vars)
    <2>1. CASE DeploymentCompleted(i)
        <3>1. ongoing[owner[i]] \in Attempts \/ Stutter
            BY <1>f, <1>9, <2>1, AttemptFacts, DeploymentAssumption
            DEF DeploymentCompleted, TypeOK, IInv, CallbackFollowsResult,
                AttemptsInOrder
        <3> QED
            BY <1>s, <1>9, <2>1, <3>1 DEF Contract!Next
    <2>2. CASE RegisterArtifact(i)
        BY <1>s, <1>10, <2>2 DEF Contract!Next
    <2> QED
        BY <1>s, <1>7, <1>8, <1>12, <2>1, <2>2 DEF LoopSteps
<1>13. ASSUME NEW i \in Attempts, NodeSteps(i)
       PROVE  [Contract!Next]_(Contract!vars)
    BY <1>s, <1>5, <1>6, <1>13 DEF NodeSteps, Contract!Next
<1>14. ASSUME NEW a \in Artifacts, DeployNotReady(a) \/ DeployArtifact(a)
       PROVE  [Contract!Next]_(Contract!vars)
    <2>1. Attempt(a)
        BY <1>14 DEF DeployNotReady, DeployArtifact
    <2> QED
        BY <1>2, <1>3, <1>4, <1>14, <2>1 DEF Contract!Next
<1> QED
    BY <1>s, <1>1, <1>11, <1>12, <1>13, <1>14 DEF Next

\* The node thread and the event loop thread together keep the contract: an
\* attempt is resolved at most once and for good, and an artifact becomes
\* deployed only after an attempt at it was reported successful.
THEOREM ImplementsContract == Spec => KeepsContract
<1>1. Init => Contract!Init
    BY InitContract
<1>2. IInv /\ [Next]_vars => [Contract!Next]_(Contract!vars)
    BY NextContract
<1> QED
    BY <1>1, <1>2, InvariantHolds, PTL DEF Spec, KeepsContract, Contract!Spec
=============================================================================
