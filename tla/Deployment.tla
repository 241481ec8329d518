----------------------------- MODULE Deployment -----------------------------
(***************************************************************************)
(* The deployment of artifacts, from the node's request to the artifact    *)
(* being registered, across the two threads that carry it out:             *)
(*                                                                         *)
(*   - the node thread runs `Runtime::deploy_artifact` (Rust), and inside  *)
(*     it the callback `request_deploy` (Python);                          *)
(*   - the event loop thread runs the coroutine `Artifact.deploy`, and the *)
(*     callback `_deploy_completed`, which calls `deployment_completed`    *)
(*     (Rust) in the middle.                                               *)
(*                                                                         *)
(* They share `ongoing_deployments` behind the RwLock PYTHON_INTERFACE and *)
(* the dictionaries of PythonRuntime behind nothing but the GIL, so an     *)
(* action is what one thread does between two accesses to shared state.    *)
(***************************************************************************)
EXTENDS Naturals

CONSTANTS
    Artifacts,      \* artifact ids the node may deploy
    NoArtifact,     \* owner of an attempt that was not made
    MaxAttempts     \* bound on the calls of deploy_artifact

ASSUME DeploymentAssumption ==
    /\ NoArtifact \notin Artifacts
    /\ MaxAttempts \in Nat

VARIABLES
    \* Rust
    methods,    \* PythonRuntimeInterface::methods, "default" or "python"
    ongoing,    \* PythonRuntimeInterface::ongoing_deployments
    node,       \* where the node thread is in `deploy_artifact`
    future,     \* what the future returned to the node resolved to
    started,    \* number of attempts made
    owner,      \* the artifact each attempt is at
    \* Python
    loop,       \* where the event loop thread is
    coro,       \* how far the coroutine `Artifact.deploy` of an attempt is
    loaded,     \* attempts whose Artifact has its `_service_class`
    pending,    \* PythonRuntime._pending_deployments
    artifacts,  \* PythonRuntime._artifacts
    \* the artifact's package and the folder pip installs into
    package,
    installed

rustVars == <<methods, ongoing, node, future, started, owner>>
pythonVars == <<loop, coro, loaded, pending, artifacts>>
diskVars == <<package, installed>>
vars == <<rustVars, pythonVars, diskVars>>

Attempts == 1..MaxAttempts
NoAttempt == 0
AttemptOrNone == 0..MaxAttempts

\* What importing an installed package does: give the service class; fail in
\* a way the runtime expects (no module, no such class); raise anything else.
Packages == {"good", "incomplete", "raising"}

\* A thread at an attempt, or at none.
At(pc, i) == [pc |-> pc, attempt |-> i]
Idle == At("idle", NoAttempt)
Starting == At("starting", NoAttempt)

\* The folder pip installs into is what earlier launches left.
Init ==
    /\ methods = "default"
    /\ ongoing = [a \in Artifacts |-> NoAttempt]
    /\ node = Idle
    /\ future = [i \in Attempts |-> "none"]
    /\ started = 0
    /\ owner = [i \in Attempts |-> NoArtifact]
    /\ loop = Starting
    /\ coro = [i \in Attempts |-> "none"]
    /\ loaded = {}
    /\ pending = [a \in Artifacts |-> NoAttempt]
    /\ artifacts = [a \in Artifacts |-> NoAttempt]
    /\ package \in [Artifacts -> Packages]
    /\ installed \in SUBSET Artifacts

-----------------------------------------------------------------------------
(* Initialisation: RustFFIProvider starts the node thread, and only then   *)
(* does the main thread register the callbacks and run the event loop.     *)

InitRust ==
    /\ loop = Starting
    /\ methods' = "python"
    /\ loop' = Idle
    /\ UNCHANGED <<ongoing, node, future, started, owner>>
    /\ UNCHANGED <<coro, loaded, pending, artifacts, diskVars>>

-----------------------------------------------------------------------------
(* The node thread *)

\* The node (external) asks for an artifact again only when every attempt at
\* it has failed: while one is under way it waits for its future, and after
\* a success there is nothing to ask for.
MayDeploy(a) == \A i \in Attempts : owner[i] = a => future[i] = "err"

Attempt(a) ==
    /\ node = Idle
    /\ started < MaxAttempts
    /\ MayDeploy(a)
    /\ started' = started + 1
    /\ owner' = [owner EXCEPT ![started + 1] = a]

\* `default_deploy` answers RuntimeNotReady until the callbacks are there.
DeployNotReady(a) ==
    /\ methods = "default"
    /\ Attempt(a)
    /\ future' = [future EXCEPT ![started + 1] = "err"]
    /\ UNCHANGED <<methods, ongoing, node, pythonVars, diskVars>>

\* Takes PYTHON_INTERFACE for writing and calls the Python side. The lock is
\* kept until `deploy_artifact` returns, that is while node # Idle.
DeployArtifact(a) ==
    /\ methods = "python"
    /\ Attempt(a)
    /\ node' = At("request_deploy", started + 1)
    /\ UNCHANGED <<methods, ongoing, future, pythonVars, diskVars>>

\* The spec does not parse: WRONG_SPEC.
RequestDeployWrongSpec(i) ==
    /\ node = At("request_deploy", i)
    /\ future' = [future EXCEPT ![i] = "err"]
    /\ node' = Idle
    /\ UNCHANGED <<methods, ongoing, started, owner, pythonVars, diskVars>>

\* `create_task` hands the coroutine to the event loop ...
RequestDeploy(i) ==
    /\ node = At("request_deploy", i)
    /\ coro' = [coro EXCEPT ![i] = "queued"]
    /\ node' = At("register", i)
    /\ UNCHANGED <<methods, ongoing, future, started, owner>>
    /\ UNCHANGED <<loop, loaded, pending, artifacts, diskVars>>

\* ... before the artifact is stored under its id.
RegisterPending(i) ==
    /\ node = At("register", i)
    /\ pending' = [pending EXCEPT ![owner[i]] = i]
    /\ node' = At("notify", i)
    /\ UNCHANGED <<methods, ongoing, future, started, owner>>
    /\ UNCHANGED <<loop, coro, loaded, artifacts, diskVars>>

\* Fault: the node thread is left at the attempt it started.
NotifyDeploymentStartedKeepsAttempt(i) ==
    /\ node = At("notify", i)
    /\ ongoing' = [ongoing EXCEPT ![owner[i]] = i]
    /\ future' = [future EXCEPT ![i] = "waiting"]
    /\ node' = At("idle", i)
    /\ UNCHANGED <<methods, started, owner, pythonVars, diskVars>>

\* Back in Rust: `notify_deployment_started`, and the future is returned.
NotifyDeploymentStarted(i) ==
    /\ node = At("notify", i)
    /\ ongoing' = [ongoing EXCEPT ![owner[i]] = i]
    /\ future' = [future EXCEPT ![i] = "waiting"]
    /\ node' = Idle
    /\ UNCHANGED <<methods, started, owner, pythonVars, diskVars>>

-----------------------------------------------------------------------------
(* The coroutine Artifact.deploy, on the event loop thread *)

Package(i) == package[owner[i]]

\* Fault: the coroutine does not keep the class it found.
LoadServiceClassForgets(i) ==
    /\ Package(i) = "good"
    /\ coro' = [coro EXCEPT ![i] = "set_ok"]
    /\ UNCHANGED loaded

\* Importing the package finds the service class.
LoadServiceClass(i) ==
    /\ Package(i) = "good"
    /\ loaded' = loaded \union {i}
    /\ coro' = [coro EXCEPT ![i] = "set_ok"]

\* Importing it raises something the coroutine does not catch.
LoadRaises(i) ==
    /\ Package(i) = "raising"
    /\ coro' = [coro EXCEPT ![i] = "dead"]
    /\ UNCHANGED loaded

\* The package is not there: its tarball is read and given to pip. A missing
\* tarball or another hash gives SERVICE_INSTALL_FAILED, any other error of
\* reading it or of starting pip ends the coroutine.
InstallTarball(i) ==
    /\ owner[i] \notin installed \/ Package(i) = "incomplete"
    /\ \E next \in {"pip", "set_err", "dead"} : coro' = [coro EXCEPT ![i] = next]
    /\ UNCHANGED loaded

StartDeploy(i) ==
    /\ loop = Idle
    /\ coro[i] = "queued"
    /\ \/ owner[i] \in installed /\ LoadServiceClass(i)
       \/ owner[i] \in installed /\ LoadRaises(i)
       \/ InstallTarball(i)
    /\ UNCHANGED <<rustVars, loop, pending, artifacts, diskVars>>

\* pip (external) ends; with code 0 it has installed the package.
PipExit(i) ==
    /\ coro[i] = "pip"
    /\ \/ /\ coro' = [coro EXCEPT ![i] = "pip_ok"]
          /\ installed' = installed \union {owner[i]}
       \/ /\ coro' = [coro EXCEPT ![i] = "pip_failed"]
          /\ UNCHANGED installed
    /\ UNCHANGED <<rustVars, loop, loaded, pending, artifacts, package>>

\* Fault: the coroutine returns without a result.
InstallFailedSetsNoResult(i) ==
    /\ coro[i] = "pip_failed" \/ Package(i) = "incomplete"
    /\ coro' = [coro EXCEPT ![i] = "done"]
    /\ UNCHANGED loaded

\* pip failed, or what it installed has no such module or class.
InstallFailed(i) ==
    /\ coro[i] = "pip_failed" \/ Package(i) = "incomplete"
    /\ coro' = [coro EXCEPT ![i] = "set_err"]
    /\ UNCHANGED loaded

FinishDeploy(i) ==
    /\ loop = Idle
    /\ \/ coro[i] \in {"pip_ok", "pip_failed"} /\ InstallFailed(i)
       \/ coro[i] = "pip_ok" /\ LoadServiceClass(i)
       \/ coro[i] = "pip_ok" /\ LoadRaises(i)
    /\ UNCHANGED <<rustVars, loop, pending, artifacts, diskVars>>

-----------------------------------------------------------------------------
(* The done callback _deploy_completed, on the event loop thread *)

\* Any done callback that is ready may be the next one to run.
BeginCompleted(i) ==
    /\ loop = Idle
    /\ coro[i] \in {"set_ok", "set_err"}
    /\ loop' = At("completing", i)
    /\ UNCHANGED <<rustVars, coro, loaded, pending, artifacts, diskVars>>

\* Fault: `deploy_artifact` gives the lock back between its two uses.
InterfaceAlwaysFree == TRUE

\* PYTHON_INTERFACE can be taken for writing.
InterfaceFree == node = Idle

Outcome(i) == IF coro[i] = "set_ok" THEN "ok" ELSE "err"

\* Fault: the resolved deployment stays in ongoing_deployments.
DeploymentCompletedKeepsOngoing(i) ==
    /\ loop = At("completing", i)
    /\ InterfaceFree
    /\ ongoing[owner[i]] # NoAttempt
    /\ future' = [future EXCEPT ![ongoing[owner[i]]] = Outcome(i)]
    /\ loop' = At("returned", i)
    /\ UNCHANGED <<methods, ongoing, node, started, owner>>
    /\ UNCHANGED <<coro, loaded, pending, artifacts, diskVars>>

\* `deployment_completed` resolves whatever is ongoing under the artifact's
\* id, and panics when nothing is.
DeploymentCompleted(i) ==
    /\ loop = At("completing", i)
    /\ InterfaceFree
    /\ LET a == owner[i] IN
       \/ /\ ongoing[a] # NoAttempt
          /\ ongoing' = [ongoing EXCEPT ![a] = NoAttempt]
          /\ future' = [future EXCEPT ![ongoing[a]] = Outcome(i)]
          /\ loop' = At("returned", i)
       \/ /\ ongoing[a] = NoAttempt
          /\ loop' = At("panicked", i)
          /\ UNCHANGED <<ongoing, future>>
    /\ UNCHANGED <<methods, node, started, owner>>
    /\ UNCHANGED <<coro, loaded, pending, artifacts, diskVars>>

\* Fault: the artifact is registered whatever the result.
RegisterArtifactAnyResult(i) ==
    /\ loop = At("returned", i)
    /\ pending[owner[i]] # NoAttempt
    /\ artifacts' = [artifacts EXCEPT ![owner[i]] = pending[owner[i]]]
    /\ loop' = At("cleanup", i)
    /\ UNCHANGED <<rustVars, coro, loaded, pending, diskVars>>

\* The result was OK: what is pending under the artifact's id is registered.
\* A missing entry is a KeyError, which ends the callback.
RegisterArtifact(i) ==
    /\ loop = At("returned", i)
    /\ coro[i] = "set_ok"
    /\ LET a == owner[i] IN
       \/ /\ pending[a] # NoAttempt
          /\ artifacts' = [artifacts EXCEPT ![a] = pending[a]]
          /\ loop' = At("cleanup", i)
          /\ UNCHANGED coro
       \/ /\ pending[a] = NoAttempt
          /\ coro' = [coro EXCEPT ![i] = "lost"]
          /\ loop' = Idle
          /\ UNCHANGED artifacts
    /\ UNCHANGED <<rustVars, loaded, pending, diskVars>>

\* Fault: `self._pending_deployments.clear()`.
RemoveAllPending(i) ==
    /\ loop = At("cleanup", i) \/ (loop = At("returned", i) /\ coro[i] = "set_err")
    /\ pending' = [a \in Artifacts |-> NoAttempt]
    /\ coro' = [coro EXCEPT ![i] = "done"]
    /\ loop' = Idle
    /\ UNCHANGED <<rustVars, loaded, artifacts, diskVars>>

\* `del self._pending_deployments[...]`. Its KeyError has no consequence.
RemovePending(i) ==
    /\ loop = At("cleanup", i) \/ (loop = At("returned", i) /\ coro[i] = "set_err")
    /\ pending' = [pending EXCEPT ![owner[i]] = NoAttempt]
    /\ coro' = [coro EXCEPT ![i] = "done"]
    /\ loop' = Idle
    /\ UNCHANGED <<rustVars, loaded, artifacts, diskVars>>

-----------------------------------------------------------------------------
NodeSteps(i) ==
    \/ RequestDeploy(i)
    \/ RequestDeployWrongSpec(i)
    \/ RegisterPending(i)
    \/ NotifyDeploymentStarted(i)

LoopSteps(i) ==
    \/ StartDeploy(i)
    \/ FinishDeploy(i)
    \/ BeginCompleted(i)
    \/ DeploymentCompleted(i)
    \/ RegisterArtifact(i)
    \/ RemovePending(i)

Next ==
    \/ InitRust
    \/ \E a \in Artifacts : DeployNotReady(a) \/ DeployArtifact(a)
    \/ \E i \in Attempts : NodeSteps(i) \/ LoopSteps(i) \/ PipExit(i)

\* A thread finishes what it began; the event loop takes ready callbacks in
\* order and wakes up every 0.1 s, so it runs each of them; pip ends. The node
\* need not deploy anything.
Fairness ==
    /\ WF_vars(InitRust)
    /\ \A i \in Attempts :
        WF_vars(NodeSteps(i)) /\ WF_vars(LoopSteps(i)) /\ WF_vars(PipExit(i))

Spec == Init /\ [][Next]_vars /\ Fairness

-----------------------------------------------------------------------------
(* Properties *)

\* Every variable has its type; a thread is at an attempt exactly while it is
\* in the middle of one.
TypeOK ==
    /\ methods \in {"default", "python"}
    /\ ongoing \in [Artifacts -> AttemptOrNone]
    /\ \/ node = Idle
       \/ node \in [pc : {"request_deploy", "register", "notify"}, attempt : Attempts]
    /\ future \in [Attempts -> {"none", "waiting", "ok", "err"}]
    /\ started \in AttemptOrNone
    /\ owner \in [Attempts -> Artifacts \union {NoArtifact}]
    /\ \/ loop \in {Idle, Starting}
       \/ loop \in [pc : {"completing", "returned", "cleanup", "panicked"},
                   attempt : Attempts]
    /\ coro \in [Attempts -> {"none", "queued", "pip", "pip_ok", "pip_failed",
                              "set_ok", "set_err", "done", "dead", "lost"}]
    /\ loaded \in SUBSET Attempts
    /\ pending \in [Artifacts -> AttemptOrNone]
    /\ artifacts \in [Artifacts -> AttemptOrNone]
    /\ package \in [Artifacts -> Packages]
    /\ installed \in SUBSET Artifacts

\* Python never completes a deployment Rust does not expect
\* (python_interface.rs:145), although the coroutine may end before Rust has
\* registered the deployment.
NoUnexpectedCompletion == loop.pc # "panicked"

\* An artifact's future is ongoing exactly while the node waits for it: no
\* future is overwritten by a later attempt at the same artifact and left
\* behind unresolved.
NoOrphanFuture ==
    \A i \in Attempts :
        future[i] = "waiting" <=> \E a \in Artifacts : owner[i] = a /\ ongoing[a] = i

\* A registered artifact can start services: its class is loaded, whichever
\* attempt's Artifact object was pending when it was registered
\* (artifact.py:146 would raise "Artifact is not yet deployed").
RegisteredIsLoaded ==
    \A a \in Artifacts : artifacts[a] # NoAttempt => artifacts[a] \in loaded

\* A deployment that was reported successful is lost to the runtime only when
\* the clean-up of an earlier attempt at the same artifact ran after the
\* node's retry.
OnlyRetriesAreLost ==
    \A i \in Attempts : coro[i] = "lost" =>
        \E j \in Attempts : j < i /\ owner[j] = owner[i] /\ future[j] = "err"

\* The node is answered, unless the coroutine of the deployment died of an
\* exception the runtime does not handle.
ResolvesUnlessDead ==
    \A i \in Attempts :
        future[i] = "waiting" ~> future[i] # "waiting" \/ coro[i] = "dead"

\* The two threads together keep the contract with the node.
Contract == INSTANCE DeployContract
    WITH outcome <- future,
         deployed <- {a \in Artifacts : artifacts[a] # NoAttempt}

KeepsContract == Contract!Spec

-----------------------------------------------------------------------------
(* What the repository says and the code does not do *)

\* "Service is removed from pending deployments no matter how deployment
\* ended" (runtime.py:110).
EndedIsRemoved ==
    \A a \in Artifacts, i \in Attempts :
        pending[a] = i /\ coro[i] \in {"done", "dead", "lost"} ~> pending[a] # i

\* `is_artifact_deployed` "returns True if artifact is deployed"
\* (runtime_interface.py:29), at the latest some time after the runtime
\* reported that it is.
ReportedIsDeployed ==
    \A a \in Artifacts, i \in Attempts :
        owner[i] = a /\ future[i] = "ok" ~> artifacts[a] # NoAttempt
=============================================================================
