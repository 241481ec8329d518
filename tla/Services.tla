------------------------------ MODULE Services ------------------------------
(***************************************************************************)
(* The running service instances of PythonRuntime, as the node goes        *)
(* through its blocks. The node thread starts instances, executes          *)
(* transactions, and around every commit makes a pass over all instances;  *)
(* a service that raises an error it may not raise is stopped. The event   *)
(* loop thread starts the HTTP API of an instance later, by itself.        *)
(*                                                                         *)
(* A call of a service is one action: it is untrusted code, and may return *)
(* or raise any Exception. (What is none, as SystemExit, leaves the pass   *)
(* where it is, and Rust reads that as success; it is left out.) The      *)
(* instances of a pass are visited in any order (the code visits them in   *)
(* the order they were started in).                                        *)
(***************************************************************************)
EXTENDS Naturals

CONSTANTS
    Instances,      \* service instances the node may start
    MaxBlocks,      \* bound on the blocks
    FirstPort,      \* service_api_ports_start of the configuration
    LastPort        \* the highest port there is

ASSUME ServicesAssumption ==
    /\ MaxBlocks \in Nat
    /\ FirstPort \in Nat \ {0}
    /\ LastPort \in Nat

VARIABLES
    \* the node (Rust)
    phase,      \* what the node does next in the block
    block,      \* number of blocks committed
    accepted,   \* instances whose add_service returned Ok
    \* PythonRuntime
    instances,  \* _instances
    apis,       \* keys of _service_api (instances stand for their names)
    freePort,   \* _free_service_port
    \* the pass over the instances that is being made
    call,       \* the Python method and the access Rust gave it, or NoCall
    rest,       \* instances still to be visited
    passed,     \* instances that returned what they should
    toStop,     \* to_stop
    \* the APIs, on the event loop thread
    port,       \* public port of the API of an instance
    api,        \* how far its ServiceApi is
    \* history
    broken,     \* instances that raised an error they may not raise
    prepared,   \* instances that went through before_commit in this block
    aborted     \* a panic has crossed the border to Python

nodeVars == <<phase, block, accepted>>
passVars == <<call, rest, passed, toStop>>
apiVars == <<apis, freePort, port, api>>
historyVars == <<broken, prepared, aborted>>
vars == <<nodeVars, instances, passVars, apiVars, historyVars>>

NoCall == [method |-> "none", access |-> "none"]
NoPort == 0

Init ==
    /\ phase = "transactions"
    /\ block = 0
    /\ accepted = {}
    /\ instances = {}
    /\ apis = {}
    /\ freePort = FirstPort
    /\ call = NoCall
    /\ rest = {} /\ passed = {} /\ toStop = {}
    /\ port = [i \in Instances |-> NoPort]
    /\ api = [i \in Instances |-> "none"]
    /\ broken = {} /\ prepared = {} /\ aborted = FALSE

\* The node thread is not inside a pass, and may call the runtime.
NodeMay(p) == call = NoCall /\ ~aborted /\ phase = p

-----------------------------------------------------------------------------
(* Starting an instance: add_service and _start_service. An unknown         *)
(* artifact, and a constructor that raises ServiceError, change nothing.    *)

\* The constructor (which calls `initialize`) raises another error: the
\* instance was not stored yet.
ConstructorRaises(i) ==
    /\ NodeMay("transactions")
    /\ i \notin accepted
    /\ broken' = broken \union {i}
    /\ UNCHANGED <<nodeVars, instances, passVars, apiVars, prepared, aborted>>

\* The constructor returned: the instance is stored before its API is wired.
Constructed(i) ==
    /\ NodeMay("transactions")
    /\ i \notin accepted
    /\ instances' = instances \union {i}
    /\ UNCHANGED <<phase, block, passVars, prepared, aborted>>

\* `wire_api` returned None: no API.
StartWithoutApi(i) ==
    /\ Constructed(i)
    /\ accepted' = accepted \union {i}
    /\ broken' = broken \ {i}
    /\ UNCHANGED apiVars

\* Fault: an API takes one port only.
StartWithApiTakesOnePort(i) ==
    /\ Constructed(i)
    /\ accepted' = accepted \union {i}
    /\ broken' = broken \ {i}
    /\ port' = [port EXCEPT ![i] = freePort]
    /\ freePort' = freePort + 1
    /\ apis' = apis \union {i}
    /\ api' = [api EXCEPT ![i] = "queued"]

\* `wire_api` returned a ServiceApi: it takes the next two ports, and its
\* `start` is handed to the event loop.
StartWithApi(i) ==
    /\ Constructed(i)
    /\ accepted' = accepted \union {i}
    /\ broken' = broken \ {i}
    /\ port' = [port EXCEPT ![i] = freePort]
    /\ freePort' = freePort + 2
    /\ apis' = apis \union {i}
    /\ api' = [api EXCEPT ![i] = "queued"]

\* Fault: what `wire_api` returned is stored before its type is checked.
WireApiFailsAfterListing(i) ==
    /\ Constructed(i)
    /\ broken' = broken \union {i}
    /\ apis' = apis \union {i}
    /\ UNCHANGED <<accepted, freePort, port, api>>

\* `wire_api` raised, or returned something that is no ServiceApi: the node
\* is told that the start failed.
WireApiFails(i) ==
    /\ Constructed(i)
    /\ broken' = broken \union {i}
    /\ UNCHANGED <<accepted, apiVars>>

AddService(i) ==
    \/ ConstructorRaises(i)
    \/ StartWithoutApi(i)
    \/ StartWithApi(i)
    \/ WireApiFails(i)

-----------------------------------------------------------------------------
(* Executing a transaction. One of a service that is not running, and one   *)
(* that returns or raises ServiceError, change nothing here.                *)

\* Fault: the error is answered, and the service is left running.
ExecuteRaisesKeepsInstance(i) ==
    /\ NodeMay("transactions")
    /\ i \in accepted \intersect instances
    /\ broken' = broken \union {i}
    /\ UNCHANGED <<nodeVars, instances, passVars, apiVars, prepared, aborted>>

\* Fault: the API of a stopped service is taken out of the table.
ExecuteRaisesUnlists(i) ==
    /\ NodeMay("transactions")
    /\ i \in accepted \intersect instances
    /\ instances' = instances \ {i}
    /\ broken' = broken \union {i}
    /\ apis' = apis \ {i}
    /\ UNCHANGED <<nodeVars, passVars, freePort, port, api, prepared, aborted>>

\* `execute` of the service raised another error: _stop_service.
ExecuteRaises(i) ==
    /\ NodeMay("transactions")
    /\ i \in accepted \intersect instances
    /\ instances' = instances \ {i}
    /\ broken' = broken \union {i}
    /\ UNCHANGED <<nodeVars, passVars, apiVars, prepared, aborted>>

-----------------------------------------------------------------------------
(* A pass over the instances *)

BeginPass(method, access) ==
    /\ call' = [method |-> method, access |-> access]
    /\ rest' = instances
    /\ passed' = {} /\ toStop' = {}
    /\ UNCHANGED <<nodeVars, instances, apiVars, historyVars>>

BeforeCommit ==
    /\ NodeMay("transactions")
    /\ block < MaxBlocks
    /\ BeginPass("before_commit", "fork")

StateHashes == NodeMay("state_hashes") /\ BeginPass("state_hashes", "snapshot")

\* The node commits the block (external).
Commit ==
    /\ NodeMay("commit")
    /\ phase' = "after_commit"
    /\ block' = block + 1
    /\ UNCHANGED <<accepted, instances, passVars, apiVars, historyVars>>

\* `after_commit` calls `methods.before_commit`, with the snapshot.
AfterCommit == NodeMay("after_commit") /\ BeginPass("before_commit", "snapshot")

\* The service returns; from state_hashes, a list of hashes.
VisitReturns(i) ==
    /\ i \in rest /\ ~aborted
    /\ rest' = rest \ {i}
    /\ passed' = passed \union {i}
    /\ UNCHANGED <<nodeVars, instances, call, toStop, apiVars, historyVars>>

\* Fault: the pass ends at the first service that fails.
VisitFailsEndsPass(i) ==
    /\ i \in rest /\ ~aborted
    /\ rest' = {}
    /\ toStop' = toStop \union {i}
    /\ broken' = broken \union {i}
    /\ UNCHANGED <<nodeVars, instances, call, passed, apiVars, prepared, aborted>>

\* The service raises, be it ServiceError, or returns no list of hashes: it
\* is noted, and the pass goes on.
VisitFails(i) ==
    /\ i \in rest /\ ~aborted
    /\ rest' = rest \ {i}
    /\ toStop' = toStop \union {i}
    /\ broken' = broken \union {i}
    /\ UNCHANGED <<nodeVars, instances, call, passed, apiVars, prepared, aborted>>

\* `before_commit` of the service writes to an index. The Python side wrapped
\* the access as a Fork, so only Rust notices a snapshot, and panics.
VisitWritesSnapshot(i) ==
    /\ i \in rest /\ ~aborted
    /\ call = [method |-> "before_commit", access |-> "snapshot"]
    /\ aborted' = TRUE
    /\ UNCHANGED <<nodeVars, instances, passVars, apiVars, broken, prepared>>

NextPhase ==
    CASE phase = "transactions" -> "state_hashes"
      [] phase = "state_hashes" -> "commit"
      [] phase = "after_commit" -> "transactions"

\* Fault: the failed instances stay.
EndPassStopsNone ==
    /\ call # NoCall /\ rest = {} /\ ~aborted
    /\ toStop' = {}
    /\ call' = NoCall
    /\ phase' = NextPhase
    /\ prepared' = IF phase = "transactions" THEN passed ELSE prepared
    /\ UNCHANGED <<instances, block, accepted, rest, passed, apiVars, broken, aborted>>

\* Fault: the services that passed are stopped.
EndPassStopsPassed ==
    /\ call # NoCall /\ rest = {} /\ ~aborted
    /\ instances' = instances \ passed
    /\ toStop' = {}
    /\ call' = NoCall
    /\ phase' = NextPhase
    /\ prepared' = IF phase = "transactions" THEN passed ELSE prepared
    /\ UNCHANGED <<block, accepted, rest, passed, apiVars, broken, aborted>>

\* Fault: the list of instances to stop outlives the pass.
EndPassKeepsToStop ==
    /\ call # NoCall /\ rest = {} /\ ~aborted
    /\ instances' = instances \ toStop
    /\ call' = NoCall
    /\ phase' = NextPhase
    /\ prepared' = IF phase = "transactions" THEN passed ELSE prepared
    /\ UNCHANGED <<toStop, block, accepted, rest, passed, apiVars, broken, aborted>>

\* Every instance was visited: the failed ones are stopped and deleted.
EndPass ==
    /\ call # NoCall /\ rest = {} /\ ~aborted
    /\ instances' = instances \ toStop
    /\ toStop' = {}
    /\ call' = NoCall
    /\ phase' = NextPhase
    /\ prepared' = IF phase = "transactions" THEN passed ELSE prepared
    /\ UNCHANGED <<block, accepted, rest, passed, apiVars, broken, aborted>>

-----------------------------------------------------------------------------
(* ServiceApi.start, on the event loop thread: `listen` on the public port, *)
(* then on the private one. Either may fail (a port that is taken or does   *)
(* not exist, endpoints that raise), and what was done before stays.        *)

StartApi(i) ==
    /\ api[i] = "queued" /\ ~aborted
    /\ \/ port[i] + 1 <= LastPort /\ api' = [api EXCEPT ![i] = "up"]
       \/ port[i] <= LastPort /\ api' = [api EXCEPT ![i] = "half"]
       \/ api' = [api EXCEPT ![i] = "failed"]
    /\ UNCHANGED <<nodeVars, instances, passVars, apis, freePort, port, historyVars>>

-----------------------------------------------------------------------------
Pass ==
    \/ BeforeCommit
    \/ StateHashes
    \/ Commit
    \/ AfterCommit
    \/ EndPass

Visit(i) == VisitReturns(i) \/ VisitFails(i) \/ VisitWritesSnapshot(i)

Next ==
    \/ Pass
    \/ \E i \in Instances :
        AddService(i) \/ ExecuteRaises(i) \/ Visit(i) \/ StartApi(i)

Spec == Init /\ [][Next]_vars

-----------------------------------------------------------------------------
(* Properties *)

\* Every variable has its type, and a pass leaves nothing to stop behind.
TypeOK ==
    /\ phase \in {"transactions", "state_hashes", "commit", "after_commit"}
    /\ block \in 0..MaxBlocks
    /\ accepted \in SUBSET Instances
    /\ instances \in SUBSET Instances
    /\ apis \in SUBSET Instances
    /\ freePort \in Nat
    /\ call \in {NoCall} \union
                [method : {"before_commit", "state_hashes"}, access : {"fork", "snapshot"}]
    /\ rest \in SUBSET Instances
    /\ passed \in SUBSET Instances
    /\ toStop \in SUBSET Instances
    /\ port \in [Instances -> Nat]
    /\ api \in [Instances -> {"none", "queued", "up", "half", "failed"}]
    /\ broken \in SUBSET Instances
    /\ prepared \in SUBSET Instances
    /\ aborted \in BOOLEAN
    /\ call = NoCall => rest = {} /\ toStop = {}

\* One service failing in a pass does not keep another from being called:
\* each instance that was running is yet to be visited, or was visited and
\* either passed or will be stopped.
NoneSkipped ==
    call # NoCall =>
        /\ instances = rest \union passed \union toStop
        /\ rest \intersect (passed \union toStop) = {}
        /\ passed \intersect toStop = {}

\* The block that is committed aggregates the state hashes of exactly the
\* services still running, and each of them went through before_commit in
\* this block without an error.
AggregatorIsConsistent ==
    phase = "commit" => passed = instances /\ instances \subseteq prepared

\* The runtime stops a service that the node believes to run only because of
\* an error the service raised.
StoppedWasBroken == accepted \ instances \subseteq broken

\* A started service that raised an error it may not raise is running no more
\* when the node is back in control.
BrokenIsStopped ==
    call = NoCall => accepted \intersect broken \intersect instances = {}

\* A service whose start the node was told had failed has no API.
ListedIsAccepted == apis \subseteq accepted

\* Two APIs never listen on the same port, however many services started and
\* whichever of them failed.
Listening(i) ==
    CASE api[i] = "up" -> {port[i], port[i] + 1}
      [] api[i] = "half" -> {port[i]}
      [] OTHER -> {}

PortsAreDistinct ==
    \A i, j \in Instances : i # j => Listening(i) \intersect Listening(j) = {}

-----------------------------------------------------------------------------
(* What the repository says and the code does not do *)

\* "Raising an error which is not derived from ServiceError will be considered
\* an error in the service implementation, and such a service will be
\* disabled" (service.py:52, CREATING_SERVICES.md:24), here for an error
\* raised while the service starts.
FailedStartIsDisabled ==
    call = NoCall => broken \intersect instances = {}

\* `before_commit` is the "method called before the block commit"
\* (service.py:139).
BeforeCommitPrecedesCommit ==
    call.method = "before_commit" => phase # "after_commit"
=============================================================================
