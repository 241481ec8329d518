# Verification of the Exonum Python runtime

TLA+ models of the Exonum Python runtime, checked with TLC and, for the
results at the end, proved with TLAPS. Paths below are relative to `src/`;
`PR` is `python_runtime/exonum_runtime`, `RI` is `rust_interface/src`.

## The system

One process, two worlds. The Python main thread creates `PythonRuntime` and then
runs an asyncio event loop (`PR/lib.py`). Creating the runtime loads the Rust
library and starts an Exonum node in a daemon thread (`PR/ffi/ffi_provider.py`),
which calls back into Python through C function pointers (`PR/ffi/c_callbacks.py`).
So Python code runs on two threads: the *node thread* inside callbacks, and the
*event loop thread*. They share the dictionaries of `PythonRuntime`, which nothing
but the GIL protects, and, in Rust, a few `RwLock`s.

| Component | State | Operations | Interacts with |
| --- | --- | --- | --- |
| Deployment future (`RI/pending_deployment.rs`) | `result`, `task`, each behind a lock | `new`, `complete`, `error`, `poll` | polled by the node's executor, completed by the event loop thread |
| Artifact deployment (`RI/runtime.rs`, `RI/python_interface.rs`, `PR/runtime/runtime.py`, `PR/runtime/artifact.py`) | `methods`, `ongoing_deployments`; `_pending_deployments`, `_artifacts`; `_service_class` of each `Artifact`; the folder pip installs into | `deploy_artifact`, `request_deploy`, `Artifact.deploy`, `_deploy_completed`, `deployment_completed`, `init_python_side` | both threads, the PYTHON_INTERFACE lock, pip |
| Service instances (`PR/runtime/runtime.py`, `PR/runtime/service.py`) | `_instances` | `add_service`, `execute`, `before_commit`, `state_hashes`, `after_commit`, `_stop_service` | called by the node in every block; calls untrusted service code |
| Service HTTP API (`PR/api/service_api.py`) | `_service_api`, `_free_service_port`, servers | `_start_service_api`, `ServiceApi.start`, `api_map`, handlers | created on the node thread, started on the event loop thread |
| Runtime HTTP API (`PR/api/runtime_api.py`) | uploaded files | state page, upload | reads `_service_api` |
| Callbacks and error codes (`PR/ffi/c_callbacks.py`, `PR/runtime/service_error.py`, `RI/errors.rs`) | `_RESOURCES` | conversion of results to and from a `u8` | the border |
| Database access (`PR/merkledb`, `RI/merkledb_interface`) | validity of an access, `BLOCK_SNAPSHOT`, iterators | index operations | services, API handlers |
| Buffers of the database bindings (`PR/ffi/merkledb`, `c_callbacks.py`) | `_MERKLEDB_ALLOCATED` | allocate, free | both threads |
| Schemas (`PR/merkledb/schema.py`) | none at run time | checks on class definitions, `get_state_hashes` | services |
| Cryptocurrency example (`examples/cryptocurrency`) | wallets | `create_wallet`, `transfer` | the runtime, as a service |
| Conversions, configuration, cryptography, protobuf | none | copies, files, libsodium, protoc | everything |

What makes it hard, and what would make each part correct:

- *Deployment future*: the waiter may look at the result and go to sleep while the
  other thread stores it. Correct: no wakeup is lost, and a future is settled once.
- *Deployment*: the coroutine may finish before Rust has registered its future; the
  node may retry while the previous attempt is still being cleaned up; the
  coroutine runs other people's code and may die. Correct: Rust expects every
  completion; every future is resolved; an artifact is registered exactly after a
  deployment that was reported successful.
- *Services*: any call may fail at any point of a pass. Correct: a pass calls
  everyone, exactly the faulty services are stopped, the state hash covers
  exactly the services that run, hooks run at their time of the block.
- *APIs*: started later, by another thread, on ports that may not exist. Correct:
  no two APIs share a port, and a page that lists them works at any moment.
- *Border*: an exception in a callback becomes a return value of zero. Correct: no
  error is ever reported as success, and codes survive the trip.
- *Database*: objects outlive the access they were made with, and snapshots are
  replaced under a running handler; an access is checked in Python and used in Rust a moment
  later, with the other thread in between. Correct: nothing is read through an expired
  access, and a handler sees one block.
- *Uploads*: a file is refused by its name and stored at a path. Correct: what was
  answered is what is stored.

The state of the node and of the runtime is not persisted as the process is built (the node
runs on a temporary database, `RI/lib.rs`), so there is no recovery to model. Two folders survive a
relaunch, the one pip installs into and the one uploads are stored in: `Deployment` and `RuntimeApi`
start with any contents of them.

## Modules

| Module | Models | Correspondence |
| --- | --- | --- |
| `PendingDeployment` | the future and the two threads at it | one action per lock acquisition; a lock is held exactly at some program counters |
| `OneShot` | what a set of one-shot completions promises | abstract; `PendingDeployment` implements it |
| `Deployment` | deployments across both threads | one action per stretch of a thread between two accesses to shared state |
| `DeployContract` | what the runtime promises the node about deployments | abstract; `Deployment` implements it |
| `Services` | running services, blocks, ports | a call of a service is an action; a pass is begun, visits each instance, ends |
| `RuntimeApi` | the state page and uploads, composed with `Services` | extends it: a page is requested, reads one entry at a time, ends, beside the node thread |
| `MerkledbBuffers` | the buffers in which reads of the database come back | one action per step of a read at which the GIL may change hands |
| `Schemas` | what a class with a schema may declare, identifiers of indices | operators on a declaration, no state |
| `Access` | accesses, index objects, iterators, state hashes | extends `Schemas`; an operation on an object is its check in Python and its use in Rust, on either thread |
| `ErrorCodes` | the byte that carries a result from Python to Rust | operators on a code, no state |
| `Transactions` | the cryptocurrency service, its script, the node between them | extends `ErrorCodes`; one action per handler and outcome, per step of the node, and per request of the script |
| `Ledger` | what the cryptocurrency service promises its users | abstract; `Transactions` implements it |
| `PendingDeploymentProofs`, `DeploymentProofs`, `ServicesProofs`, `RuntimeApiProofs`, `MerkledbBuffersProofs`, `AccessProofs`, `LedgerProofs`, `TransactionsProofs` | theorems | |
| `MCPendingDeployment`, `MCDeployment`, `MCServices`, `MCMerkledbBuffers`, `MCAccess`, `MCTransactions` | instances for TLC | |

Operators whose comment begins with *Fault* are wrong versions of the definition
that follows them. Nothing uses them: they record, for each property, a bug of
the code that the property detects when the faulty version takes the place of
the right one.

**PendingDeployment.** `result`, `task` and `ongoing` are the Rust fields. `poll[d]`
is where the executor is with a future, `completer` where the event loop thread is
in `deployment_completed`. The Rust `match *self.result.read()` keeps its guard until
the end of the `match`, that is over the store into `task`: while `poll[d] =
"reading"` nobody may write `result[d]`. This is all that stands between the code
and a lost wakeup. `if let Some(ref task) = self.task.read()` keeps its guard over
`notify` in the same way.

**Deployment.** Each call of `deploy_artifact` is an *attempt*; the `Artifact` object,
its coroutine, the asyncio future and the Rust future of an attempt are all
named by its number. Dictionaries keyed by the artifact hold attempts. The node thread holds
PYTHON_INTERFACE for writing while `node # Idle`, which `deployment_completed`
must wait for. The coroutine has one action up to the start of pip and one after
it; `importlib.import_module` of an installed package finds the class, fails in a
way the runtime expects, or raises anything else (`Packages`), and the last ends the coroutine.
The done callback is four steps: take it, `deployment_completed`, register, clean up.
It is started in any order (asyncio's is first in, first out, so the model has more
behaviours than the program).

**Services.** `phase` is what the node does next in the block; `call`, `rest`,
`passed` and `toStop` are the local variables of the pass being made, so that a
call of one service is an action of its own, beside which the event loop may start
APIs. A call may return, fail, or (where Rust hands Python a snapshot it takes for
a fork) panic. Instances stand for their ids and their names.

**RuntimeApi.** The handler of `GET /` iterates over the live dictionary `_service_api`,
which the node thread changes when it starts a service: `page.start` is the
dictionary when the iteration began, and Python raises when its size is another.
An entry is read through `_api_map`, an attribute that exists only once
`ServiceApi.start` is over. The handlers and `ServiceApi.start` run on the same
thread (`LoopFree`), the steps of `Services` anywhere between. An upload checks the names of all
its files against the listing of the folder before the request (`Checked`), then writes them one
after the other (`Stores`), each to the path its name leads to; a file may fail to open, which
leaves its path alone, or to be written, which leaves it torn (`FailsAt`). Names and paths are two things: the
check, of which the comment at `runtime_api.py:80` says "Check that it's not re-uploading",
compares the name as it is given with `os.listdir`, while line 104 joins it to the
folder. `Path` says where a name leads; the names a listing gives (`PlainNames`) lead to different paths,
the others to any.

**Schemas and Access.** A declaration has the bases of the class, its schema, the type
of each index with what that was subscripted with, and the list for the state hash; `Accepted`
is what the metaclasses let through. `lent` is the access the node has handed to the runtime:
a fork, a snapshot, or `late`, the snapshot of `after_commit`, which Python wraps as
a `Fork` because the Rust side calls `before_commit`. An index type has a name and a class of its own: the
check of the state hash looks at the name, `object_hash` needs the class.

Service code runs on two threads, so an operation is two actions. `OpBegins` is
the check in Python (`BaseIndex._ensure`, `mutable`); `Read`, `Write`, `WritePanics` and `Iterate`
are its use in Rust, where ctypes has given the GIL away. In between the other thread takes any step:
the node thread may return the access (`Return`), and either may call the object anew, which replaces the
name under whoever uses it (`CallBegins`), or enter Rust with the same fork, which is not made for two threads
(`Races`). `doing` is what each thread is in the middle of, and whether what it took is still
its own; `Live` says that all it follows is there. `__call__` is two actions as well, `CallBegins` and `CallEnds`: to
make a wrapper Rust stores two pointers and follows none, so the second is one step. `__next__`
checks nothing: `NextBegins` calls Rust as long as there are items left, `NextEnds` comes back.
An index object is `made` when its wrapper is, and `stale` when `__call__` freed the name the wrapper points
to; when it then raises, it stays so. An iterator holds the wrapper, not the object that owns the name: it
may outlive the access, the object and the name. `users` is history: the threads
that made or called an object, and the node for what is made of an access it lent.

Using memory that is gone is undefined, and what follows is a choice, though not every one: Rust does nothing,
gives any item, fails, gives any length, or does what it should, and the model goes on; a crash would end the run. One thread at a
time asks an iterator. `get_state_hashes` makes its own objects and keeps none, and is one action.

**ErrorCodes and Transactions.** `StoredCode`, `CallbackByte` and `FromValue` are the three
conversions on the way of an error: the code a `ServiceError` keeps, the `u8` the callback
returns, the `ExecutionError` Rust makes of it. In `Transactions` a transaction
goes through all of them: `Execute` is one of five actions by what the runtime, the
routing table or the handler answers, and ends with a `byte`; `Decide` is what the node does
by that byte, keeping the fork or going back to the `checkpoint`. `status` is what
it recorded. `Commit` makes the ledger that of the last block; `AfterCommit` replaces
`BLOCK_SNAPSHOT`, from which `get_wallet` answers, so between the two a reader sees the block
before, while the status of a transaction is already there. `routes` is the table keyed by
class names: `other` is a route which a class of the same name in another artifact has left.
The script is `send_txs.py` with one action per request it makes: four stages that
each send a transaction, wait for two blocks, check the status and read balances.

`Ledger` is what a user may rely on, without runtime, byte or checkpoint: a transaction
takes all its effect in one step or none ever, and blocks reach readers one by one.
`Promised` maps `Transactions` to it: while a `byte` is there the handler has written, but nothing
has happened yet for a user, so the promised balances are those of the
`checkpoint`; the effect of a transaction comes with `Decide`, and the promised blocks are
`committed` and `snapshot`. `Ledger` also says what a ledger amounts to once some transactions
took effect (`LedgerAfter`, `MoneyAfter`), which `LedgerIsStatuses` and
`OnlySelfTransfersMakeMoney` compare with the state of `Transactions`.

**MerkledbBuffers.** A buffer is named by the thread and the number of its read; the
list of buffers is the module-level list of `PR/ffi/c_callbacks.py`. A read of a value that is not there ends
before it allocates and is left out. `wrong` and `overlapped` are history: freed memory may still hold
what it held, so using it is wrong or goes unnoticed.

## What the runs show

| Run | Instance | Shows |
| --- | --- | --- |
| `pending` | 2 deployments | `NoLostWakeup`; `SettlesOnce`: the future implements `OneShot`, its liveness included |
| `deployment` | 2 artifacts, 3 attempts | `NoUnexpectedCompletion`, `NoOrphanFuture`, `RegisteredIsLoaded`, `OnlyRetriesAreLost`; `ResolvesUnlessDead`; `KeepsContract` |
| `deployment_ended` | 1 artifact, 1 attempt | `EndedIsRemoved` is violated: a coroutine that dies leaves its pending entry and its waiter behind |
| `deployment_lost` | 1 artifact, 2 attempts | `ReportedIsDeployed` is violated: the clean-up of a failed attempt removes the retry's entry |
| `services` | 3 services, 2 blocks, 3 ports, uploads of 2 files to 2 names of one path | `NoneSkipped`, `AggregatorIsConsistent`, `StoppedWasBroken`, `BrokenIsStopped`, `ListedIsAccepted`, `PortsAreDistinct`; `PageIsRight`, `PageFailsOnlyIf`, `AnsweredIsStored` |
| `failed_start` | 2 services, 1 block | `FailedStartIsDisabled` is violated: an instance whose `wire_api` failed keeps running |
| `commit_hook` | 2 services, 1 block | `BeforeCommitPrecedesCommit` is violated: `before_commit` runs again after the commit |
| `buffers` | 2 threads, 4 reads each | `OneBufferEach`, `AloneIsRight` |
| `buffers_shared` | 2 threads, 1 read each | `BytesAreRusts` is violated: a read frees the buffer of the other |
| `access` | 10 declarations of an index, 2 threads, 1 object, 1 iterator | `OnlySharedOutlive`, `PanicsOnlyAfterCommit`, `IterationIsExact`, `HashesDoNotFail`; `IterationsEnd` |
| `transactions` | the script and 9 transactions of another user | `LedgerIsStatuses`, `OnlySelfTransfersMakeMoney`, `StatusesAreMeant`, `PrintsReadme`, `OnlyOwnerSpends`, `ScriptFailsOnlyIf`; `ScriptEnds`; `KeepsLedger`: the service implements `Ledger` |
| `self_transfer` | the same | `MoneyIsConserved` is violated: a transfer to oneself adds its amount to the wallet |

The passing runs also check the type invariant of their module. The six violations
(`deployment_ended`, `deployment_lost`, `failed_start`, `commit_hook`, `buffers_shared`,
`self_transfer`) are divergences between the code and its own documentation, quoted in
`PROJECT.json`.

Some of what the passing runs show is a limit more than a merit, and each property says
exactly where it lies:

- The state page fails while any API in the table is not up, and an API whose start
  failed (no port left, say) is never removed: from then on the page fails for good, for all services.
  `PageFailsOnlyIf` says that nothing else but a service started meanwhile makes it fail.
- An index object is safe to keep for a thread that has it to itself, for every operation checks
  the access and nobody ends it before the operation does; it is not safe to share with the other thread,
  which may end the access or replace the name between check and use, and an iterator is never safe to
  keep. `OnlySharedOutlive` says that these are all the ways to memory that is gone. Note who shares: what
  is made of an access the node lent is used by the node thread, whichever thread uses it beside. An iterator may also
  go on after the snapshot of the API was replaced: what it gives is exact only if its index did not change (`IterationIsExact`).
- A service may write in the `before_commit` that `after_commit` calls: Python takes the access
  for a fork and Rust panics. `PanicsOnlyAfterCommit` says it is the only such case.
- An upload may replace a file that was answered when it gives another name that leads to the same path.
  `AnsweredIsStored` says that nothing else does: neither requests of the same name, nor one
  name twice in a request, nor a write that fails.
- A class with a schema may fail to answer its state hashes when an index type lacks its generics, or is
  called `Proof...Index` and is none (`HashesDoNotFail`).
- A service that was stopped stays in the table of APIs and on the state page, though
  `service_api_map` says "currently running service APIs" (`PR/runtime/runtime.py:341`). The model has
  it so; `PageIsRight` compares the page with that table and the servers, not with the running services.
- The script fails when the service was stopped, which one malformed transaction of
  anybody does; when its transaction is in no block yet; and when it reads a
  balance between a commit and `after_commit` (`ScriptFailsOnlyIf`).
- A transfer to oneself makes money of nothing. `OnlySelfTransfersMakeMoney` says that no
  other transaction does, and that none loses any.

### Bounds

- Two deployments of the future: they share only `completer` and `ongoing`, so a
  second one is enough for one to be in the way of another.
- Three attempts at two artifacts: a retry, a retry of a retry, or a retry beside
  another artifact. Two actors meet over one artifact at a time; the proofs cover
  any number.
- Three services: one that stays, one that is stopped and one not visited yet, all
  in one pass. Two blocks: a service that is stopped in one is missing in the
  next. Ports 65533 to 65535: room for one API, for half of the next, and for none
  of the third.
- Two file names that are accepted and lead to one path, of which the folder lists one; a name that is not
  accepted, two contents, and requests of up to two files: a name twice in a request, both names, or either in
  two requests. Instances are symmetric. Uploads are made beside the first block (`UploadBlocks`) and, by the
  constraint `UploadsBesideNone`, while no service has been started, and services over an empty
  folder: they share no data, only the thread of the event loop. The theorems are proved without the constraint.
- Access: one index, one object and one iterator, two values, lists of two items, two writes, both threads.
  Objects share the access, which one has as well as two, and a fork, which one object that both threads use races
  for as two do; an iterator shares only the name with the object it was made of, which
  may be dropped and made anew. The theorems cover any number of each. `MCAccess` has every class of index, a
  type without its generics, one that has the name of another class, and declarations that are refused.
- Transactions: one user beside the script, with a transaction of every kind the handlers
  tell apart, two of which are executed in a behaviour. The theorems cover any users and transactions.
- Two threads read the database, for the process has two that run Python. Four reads
  each: enough for one thread to begin anew among what an overlap left behind; the
  proofs cover any number of either.

### Assumptions about the outside

- The node deploys an artifact again only after every earlier attempt at it failed
  (`MayDeploy`): while it waits for a future it does not ask twice. A second
  request while one is ongoing would orphan the first future; the assumption excludes
  that, so `NoOrphanFuture` says nothing of it (see the hazards).
- A service raises nothing but an `Exception`. The runtime catches no more
  (`PR/runtime/runtime.py:310`): a `SystemExit` in a hook would leave the pass where it is, and Rust reads
  the 0 that ctypes returns as success. `NoneSkipped` and `BrokenIsStopped` hold for exceptions only.
- It finishes `deploy_artifact` before it makes another call of the runtime, and
  makes the calls of a block in the order of `NextPhase`.
- It sends transactions to started services only, and does not start a service twice.
- In `Transactions`, nobody but the script has the keys of Alice and Bob, the service's API is
  up, and no request is lost. The message a foreign handler takes is not in
  this service's protobuf. Each transaction is executed once, as the node rejects repetitions.
- ctypes releases the GIL around every call into Rust, so a thread that waits for a
  lock in Rust does not keep the other from running Python; no deadlock between the GIL
  and PYTHON_INTERFACE is possible and none is modelled.

### Fairness

`PendingDeployment`: the executor polls a scheduled task and ends a poll it began;
the event loop thread ends a completion it began. Nothing says that a deployment
ever completes. `Deployment`: each thread goes on with what it began; the loop
takes its ready callbacks in order and is woken every 0.1 s
(`PR/lib.py:18`), so a callback that is ready runs; pip ends. The node need not
deploy anything. Under these, a deployment is resolved unless its coroutine died.
`Access`: a call into Rust comes back (weak fairness per thread), and who began to iterate goes on; the
latter is strong fairness, for the thread may do other things between two items. That iterations end rests on
the length they asked for at the beginning, and fails for `ProofListIndex`, whose iterator does
not advance, as soon as its length can be asked for. `Transactions`: the node finishes what
it began and goes on making blocks, which it does with or without transactions, and the script
is run to its end. No transaction is sure to be put into a block, so `ScriptEnds`
does not depend on it. `Services`, `RuntimeApi` and `MerkledbBuffers` state safety
only, and assume no fairness.

## What is proved

For every set of deployments, artifacts, services, threads, files, objects, iterators, keys and
transactions, and every number of attempts, blocks, ports and reads:

| Theorem | States |
| --- | --- |
| `PendingDeploymentProofs!TypeCorrect` | `Spec => []TypeOK` |
| `PendingDeploymentProofs!WakeupsAreKept` | `Spec => []NoLostWakeup` |
| `PendingDeploymentProofs!ImplementsOneShot` | the safety part of `SettlesOnce` |
| `DeploymentProofs!TypeCorrect` | `Spec => []TypeOK` |
| `DeploymentProofs!CompletionsAreExpected` | `Spec => []NoUnexpectedCompletion` |
| `DeploymentProofs!FuturesAreKept` | `Spec => []NoOrphanFuture` |
| `DeploymentProofs!RegistrationFollowsLoading` | `Spec => []RegisteredIsLoaded` |
| `DeploymentProofs!FirstAttemptsAreKept` | `Spec => []OnlyRetriesAreLost` |
| `DeploymentProofs!ImplementsContract` | `Spec => KeepsContract` |
| `ServicesProofs!TypeCorrect` | `Spec => []TypeOK` |
| `ServicesProofs!PassesSkipNone` | `Spec => []NoneSkipped` |
| `ServicesProofs!HashesAreConsistent` | `Spec => []AggregatorIsConsistent` |
| `ServicesProofs!OnlyFaultyAreStopped` | `Spec => []StoppedWasBroken` |
| `ServicesProofs!FaultyAreStopped` | `Spec => []BrokenIsStopped` |
| `ServicesProofs!FailedStartsAreNotListed` | `Spec => []ListedIsAccepted` |
| `ServicesProofs!PortsAreNotShared` | `Spec => []PortsAreDistinct` |
| `MerkledbBuffersProofs!TypeCorrect` | `Spec => []TypeOK` |
| `MerkledbBuffersProofs!BuffersAreCounted` | `Spec => []OneBufferEach` |
| `MerkledbBuffersProofs!LoneReadsAreRight` | `Spec => []AloneIsRight` |
| `RuntimeApiProofs!ImplementsServices` | `ApiSpec => Spec`: the theorems of `ServicesProofs` hold beside the API |
| `RuntimeApiProofs!ApiTypeCorrect` | `ApiSpec => []ApiTypeOK` |
| `RuntimeApiProofs!PagesAreRight` | `ApiSpec => []PageIsRight` |
| `RuntimeApiProofs!PagesFailForAReason` | `ApiSpec => PageFailsOnlyIf` |
| `RuntimeApiProofs!FilesAreKept` | `ApiSpec => []AnsweredIsStored` |
| `AccessProofs!TypeCorrect` | `Spec => []TypeOK` |
| `AccessProofs!OthersAreGuarded` | `Spec => []OnlySharedOutlive` |
| `AccessProofs!OtherWritesAreChecked` | `Spec => []PanicsOnlyAfterCommit` |
| `AccessProofs!AcceptedClassesAnswer` | `Spec => []HashesDoNotFail` |
| `AccessProofs!IterationsAreExact` | `Spec => []IterationIsExact` |
| `AccessProofs!IdsAreDistinct` | indices of instances whose names have as many dots do not share an identifier |
| `TransactionsProofs!SubclassCodesAreServiceCodes` | the code a subclass of `ServiceError` stores is between 16 and 128 |
| `TransactionsProofs!ServiceErrorsAreKept` | an error of a service arrives in the node with the code it stored |
| `TransactionsProofs!TypeCorrect` | `Spec => []TypeOK`: among the rest, no balance is negative |
| `TransactionsProofs!ErrorsKeepTheirMeaning` | `Spec => []StatusesAreMeant` |
| `TransactionsProofs!OwnersSpend` | `Spec => OnlyOwnerSpends` |
| `TransactionsProofs!ScriptsFailForAReason` | `Spec => ScriptFailsOnlyIf` |
| `TransactionsProofs!ImplementsLedger` | `Spec => KeepsLedger` |
| `LedgerProofs!LedgersAreAccounts` | in any ledger that keeps the promise, the balances and the money, now and in the last block, are what the transactions that took effect made them |
| `TransactionsProofs!StatusesMakeTheLedger` | `Spec => []LedgerIsStatuses` |
| `TransactionsProofs!MoneyIsAccountedFor` | `Spec => []OnlySelfTransfersMakeMoney` |
| `TransactionsProofs!OthersConserveMoney` | `Spec => [](NoSelfTransfers => MoneyIsConserved)`: where nobody in the block transfers to himself, its money is what the wallets were created with |
| `TransactionsProofs!PrintsAsReadme` | `Spec => []PrintsReadme` |

The only assumptions are those on the constants: the model values that stand for
"none" are not members, bounds are naturals, the set of threads is finite, accepted and
refused file names are different, two names in one listing lead to different paths, declarations give each index a type, and other users
do not have the keys of the script.

*Future.* `NoLostWakeup` is not inductive: between the poll's read and the end of the
completion it must be known which of the two threads will see the other. The
invariant adds what a poll in progress has read (`seen` is still the result,
because its read guard keeps the writer out), and that a waiting node that is not
scheduled has stored its task. The refinement needs that an ongoing deployment has
no result yet.

*Deployment.* `NoUnexpectedCompletion` needs that the attempt the loop is completing is the one
ongoing under its artifact. The invariant ties the three places an attempt appears
in: the node (attempts are made in order and one at a time), the future (waiting
exactly from registration to completion) and the coroutine (which completes only
while the future waits, or while the node thread still holds the lock).
`RegisteredIsLoaded` rests on the same: an OK result at an artifact excludes
another attempt at it in flight, hence the pending entry, if any, is its own.
`OnlyRetriesAreLost` needs that a missing pending entry was removed by the
clean-up of a failed attempt at the same artifact. The contract follows step by step.

*Services.* Between passes `BrokenIsStopped` says enough, but not inside one, where a
service that failed still runs: there the running services known to be at fault are
among those the pass will stop, and those it will stop are all at fault. That the hashes
are consistent needs what the pass of `before_commit` left to the pass of `state_hashes`:
every instance passed it. Ports need that those handed out lie below the next
free one, two for each API.

*Buffers.* `AloneIsRight` needs to know the list when nobody overlaps. A lone read is
the only one in progress, so by `OneBufferEach` the list was empty when it allocated,
and holds its buffer alone since: what an overlap left behind is gone when the last of the
overlapping reads ends.

*Runtime API.* Every step is a step of `Services` or leaves its variables alone, so its theorems
carry over. A page in progress has read only APIs that were in the table when it was
asked for, and those are up: `_service_api` only grows and an API that is up stays up. A path is written only under a name
that leads to it and passed the check. If the only such name is the one the folder lists, it passed while the
path was empty; so nothing was answered for it yet (`GivenWereNotThere`), and what the request stores and
answers under it is the body of the same file, the last of that name (`NameAndPathAgree`). For a file that fails, nothing is answered.

*Access.* `TypeInv` adds to the types that what a thread uses is there: objects are not freed under an
operation, and an iterator that is asked runs and is asked by one thread. `OnlySharedOutlive` needs to know how
memory can go between a check and its use. `UserInv` says of a thread in the middle of an operation that it is among the
object's users, that its wrapper was replaced only by the other thread, and that the access
expired only when the node returned it, which makes the node another user. `ObjectInv` says the
same of objects at rest: a lent access is there while anything has it, and a stale wrapper belongs
to an access that expired, to both threads, or to a call in progress. The operation that
begins checks the access, so for a thread alone all is live, and stays so, as nobody else
can step in. The same `UserInv` has what Python takes for a fork behind every write, from which
`PanicsOnlyAfterCommit` follows. For `IterationIsExact` the invariant
adds that an undisturbed iterator has a valid access and its name, belongs to a list of
the length it asked for, and has given exactly the items before its position (`Exact`);
whatever changes the list, frees the name or ends the access disturbs it.

*Transactions.* Between a handler and `Decide` the byte decides; the invariant says that what it will be
read as is what was meant, and that a byte which will fail comes with a ledger as in
the checkpoint. `ScriptFailsOnlyIf` needs what the script's own transactions meet: while
the service runs they succeed, since wallets exist from their creation on, nobody else spends
from them, and after the first transfer Bob has what the second takes; what is included was
executed; and the snapshot is the committed ledger except between `Commit` and
`AfterCommit`. So a script that finds its transaction in a block, the service running and the
snapshot up to date does not fail, whatever any number of others send.

*Ledger.* That `Transactions` keeps the promise needs one thing beside the invariant above:
a byte that will be read as success comes with a ledger that differs from the checkpoint by
exactly the effect of its transaction (`EffectInv`); so `Decide` is a step of `Ledger` or none.
What is proved of every ledger then holds of this one. There, `Accounts` is inductive because
who took part in a transfer has a wallet: a wallet that is created later
starts with `InitBalance`, nothing was sent to it or from it before. The rest is how a sum over a set
changes with an element of the set, or with the value at one. `SumFunctionOnSet` is
defined by recursion over finite sets, and the induction theorems of the library are of no
use, for they take a predicate as a parameter. `LedgerProofs` gets around that:
it states induction with a set in the place of the predicate (`NaturalInduction`), proves it from `<`
being well-founded, and derives what sums are from there (`SumWithElement`, `SumWithChange`).

*What the script prints.* `PrintsReadme` needs to know the last block whenever the script may read. The
invariant says that no transaction of a later stage was executed or is being, and
`ProgressInv` that those of the stages up to this one succeeded and are included; if
nobody else sent anything to the script's wallets (`Quiet`), the successful transfers of the block that touch
them are the script's, so `LedgerAfter` gives the balances of the README for each stage
(`CommittedAsReadme`). What was printed stays, and a script that ends has printed all.

Model-checked only: the liveness properties (`ResolvesUnlessDead`, `IterationsEnd`, `ScriptEnds`, the
fairness part of `SettlesOnce`), which are out of the prover's reach, and the divergences.
Every invariant, action property and safety refinement that a passing run checks is a theorem.

## What is left

Nothing of what is left holds a protocol between threads or with the node:

- Values that services write in hooks, beside the passes of `Services`: what a service
  wrote before its `before_commit` raised stays in the fork.
- Two versions of one artifact: the second is given the handlers of the first when
  they have the same names.

The hazards in `PROJECT.json` that no property covers say why in their notes.

## Not modelled

The node itself (consensus, the dispatcher, the database) is a library outside
this repository: it appears as the environment, with the assumptions above, and
`RI/lib.rs`, which starts it, has no state of its own. Configuration, cryptography and protobuf
compilation wrap a file, libsodium and protoc. The field-by-field conversions of structures
keep no state; of them, only who called a transaction matters to a property and is
modelled. Of the service HTTP API, the tornado handler a path leads to and the writing
of an answer are left out. `restart_instance` cannot be called as the code stands: the callback
names a method that does not exist, and the temporary database leaves nothing to
restart.
