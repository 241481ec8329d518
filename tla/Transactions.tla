---------------------------- MODULE Transactions ----------------------------
(***************************************************************************)
(* Transactions of the cryptocurrency service, from a client to the ledger *)
(* and back: the script send_txs.py sends its transactions, the node       *)
(* executes them through the callback, the runtime, the routing table and  *)
(* a handler, keeps or rolls back what the handler wrote by the byte that  *)
(* comes back, commits blocks, and refreshes the snapshot the HTTP API     *)
(* reads. Other users' transactions, and the import of other artifacts,    *)
(* come at any time.                                                       *)
(*                                                                         *)
(* A wallet is its balance; names and serialisation are left out.          *)
(***************************************************************************)
EXTENDS ErrorCodes, Sequences, FiniteSetsExt

CONSTANTS
    Keys,       \* public keys
    Alice,      \* the key the script makes for Alice
    Bob,        \* and the one for Bob
    NoKey,      \* bytes that are no public key
    MethodIds,  \* method ids transactions use
    OtherTxs,   \* transactions of other users, each executed at most once
    MaxOthers,  \* bound: how many of them are executed
    NoWallet    \* what a read of a wallet that does not exist returns

\* Transactions, as the node hands them over. `parses`: the payload is a
\* message of the type the method takes.
TxType == [caller : {"transaction", "service"}, author : Keys, method : MethodIds,
           to : Keys \union {NoKey}, amount : Nat, seed : Nat, parses : BOOLEAN]

InitBalance == 100
CreateWalletId == 1
TransferId == 2

\* Codes of CryptocurrencyError
WalletAlreadyExists == 16
SenderNotFound == 17
ReceiverNotFound == 18
InsufficientCurrencyAmount == 19
IncorrectSender == 21

CreateTx(key) ==
    [caller |-> "transaction", author |-> key, method |-> CreateWalletId,
     to |-> NoKey, amount |-> 0, seed |-> 0, parses |-> TRUE]

TransferTx(from, to, amount, seed) ==
    [caller |-> "transaction", author |-> from, method |-> TransferId,
     to |-> to, amount |-> amount, seed |-> seed, parses |-> TRUE]

\* The script, in stages: the transaction of a stage, and the wallets it
\* prints the balances of when that has succeeded.
Stages == 1..4
StageTx == <<CreateTx(Alice), CreateTx(Bob),
             TransferTx(Alice, Bob, 10, 1), TransferTx(Bob, Alice, 25, 2)>>
StageReads == << <<>>, <<Alice, Bob>>, <<Alice, Bob>>, <<Bob, Alice>> >>

ScriptTxs == {StageTx[n] : n \in Stages}
Txs == OtherTxs \union ScriptTxs

ASSUME TransactionsAssumption ==
    /\ Alice \in Keys /\ Bob \in Keys /\ Alice # Bob
    /\ NoKey \notin Keys
    /\ NoWallet \notin Nat
    /\ {CreateWalletId, TransferId} \subseteq MethodIds
    /\ OtherTxs \subseteq TxType /\ MaxOthers \in Nat
    \* nobody else has the keys of the script
    /\ \A tx \in OtherTxs : tx.caller = "transaction" => tx.author \notin {Alice, Bob}

VARIABLES
    \* the node (Rust)
    phase,      \* "transactions", or "after_commit" until the runtime was told
    pool,       \* transactions of the script that wait for a block
    wallets,    \* the ledger in the fork of the current block
    checkpoint, \* the ledger before the transaction being executed, if one is
    byte,       \* what its callback returned: [tx, value], or NoByte
    status,     \* status of every executed transaction
    included,   \* transactions of committed blocks
    committed,  \* the ledger of the last block
    snapshot,   \* the ledger of BLOCK_SNAPSHOT, which the API reads
    \* PythonRuntime
    running,    \* the instance is in _instances
    routes,     \* whose handler a method of class Cryptocurrency runs
    \* the script
    stage,      \* stage it is in
    at,         \* what it does next in the stage
    waits,      \* blocks it still waits for
    printed,    \* balances it printed in each stage
    lagged      \* history: it read a balance while the snapshot was a block old

nodeVars == <<phase, pool, wallets, checkpoint, byte, status, included, committed, snapshot>>
runtimeVars == <<running, routes>>
scriptVars == <<stage, at, waits, printed, lagged>>
vars == <<nodeVars, runtimeVars, scriptVars>>

\* No callback has returned: 256 is no byte.
NoByte == [tx |-> NoKey, value |-> 256]
NoStatus == [kind |-> "none", code |-> 0]
NoWallets == [k \in Keys |-> NoWallet]

\* The instance was deployed and started in earlier blocks: its own two
\* methods are routed, and a class of the same name imported before may have
\* routed others.
Init ==
    /\ phase = "transactions"
    /\ pool = {} /\ included = {}
    /\ wallets = NoWallets /\ checkpoint = NoWallets
    /\ committed = NoWallets /\ snapshot = NoWallets
    /\ byte = NoByte
    /\ status = [tx \in Txs |-> NoStatus]
    /\ running = TRUE
    /\ routes \in [MethodIds -> {"own", "other", "none"}]
    /\ \A m \in MethodIds : routes[m] = "own" <=> m \in {CreateWalletId, TransferId}
    /\ stage = 1 /\ at = "send" /\ waits = 0
    /\ printed = [n \in Stages |-> <<>>]
    /\ lagged = FALSE

-----------------------------------------------------------------------------
(* The routing table is a dictionary of class names, shared by all artifacts *)

\* Fault: a later definition replaces an earlier one.
ImportOtherReplaces(m) ==
    /\ routes' = [routes EXCEPT ![m] = "other"]
    /\ UNCHANGED <<nodeVars, running, scriptVars>>

\* A module is imported whose class has the same name and declares method m.
\* Redefinition of a route raises, or is ignored when handler and message have
\* the same names: either way the earlier route stays.
ImportOther(m) ==
    /\ routes[m] = "none"
    /\ routes' = [routes EXCEPT ![m] = "other"]
    /\ UNCHANGED <<nodeVars, running, scriptVars>>

-----------------------------------------------------------------------------
(* Executing a transaction *)

Executed == {tx \in Txs : status[tx] # NoStatus}

\* The node executes tx: a transaction of its pool, or of another user.
Begin(tx) ==
    /\ phase = "transactions" /\ byte = NoByte
    /\ status[tx] = NoStatus
    /\ tx \in pool \/ (tx \in OtherTxs /\ Cardinality(Executed \ ScriptTxs) < MaxOthers)
    /\ pool' = pool \ {tx}
    /\ checkpoint' = wallets
    /\ UNCHANGED <<phase, status, included, committed, snapshot, routes, scriptVars>>

\* The callback `execute` returns.
Answers(tx, answer) == byte' = [tx |-> tx, value |-> CallbackByte(answer)]

\* The runtime answers without calling the service, or with what Service.execute
\* raises before it calls a handler.
NotRunning(tx) ==
    /\ Begin(tx) /\ ~running
    /\ Answers(tx, Result(UnknownService))
    /\ UNCHANGED <<wallets, running>>

NotRouted(tx) ==
    /\ Begin(tx) /\ running
    /\ \/ routes[tx.method] = "none" /\ Answers(tx, Error(TRUE, MethodNotFound))
       \* the message the other class takes is not in this service's protobuf
       \/ routes[tx.method] = "other" /\ Answers(tx, Error(TRUE, WrongServiceImplementation))
       \/ routes[tx.method] = "own" /\ ~tx.parses /\ Answers(tx, Error(TRUE, MalformedConfig))
    /\ UNCHANGED <<wallets, running>>

\* The handler of this service for method m runs.
Handles(tx, m) ==
    /\ Begin(tx) /\ running
    /\ tx.method = m /\ routes[m] = "own" /\ tx.parses

\* It returns, raises CryptocurrencyError, or raises another error: then the
\* instance is stopped.
Returns(tx) == Answers(tx, Result(Ok)) /\ UNCHANGED running

Refuses(tx, code) ==
    /\ Answers(tx, Error(FALSE, code))
    /\ UNCHANGED <<wallets, running>>

Breaks(tx) ==
    /\ running' = FALSE
    /\ Answers(tx, Error(TRUE, WrongServiceImplementation))
    /\ UNCHANGED wallets

Exists(key) == wallets[key] # NoWallet

\* Fault: an existing wallet is not looked for.
CreateWalletAnew(tx) ==
    /\ Handles(tx, CreateWalletId)
    /\ \/ tx.caller = "service" /\ Refuses(tx, IncorrectSender)
       \/ /\ tx.caller = "transaction"
          /\ wallets' = [wallets EXCEPT ![tx.author] = InitBalance]
          /\ Returns(tx)

CreateWallet(tx) ==
    /\ Handles(tx, CreateWalletId)
    /\ \/ tx.caller = "service" /\ Refuses(tx, IncorrectSender)
       \/ tx.caller = "transaction" /\ Exists(tx.author) /\ Refuses(tx, WalletAlreadyExists)
       \/ /\ tx.caller = "transaction" /\ ~Exists(tx.author)
          /\ wallets' = [wallets EXCEPT ![tx.author] = InitBalance]
          /\ Returns(tx)

\* A transfer that may not be made; a receiver that is no public key raises
\* ValueError.
TransferFails(tx) ==
    /\ Handles(tx, TransferId)
    /\ \/ tx.caller = "service" /\ Refuses(tx, IncorrectSender)
       \/ tx.caller = "transaction" /\ tx.to = NoKey /\ Breaks(tx)
       \/ /\ tx.caller = "transaction" /\ tx.to # NoKey
          /\ \/ ~Exists(tx.author) /\ Refuses(tx, SenderNotFound)
             \/ Exists(tx.author) /\ ~Exists(tx.to) /\ Refuses(tx, ReceiverNotFound)
             \/ /\ Exists(tx.author) /\ Exists(tx.to)
                /\ wallets[tx.author] < tx.amount
                /\ Refuses(tx, InsufficientCurrencyAmount)

MayTransfer(tx) ==
    /\ Handles(tx, TransferId)
    /\ tx.caller = "transaction" /\ tx.to # NoKey
    /\ Exists(tx.author) /\ Exists(tx.to)

\* Fault: the balance is not checked.
TransferUnchecked(tx) ==
    /\ MayTransfer(tx)
    /\ wallets' = [wallets EXCEPT ![tx.author] = wallets[tx.author] - tx.amount,
                                  ![tx.to] = wallets[tx.to] + tx.amount]
    /\ Returns(tx)

\* Fault: only the receiver is written.
TransferForgetsSender(tx) ==
    /\ MayTransfer(tx)
    /\ wallets[tx.author] >= tx.amount
    /\ wallets' = [wallets EXCEPT ![tx.to] = wallets[tx.to] + tx.amount]
    /\ Returns(tx)

\* Fault: sender and receiver are swapped.
TransferReversed(tx) ==
    /\ MayTransfer(tx)
    /\ wallets[tx.to] >= tx.amount
    /\ wallets' = [wallets EXCEPT ![tx.to] = wallets[tx.to] - tx.amount,
                                  ![tx.author] = wallets[tx.author] + tx.amount]
    /\ Returns(tx)

\* Fault: the sender is written last.
TransferWritesSenderLast(tx) ==
    /\ MayTransfer(tx)
    /\ wallets[tx.author] >= tx.amount
    /\ wallets' = [wallets EXCEPT ![tx.to] = wallets[tx.to] + tx.amount,
                                  ![tx.author] = wallets[tx.author] - tx.amount]
    /\ Returns(tx)

\* Both wallets are read before either is written, the receiver last.
Transfer(tx) ==
    /\ MayTransfer(tx)
    /\ wallets[tx.author] >= tx.amount
    /\ wallets' = [wallets EXCEPT ![tx.author] = wallets[tx.author] - tx.amount,
                                  ![tx.to] = wallets[tx.to] + tx.amount]
    /\ Returns(tx)

Execute(tx) ==
    NotRunning(tx) \/ NotRouted(tx) \/ CreateWallet(tx) \/ TransferFails(tx) \/ Transfer(tx)

-----------------------------------------------------------------------------
(* The node *)

\* By the byte, the node keeps what the transaction wrote or rolls it back,
\* and records its status.
Decide ==
    /\ byte # NoByte
    /\ LET outcome == FromValue(byte.value) IN
        /\ status' = [status EXCEPT ![byte.tx] = outcome]
        /\ wallets' = IF outcome = Succeeded THEN wallets ELSE checkpoint
    /\ checkpoint' = wallets'
    /\ byte' = NoByte
    /\ UNCHANGED <<phase, pool, included, committed, snapshot,
                   runtimeVars, scriptVars>>

\* Fault: blocks without transactions are not announced.
CommitTellsFullOnly ==
    /\ phase = "transactions" /\ byte = NoByte
    /\ phase' = "after_commit"
    /\ committed' = wallets
    /\ included' = Executed
    /\ waits' = IF waits > 0 /\ Executed # included THEN waits - 1 ELSE waits
    /\ UNCHANGED <<pool, wallets, checkpoint, byte, status, snapshot, runtimeVars,
                   stage, at, printed, lagged>>

\* A block is committed, and its subscribers are told. Empty blocks are
\* committed too.
Commit ==
    /\ phase = "transactions" /\ byte = NoByte
    /\ phase' = "after_commit"
    /\ committed' = wallets
    /\ included' = Executed
    /\ waits' = IF waits > 0 THEN waits - 1 ELSE 0
    /\ UNCHANGED <<pool, wallets, checkpoint, byte, status, snapshot, runtimeVars,
                   stage, at, printed, lagged>>

\* Fault: a snapshot that is being read (the lock is taken) is not replaced.
AfterCommitTries ==
    /\ phase = "after_commit"
    /\ phase' = "transactions"
    /\ snapshot' \in {committed, snapshot}
    /\ UNCHANGED <<pool, wallets, checkpoint, byte, status, included, committed,
                   runtimeVars, scriptVars>>

\* PythonRuntime::after_commit replaces BLOCK_SNAPSHOT; the hooks of the
\* service do nothing.
AfterCommit ==
    /\ phase = "after_commit"
    /\ phase' = "transactions"
    /\ snapshot' = committed
    /\ UNCHANGED <<pool, wallets, checkpoint, byte, status, included, committed,
                   runtimeVars, scriptVars>>

-----------------------------------------------------------------------------
(* The script *)

Script(here, next) ==
    /\ at = here
    /\ at' = next
    /\ UNCHANGED runtimeVars

Send ==
    /\ Script("send", "subscribe")
    /\ pool' = pool \union {StageTx[stage]}
    /\ UNCHANGED <<phase, wallets, checkpoint, byte, status, included, committed, snapshot,
                   stage, waits, printed, lagged>>

\* The transaction may be in a block before the script subscribes.
Subscribe ==
    /\ Script("subscribe", "check")
    /\ waits' = 2
    /\ UNCHANGED <<nodeVars, stage, printed, lagged>>

Confirmed(tx) == tx \in included /\ status[tx] = Succeeded

Check ==
    /\ waits = 0
    /\ IF Confirmed(StageTx[stage]) THEN Script("check", "read") ELSE Script("check", "failed")
    /\ UNCHANGED <<nodeVars, stage, waits, printed, lagged>>

\* get_wallet answers from the snapshot: an object without a balance, when the
\* snapshot has no such wallet, and the script fails on that.
Read ==
    LET reads == StageReads[stage]
        key == reads[Len(printed[stage]) + 1] IN
    /\ Len(printed[stage]) < Len(reads)
    /\ \/ /\ snapshot[key] # NoWallet
          /\ Script("read", "read")
          /\ printed' = [printed EXCEPT ![stage] = Append(@, snapshot[key])]
       \/ /\ snapshot[key] = NoWallet
          /\ Script("read", "failed")
          /\ UNCHANGED printed
    /\ lagged' = (lagged \/ phase = "after_commit")
    /\ UNCHANGED <<nodeVars, stage, waits>>

EndStage ==
    /\ Len(printed[stage]) = Len(StageReads[stage])
    /\ IF stage = 4 THEN Script("read", "done") /\ UNCHANGED stage
                    ELSE Script("read", "send") /\ stage' = stage + 1
    /\ UNCHANGED <<nodeVars, waits, printed, lagged>>

-----------------------------------------------------------------------------
ScriptStep == Send \/ Subscribe \/ Check \/ Read \/ EndStage

Next ==
    \/ \E m \in MethodIds : ImportOther(m)
    \/ \E tx \in Txs : Execute(tx)
    \/ Decide
    \/ Commit
    \/ AfterCommit
    \/ ScriptStep

Spec == Init /\ [][Next]_vars

\* The node goes on executing what it began and making blocks, and the script
\* is run to its end. No transaction is sure ever to be put into a block.
Fairness ==
    /\ WF_vars(Decide)
    /\ WF_vars(Commit)
    /\ WF_vars(AfterCommit)
    /\ WF_vars(ScriptStep)

FairSpec == Spec /\ Fairness

-----------------------------------------------------------------------------
(* Properties *)

\* Every variable has its type; in particular a balance is never negative.
TypeOK ==
    /\ phase \in {"transactions", "after_commit"}
    /\ pool \in SUBSET ScriptTxs
    /\ wallets \in [Keys -> Nat \union {NoWallet}]
    /\ checkpoint \in [Keys -> Nat \union {NoWallet}]
    /\ byte \in {NoByte} \union [tx : Txs, value : 0..255]
    /\ status \in [Txs -> [kind : {"none", "success", "runtime", "service"}, code : 0..255]]
    /\ included \in SUBSET Txs
    /\ committed \in [Keys -> Nat \union {NoWallet}]
    /\ snapshot \in [Keys -> Nat \union {NoWallet}]
    /\ running \in BOOLEAN
    /\ routes \in [MethodIds -> {"own", "other", "none"}]
    /\ stage \in Stages
    /\ at \in {"send", "subscribe", "check", "read", "done", "failed"}
    /\ waits \in 0..2
    /\ printed \in [Stages -> Seq(Nat)]
    /\ lagged \in BOOLEAN

Effective == {tx \in Txs : status[tx] = Succeeded}

\* What users are promised: a transaction whose byte the node has not looked
\* at has not taken effect.
Promised == INSTANCE Ledger WITH
    balances <- IF byte = NoByte THEN wallets ELSE checkpoint,
    done <- Effective,
    block <- [balances |-> committed, done |-> included \intersect Effective],
    public <- snapshot

\* The service beside its runtime and the node keeps the promise: whatever
\* fails, a transaction takes all of its effect in one step, when it is recorded
\* as a success, and blocks reach their readers one by one.
KeepsLedger == Promised!Spec

\* The ledger is what the statuses say: a wallet exists when its creation
\* succeeded, and holds what it was created with and what successful transfers
\* made of that. A failed transaction left nothing, a successful one did all
\* of its work. (A transfer to oneself adds its amount: see MoneyIsConserved.)
LedgerIsStatuses == byte = NoByte => wallets = Promised!LedgerAfter(Effective)

\* The money in the wallets of a block is what they were created with, and what
\* successful transfers of that block and those before it made of nothing:
\* those to oneself. No other transaction makes or loses money.
OnlySelfTransfersMakeMoney ==
    Promised!Money(committed) =
        Promised!MoneyAfter(included \intersect Effective, Promised!Holders(committed))

\* A wallet never disappears, and its balance goes down only in a transaction
\* its owner signed.
OnlyOwnerSpends ==
    [][\A k \in Keys : Exists(k) =>
        /\ wallets'[k] # NoWallet
        /\ wallets'[k] < wallets[k] =>
            /\ byte' # NoByte
            /\ byte'.tx.caller = "transaction" /\ byte'.tx.author = k]_vars

\* An error keeps its meaning from the service to the status: a runtime error
\* is always that of a service that is not running, a service error has one of
\* the codes the service raises, and nothing that failed is a success.
StatusesAreMeant ==
    \A tx \in Txs :
        /\ status[tx].kind = "runtime" => status[tx].code = UnknownService /\ ~running
        /\ status[tx].kind = "service" =>
            status[tx].code \in {WrongServiceImplementation, MalformedConfig, MethodNotFound,
                WalletAlreadyExists, SenderNotFound, ReceiverNotFound,
                InsufficientCurrencyAmount, IncorrectSender}
        /\ status[tx] = Succeeded => tx.parses /\ tx.caller = "transaction"

\* The script fails for three reasons only: its transaction was put into no
\* block yet, the service was stopped, or the snapshot of the API was a block
\* old. No transaction of another user, and no import, makes it fail otherwise.
ScriptFailsOnlyIf ==
    [][at' = "failed" /\ at # "failed" =>
        \/ StageTx[stage] \notin included
        \/ ~running
        \/ phase = "after_commit"]_vars

\* A script that ends, that read no old snapshot, and whose wallets nobody sent
\* anything to, printed what the README of the example shows.
PrintsReadme ==
    /\ at = "done" /\ ~lagged
    /\ \A tx \in Promised!Transfers(OtherTxs \intersect Effective) : tx.to \notin {Alice, Bob}
    => printed = << <<>>, <<100, 100>>, <<90, 110>>, <<85, 115>> >>

\* The script ends, whatever becomes of its transactions.
ScriptEnds == <>(at \in {"done", "failed"})

-----------------------------------------------------------------------------
(* What the repository says and the code does not do *)

\* transfer "Transfers `amount` of the currency from one wallet to another"
\* (service.py:129): the currency in all wallets is what they were created with.
MoneyIsConserved ==
    Promised!Money(committed) = InitBalance * Cardinality(Promised!Holders(committed))
=============================================================================
