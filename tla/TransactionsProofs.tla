------------------------- MODULE TransactionsProofs -------------------------
(***************************************************************************)
(* Proofs about ErrorCodes and Transactions: errors keep their meaning on  *)
(* the way from a service to the node, nobody spends but the owner of a    *)
(* wallet, the ledger is what the successful transactions made it, and the *)
(* script prints what the README shows, for any users and transactions.    *)
(***************************************************************************)
EXTENDS Transactions, TLAPS

\* The ledger that is promised, with what is proved of it.
Proved == INSTANCE LedgerProofs WITH
    balances <- IF byte = NoByte THEN wallets ELSE checkpoint,
    done <- Effective,
    block <- [balances |-> committed, done |-> included \intersect Effective],
    public <- snapshot

-----------------------------------------------------------------------------
(* Error codes *)

\* What a developer's subclass of ServiceError stores is in its range, whatever
\* number it was given.
THEOREM SubclassCodesAreServiceCodes ==
    ASSUME NEW code \in Int
    PROVE  StoredCode(FALSE, code) \in 16..128
BY DEF StoredCode

\* An error of a service arrives as an error of the service, with the code it
\* stored: no code wraps around the byte or is taken for a runtime error or for
\* success, whichever of the two classes raised it.
THEOREM ServiceErrorsAreKept ==
    ASSUME NEW base \in BOOLEAN, NEW code \in Nat
    PROVE  /\ CallbackByte(Error(base, code)) \in 0..255
           /\ FromValue(CallbackByte(Error(base, code))) =
                [kind |-> "service", code |-> StoredCode(base, code)]
<1> DEFINE stored == StoredCode(base, code)
<1>1. stored \in 0..128
    BY DEF StoredCode
<1> HIDE DEF stored
<1>2. (65 + stored) % 256 = 65 + stored
    BY <1>1
<1>3. CallbackByte(Error(base, code)) = 65 + stored
    BY <1>2 DEF CallbackByte, Error, ServiceErrorsStart, stored
<1>4. FromValue(65 + stored) = [kind |-> "service", code |-> stored]
    BY <1>1 DEF FromValue, Ok, ServiceErrorsStart
<1> QED
    BY <1>1, <1>3, <1>4 DEF stored

LEMMA ResultsAreKept ==
    /\ CallbackByte(Result(Ok)) = 0
    /\ FromValue(0) = Succeeded
    /\ CallbackByte(Result(UnknownService)) = 18
    /\ FromValue(18) = [kind |-> "runtime", code |-> UnknownService]
BY DEF CallbackByte, Result, Ok, FromValue, UnknownService, ServiceErrorsStart

\* The codes a transaction of the service can fail with.
Codes == {WrongServiceImplementation, MalformedConfig, MethodNotFound,
          WalletAlreadyExists, SenderNotFound, ReceiverNotFound,
          InsufficientCurrencyAmount, IncorrectSender}

Failed(code) == [kind |-> "service", code |-> code]
Statuses == [kind : {"none", "success", "runtime", "service"}, code : 0..255]

GenericCodes == {WrongServiceImplementation, MalformedConfig, MethodNotFound}

LEMMA CodesAreKept ==
    ASSUME NEW code \in Codes, NEW base \in BOOLEAN, base <=> code \in GenericCodes
    PROVE  /\ CallbackByte(Error(base, code)) \in 0..255
           /\ FromValue(CallbackByte(Error(base, code))) = Failed(code)
<1>1. /\ code \in {0, 1, 2, 16, 17, 18, 19, 21}
      /\ base <=> code \in {0, 1, 2}
    BY DEF Codes, GenericCodes, WrongServiceImplementation, MalformedConfig, MethodNotFound,
           WalletAlreadyExists, SenderNotFound, ReceiverNotFound,
           InsufficientCurrencyAmount, IncorrectSender
<1>2. StoredCode(base, code) = code /\ code \in Nat
    BY <1>1 DEF StoredCode
<1> QED
    BY <1>2, ServiceErrorsAreKept DEF Failed

LEMMA FailedIsStatus ==
    /\ Succeeded \in Statuses /\ NoStatus \in Statuses
    /\ [kind |-> "runtime", code |-> UnknownService] \in Statuses
    /\ \A code \in Codes : Failed(code) \in Statuses /\ Failed(code) # Succeeded
BY DEF Statuses, Succeeded, NoStatus, Failed, Codes, UnknownService,
       WrongServiceImplementation, MalformedConfig, MethodNotFound,
       WalletAlreadyExists, SenderNotFound, ReceiverNotFound,
       InsufficientCurrencyAmount, IncorrectSender

-----------------------------------------------------------------------------
(* What the callback answers *)

\* What an outcome says of the transaction it is the outcome of.
Meant(tx, outcome, up) ==
    /\ outcome \in Statuses
    /\ outcome.kind = "runtime" => outcome.code = UnknownService /\ ~up
    /\ outcome.kind = "service" => outcome.code \in Codes
    /\ outcome = Succeeded => tx.parses /\ tx.caller = "transaction"

LEMMA FailuresAreMeant ==
    ASSUME NEW tx, NEW up, NEW code \in Codes
    PROVE  Meant(tx, Failed(code), up)
BY FailedIsStatus DEF Meant, Failed

LEMMA TxsAreTxs ==
    \A tx \in Txs : tx \in TxType
<1>1. \A n \in 1..4 : StageTx[n] \in TxType
    <2>1. /\ CreateTx(Alice) \in TxType /\ CreateTx(Bob) \in TxType
          /\ TransferTx(Alice, Bob, 10, 1) \in TxType
          /\ TransferTx(Bob, Alice, 25, 2) \in TxType
        BY TransactionsAssumption
           DEF TxType, CreateTx, TransferTx, CreateWalletId, TransferId
    <2>2. /\ StageTx[1] = CreateTx(Alice) /\ StageTx[2] = CreateTx(Bob)
          /\ StageTx[3] = TransferTx(Alice, Bob, 10, 1)
          /\ StageTx[4] = TransferTx(Bob, Alice, 25, 2)
        BY Zenon DEF StageTx
    <2> QED
        BY <2>1, <2>2
<1> QED
    BY <1>1, TransactionsAssumption DEF Txs, ScriptTxs, Stages

\* Every way to execute a transaction, in what it does to the byte, the ledger
\* and the instance: the ledger changes only in a success, exists on and loses
\* nothing but by its owner's hand.
Keeps(tx) ==
    \A k \in Keys : Exists(k) =>
        /\ wallets'[k] # NoWallet
        /\ wallets'[k] < wallets[k] => tx.caller = "transaction" /\ tx.author = k

Outcome(tx, value) ==
    /\ byte' = [tx |-> tx, value |-> value]
    /\ value \in 0..255
    /\ Meant(tx, FromValue(value), running')
    /\ FromValue(value) # Succeeded => UNCHANGED wallets
    /\ running' \in BOOLEAN /\ (running' => running)
    /\ wallets' \in [Keys -> Nat \union {NoWallet}]
    /\ Keeps(tx)

LEMMA Unchanged ==
    ASSUME NEW tx, UNCHANGED wallets, wallets \in [Keys -> Nat \union {NoWallet}]
    PROVE  Keeps(tx)
<1> SUFFICES ASSUME NEW k \in Keys, Exists(k)
             PROVE  wallets'[k] # NoWallet /\ ~(wallets'[k] < wallets[k])
    BY DEF Keeps
<1>1. wallets[k] \in Nat
    BY DEF Exists
<1> QED
    BY <1>1 DEF Exists

LEMMA FailureOutcome ==
    ASSUME NEW tx \in Txs, TypeOK, NEW code \in Codes, NEW base \in BOOLEAN,
           base <=> code \in GenericCodes,
           Answers(tx, Error(base, code)), UNCHANGED wallets,
           running' \in BOOLEAN, running' => running
    PROVE  \E value : Outcome(tx, value)
<1> DEFINE value == CallbackByte(Error(base, code))
<1>1. value \in 0..255 /\ FromValue(value) = Failed(code)
    BY CodesAreKept
<1>2. byte' = [tx |-> tx, value |-> value]
    BY DEF Answers
<1>3. Meant(tx, Failed(code), running')
    BY FailuresAreMeant
<1>4. wallets' \in [Keys -> Nat \union {NoWallet}]
    BY DEF TypeOK
<1>5. Keeps(tx)
    BY Unchanged DEF TypeOK
<1> HIDE DEF value
<1> QED
    BY <1>1, <1>2, <1>3, <1>4, <1>5 DEF Outcome

LEMMA SuccessOutcome ==
    ASSUME NEW tx \in Txs, TypeOK, tx.parses, tx.caller = "transaction", Returns(tx),
           wallets' \in [Keys -> Nat \union {NoWallet}], Keeps(tx)
    PROVE  \E value : Outcome(tx, value)
<1>1. byte' = [tx |-> tx, value |-> 0] /\ UNCHANGED running
    BY ResultsAreKept DEF Returns, Answers
<1>2. running' \in BOOLEAN /\ (running' => running)
    BY <1>1 DEF TypeOK
<1>3. Succeeded.kind = "success"
    BY DEF Succeeded
<1>4. Meant(tx, Succeeded, running')
    BY <1>3, FailedIsStatus DEF Meant
<1>5. Outcome(tx, 0)
    BY <1>1, <1>2, <1>4, ResultsAreKept DEF Outcome
<1> QED
    BY <1>5

LEMMA ExecuteOutcome ==
    ASSUME NEW tx \in Txs, TypeOK, Execute(tx)
    PROVE  \E value : Outcome(tx, value)
<1> USE DEF Codes
<1>0. running \in BOOLEAN /\ wallets \in [Keys -> Nat \union {NoWallet}]
    BY DEF TypeOK
<1>1. CASE NotRunning(tx)
    <2>1. byte' = [tx |-> tx, value |-> 18] /\ UNCHANGED <<wallets, running>> /\ ~running
        BY <1>1, ResultsAreKept DEF NotRunning, Answers
    <2>2. Meant(tx, FromValue(18), running')
        BY <2>1, ResultsAreKept, FailedIsStatus DEF Meant, Succeeded
    <2>3. Keeps(tx)
        BY <1>0, <2>1, Unchanged
    <2>4. Outcome(tx, 18)
        BY <1>0, <2>1, <2>2, <2>3 DEF Outcome
    <2> QED
        BY <2>4
<1>2. CASE NotRouted(tx)
    <2>1. PICK code \in GenericCodes :
              Answers(tx, Error(TRUE, code))
        BY <1>2 DEF NotRouted, GenericCodes
    <2> QED
        BY <1>0, <1>2, <2>1, FailureOutcome DEF NotRouted, GenericCodes
<1>3. ASSUME NEW code \in {WalletAlreadyExists, SenderNotFound, ReceiverNotFound,
                           InsufficientCurrencyAmount, IncorrectSender},
             Refuses(tx, code)
      PROVE  \E value : Outcome(tx, value)
    <2>1. code \notin GenericCodes
        BY DEF GenericCodes, WrongServiceImplementation, MalformedConfig, MethodNotFound,
               WalletAlreadyExists, SenderNotFound, ReceiverNotFound,
               InsufficientCurrencyAmount, IncorrectSender
    <2> QED
        BY <1>0, <1>3, <2>1, FailureOutcome DEF Refuses
<1>4. ASSUME Breaks(tx)
      PROVE  \E value : Outcome(tx, value)
    BY <1>0, <1>4, FailureOutcome DEF Breaks, GenericCodes
<1>5. CASE CreateWallet(tx)
    <2>1. ASSUME tx.caller = "transaction", ~Exists(tx.author), Handles(tx, CreateWalletId),
                 wallets' = [wallets EXCEPT ![tx.author] = InitBalance], Returns(tx)
          PROVE  \E value : Outcome(tx, value)
        <3>1. tx.author \in Keys /\ InitBalance \in Nat
            BY TxsAreTxs DEF TxType, InitBalance
        <3>2. wallets' \in [Keys -> Nat \union {NoWallet}]
            BY <1>0, <2>1, <3>1
        <3>3. Keeps(tx)
            <4> SUFFICES ASSUME NEW k \in Keys, Exists(k)
                         PROVE  wallets'[k] # NoWallet /\ ~(wallets'[k] < wallets[k])
                BY DEF Keeps
            <4>1. k # tx.author /\ wallets'[k] = wallets[k] /\ wallets[k] \in Nat
                BY <1>0, <2>1 DEF Exists
            <4> QED
                BY <4>1, TransactionsAssumption
        <3>4. tx.parses
            BY <2>1 DEF Handles
        <3> QED
            BY <2>1, <3>2, <3>3, <3>4, SuccessOutcome
    <2> QED
        BY <1>3, <1>5, <2>1 DEF CreateWallet
<1>6. CASE TransferFails(tx)
    BY <1>3, <1>4, <1>6 DEF TransferFails
<1>7. CASE Transfer(tx)
    <2>1. tx.author \in Keys /\ tx.amount \in Nat /\ tx.to \in Keys
        BY <1>7, TxsAreTxs DEF Transfer, MayTransfer, TxType
    <2>2. wallets[tx.author] \in Nat /\ wallets[tx.to] \in Nat
        BY <1>0, <1>7, <2>1 DEF Transfer, MayTransfer, Exists
    <2>3. /\ wallets[tx.author] - tx.amount \in Nat
          /\ wallets[tx.to] + tx.amount \in Nat
        BY <1>7, <2>1, <2>2 DEF Transfer
    <2>4. wallets' = [wallets EXCEPT ![tx.author] = wallets[tx.author] - tx.amount,
                                     ![tx.to] = wallets[tx.to] + tx.amount]
        BY <1>7 DEF Transfer
    <2>5. wallets' \in [Keys -> Nat \union {NoWallet}]
        BY <1>0, <2>1, <2>3, <2>4
    <2>6. tx.parses /\ tx.caller = "transaction" /\ Returns(tx)
        BY <1>7 DEF Transfer, MayTransfer, Handles
    <2>7. Keeps(tx)
        <3> SUFFICES ASSUME NEW k \in Keys, Exists(k)
                     PROVE  /\ wallets'[k] # NoWallet
                            /\ wallets'[k] < wallets[k] => tx.author = k
            BY <2>6 DEF Keeps
        <3>1. wallets'[k] = IF k = tx.to THEN wallets[tx.to] + tx.amount
                            ELSE IF k = tx.author THEN wallets[tx.author] - tx.amount
                            ELSE wallets[k]
            BY <1>0, <2>1, <2>4
        <3>2. wallets[k] \in Nat
            BY <1>0 DEF Exists
        <3> QED
            BY <2>1, <2>2, <2>3, <3>1, <3>2, TransactionsAssumption
    <2> QED
        BY <2>5, <2>6, <2>7, SuccessOutcome
<1> QED
    BY <1>1, <1>2, <1>5, <1>6, <1>7 DEF Execute

-----------------------------------------------------------------------------
(* Types *)

\* What an execution leaves alone.
LEMMA ExecuteBegins ==
    ASSUME NEW tx, Execute(tx)
    PROVE  Begin(tx)
BY DEF Execute, NotRunning, NotRouted, CreateWallet, TransferFails, Transfer, MayTransfer, Handles

NodeTypes ==
    /\ phase \in {"transactions", "after_commit"}
    /\ pool \in SUBSET ScriptTxs
    /\ wallets \in [Keys -> Nat \union {NoWallet}]
    /\ checkpoint \in [Keys -> Nat \union {NoWallet}]
    /\ byte \in {NoByte} \union [tx : Txs, value : 0..255]
    /\ status \in [Txs -> Statuses]
    /\ included \in SUBSET Txs
    /\ committed \in [Keys -> Nat \union {NoWallet}]
    /\ snapshot \in [Keys -> Nat \union {NoWallet}]

RuntimeTypes ==
    /\ running \in BOOLEAN
    /\ routes \in [MethodIds -> {"own", "other", "none"}]

ScriptTypes ==
    /\ stage \in Stages
    /\ at \in {"send", "subscribe", "check", "read", "done", "failed"}
    /\ waits \in 0..2
    /\ printed \in [Stages -> Seq(Nat)]
    /\ lagged \in BOOLEAN

LEMMA TypesAreTypeOK == TypeOK <=> NodeTypes /\ RuntimeTypes /\ ScriptTypes
BY DEF TypeOK, NodeTypes, RuntimeTypes, ScriptTypes, Statuses

LEMMA InitType == Init => TypeOK
<1> SUFFICES ASSUME Init
             PROVE  TypeOK
    OBVIOUS
<1>1. NoWallets \in [Keys -> Nat \union {NoWallet}]
    BY DEF NoWallets
<1>2. status \in [Txs -> Statuses]
    BY FailedIsStatus DEF Init
<1>3. printed \in [Stages -> Seq(Nat)]
    BY DEF Init
<1>4. running \in BOOLEAN /\ lagged \in BOOLEAN
    BY Zenon DEF Init
<1>5. stage \in Stages /\ waits \in 0..2
    BY DEF Init, Stages
<1>6. NodeTypes
    BY <1>1, <1>2 DEF Init, NodeTypes
<1>7. RuntimeTypes
    BY <1>4 DEF Init, RuntimeTypes
<1>8. ScriptTypes
    BY <1>3, <1>4, <1>5 DEF Init, ScriptTypes
<1> QED
    BY <1>6, <1>7, <1>8, TypesAreTypeOK

LEMMA FromValueType ==
    ASSUME NEW value \in 0..255
    PROVE  FromValue(value) \in Statuses
BY DEF FromValue, Statuses, Succeeded, Ok, ServiceErrorsStart

\* The node's steps beside executions.
LEMMA NodeStepType ==
    ASSUME TypeOK, Decide \/ Commit \/ AfterCommit \/ \E m \in MethodIds : ImportOther(m)
    PROVE  TypeOK'
<1>0. NodeTypes /\ RuntimeTypes /\ ScriptTypes
    BY TypesAreTypeOK
<1> SUFFICES NodeTypes' /\ RuntimeTypes' /\ ScriptTypes'
    BY TypesAreTypeOK, Zenon
       DEF TypeOK, NodeTypes, RuntimeTypes, ScriptTypes, Statuses
<1>1. CASE Decide
    <2>1. byte \in [tx : Txs, value : 0..255]
        BY <1>0, <1>1 DEF Decide, NodeTypes
    <2>2. status' = [status EXCEPT ![byte.tx] = FromValue(byte.value)]
        BY <1>1 DEF Decide
    <2>3. status' \in [Txs -> Statuses]
        BY <1>0, <2>1, <2>2, FromValueType DEF NodeTypes
    <2>4. wallets' \in {wallets, checkpoint} /\ checkpoint' = wallets' /\ byte' = NoByte
        BY <1>1 DEF Decide
    <2>5. UNCHANGED <<phase, pool, included, committed, snapshot, runtimeVars, scriptVars>>
        BY <1>1 DEF Decide
    <2> QED
        BY <1>0, <2>3, <2>4, <2>5
           DEF NodeTypes, RuntimeTypes, ScriptTypes, runtimeVars, scriptVars
<1>2. CASE Commit
    <2>1. waits' \in 0..2
        BY <1>0, <1>2 DEF Commit, ScriptTypes
    <2>2. Executed \in SUBSET Txs
        BY DEF Executed
    <2> QED
        BY <1>0, <1>2, <2>1, <2>2
           DEF Commit, NodeTypes, RuntimeTypes, ScriptTypes, runtimeVars
<1>3. CASE AfterCommit
    BY <1>0, <1>3
       DEF AfterCommit, NodeTypes, RuntimeTypes, ScriptTypes, runtimeVars, scriptVars
<1>4. CASE \E m \in MethodIds : ImportOther(m)
    BY <1>0, <1>4
       DEF ImportOther, NodeTypes, RuntimeTypes, ScriptTypes, nodeVars, scriptVars
<1> QED
    BY <1>1, <1>2, <1>3, <1>4

LEMMA StageReadsKeys ==
    \A n \in Stages : StageReads[n] \in Seq(Keys)
<1>1. /\ StageReads[1] = <<>> /\ StageReads[2] = <<Alice, Bob>>
      /\ StageReads[3] = <<Alice, Bob>> /\ StageReads[4] = <<Bob, Alice>>
    BY Zenon DEF StageReads
<1>2. <<>> \in Seq(Keys) /\ <<Alice, Bob>> \in Seq(Keys) /\ <<Bob, Alice>> \in Seq(Keys)
    BY TransactionsAssumption
<1>3. /\ StageReads[1] \in Seq(Keys) /\ StageReads[2] \in Seq(Keys)
      /\ StageReads[3] \in Seq(Keys) /\ StageReads[4] \in Seq(Keys)
    BY <1>1, <1>2, Zenon
<1>4. \A n \in Stages : n = 1 \/ n = 2 \/ n = 3 \/ n = 4
    BY DEF Stages
<1> QED
    BY <1>3, <1>4, Zenon

LEMMA ScriptStepType ==
    ASSUME TypeOK, ScriptStep
    PROVE  TypeOK'
<1>0. NodeTypes /\ RuntimeTypes /\ ScriptTypes
    BY TypesAreTypeOK
<1> SUFFICES NodeTypes' /\ RuntimeTypes' /\ ScriptTypes'
    BY TypesAreTypeOK, Zenon
       DEF TypeOK, NodeTypes, RuntimeTypes, ScriptTypes, Statuses
<1>1. RuntimeTypes'
    BY <1>0 DEF ScriptStep, Send, Subscribe, Check, Read, EndStage, Script, RuntimeTypes,
                runtimeVars
<1>2. CASE Send
    <2>1. pool' \in SUBSET ScriptTxs
        BY <1>0, <1>2 DEF Send, NodeTypes, ScriptTypes, ScriptTxs
    <2> QED
        BY <1>0, <1>1, <1>2, <2>1 DEF Send, Script, NodeTypes, ScriptTypes
<1>3. CASE Subscribe \/ Check
    BY <1>0, <1>1, <1>3 DEF Subscribe, Check, Script, NodeTypes, ScriptTypes, nodeVars
<1>4. CASE Read
    <2> DEFINE key == StageReads[stage][Len(printed[stage]) + 1]
    <2>1. NodeTypes'
        BY <1>0, <1>4 DEF Read, NodeTypes, nodeVars
    <2>2. printed' \in [Stages -> Seq(Nat)]
        <3>1. CASE UNCHANGED printed
            BY <1>0, <3>1 DEF ScriptTypes
        <3>2. ASSUME snapshot[key] # NoWallet,
                     printed' = [printed EXCEPT ![stage] = Append(@, snapshot[key])]
              PROVE  printed' \in [Stages -> Seq(Nat)]
            <4>1. key \in Keys
                <5>2. Len(printed[stage]) < Len(StageReads[stage])
                    BY <1>4 DEF Read
                <5>3. Len(printed[stage]) \in Nat
                    BY <1>0 DEF ScriptTypes
                <5> HIDE DEF key
                <5>5. StageReads[stage] \in Seq(Keys)
                    BY <1>0, StageReadsKeys DEF ScriptTypes
                <5>6. Len(printed[stage]) + 1 \in 1..Len(StageReads[stage])
                    BY <5>2, <5>3, <5>5
                <5>7. \A reads \in Seq(Keys) : \A n \in 1..Len(reads) : reads[n] \in Keys
                    OBVIOUS
                <5> QED
                    BY <5>5, <5>6, <5>7, Zenon DEF key
            <4>2. snapshot[key] \in Nat
                BY <1>0, <3>2, <4>1 DEF NodeTypes
            <4> QED
                BY <1>0, <3>2, <4>2 DEF ScriptTypes
        <3> QED
            BY <1>4, <3>1, <3>2 DEF Read
    <2>3. at' \in {"read", "failed"} /\ lagged' \in BOOLEAN /\ UNCHANGED <<stage, waits>>
        BY <1>4 DEF Read, Script
    <2> QED
        BY <1>0, <1>1, <2>1, <2>2, <2>3 DEF ScriptTypes
<1>5. CASE EndStage
    <2>1. NodeTypes'
        BY <1>0, <1>5 DEF EndStage, NodeTypes, nodeVars
    <2>2. stage' \in Stages /\ at' \in {"send", "done"}
        BY <1>0, <1>5 DEF EndStage, Script, ScriptTypes, Stages
    <2>3. UNCHANGED <<waits, printed, lagged>>
        BY <1>5 DEF EndStage
    <2> QED
        BY <1>0, <1>1, <2>1, <2>2, <2>3 DEF ScriptTypes
<1> QED
    BY <1>2, <1>3, <1>4, <1>5 DEF ScriptStep

LEMMA ExecuteType ==
    ASSUME TypeOK, NEW tx \in Txs, Execute(tx)
    PROVE  TypeOK'
<1>0. NodeTypes /\ RuntimeTypes /\ ScriptTypes
    BY TypesAreTypeOK
<1> SUFFICES NodeTypes' /\ RuntimeTypes' /\ ScriptTypes'
    BY TypesAreTypeOK, Zenon
       DEF TypeOK, NodeTypes, RuntimeTypes, ScriptTypes, Statuses
<1>1. Begin(tx)
    BY ExecuteBegins
<1>2. PICK value : Outcome(tx, value)
    BY ExecuteOutcome
<1>3. byte' \in [tx : Txs, value : 0..255]
    BY <1>2 DEF Outcome
<1>4. wallets' \in [Keys -> Nat \union {NoWallet}] /\ running' \in BOOLEAN
    BY <1>2 DEF Outcome
<1>5. /\ pool' \subseteq pool /\ checkpoint' = wallets
      /\ UNCHANGED <<phase, status, included, committed, snapshot, routes, scriptVars>>
    BY <1>1 DEF Begin
<1> QED
    BY <1>0, <1>3, <1>4, <1>5 DEF NodeTypes, RuntimeTypes, ScriptTypes, scriptVars

LEMMA NextType == TypeOK /\ [Next]_vars => TypeOK'
<1> SUFFICES ASSUME TypeOK, [Next]_vars
             PROVE  TypeOK'
    OBVIOUS
<1>1. CASE UNCHANGED vars
    BY <1>1 DEF vars, nodeVars, runtimeVars, scriptVars, TypeOK
<1> QED
    BY <1>1, NodeStepType, ScriptStepType, ExecuteType DEF Next

\* Every variable has its type; no balance is ever negative.
THEOREM TypeCorrect == Spec => []TypeOK
BY InitType, NextType, PTL DEF Spec

-----------------------------------------------------------------------------
(* Statuses and owners *)

\* An answer on its way means what its status will, and one that is no success
\* left the ledger alone.
ByteInv ==
    byte # NoByte =>
        /\ Meant(byte.tx, FromValue(byte.value), running)
        /\ FromValue(byte.value) # Succeeded => wallets = checkpoint

IInv == TypeOK /\ ByteInv /\ StatusesAreMeant

LEMMA InitIInv == Init => IInv
<1> SUFFICES ASSUME Init
             PROVE  IInv
    OBVIOUS
<1>1. ByteInv
    BY DEF Init, ByteInv
<1>2. StatusesAreMeant
    BY DEF Init, StatusesAreMeant, NoStatus, Succeeded
<1> QED
    BY <1>1, <1>2, InitType DEF IInv

LEMMA NextIInv == IInv /\ [Next]_vars => IInv'
<1> SUFFICES ASSUME IInv, [Next]_vars
             PROVE  IInv'
    OBVIOUS
<1>0. TypeOK /\ ByteInv /\ StatusesAreMeant /\ TypeOK'
    BY NextType DEF IInv
<1>1. ASSUME UNCHANGED <<byte, wallets, checkpoint, running, status>>
      PROVE  IInv'
    BY <1>0, <1>1 DEF IInv, ByteInv, StatusesAreMeant
<1>2. ASSUME NEW tx \in Txs, Execute(tx)
      PROVE  IInv'
    <2>1. Begin(tx)
        BY <1>2, ExecuteBegins
    <2>2. PICK value : Outcome(tx, value)
        BY <1>0, <1>2, ExecuteOutcome
    <2>3. byte'.tx = tx /\ byte'.value = value
        BY <2>2 DEF Outcome
    <2>4. ByteInv'
        BY <2>1, <2>2, <2>3 DEF ByteInv, Outcome, Begin
    <2>5. StatusesAreMeant'
        BY <1>0, <2>1, <2>2 DEF StatusesAreMeant, Outcome, Begin, TypeOK
    <2> QED
        BY <1>0, <2>4, <2>5 DEF IInv
<1>3. CASE Decide
    <2> DEFINE outcome == FromValue(byte.value)
    <2>1. byte \in [tx : Txs, value : 0..255] /\ Meant(byte.tx, outcome, running)
        BY <1>0, <1>3 DEF Decide, TypeOK, ByteInv
    <2>2. /\ status' = [status EXCEPT ![byte.tx] = outcome]
          /\ byte' = NoByte /\ UNCHANGED running
        BY <1>3 DEF Decide, runtimeVars
    <2> HIDE DEF outcome
    <2>3. StatusesAreMeant'
        <3> SUFFICES ASSUME NEW tx \in Txs
                     PROVE  StatusesAreMeant!(tx)'
            BY DEF StatusesAreMeant
        <3>1. CASE tx = byte.tx
            <4>1. status'[tx] = outcome
                BY <1>0, <2>1, <2>2, <3>1 DEF TypeOK
            <4> QED
                BY <2>1, <2>2, <3>1, <4>1 DEF Meant, Codes
        <3>2. CASE tx # byte.tx
            BY <1>0, <2>2, <3>2 DEF StatusesAreMeant, TypeOK
        <3> QED
            BY <3>1, <3>2
    <2> QED
        BY <1>0, <2>2, <2>3 DEF IInv, ByteInv
<1>4. CASE Commit \/ AfterCommit
    BY <1>1, <1>4 DEF Commit, AfterCommit, runtimeVars
<1>5. CASE \E m \in MethodIds : ImportOther(m)
    BY <1>1, <1>5 DEF ImportOther, nodeVars
<1>6. CASE ScriptStep
    BY <1>1, <1>6
       DEF ScriptStep, Send, Subscribe, Check, Read, EndStage, Script, nodeVars, runtimeVars
<1>7. CASE UNCHANGED vars
    BY <1>1, <1>7 DEF vars, nodeVars, runtimeVars
<1> QED
    BY <1>2, <1>3, <1>4, <1>5, <1>6, <1>7 DEF Next

THEOREM InductiveInvariant == Spec => []IInv
BY InitIInv, NextIInv, PTL DEF Spec

\* An error keeps its meaning from the handler that raised it to the status the
\* node records, for any transactions.
THEOREM ErrorsKeepTheirMeaning == Spec => []StatusesAreMeant
<1>1. IInv => StatusesAreMeant
    BY DEF IInv
<1> QED
    BY <1>1, InductiveInvariant, PTL

\* A step that spends is one the owner signed.
LEMMA StepSpends ==
    ASSUME IInv, [Next]_vars, NEW k \in Keys, Exists(k)
    PROVE  /\ wallets'[k] # NoWallet
           /\ wallets'[k] < wallets[k] =>
                /\ byte' # NoByte
                /\ byte'.tx.caller = "transaction" /\ byte'.tx.author = k
<1>0. TypeOK /\ ByteInv
    BY DEF IInv
<1>1. wallets[k] \in Nat
    BY <1>0 DEF TypeOK, Exists
<1>2. ASSUME UNCHANGED wallets
      PROVE  wallets'[k] # NoWallet /\ ~(wallets'[k] < wallets[k])
    BY <1>1, <1>2, TransactionsAssumption
<1>3. ASSUME NEW tx \in Txs, Execute(tx)
      PROVE  /\ wallets'[k] # NoWallet
             /\ wallets'[k] < wallets[k] =>
                  /\ byte' # NoByte
                  /\ byte'.tx.caller = "transaction" /\ byte'.tx.author = k
    <2>1. PICK value : Outcome(tx, value)
        BY <1>0, <1>3, ExecuteOutcome
    <2>2. byte'.tx = tx /\ byte'.value \in 0..255
        BY <2>1 DEF Outcome
    <2>3. byte' # NoByte
        BY <2>2 DEF NoByte
    <2> QED
        BY <2>1, <2>2, <2>3 DEF Outcome, Keeps
<1>4. CASE Decide
    <2>1. UNCHANGED wallets
        BY <1>0, <1>4 DEF Decide, ByteInv
    <2> QED
        BY <1>2, <2>1
<1>5. CASE Commit \/ AfterCommit \/ ScriptStep \/ \E m \in MethodIds : ImportOther(m)
    BY <1>2, <1>5
       DEF Commit, AfterCommit, ScriptStep, Send, Subscribe, Check, Read, EndStage, ImportOther,
           nodeVars
<1>6. CASE UNCHANGED vars
    BY <1>2, <1>6 DEF vars, nodeVars
<1> QED
    BY <1>3, <1>4, <1>5, <1>6 DEF Next

\* Nobody but its owner takes anything from a wallet, for any users and any
\* transactions, successful or rolled back.
THEOREM OwnersSpend == Spec => OnlyOwnerSpends
<1>1. IInv /\ [Next]_vars =>
        (\A k \in Keys : Exists(k) =>
            /\ wallets'[k] # NoWallet
            /\ wallets'[k] < wallets[k] =>
                /\ byte' # NoByte
                /\ byte'.tx.caller = "transaction" /\ byte'.tx.author = k)
    BY StepSpends, Zenon
<1> QED
    BY <1>1, InductiveInvariant, PTL DEF Spec, OnlyOwnerSpends

-----------------------------------------------------------------------------
(* The script *)

\* Who signs the transaction of a stage.
Owner(n) == IF n \in {1, 3} THEN Alice ELSE Bob

LEMMA StageTxs ==
    ASSUME NEW n \in Stages
    PROVE  /\ StageTx[n] \in Txs
           /\ StageTx[n].caller = "transaction" /\ StageTx[n].parses = TRUE
           /\ StageTx[n].author = Owner(n) /\ Owner(n) \in Keys
           /\ n \in {1, 2} => StageTx[n].method = CreateWalletId
           /\ n \in {3, 4} => /\ StageTx[n].method = TransferId
                             /\ StageTx[n].amount <= 25
                             /\ StageTx[n].to \in {Alice, Bob}
<1>1. /\ StageTx[1] = CreateTx(Alice) /\ StageTx[2] = CreateTx(Bob)
      /\ StageTx[3] = TransferTx(Alice, Bob, 10, 1)
      /\ StageTx[4] = TransferTx(Bob, Alice, 25, 2)
    BY Zenon DEF StageTx
<1>2. StageTx[n] \in Txs
    BY DEF Txs, ScriptTxs
<1>3. n \in 1..4
    BY DEF Stages
<1> QED
    BY <1>1, <1>2, <1>3, TransactionsAssumption DEF CreateTx, TransferTx, Owner

LEMMA StageTxsDiffer ==
    ASSUME NEW m \in Stages, NEW n \in Stages, StageTx[m] = StageTx[n]
    PROVE  m = n
<1>1. m \in 1..4 /\ n \in 1..4
    BY DEF Stages
<1>2. Owner(m) = Owner(n) /\ (m \in {1, 2} <=> n \in {1, 2})
    <2>1. StageTx[m].author = Owner(m) /\ StageTx[n].author = Owner(n)
        BY StageTxs
    <2>2. /\ m \in {1, 2} => StageTx[m].method = 1
          /\ n \in {1, 2} => StageTx[n].method = 1
          /\ m \in {3, 4} => StageTx[m].method = 2
          /\ n \in {3, 4} => StageTx[n].method = 2
        BY StageTxs DEF CreateWalletId, TransferId
    <2> QED
        BY <1>1, <2>1, <2>2
<1> QED
    BY <1>1, <1>2, TransactionsAssumption DEF Owner

\* Whatever is signed by the script's keys is a transaction of the script.
LEMMA OwnersTxs ==
    ASSUME NEW tx \in Txs, NEW n \in Stages, tx.caller = "transaction", tx.author = Owner(n)
    PROVE  \E m \in Stages : tx = StageTx[m] /\ Owner(m) = Owner(n)
<1>1. tx \notin OtherTxs
    BY TransactionsAssumption DEF Owner
<1>2. PICK m \in Stages : tx = StageTx[m]
    BY <1>1 DEF Txs, ScriptTxs
<1> QED
    BY <1>2, StageTxs

Pending(tx) == byte # NoByte /\ byte.tx = tx

\* Nobody has executed, or is executing, the transaction of a stage.
Fresh(n) == status[StageTx[n]] = NoStatus /\ ~Pending(StageTx[n])

\* While the instance runs the transactions of the script succeed; a wallet is
\* there from its creation on, and holds enough until its owner has spent.
ScriptTxsInv ==
    \A n \in Stages :
        /\ running /\ status[StageTx[n]] # NoStatus => status[StageTx[n]] = Succeeded
        /\ running /\ Pending(StageTx[n]) => FromValue(byte.value) = Succeeded
        /\ n \in {1, 2} /\ Fresh(n) => wallets[Owner(n)] = NoWallet
        /\ n \in {1, 2} /\ status[StageTx[n]] = Succeeded => Exists(Owner(n))
        /\ n \in {1, 2} /\ Pending(StageTx[n]) /\ FromValue(byte.value) = Succeeded
            => Exists(Owner(n))
        /\ n \in {3, 4} /\ Fresh(n) /\ Exists(Owner(n)) => wallets[Owner(n)] >= 25

\* The script knows what it waited for, and the API shows the last block.
ProgressInv ==
    /\ phase = "transactions" => snapshot = committed
    /\ included \subseteq Executed
    /\ \A n \in Stages :
        /\ StageTx[n] \in pool => n <= stage
        /\ n < stage \/ (n = stage /\ at \in {"read", "done"}) => Confirmed(StageTx[n])
        /\ n \in {1, 2} /\ Confirmed(StageTx[n]) => committed[Owner(n)] # NoWallet

NodeInv ==
    /\ routes[CreateWalletId] = "own" /\ routes[TransferId] = "own"
    /\ byte # NoByte => status[byte.tx] = NoStatus

ScriptInv == IInv /\ NodeInv /\ ScriptTxsInv /\ ProgressInv

LEMMA InitScriptInv == Init => ScriptInv
<1> SUFFICES ASSUME Init
             PROVE  ScriptInv
    OBVIOUS
<1>1. IInv
    BY InitIInv
<1>2. NodeInv
    BY TransactionsAssumption DEF Init, NodeInv
<1>3. \A n \in Stages : status[StageTx[n]] = NoStatus /\ ~Pending(StageTx[n])
    BY StageTxs DEF Init, Pending
<1>4. NoStatus # Succeeded
    BY DEF NoStatus, Succeeded
<1>5. \A k \in Keys : wallets[k] = NoWallet
    BY DEF Init, NoWallets
<1>6. ScriptTxsInv
    BY <1>3, <1>4, <1>5, StageTxs DEF ScriptTxsInv, Exists
<1>7. ProgressInv
    <2>1. \A n \in Stages : ~Confirmed(StageTx[n]) /\ StageTx[n] \notin pool
        BY DEF Init, Confirmed
    <2>2. \A n \in Stages : ~(n < stage) /\ at \notin {"read", "done"}
        BY DEF Init, Stages
    <2> QED
        BY <2>1, <2>2 DEF Init, ProgressInv
<1> QED
    BY <1>1, <1>2, <1>6, <1>7 DEF ScriptInv

\* Executing tx makes a wallet only by creating it, for its signer, and with
\* 100 in it.
LEMMA ExecuteCreates ==
    ASSUME NEW tx \in Txs, TypeOK, Execute(tx), NEW k \in Keys, ~Exists(k), wallets'[k] # NoWallet
    PROVE  /\ tx.caller = "transaction" /\ tx.author = k /\ tx.method = CreateWalletId
           /\ wallets'[k] = 100
<1>0. wallets \in [Keys -> Nat \union {NoWallet}]
    BY DEF TypeOK
<1>1. ASSUME UNCHANGED wallets
      PROVE  FALSE
    BY <1>1 DEF Exists
<1>2. CASE NotRunning(tx) \/ NotRouted(tx) \/ TransferFails(tx)
    BY <1>1, <1>2 DEF NotRunning, NotRouted, TransferFails, Refuses, Breaks
<1>3. CASE CreateWallet(tx)
    <2>1. /\ tx.caller = "transaction" /\ wallets' = [wallets EXCEPT ![tx.author] = InitBalance]
          /\ tx.method = CreateWalletId
        BY <1>1, <1>3 DEF CreateWallet, Refuses, Handles
    <2>2. tx.author = k
        BY <1>0, <1>1, <2>1 DEF Exists
    <2> QED
        BY <1>0, <2>1, <2>2 DEF InitBalance
<1>4. CASE Transfer(tx)
    <2>1. k # tx.author /\ k # tx.to
        BY <1>4 DEF Transfer, MayTransfer
    <2> QED
        BY <1>0, <1>1, <1>4, <2>1 DEF Transfer, Exists
<1> QED
    BY <1>2, <1>3, <1>4 DEF Execute

LEMMA CreationIsNoTransfer ==
    ASSUME NEW tx, tx.method = CreateWalletId
    PROVE  ~TransferFails(tx) /\ ~Transfer(tx)
BY DEF TransferFails, Transfer, MayTransfer, Handles, CreateWalletId, TransferId

\* A transaction of the script that is executed while the instance runs, and
\* goes on running, succeeds.
LEMMA StageSucceeds ==
    ASSUME ScriptInv, NEW n \in Stages, Execute(StageTx[n]), running'
    PROVE  /\ FromValue(byte'.value) = Succeeded
           /\ n \in {1, 2} => wallets'[Owner(n)] # NoWallet
<1> DEFINE tx == StageTx[n]
<1>0. TypeOK /\ NodeInv /\ ScriptTxsInv /\ ProgressInv
    BY DEF ScriptInv, IInv
<1>1. Begin(tx) /\ tx \in Txs
    BY ExecuteBegins, StageTxs
<1>2. running /\ ~Breaks(tx)
    BY <1>0, <1>1, ExecuteOutcome DEF Outcome, Breaks
<1>3. tx.caller = "transaction" /\ tx.parses = TRUE /\ tx.author = Owner(n) /\ Owner(n) \in Keys
    BY StageTxs
<1>4. routes[tx.method] = "own"
    BY <1>0, StageTxs DEF NodeInv, Stages
<1>5. ~NotRunning(tx) /\ ~NotRouted(tx)
    BY <1>2, <1>3, <1>4 DEF NotRunning, NotRouted
<1>6. Fresh(n)
    BY <1>1 DEF Begin, Fresh, Pending
<1>7. ASSUME Returns(tx)
      PROVE  FromValue(byte'.value) = Succeeded
    BY <1>7, ResultsAreKept DEF Returns, Answers
<1>8. CASE n \in {1, 2}
    <2>1. tx.method = CreateWalletId
        BY <1>8, StageTxs
    <2>2. ~TransferFails(tx) /\ ~Transfer(tx)
        BY <2>1, CreationIsNoTransfer
    <2>3. ~Exists(Owner(n))
        BY <1>0, <1>6, <1>8 DEF ScriptTxsInv, Exists
    <2>4. CreateWallet(tx)
        BY <1>5, <2>2 DEF Execute
    <2>5. wallets' = [wallets EXCEPT ![Owner(n)] = InitBalance] /\ Returns(tx)
        BY <1>3, <2>3, <2>4 DEF CreateWallet
    <2>6. wallets'[Owner(n)] = 100
        BY <1>0, <1>3, <2>5 DEF TypeOK, InitBalance
    <2> QED
        BY <1>7, <2>5, <2>6, TransactionsAssumption
<1>9. CASE n \in {3, 4}
    <2>1. tx.method = TransferId /\ tx.amount <= 25 /\ tx.to \in {Alice, Bob} /\ tx.amount \in Nat
        BY <1>9, <1>1, StageTxs, TxsAreTxs DEF TxType
    <2>2. ~CreateWallet(tx)
        BY <2>1 DEF CreateWallet, Handles, CreateWalletId, TransferId
    <2>3. n <= stage
        BY <1>0, <1>1, <1>3, TransactionsAssumption
           DEF Begin, ProgressInv, Owner
    <2>4. Confirmed(StageTx[1]) /\ Confirmed(StageTx[2]) /\ 1 \in Stages /\ 2 \in Stages
        <3>1. 1 \in Stages /\ 2 \in Stages /\ stage \in Stages
            BY <1>0 DEF Stages, TypeOK
        <3>2. 1 < stage /\ 2 < stage
            BY <1>9, <2>3, <3>1 DEF Stages
        <3> QED
            BY <1>0, <3>1, <3>2 DEF ProgressInv
    <2>5. Exists(Owner(1)) /\ Exists(Owner(2))
        BY <1>0, <2>4 DEF ScriptTxsInv, Confirmed
    <2>6. Exists(Alice) /\ Exists(Bob)
        BY <2>5 DEF Owner
    <2>7. Exists(tx.author) /\ Exists(tx.to) /\ tx.to # NoKey
        BY <1>3, <2>1, <2>6, TransactionsAssumption DEF Owner
    <2>8. wallets[tx.author] >= 25 /\ wallets[tx.author] \in Nat
        BY <1>0, <1>3, <1>6, <1>9, <2>7 DEF ScriptTxsInv, TypeOK, Exists
    <2>9. ~TransferFails(tx)
        BY <1>2, <1>3, <2>1, <2>7, <2>8 DEF TransferFails
    <2>10. Transfer(tx)
        BY <1>5, <2>2, <2>9 DEF Execute
    <2> QED
        BY <1>7, <1>9, <2>10 DEF Transfer
<1> QED
    BY <1>8, <1>9 DEF Stages

\* Executions keep what is known of the script's transactions.
LEMMA ExecuteScriptTxs ==
    ASSUME ScriptInv, NEW tx \in Txs, Execute(tx)
    PROVE  ScriptTxsInv'
<1>0. IInv /\ TypeOK /\ NodeInv /\ ScriptTxsInv /\ TypeOK' /\ [Next]_vars
    BY NextType DEF ScriptInv, IInv, Next
<1>1. Begin(tx)
    BY ExecuteBegins
<1>2. PICK value : Outcome(tx, value)
    BY <1>0, ExecuteOutcome
<1>3. /\ UNCHANGED status /\ byte = NoByte
      /\ byte'.tx = tx /\ (running' => running)
    BY <1>1, <1>2 DEF Begin, Outcome
<1> SUFFICES ASSUME NEW n \in Stages
             PROVE  ScriptTxsInv!(n)'
    BY DEF ScriptTxsInv
<1>4. Owner(n) \in Keys /\ StageTx[n].author = Owner(n)
    BY StageTxs
<1>5. Exists(Owner(n)) => Exists(Owner(n))'
    BY <1>0, <1>4, StepSpends DEF Exists
<1>6. /\ running' /\ status'[StageTx[n]] # NoStatus => status'[StageTx[n]] = Succeeded
      /\ n \in {1, 2} /\ status'[StageTx[n]] = Succeeded => Exists(Owner(n))'
    BY <1>0, <1>3, <1>5 DEF ScriptTxsInv
<1>7. /\ running' /\ Pending(StageTx[n])' => FromValue(byte'.value) = Succeeded
    BY <1>3, StageSucceeds DEF Pending
<1>8. n \in {1, 2} /\ Fresh(n)' => wallets'[Owner(n)] = NoWallet
    <2> SUFFICES ASSUME n \in {1, 2}, Fresh(n)', wallets'[Owner(n)] # NoWallet
                 PROVE  FALSE
        OBVIOUS
    <2>1. byte' # NoByte
        BY <1>2 DEF Outcome, NoByte
    <2>2. tx # StageTx[n] /\ Fresh(n)
        BY <1>3, <2>1 DEF Fresh, Pending
    <2>3. ~Exists(Owner(n))
        BY <1>0, <2>2 DEF ScriptTxsInv, Exists
    <2>4. tx.caller = "transaction" /\ tx.author = Owner(n) /\ tx.method = CreateWalletId
        BY <1>0, <1>4, <2>3, ExecuteCreates
    <2>5. PICK m \in Stages : tx = StageTx[m] /\ Owner(m) = Owner(n)
        BY <2>4, OwnersTxs
    <2>6. m \in {1, 2}
        BY <2>4, <2>5, StageTxs DEF Stages, CreateWalletId, TransferId
    <2>7. m = n
        BY <2>5, <2>6, TransactionsAssumption DEF Owner
    <2> QED
        BY <2>2, <2>5, <2>7
<1>9. n \in {1, 2} /\ Pending(StageTx[n])' /\ FromValue(byte'.value) = Succeeded
        => Exists(Owner(n))'
    <2> SUFFICES ASSUME n \in {1, 2}, tx = StageTx[n], FromValue(byte'.value) = Succeeded
                 PROVE  Exists(Owner(n))'
        BY <1>3 DEF Pending
    <2>1. CreateWallet(tx) \/ NotRunning(tx) \/ NotRouted(tx)
        BY StageTxs, CreationIsNoTransfer DEF Execute
    <2>2. CASE CreateWallet(tx)
        <3>1. CASE Exists(Owner(n))
            BY <1>5, <3>1
        <3>2. CASE wallets' = [wallets EXCEPT ![Owner(n)] = InitBalance]
            <4>1. wallets'[Owner(n)] = 100
                BY <1>0, <1>4, <3>2 DEF TypeOK, InitBalance
            <4> QED
                BY <4>1, TransactionsAssumption DEF Exists
        <3> QED
            BY <2>2, <3>1, <3>2, StageTxs DEF CreateWallet
    <2>3. ASSUME NEW code \in {MethodNotFound, WrongServiceImplementation, MalformedConfig},
                 Answers(tx, Error(TRUE, code))
          PROVE  FALSE
        BY <2>3, CodesAreKept, FailedIsStatus DEF Answers, Codes, GenericCodes
    <2>4. CASE NotRouted(tx)
        BY <2>3, <2>4 DEF NotRouted
    <2>5. CASE NotRunning(tx)
        BY <2>5, ResultsAreKept DEF NotRunning, Answers, Succeeded
    <2> QED
        BY <2>1, <2>2, <2>4, <2>5
<1>10. n \in {3, 4} /\ Fresh(n)' /\ Exists(Owner(n))' => wallets'[Owner(n)] >= 25
    <2> SUFFICES ASSUME n \in {3, 4}, Fresh(n)', Exists(Owner(n))'
                 PROVE  wallets'[Owner(n)] >= 25
        OBVIOUS
    <2>1. byte' # NoByte
        BY <1>2 DEF Outcome, NoByte
    <2>2. tx # StageTx[n] /\ Fresh(n)
        BY <1>3, <2>1 DEF Fresh, Pending
    <2>3. CASE ~Exists(Owner(n))
        <3>1. wallets'[Owner(n)] = 100
            BY <1>0, <1>4, <2>3, ExecuteCreates DEF Exists
        <3> QED
            BY <3>1
    <2>4. CASE Exists(Owner(n))
        <3>1. wallets[Owner(n)] >= 25 /\ wallets[Owner(n)] \in Nat
            BY <1>0, <1>4, <2>2, <2>4 DEF ScriptTxsInv, TypeOK, Exists
        <3>2. wallets'[Owner(n)] \in Nat
            BY <1>0, <1>4 DEF TypeOK, Exists
        <3>3. ASSUME wallets'[Owner(n)] < wallets[Owner(n)]
              PROVE  FALSE
            <4>1. tx.caller = "transaction" /\ tx.author = Owner(n)
                BY <1>2, <1>4, <2>4, <3>3 DEF Outcome, Keeps
            <4>2. PICK m \in Stages : tx = StageTx[m] /\ Owner(m) = Owner(n)
                BY <4>1, OwnersTxs
            <4>3. m \in {1, 2}
                BY <2>2, <4>2, TransactionsAssumption DEF Owner, Stages
            <4>4. tx.method = CreateWalletId
                BY <4>2, <4>3, StageTxs
            <4>5. UNCHANGED wallets
                <5>1. NotRunning(tx) \/ NotRouted(tx) \/ CreateWallet(tx)
                    BY <4>4, CreationIsNoTransfer DEF Execute
                <5>2. Exists(tx.author)
                    BY <2>4, <4>1
                <5> QED
                    BY <5>1, <5>2 DEF NotRunning, NotRouted, CreateWallet, Refuses
            <4> QED
                BY <3>1, <3>3, <4>5
        <3> QED
            BY <3>1, <3>2, <3>3
    <2> QED
        BY <2>3, <2>4
<1> QED
    BY <1>6, <1>7, <1>8, <1>9, <1>10

LEMMA OutcomesAreStatuses ==
    ASSUME NEW value \in 0..255
    PROVE  FromValue(value) # NoStatus
BY DEF FromValue, NoStatus, Succeeded, Ok, ServiceErrorsStart

\* So do decisions.
LEMMA DecideScriptTxs ==
    ASSUME ScriptInv, Decide
    PROVE  ScriptTxsInv'
<1>0. TypeOK /\ ByteInv /\ ScriptTxsInv
    BY DEF ScriptInv, IInv
<1> SUFFICES ASSUME NEW n \in Stages
             PROVE  ScriptTxsInv!(n)'
    BY DEF ScriptTxsInv
<1> DEFINE outcome == FromValue(byte.value)
<1>1. byte \in [tx : Txs, value : 0..255] /\ byte # NoByte
    BY <1>0 DEF Decide, TypeOK
<1>2. outcome # NoStatus
    BY <1>1, OutcomesAreStatuses
<1>3. /\ status' = [status EXCEPT ![byte.tx] = outcome]
      /\ byte' = NoByte /\ UNCHANGED <<wallets, running>>
    BY <1>0 DEF Decide, ByteInv, runtimeVars
<1>4. ~Pending(StageTx[n])'
    BY <1>3 DEF Pending, NoByte
<1> HIDE DEF outcome
<1>5. CASE byte.tx = StageTx[n]
    <2>1. Pending(StageTx[n]) /\ status'[StageTx[n]] = outcome
        BY <1>0, <1>1, <1>3, <1>5 DEF Pending, TypeOK
    <2>2. /\ running => outcome = Succeeded
          /\ n \in {1, 2} /\ outcome = Succeeded => Exists(Owner(n))
        BY <1>0, <2>1 DEF ScriptTxsInv, outcome
    <2> QED
        BY <1>2, <1>3, <1>4, <2>1, <2>2 DEF Fresh, Exists
<1>6. CASE byte.tx # StageTx[n]
    <2>1. status'[StageTx[n]] = status[StageTx[n]]
        BY <1>0, <1>3, <1>6, StageTxs DEF TypeOK
    <2>2. Fresh(n)' => Fresh(n)
        BY <1>6, <2>1 DEF Fresh, Pending
    <2> QED
        BY <1>0, <1>3, <1>4, <2>1, <2>2 DEF ScriptTxsInv, Exists
<1> QED
    BY <1>5, <1>6

LEMMA NextScriptTxs ==
    ASSUME ScriptInv, [Next]_vars
    PROVE  ScriptTxsInv'
<1>0. ScriptTxsInv
    BY DEF ScriptInv
<1>1. ASSUME UNCHANGED <<running, status, byte, wallets>>
      PROVE  ScriptTxsInv'
    BY <1>0, <1>1 DEF ScriptTxsInv, Pending, Fresh, Exists
<1>2. CASE Commit \/ AfterCommit \/ UNCHANGED vars
    BY <1>1, <1>2 DEF Commit, AfterCommit, vars, nodeVars, runtimeVars
<1>3. CASE \E m \in MethodIds : ImportOther(m)
    BY <1>1, <1>3 DEF ImportOther, nodeVars
<1>4. CASE ScriptStep
    BY <1>1, <1>4
       DEF ScriptStep, Send, Subscribe, Check, Read, EndStage, Script, nodeVars, runtimeVars
<1> QED
    BY <1>2, <1>3, <1>4, ExecuteScriptTxs, DecideScriptTxs DEF Next

LEMMA NextNode ==
    ASSUME ScriptInv, [Next]_vars
    PROVE  NodeInv'
<1>0. TypeOK /\ NodeInv
    BY DEF ScriptInv, IInv
<1>1. ASSUME UNCHANGED <<routes, status, byte>>
      PROVE  NodeInv'
    BY <1>0, <1>1 DEF NodeInv
<1>2. ASSUME NEW tx \in Txs, Execute(tx)
      PROVE  NodeInv'
    <2>1. Begin(tx)
        BY <1>2, ExecuteBegins
    <2>2. byte'.tx = tx
        BY <1>0, <1>2, ExecuteOutcome DEF Outcome
    <2> QED
        BY <1>0, <2>1, <2>2 DEF Begin, NodeInv
<1>3. CASE Decide
    BY <1>0, <1>3 DEF Decide, NodeInv, runtimeVars
<1>4. ASSUME NEW m \in MethodIds, ImportOther(m)
      PROVE  NodeInv'
    <2>1. /\ routes' = [routes EXCEPT ![m] = "other"] /\ routes[m] = "none"
          /\ UNCHANGED <<status, byte>>
        BY <1>4 DEF ImportOther, nodeVars
    <2>2. m # CreateWalletId /\ m # TransferId
        BY <1>0, <2>1 DEF NodeInv
    <2> QED
        BY <1>0, <2>1, <2>2 DEF NodeInv, TypeOK
<1>5. CASE Commit \/ AfterCommit \/ UNCHANGED vars
    BY <1>1, <1>5 DEF Commit, AfterCommit, vars, nodeVars, runtimeVars
<1>6. CASE ScriptStep
    BY <1>1, <1>6
       DEF ScriptStep, Send, Subscribe, Check, Read, EndStage, Script, nodeVars, runtimeVars
<1> QED
    BY <1>2, <1>3, <1>4, <1>5, <1>6 DEF Next

\* The node's steps keep the script's progress.
LEMMA NodeProgress ==
    ASSUME ScriptInv,
           \/ \E tx \in Txs : Execute(tx)
           \/ \E m \in MethodIds : ImportOther(m)
           \/ Decide \/ Commit \/ AfterCommit
    PROVE  ProgressInv'
<1>0. TypeOK /\ NodeInv /\ ScriptTxsInv /\ ProgressInv
    BY DEF ScriptInv, IInv
<1>1. ASSUME UNCHANGED <<phase, snapshot, committed, included, status, stage, at>>,
             pool' \subseteq pool
      PROVE  ProgressInv'
    BY <1>0, <1>1 DEF ProgressInv, Confirmed, Executed
<1>2. ASSUME NEW tx \in Txs, Execute(tx)
      PROVE  ProgressInv'
    <2>1. Begin(tx)
        BY <1>2, ExecuteBegins
    <2> QED
        BY <1>1, <2>1 DEF Begin, scriptVars
<1>3. CASE \E m \in MethodIds : ImportOther(m)
    BY <1>1, <1>3 DEF ImportOther, nodeVars, scriptVars
<1>4. CASE Decide
    <2>1. byte \in [tx : Txs, value : 0..255] /\ byte # NoByte
        BY <1>0, <1>4 DEF Decide, TypeOK
    <2>2. /\ status' = [status EXCEPT ![byte.tx] = FromValue(byte.value)]
          /\ UNCHANGED <<phase, pool, snapshot, committed, included, stage, at>>
        BY <1>4 DEF Decide, scriptVars
    <2>3. \A tx \in Executed : status'[tx] = status[tx]
        BY <1>0, <2>1, <2>2 DEF NodeInv, Executed, TypeOK
    <2>4. included' \subseteq Executed'
        BY <1>0, <2>2, <2>3 DEF ProgressInv, Executed
    <2>5. \A tx \in Txs : Confirmed(tx)' <=> Confirmed(tx)
        BY <1>0, <2>2, <2>3 DEF ProgressInv, Confirmed
    <2> QED
        BY <1>0, <2>2, <2>4, <2>5, StageTxs DEF ProgressInv
<1>5. CASE Commit
    <2>1. /\ phase' = "after_commit" /\ committed' = wallets /\ included' = Executed
          /\ UNCHANGED <<pool, status, stage, at>>
        BY <1>5 DEF Commit
    <2>2. \A n \in Stages : Confirmed(StageTx[n]) => Confirmed(StageTx[n])'
        BY <1>0, <2>1 DEF ProgressInv, Confirmed
    <2>3. \A n \in Stages : n \in {1, 2} /\ Confirmed(StageTx[n])' => committed'[Owner(n)] # NoWallet
        BY <1>0, <2>1 DEF ScriptTxsInv, Confirmed, Exists
    <2>4. included' \subseteq Executed'
        BY <2>1 DEF Executed
    <2> QED
        BY <1>0, <2>1, <2>2, <2>3, <2>4 DEF ProgressInv
<1>6. CASE AfterCommit
    BY <1>0, <1>6 DEF AfterCommit, ProgressInv, Confirmed, Executed, scriptVars
<1> QED
    BY <1>2, <1>3, <1>4, <1>5, <1>6

LEMMA NextProgress ==
    ASSUME ScriptInv, [Next]_vars
    PROVE  ProgressInv'
<1>0. TypeOK /\ ProgressInv /\ stage \in 1..4
    BY DEF ScriptInv, IInv, TypeOK, Stages
<1>1. ASSUME UNCHANGED <<phase, snapshot, committed, included, status>>,
             \A n \in Stages :
                /\ StageTx[n] \in pool' => n <= stage'
                /\ n < stage' \/ (n = stage' /\ at' \in {"read", "done"}) => Confirmed(StageTx[n])
      PROVE  ProgressInv'
    BY <1>0, <1>1 DEF ProgressInv, Confirmed, Executed
<1>2. CASE Send
    <2>1. /\ pool' = pool \union {StageTx[stage]} /\ at' = "subscribe"
          /\ UNCHANGED <<phase, snapshot, committed, included, status, stage>>
        BY <1>2 DEF Send, Script
    <2>2. \A n \in Stages : StageTx[n] \in pool' => n <= stage
        BY <1>0, <2>1, StageTxsDiffer DEF ProgressInv, Stages
    <2> QED
        BY <1>0, <1>1, <2>1, <2>2 DEF ProgressInv
<1>3. CASE Subscribe
    BY <1>0, <1>1, <1>3 DEF Subscribe, Script, nodeVars, ProgressInv
<1>4. CASE Check
    <2>1. /\ at' = "read" => Confirmed(StageTx[stage])
          /\ at' # "done"
          /\ UNCHANGED <<phase, pool, snapshot, committed, included, status, stage>>
        BY <1>4 DEF Check, Script, nodeVars
    <2> QED
        BY <1>0, <1>1, <2>1 DEF ProgressInv
<1>5. CASE Read
    <2>1. /\ at = "read" /\ at' \in {"read", "failed"}
          /\ UNCHANGED <<phase, pool, snapshot, committed, included, status, stage>>
        BY <1>5 DEF Read, Script, nodeVars
    <2> QED
        BY <1>0, <1>1, <2>1 DEF ProgressInv
<1>6. CASE EndStage
    <2>1. /\ at = "read"
          /\ \/ at' = "done" /\ UNCHANGED stage
             \/ at' = "send" /\ stage' = stage + 1
          /\ UNCHANGED <<phase, pool, snapshot, committed, included, status>>
        BY <1>6 DEF EndStage, Script, nodeVars
    <2>2. \A n \in Stages : n <= stage => Confirmed(StageTx[n])
        BY <1>0, <2>1 DEF ProgressInv, Stages
    <2>3. \A n \in Stages : n < stage' \/ (n = stage' /\ at' = "done") => n <= stage
        BY <1>0, <2>1 DEF Stages
    <2>4. \A n \in Stages : StageTx[n] \in pool => n <= stage'
        BY <1>0, <2>1 DEF ProgressInv, Stages
    <2> QED
        BY <1>1, <2>1, <2>2, <2>3, <2>4
<1>7. CASE UNCHANGED vars
    BY <1>0, <1>1, <1>7 DEF vars, nodeVars, scriptVars, ProgressInv
<1> QED
    BY <1>2, <1>3, <1>4, <1>5, <1>6, <1>7, NodeProgress DEF Next, ScriptStep

LEMMA NextScriptInv == ScriptInv /\ [Next]_vars => ScriptInv'
BY NextIInv, NextNode, NextScriptTxs, NextProgress DEF ScriptInv

LEMMA StepFails ==
    ASSUME ScriptInv, [Next]_vars, at' = "failed", at # "failed"
    PROVE  StageTx[stage] \notin included \/ ~running \/ phase = "after_commit"
<1>0. TypeOK /\ ScriptTxsInv /\ ProgressInv /\ stage \in Stages
    BY DEF ScriptInv, IInv, TypeOK
<1>1. CASE Check
    <2>1. ~Confirmed(StageTx[stage])
        BY <1>1 DEF Check, Script
    <2>2. StageTx[stage] \in included => status[StageTx[stage]] # NoStatus
        BY <1>0 DEF ProgressInv, Executed
    <2> QED
        BY <1>0, <2>1, <2>2 DEF ScriptTxsInv, Confirmed
<1>2. CASE Read
    <2> DEFINE key == StageReads[stage][Len(printed[stage]) + 1]
    <2>1. /\ Len(printed[stage]) < Len(StageReads[stage])
          /\ at = "read" /\ snapshot[key] = NoWallet
        BY <1>2 DEF Read, Script
    <2>2. key \in {Alice, Bob} /\ 1 < stage
        <3>1. /\ StageReads[1] = <<>> /\ StageReads[2] = <<Alice, Bob>>
              /\ StageReads[3] = <<Alice, Bob>> /\ StageReads[4] = <<Bob, Alice>>
            BY Zenon DEF StageReads
        <3>2. Len(printed[stage]) \in Nat
            BY <1>0 DEF TypeOK
        <3>3. stage # 1
            BY <2>1, <3>1, <3>2
        <3>4. \A a, b : \A n \in 1..2 : <<a, b>>[n] \in {a, b}
            OBVIOUS
        <3>5. ASSUME NEW a, NEW b, StageReads[stage] = <<a, b>>
              PROVE  key \in {a, b}
            <4>1. Len(printed[stage]) + 1 \in 1..2
                BY <2>1, <3>2, <3>5
            <4> QED
                BY <3>4, <3>5, <4>1, Zenon
        <3>6. stage = 2 \/ stage = 3 \/ stage = 4
            BY <1>0, <3>3 DEF Stages
        <3> QED
            BY <1>0, <3>1, <3>5, <3>6 DEF Stages
    <2>3. Confirmed(StageTx[1]) /\ Confirmed(StageTx[2]) /\ 1 \in Stages /\ 2 \in Stages
        BY <1>0, <2>1, <2>2 DEF ProgressInv, Stages
    <2>4. committed[Alice] # NoWallet /\ committed[Bob] # NoWallet
        BY <1>0, <2>3 DEF ProgressInv, Owner
    <2>5. phase # "transactions"
        BY <1>0, <2>1, <2>2, <2>4 DEF ProgressInv
    <2> QED
        BY <1>0, <2>5 DEF TypeOK
<1>3. CASE Send \/ Subscribe \/ EndStage
    BY <1>3 DEF Send, Subscribe, EndStage, Script
<1>4. ASSUME NEW tx, Execute(tx)
      PROVE  UNCHANGED at
    BY <1>4, ExecuteBegins DEF Begin, scriptVars
<1>5. CASE Decide \/ Commit \/ AfterCommit \/ UNCHANGED vars \/ \E m \in MethodIds : ImportOther(m)
    BY <1>5 DEF Decide, Commit, AfterCommit, ImportOther, vars, scriptVars
<1> QED
    BY <1>1, <1>2, <1>3, <1>4, <1>5 DEF Next, ScriptStep

\* However many users there are and whatever they send, the script fails only
\* because its transaction is in no block, the service was stopped, or the API
\* was behind.
THEOREM ScriptsFailForAReason == Spec => ScriptFailsOnlyIf
<1>1. Spec => []ScriptInv
    BY InitScriptInv, NextScriptInv, PTL DEF Spec
<1>2. ScriptInv /\ [Next]_vars =>
        (at' = "failed" /\ at # "failed" =>
            \/ StageTx[stage] \notin included
            \/ ~running
            \/ phase = "after_commit")
    BY StepFails, Zenon
<1> QED
    BY <1>1, <1>2, PTL DEF Spec, ScriptFailsOnlyIf

-----------------------------------------------------------------------------
(* The ledger *)

\* What a transaction that succeeds does.
Effect(tx, before, after) ==
    \/ /\ tx.method = CreateWalletId /\ before[tx.author] = NoWallet
       /\ after = [before EXCEPT ![tx.author] = InitBalance]
    \/ /\ tx.method = TransferId /\ tx.to \in Keys
       /\ before[tx.author] # NoWallet /\ before[tx.to] # NoWallet
       /\ tx.amount <= before[tx.author]
       /\ after = [k \in Keys |-> IF k = tx.to THEN before[k] + tx.amount
                                 ELSE IF k = tx.author THEN before[k] - tx.amount
                                 ELSE before[k]]

LEMMA ExecuteEffect ==
    ASSUME TypeOK, NEW tx \in Txs, Execute(tx), FromValue(byte'.value) = Succeeded
    PROVE  Effect(tx, wallets, wallets')
<1>0. /\ wallets \in [Keys -> Nat \union {NoWallet}]
      /\ tx.author \in Keys /\ tx.amount \in Nat /\ tx.to \in Keys \union {NoKey}
    BY TxsAreTxs DEF TypeOK, TxType
<1>1. ASSUME NEW code \in Codes, NEW base \in BOOLEAN, base <=> code \in GenericCodes,
             Answers(tx, Error(base, code))
      PROVE  FALSE
    BY <1>1, CodesAreKept, FailedIsStatus DEF Answers
<1>2. ~NotRunning(tx)
    BY ResultsAreKept DEF NotRunning, Answers, Succeeded
<1>3. ASSUME NEW code \in GenericCodes, Answers(tx, Error(TRUE, code))
      PROVE  FALSE
    BY <1>1, <1>3 DEF GenericCodes, Codes
<1>4. ASSUME NEW code \in {WalletAlreadyExists, SenderNotFound, ReceiverNotFound,
                           InsufficientCurrencyAmount, IncorrectSender},
             Answers(tx, Error(FALSE, code))
      PROVE  FALSE
    <2>1. code \in Codes /\ code \notin GenericCodes
        BY DEF Codes, GenericCodes, WrongServiceImplementation, MalformedConfig, MethodNotFound,
               WalletAlreadyExists, SenderNotFound, ReceiverNotFound,
               InsufficientCurrencyAmount, IncorrectSender
    <2> QED
        BY <1>1, <1>4, <2>1
<1>5. ~NotRouted(tx)
    BY <1>3 DEF NotRouted, GenericCodes
<1>6. ~TransferFails(tx)
    BY <1>3, <1>4 DEF TransferFails, Refuses, Breaks, GenericCodes
<1>7. CASE CreateWallet(tx)
    <2>1. /\ tx.method = CreateWalletId /\ ~Exists(tx.author)
          /\ wallets' = [wallets EXCEPT ![tx.author] = InitBalance]
        BY <1>4, <1>7 DEF CreateWallet, Refuses, Handles
    <2> QED
        BY <2>1 DEF Effect, Exists
<1>8. CASE Transfer(tx)
    <2>1. /\ tx.method = TransferId /\ tx.to \in Keys
          /\ wallets[tx.author] # NoWallet /\ wallets[tx.to] # NoWallet
          /\ wallets[tx.author] >= tx.amount
          /\ wallets' = [wallets EXCEPT ![tx.author] = wallets[tx.author] - tx.amount,
                                        ![tx.to] = wallets[tx.to] + tx.amount]
        BY <1>0, <1>8 DEF Transfer, MayTransfer, Handles, Exists
    <2>2. tx.amount <= wallets[tx.author]
        BY <1>0, <2>1
    <2>3. wallets' = [k \in Keys |-> IF k = tx.to THEN wallets[k] + tx.amount
                                    ELSE IF k = tx.author THEN wallets[k] - tx.amount
                                    ELSE wallets[k]]
        BY <1>0, <2>1
    <2> QED
        BY <2>1, <2>2, <2>3 DEF Effect
<1> QED
    BY <1>2, <1>5, <1>6, <1>7, <1>8 DEF Execute

\* Until the node has looked at the byte of a success, the fork is what its
\* transaction makes of the checkpoint.
EffectInv ==
    byte # NoByte /\ FromValue(byte.value) = Succeeded => Effect(byte.tx, checkpoint, wallets)

LedgerInv == ScriptInv /\ EffectInv

LEMMA InitLedgerInv == Init => LedgerInv
<1>1. Init => EffectInv
    BY DEF Init, EffectInv
<1> QED
    BY <1>1, InitScriptInv DEF LedgerInv

LEMMA NextLedgerInv == LedgerInv /\ [Next]_vars => LedgerInv'
<1> SUFFICES ASSUME LedgerInv, [Next]_vars
             PROVE  EffectInv'
    BY NextScriptInv DEF LedgerInv
<1>0. TypeOK /\ EffectInv
    BY DEF LedgerInv, ScriptInv, IInv
<1>1. ASSUME NEW tx \in Txs, Execute(tx)
      PROVE  EffectInv'
    <2>1. checkpoint' = wallets
        BY <1>1, ExecuteBegins DEF Begin
    <2>2. byte'.tx = tx
        BY <1>0, <1>1, ExecuteOutcome DEF Outcome
    <2> QED
        BY <1>0, <1>1, <2>1, <2>2, ExecuteEffect DEF EffectInv
<1>2. CASE Decide
    BY <1>2 DEF Decide, EffectInv
<1>3. ASSUME UNCHANGED <<byte, wallets, checkpoint>>
      PROVE  EffectInv'
    BY <1>0, <1>3 DEF EffectInv
<1>4. CASE Commit \/ AfterCommit \/ UNCHANGED vars \/ \E m \in MethodIds : ImportOther(m)
    BY <1>3, <1>4 DEF Commit, AfterCommit, ImportOther, vars, nodeVars
<1>5. CASE ScriptStep
    BY <1>3, <1>5 DEF ScriptStep, Send, Subscribe, Check, Read, EndStage, nodeVars
<1> QED
    BY <1>1, <1>2, <1>4, <1>5 DEF Next

LEMMA LedgerInvariant == Spec => []LedgerInv
BY InitLedgerInv, NextLedgerInv, PTL DEF Spec

Balances == IF byte = NoByte THEN wallets ELSE checkpoint
LastBlock == [balances |-> committed, done |-> included \intersect Effective]

LEMMA InitPromised == Init => Promised!Init
<1> SUFFICES ASSUME Init
             PROVE  Promised!Init
    OBVIOUS
<1>1. Effective = {}
    BY DEF Init, Effective, NoStatus, Succeeded
<1> QED
    BY <1>1 DEF Init, Promised!Init, Promised!NoWallets, NoWallets

\* The node's decision is the step in which a transaction takes effect, or
\* none.
LEMMA DecidePromised ==
    ASSUME LedgerInv, Decide
    PROVE  \/ \E tx \in Txs : Promised!Create(tx) \/ Promised!Transfer(tx)
           \/ UNCHANGED Promised!vars
<1>0. TypeOK /\ NodeInv /\ ByteInv /\ EffectInv /\ included \subseteq Executed
    BY DEF LedgerInv, ScriptInv, IInv, ProgressInv
<1>1. byte \in [tx : Txs, value : 0..255] /\ byte # NoByte /\ byte' = NoByte
    BY <1>0 DEF Decide, TypeOK
<1> DEFINE outcome == FromValue(byte.value)
           tx == byte.tx
<1>2. /\ status' = [status EXCEPT ![tx] = outcome]
      /\ wallets' = IF outcome = Succeeded THEN wallets ELSE checkpoint
      /\ UNCHANGED <<included, committed, snapshot>>
    BY DEF Decide
<1>3. tx \in Txs /\ status[tx] = NoStatus /\ NoStatus # Succeeded /\ tx \notin included
    BY <1>0, <1>1 DEF NodeInv, Executed, NoStatus, Succeeded
<1> HIDE DEF outcome, tx
<1>4. \A t \in Txs : status'[t] = IF t = tx THEN outcome ELSE status[t]
    BY <1>0, <1>2 DEF TypeOK
<1>5. Balances = checkpoint /\ Balances' = wallets'
    BY <1>1 DEF Balances
<1>6. included' \intersect Effective' = included \intersect Effective
    BY <1>2, <1>3, <1>4 DEF Effective
<1>7. UNCHANGED <<LastBlock, snapshot>>
    BY <1>2, <1>6 DEF LastBlock
<1>8. CASE outcome = Succeeded
    <2>1. Effective' = Effective \union {tx} /\ tx \notin Effective
        BY <1>3, <1>4, <1>8 DEF Effective
    <2>2. Effect(tx, Balances, Balances')
        BY <1>0, <1>1, <1>2, <1>5, <1>8 DEF EffectInv, outcome, tx
    <2>3. Promised!Create(tx) \/ Promised!Transfer(tx)
        BY <1>7, <2>1, <2>2
           DEF Effect, Promised!Create, Promised!Transfer, Balances, LastBlock
    <2> QED
        BY <1>3, <2>3
<1>9. CASE outcome # Succeeded
    <2>1. Effective' = Effective
        BY <1>3, <1>4, <1>9 DEF Effective
    <2>2. Balances' = Balances
        BY <1>2, <1>5, <1>9
    <2> QED
        BY <1>7, <2>1, <2>2 DEF Promised!vars, Balances, LastBlock
<1> QED
    BY <1>8, <1>9

LEMMA NextPromised ==
    ASSUME LedgerInv, [Next]_vars
    PROVE  [Promised!Next]_(Promised!vars)
<1>0. TypeOK /\ ProgressInv
    BY DEF LedgerInv, ScriptInv, IInv
<1>1. ASSUME UNCHANGED <<Balances, status, included, committed, snapshot>>
      PROVE  UNCHANGED Promised!vars
    BY <1>1 DEF Promised!vars, Balances, Effective
<1>2. ASSUME NEW tx \in Txs, Execute(tx)
      PROVE  UNCHANGED Promised!vars
    <2>1. byte = NoByte /\ checkpoint' = wallets /\ UNCHANGED <<status, included, committed, snapshot>>
        BY <1>2, ExecuteBegins DEF Begin
    <2>2. byte' # NoByte
        BY <1>0, <1>2, ExecuteOutcome DEF Outcome, NoByte
    <2>3. Balances' = Balances
        BY <2>1, <2>2 DEF Balances
    <2> QED
        BY <1>1, <2>1, <2>3
<1>3. CASE Commit
    <2>1. /\ byte = NoByte /\ snapshot = committed
          /\ committed' = wallets /\ included' = Executed
          /\ UNCHANGED <<wallets, checkpoint, byte, status, snapshot>>
        BY <1>0, <1>3 DEF Commit, ProgressInv
    <2>2. Effective' = Effective /\ Executed \intersect Effective = Effective
        BY <2>1 DEF Effective, Executed, NoStatus, Succeeded
    <2> QED
        BY <2>1, <2>2 DEF Promised!Next, Promised!Commit
<1>4. CASE AfterCommit
    <2>1. snapshot' = committed /\ UNCHANGED <<wallets, checkpoint, byte, status, included, committed>>
        BY <1>4 DEF AfterCommit
    <2>2. Effective' = Effective
        BY <2>1 DEF Effective
    <2> QED
        BY <2>1, <2>2 DEF Promised!Next, Promised!Publish
<1>5. CASE UNCHANGED nodeVars
    BY <1>1, <1>5 DEF nodeVars, Balances
<1>6. CASE UNCHANGED vars \/ \E m \in MethodIds : ImportOther(m)
    BY <1>5, <1>6 DEF vars, ImportOther
<1>7. CASE ScriptStep
    <2>1. UNCHANGED <<wallets, checkpoint, byte, status, included, committed, snapshot>>
        BY <1>7 DEF ScriptStep, Send, Subscribe, Check, Read, EndStage, nodeVars
    <2> QED
        BY <1>1, <2>1 DEF Balances
<1> QED
    BY <1>2, <1>3, <1>4, <1>6, <1>7, DecidePromised DEF Next, Promised!Next

\* Whatever fails on the way, each transaction takes all of its effect at once,
\* by its author's hand and one time only, and blocks reach readers one by one.
THEOREM ImplementsLedger == Spec => KeepsLedger
<1>1. Init => Promised!Init
    BY InitPromised
<1>2. LedgerInv /\ [Next]_vars => [Promised!Next]_(Promised!vars)
    BY NextPromised
<1> QED
    BY <1>1, <1>2, LedgerInvariant, PTL DEF Spec, KeepsLedger, Promised!Spec

\* So what is proved of ledgers holds of this one.
LEMMA TxsAreWellFormed == Proved!WellFormed
<1>1. \A tx \in Txs : tx.author \in Keys /\ tx.amount \in Nat
    BY TxsAreTxs DEF TxType
<1> QED
    BY <1>1, TransactionsAssumption
       DEF Proved!WellFormed, InitBalance, CreateWalletId, TransferId

LEMMA LedgerIsAccount == Spec => []Proved!IInv
<1>1. Promised!Init <=> Proved!Init
    BY DEF Promised!Init, Proved!Init, Promised!NoWallets, Proved!NoWallets
<1>2. [Promised!Next]_(Promised!vars) <=> [Proved!Next]_(Proved!vars)
    BY DEF Promised!Next, Proved!Next, Promised!vars, Proved!vars,
           Promised!Create, Proved!Create, Promised!Transfer, Proved!Transfer,
           Promised!Commit, Proved!Commit, Promised!Publish, Proved!Publish
<1>3. Proved!Spec => []Proved!IInv
    BY TxsAreWellFormed, Proved!LedgersAreAccounts
<1> QED
    BY <1>1, <1>2, <1>3, ImplementsLedger, PTL DEF KeepsLedger, Promised!Spec, Proved!Spec

LEMMA PromisedIsProved ==
    /\ \A txs : Promised!Amounts(txs) = Proved!Amounts(txs)
    /\ \A txs : Promised!LedgerAfter(txs) = Proved!LedgerAfter(txs)
    /\ \A ledger : /\ Promised!Money(ledger) = Proved!Money(ledger)
                   /\ Promised!Holders(ledger) = Proved!Holders(ledger)
    /\ \A txs, holders : Promised!MoneyAfter(txs, holders) = Proved!MoneyAfter(txs, holders)
<1>1. ASSUME NEW f, NEW S
      PROVE  Promised!SumFunctionOnSet(f, S) = Proved!SumFunctionOnSet(f, S)
    BY DEF Promised!SumFunctionOnSet, Promised!FoldFunctionOnSet, Promised!MapThenFoldSet,
           Proved!SumFunctionOnSet, Proved!FoldFunctionOnSet, Proved!MapThenFoldSet
<1>2. /\ \A txs : Promised!Transfers(txs) = Proved!Transfers(txs)
      /\ \A ledger : Promised!Holders(ledger) = Proved!Holders(ledger)
    BY DEF Promised!Transfers, Proved!Transfers, Promised!Holders, Proved!Holders
<1>3. \A txs : Promised!Amounts(txs) = Proved!Amounts(txs)
    BY <1>1 DEF Promised!Amounts, Proved!Amounts
<1>4. \A txs, k : Promised!BalanceAfter(txs, k) = Proved!BalanceAfter(txs, k)
    BY <1>2, <1>3 DEF Promised!BalanceAfter, Proved!BalanceAfter
<1>5. \A txs : Promised!LedgerAfter(txs) = Proved!LedgerAfter(txs)
    BY <1>4 DEF Promised!LedgerAfter, Proved!LedgerAfter
<1>6. \A ledger : Promised!Money(ledger) = Proved!Money(ledger)
    BY <1>1, <1>2 DEF Promised!Money, Proved!Money
<1>7. ASSUME NEW S
      PROVE  Promised!Cardinality(S) = Proved!Cardinality(S)
    BY DEF Promised!Cardinality, Proved!Cardinality
<1>8. \A txs, holders : Promised!MoneyAfter(txs, holders) = Proved!MoneyAfter(txs, holders)
    BY <1>2, <1>3, <1>7 DEF Promised!MoneyAfter, Proved!MoneyAfter
<1> QED
    BY <1>2, <1>3, <1>5, <1>6, <1>8

\* The ledger is what the statuses say, for any users, transactions and amounts.
THEOREM StatusesMakeTheLedger == Spec => []LedgerIsStatuses
<1>1. Proved!IInv => LedgerIsStatuses
    BY PromisedIsProved DEF Proved!IInv, Proved!Accounts, LedgerIsStatuses
<1> QED
    BY <1>1, LedgerIsAccount, PTL

\* Only transfers to oneself make money, and nothing loses any.
THEOREM MoneyIsAccountedFor == Spec => []OnlySelfTransfersMakeMoney
<1>1. Proved!IInv => OnlySelfTransfersMakeMoney
    BY PromisedIsProved DEF Proved!IInv, Proved!Accounts, OnlySelfTransfersMakeMoney
<1> QED
    BY <1>1, LedgerIsAccount, PTL

\* No transfer of the last block, or of those before it, is one to oneself.
NoSelfTransfers ==
    \A tx \in Promised!Transfers(included \intersect Effective) : tx.to # tx.author

\* While nobody transfers to himself, the money in the wallets is what they were
\* created with: the transfers to oneself are all that contradicts the doc.
THEOREM OthersConserveMoney == Spec => [](NoSelfTransfers => MoneyIsConserved)
<1>1. ASSUME Proved!IInv, NoSelfTransfers
      PROVE  MoneyIsConserved
    <2> DEFINE holders == Proved!Holders(committed)
    <2>1. Proved!Amounts({}) = 0
        BY Proved!AmountsOfNone
    <2>2. {tx \in Proved!Transfers(included \intersect Effective) : tx.to = tx.author} = {}
        BY <1>1 DEF NoSelfTransfers, Promised!Transfers, Proved!Transfers
    <2>3. /\ Proved!IsFiniteSet(holders)
          /\ Proved!Money(committed) = InitBalance * Proved!Cardinality(holders) + Proved!Amounts({})
        BY <1>1, <2>2 DEF Proved!IInv, Proved!Accounts, Proved!MoneyAfter
    <2>4. Proved!Cardinality(holders) \in Nat
        BY <2>3, Proved!FS_CardinalityType
    <2>5. Proved!Cardinality(holders) = Cardinality(holders)
        BY DEF Proved!Cardinality, Cardinality
    <2>6. Promised!Money(committed) = Proved!Money(committed) /\ Promised!Holders(committed) = holders
        BY PromisedIsProved
    <2> HIDE DEF holders
    <2>7. Proved!Money(committed) = InitBalance * Cardinality(holders)
        BY <2>1, <2>3, <2>4, <2>5 DEF InitBalance
    <2> QED
        BY <2>6, <2>7 DEF MoneyIsConserved
<1> QED
    BY <1>1, LedgerIsAccount, PTL

-----------------------------------------------------------------------------
(* What the script prints *)

Readme == << <<>>, <<100, 100>>, <<90, 110>>, <<85, 115>> >>

\* Nobody has sent anything to the script's wallets.
Quiet == \A tx \in Promised!Transfers(OtherTxs \intersect Effective) : tx.to \notin {Alice, Bob}

\* No transaction of a later stage is under way.
SentInv == \A n \in Stages : StageTx[n] \in Executed \/ Pending(StageTx[n]) => n <= stage

\* A stage that is over has printed all it reads, and what is printed is what the
\* README shows.
PrintedInv ==
    /\ at = "done" => stage = 4
    /\ \A n \in Stages : n < stage \/ at = "done" => Len(printed[n]) = Len(StageReads[n])
    /\ ~lagged /\ Quiet =>
        \A n \in Stages : \A i \in 1..Len(printed[n]) :
            i <= Len(StageReads[n]) /\ printed[n][i] = Readme[n][i]

PrintInv == SentInv /\ PrintedInv

LEMMA InitPrintInv == Init => PrintInv
<1> SUFFICES ASSUME Init
             PROVE  PrintInv
    OBVIOUS
<1>1. \A n \in Stages : StageTx[n] \notin Executed /\ ~Pending(StageTx[n])
    BY StageTxs DEF Init, Executed, Pending
<1>2. at # "done" /\ stage = 1 /\ \A n \in Stages : printed[n] = <<>> /\ ~(n < 1)
    BY DEF Init, Stages
<1>3. \A n \in Stages : 1..Len(printed[n]) = {}
    BY <1>2
<1> QED
    BY <1>1, <1>2, <1>3 DEF PrintInv, SentInv, PrintedInv

\* Of the successful transactions, the script's wallets are touched by those of
\* the script and, if it is quiet, by no others.
LEMMA QuietTransfers ==
    ASSUME LedgerInv, Quiet, NEW txs, txs \subseteq Effective
    PROVE  /\ {tx \in Promised!Transfers(txs) : tx.to = Alice} = {StageTx[4]} \intersect txs
           /\ {tx \in Promised!Transfers(txs) : tx.author = Alice /\ tx.to # Alice} =
                {StageTx[3]} \intersect txs
           /\ {tx \in Promised!Transfers(txs) : tx.to = Bob} = {StageTx[3]} \intersect txs
           /\ {tx \in Promised!Transfers(txs) : tx.author = Bob /\ tx.to # Bob} =
                {StageTx[4]} \intersect txs
<1>1. /\ StageTx[3] = TransferTx(Alice, Bob, 10, 1) /\ StageTx[4] = TransferTx(Bob, Alice, 25, 2)
      /\ StageTx[1].method = CreateWalletId /\ StageTx[2].method = CreateWalletId
    BY Zenon DEF StageTx, CreateTx
<1>2. /\ StageTx[3].author = Alice /\ StageTx[3].to = Bob /\ StageTx[3].method = TransferId
      /\ StageTx[4].author = Bob /\ StageTx[4].to = Alice /\ StageTx[4].method = TransferId
    BY <1>1 DEF TransferTx
<1>3. ASSUME NEW tx \in Promised!Transfers(txs),
             tx.to \in {Alice, Bob} \/ tx.author \in {Alice, Bob}
      PROVE  tx = StageTx[3] \/ tx = StageTx[4]
    <2>1. tx \in Txs /\ status[tx] = Succeeded /\ tx.method = TransferId /\ tx \in Effective
        BY DEF Promised!Transfers, Effective
    <2>2. tx.caller = "transaction"
        BY <2>1 DEF LedgerInv, ScriptInv, IInv, StatusesAreMeant
    <2>3. tx \notin OtherTxs
        BY <1>3, <2>1, <2>2, TransactionsAssumption DEF Quiet, Promised!Transfers
    <2>4. PICK n \in Stages : tx = StageTx[n]
        BY <2>1, <2>3 DEF Txs, ScriptTxs
    <2>5. n # 1 /\ n # 2
        BY <1>1, <2>1, <2>4 DEF CreateWalletId, TransferId
    <2> QED
        BY <2>4, <2>5 DEF Stages
<1>4. ASSUME NEW n \in {3, 4}, StageTx[n] \in txs
      PROVE  StageTx[n] \in Promised!Transfers(txs)
    BY <1>2, <1>4 DEF Promised!Transfers
<1>5. Promised!Transfers(txs) \subseteq txs
    BY DEF Promised!Transfers
<1> QED
    BY <1>2, <1>3, <1>4, <1>5, TransactionsAssumption

\* When the script may read a wallet, the last block holds what the README says.
LEMMA CommittedAsReadme ==
    ASSUME LedgerInv, Proved!IInv, PrintInv, Quiet, at = "read",
           NEW i \in 1..Len(StageReads[stage])
    PROVE  committed[StageReads[stage][i]] = Readme[stage][i]
<1> DEFINE txs == included \intersect Effective
<1>0. TypeOK /\ ProgressInv /\ stage \in Stages
    BY DEF LedgerInv, ScriptInv, IInv, TypeOK
<1>1. committed = Proved!LedgerAfter(txs)
    BY DEF Proved!IInv, Proved!Accounts
<1>2. stage \in {2, 3, 4}
    <2>1. StageReads[1] = <<>>
        BY Zenon DEF StageReads
    <2>2. stage # 1
        BY <2>1
    <2> QED
        BY <1>0, <2>2 DEF Stages
<1>3. \A n \in Stages : StageTx[n] \in txs <=> n <= stage
    <2> SUFFICES ASSUME NEW n \in Stages
                 PROVE  StageTx[n] \in txs <=> n <= stage
        OBVIOUS
    <2>1. CASE n <= stage
        <3>1. Confirmed(StageTx[n])
            BY <1>0, <2>1 DEF ProgressInv, Stages
        <3> QED
            BY <2>1, <3>1, StageTxs DEF Confirmed, Effective
    <2>2. CASE ~(n <= stage)
        <3>1. StageTx[n] \notin included
            BY <1>0, <2>2 DEF PrintInv, SentInv, ProgressInv
        <3> QED
            BY <2>2, <3>1
    <2> QED
        BY <2>1, <2>2
<1> HIDE DEF txs
<1>4. /\ StageTx[1] \in txs /\ StageTx[2] \in txs
      /\ StageTx[3] \in txs <=> stage \in {3, 4}
      /\ StageTx[4] \in txs <=> stage = 4
    BY <1>2, <1>3 DEF Stages
<1>5. /\ \E tx \in txs : tx.method = CreateWalletId /\ tx.author = Alice
      /\ \E tx \in txs : tx.method = CreateWalletId /\ tx.author = Bob
    <2>1. StageTx[1] = CreateTx(Alice) /\ StageTx[2] = CreateTx(Bob)
        BY Zenon DEF StageTx
    <2>2. /\ StageTx[1].method = CreateWalletId /\ StageTx[1].author = Alice
          /\ StageTx[2].method = CreateWalletId /\ StageTx[2].author = Bob
        BY <2>1 DEF CreateTx
    <2> QED
        BY <1>4, <2>2
<1>6. /\ committed[Alice] = Promised!BalanceAfter(txs, Alice)
      /\ committed[Bob] = Promised!BalanceAfter(txs, Bob)
    <2>1. committed = Promised!LedgerAfter(txs)
        BY <1>1, PromisedIsProved
    <2> QED
        BY <1>5, <2>1, TransactionsAssumption DEF Promised!LedgerAfter
<1>7. /\ Promised!Amounts({}) = 0
      /\ Promised!Amounts({StageTx[3]}) = 10
      /\ Promised!Amounts({StageTx[4]}) = 25
    <2>1. Proved!Amounts({}) = 0
        BY Proved!AmountsOfNone
    <2>2. ASSUME NEW tx \in Txs
          PROVE  Proved!Amounts({tx}) = tx.amount
        <3>1. {} \in SUBSET Txs /\ Proved!IsFiniteSet({}) /\ {} \union {tx} = {tx} /\ tx \notin {}
            BY Proved!FS_EmptySet
        <3>2. Proved!Amounts({} \union {tx}) = Proved!Amounts({}) + tx.amount
            BY <3>1, TxsAreWellFormed, Proved!AmountsWithElement
        <3>3. tx.amount \in Nat
            BY TxsAreTxs DEF TxType
        <3> QED
            BY <2>1, <3>1, <3>2, <3>3
    <2>3. /\ StageTx[3] = TransferTx(Alice, Bob, 10, 1)
          /\ StageTx[4] = TransferTx(Bob, Alice, 25, 2)
        BY Zenon DEF StageTx
    <2>4. StageTx[3].amount = 10 /\ StageTx[4].amount = 25
        BY <2>3 DEF TransferTx
    <2>5. StageTx[3] \in Txs /\ StageTx[4] \in Txs
        BY StageTxs DEF Stages
    <2> QED
        BY <2>1, <2>2, <2>4, <2>5, PromisedIsProved
<1> DEFINE sent(n) == Promised!Amounts({StageTx[n]} \intersect txs)
<1>8. /\ committed[Alice] = 100 + sent(4) - sent(3)
      /\ committed[Bob] = 100 + sent(3) - sent(4)
    <2>1. txs \subseteq Effective
        BY DEF txs
    <2> QED
        BY <1>6, <2>1, QuietTransfers, Zenon DEF Promised!BalanceAfter, InitBalance
<1>9. CASE stage = 2
    <2>1. {StageTx[3]} \intersect txs = {} /\ {StageTx[4]} \intersect txs = {}
        BY <1>4, <1>9
    <2>2. sent(3) = 0 /\ sent(4) = 0
        BY <1>7, <2>1, Zenon
    <2> HIDE DEF sent
    <2>3. committed[Alice] = 100 /\ committed[Bob] = 100
        BY <1>8, <2>2
    <2>4. StageReads[2] = <<Alice, Bob>> /\ Readme[2] = <<100, 100>>
        BY Zenon DEF StageReads, Readme
    <2>5. i \in 1..Len(<<Alice, Bob>>)
        BY <1>9, <2>4
    <2>6. i = 1 \/ i = 2
        BY <2>5
    <2>7. committed[<<Alice, Bob>>[i]] = <<100, 100>>[i]
        BY <2>3, <2>6
    <2> QED
        BY <1>9, <2>4, <2>7
<1>10. CASE stage = 3
    <2>1. {StageTx[3]} \intersect txs = {StageTx[3]} /\ {StageTx[4]} \intersect txs = {}
        BY <1>4, <1>10
    <2>2. sent(3) = 10 /\ sent(4) = 0
        BY <1>7, <2>1, Zenon
    <2> HIDE DEF sent
    <2>3. committed[Alice] = 90 /\ committed[Bob] = 110
        BY <1>8, <2>2
    <2>4. StageReads[3] = <<Alice, Bob>> /\ Readme[3] = <<90, 110>>
        BY Zenon DEF StageReads, Readme
    <2>5. i \in 1..Len(<<Alice, Bob>>)
        BY <1>10, <2>4
    <2>6. i = 1 \/ i = 2
        BY <2>5
    <2>7. committed[<<Alice, Bob>>[i]] = <<90, 110>>[i]
        BY <2>3, <2>6
    <2> QED
        BY <1>10, <2>4, <2>7
<1>11. CASE stage = 4
    <2>1. {StageTx[3]} \intersect txs = {StageTx[3]} /\ {StageTx[4]} \intersect txs = {StageTx[4]}
        BY <1>4, <1>11
    <2>2. sent(3) = 10 /\ sent(4) = 25
        BY <1>7, <2>1, Zenon
    <2> HIDE DEF sent
    <2>3. committed[Alice] = 115 /\ committed[Bob] = 85
        BY <1>8, <2>2
    <2>4. StageReads[4] = <<Bob, Alice>> /\ Readme[4] = <<85, 115>>
        BY Zenon DEF StageReads, Readme
    <2>5. i \in 1..Len(<<Bob, Alice>>)
        BY <1>11, <2>4
    <2>6. i = 1 \/ i = 2
        BY <2>5
    <2>7. committed[<<Bob, Alice>>[i]] = <<85, 115>>[i]
        BY <2>3, <2>6
    <2> QED
        BY <1>11, <2>4, <2>7
<1> QED
    BY <1>2, <1>9, <1>10, <1>11

LEMMA NextSent ==
    ASSUME LedgerInv, PrintInv, [Next]_vars
    PROVE  SentInv'
<1>0. TypeOK /\ ProgressInv /\ NodeInv /\ SentInv
    BY DEF LedgerInv, ScriptInv, IInv, PrintInv
<1> SUFFICES ASSUME NEW n \in Stages, (StageTx[n] \in Executed \/ Pending(StageTx[n]))'
             PROVE  n <= stage'
    BY DEF SentInv
<1>1. ASSUME NEW tx \in Txs, Execute(tx)
      PROVE  n <= stage'
    <2>1. /\ UNCHANGED <<status, stage>> /\ byte'.tx = tx
          /\ tx \in pool \/ tx \in OtherTxs
        BY <1>0, <1>1, ExecuteBegins, ExecuteOutcome DEF Begin, Outcome, scriptVars
    <2>2. StageTx[n] \notin OtherTxs
        BY StageTxs, TransactionsAssumption DEF Owner
    <2>3. StageTx[n] \in Executed \/ StageTx[n] \in pool
        BY <2>1, <2>2 DEF Executed, Pending
    <2> QED
        BY <1>0, <2>1, <2>3 DEF SentInv, ProgressInv
<1>2. CASE Decide
    <2>1. /\ UNCHANGED stage /\ byte # NoByte /\ byte' = NoByte
          /\ \A tx \in Txs : tx # byte.tx => status'[tx] = status[tx]
        BY <1>0, <1>2 DEF Decide, TypeOK, scriptVars
    <2>2. StageTx[n] \in Executed \/ Pending(StageTx[n])
        BY <2>1 DEF Executed, Pending
    <2> QED
        BY <1>0, <2>1, <2>2 DEF SentInv
<1>3. ASSUME UNCHANGED <<byte, status>>, stage' = stage \/ stage' = stage + 1
      PROVE  n <= stage'
    <2>1. StageTx[n] \in Executed \/ Pending(StageTx[n])
        BY <1>3 DEF Executed, Pending
    <2> QED
        BY <1>0, <1>3, <2>1 DEF SentInv, TypeOK, Stages
<1>4. CASE Commit \/ AfterCommit \/ UNCHANGED vars \/ \E m \in MethodIds : ImportOther(m)
    BY <1>3, <1>4 DEF Commit, AfterCommit, ImportOther, vars, nodeVars, scriptVars
<1>5. CASE ScriptStep
    BY <1>3, <1>5 DEF ScriptStep, Send, Subscribe, Check, Read, EndStage, nodeVars
<1> QED
    BY <1>1, <1>2, <1>4, <1>5 DEF Next

\* What was sent to the script's wallets stays sent.
LEMMA QuietBefore ==
    ASSUME LedgerInv, [Next]_vars, Quiet'
    PROVE  Quiet
<1>0. TypeOK /\ NodeInv
    BY DEF LedgerInv, ScriptInv, IInv
<1>1. Effective \subseteq Effective'
    <2>1. CASE Decide
        <3>1. status[byte.tx] # Succeeded
            BY <1>0, <2>1 DEF NodeInv, Decide, NoStatus, Succeeded
        <3>2. \A tx \in Txs : tx # byte.tx => status'[tx] = status[tx]
            BY <1>0, <2>1 DEF Decide, TypeOK
        <3> QED
            BY <3>1, <3>2 DEF Effective
    <2>2. ASSUME NEW tx \in Txs, Execute(tx)
          PROVE  UNCHANGED status
        BY <2>2, ExecuteBegins DEF Begin
    <2>3. CASE Commit \/ AfterCommit \/ UNCHANGED vars \/ \E m \in MethodIds : ImportOther(m)
        BY <2>3 DEF Commit, AfterCommit, ImportOther, vars, nodeVars, Effective
    <2>4. CASE ScriptStep
        BY <2>4 DEF ScriptStep, Send, Subscribe, Check, Read, EndStage, nodeVars, Effective
    <2> QED
        BY <2>1, <2>2, <2>3, <2>4 DEF Next, Effective
<1> QED
    BY <1>1 DEF Quiet, Promised!Transfers

LEMMA ReadPrints ==
    ASSUME LedgerInv, Proved!IInv, PrintInv, Read
    PROVE  PrintedInv'
<1>0. TypeOK /\ ProgressInv /\ PrintedInv /\ stage \in Stages
    BY DEF LedgerInv, ScriptInv, IInv, PrintInv, TypeOK
<1> DEFINE next == Len(printed[stage]) + 1
           key == StageReads[stage][next]
<1>1. /\ at = "read" /\ at' # "done" /\ UNCHANGED <<stage, status>>
      /\ \/ printed' = [printed EXCEPT ![stage] = Append(@, snapshot[key])] /\ snapshot[key] # NoWallet
         \/ UNCHANGED printed
      /\ lagged' = (lagged \/ phase = "after_commit")
      /\ Len(printed[stage]) < Len(StageReads[stage])
    BY DEF Read, Script, nodeVars
<1>2. printed \in [Stages -> Seq(Nat)] /\ StageReads[stage] \in Seq(Keys)
    BY <1>0, StageReadsKeys DEF TypeOK
<1>3. next \in 1..Len(StageReads[stage])
    BY <1>0, <1>1, <1>2
<1> HIDE DEF key, next
<1>4. CASE UNCHANGED printed
    BY <1>0, <1>1, <1>4 DEF PrintedInv, Quiet, Effective
<1>5. CASE printed' = [printed EXCEPT ![stage] = Append(@, snapshot[key])] /\ snapshot[key] # NoWallet
    <2>1. /\ \A n \in Stages : n # stage => printed'[n] = printed[n]
          /\ printed'[stage] = Append(printed[stage], snapshot[key])
        BY <1>0, <1>2, <1>5
    <2>2. \A n \in Stages : n < stage' \/ at' = "done" => Len(printed'[n]) = Len(StageReads[n])
        BY <1>0, <1>1, <2>1 DEF PrintedInv, Stages
    <2>3. ASSUME ~lagged', Quiet', NEW n \in Stages, NEW i \in 1..Len(printed'[n])
          PROVE  i <= Len(StageReads[n]) /\ printed'[n][i] = Readme[n][i]
        <3>1. ~lagged /\ Quiet /\ snapshot = committed
            BY <1>0, <1>1, <2>3 DEF ProgressInv, TypeOK, Quiet, Effective
        <3>2. CASE n # stage
            BY <1>0, <2>1, <2>3, <3>1, <3>2 DEF PrintedInv
        <3>3. CASE n = stage
            <4>1. /\ Len(printed[stage]) \in Nat
                  /\ Len(printed'[stage]) = next
                  /\ printed'[stage][next] = committed[key]
                  /\ \A j \in 1..Len(printed[stage]) : printed'[stage][j] = printed[stage][j]
                BY <1>0, <1>2, <2>1, <3>1 DEF next
            <4>2. committed[key] = Readme[stage][next]
                BY <1>1, <1>3, <3>1, CommittedAsReadme DEF key
            <4>3. i = next \/ i \in 1..Len(printed[stage])
                BY <2>3, <3>3, <4>1 DEF next
            <4> QED
                BY <1>0, <1>3, <3>1, <3>3, <4>1, <4>2, <4>3 DEF PrintedInv
        <3> QED
            BY <3>2, <3>3
    <2> QED
        BY <1>1, <2>2, <2>3 DEF PrintedInv
<1> QED
    BY <1>1, <1>4, <1>5

LEMMA NextPrintInv ==
    ASSUME LedgerInv, Proved!IInv, PrintInv, [Next]_vars
    PROVE  PrintInv'
<1>0. PrintedInv /\ stage \in Stages
    BY DEF LedgerInv, ScriptInv, IInv, PrintInv, TypeOK
<1> SUFFICES PrintedInv'
    BY NextSent DEF PrintInv
<1>1. Quiet' => Quiet
    BY QuietBefore
<1>2. ASSUME printed' = printed, stage' = stage, lagged' = lagged,
             at' # at => at' # "done"
      PROVE  PrintedInv'
    BY <1>0, <1>1, <1>2 DEF PrintedInv
<1>3. CASE EndStage
    <2>1. /\ printed' = printed /\ lagged' = lagged
          /\ Len(printed[stage]) = Len(StageReads[stage])
          /\ \/ stage = 4 /\ stage' = 4
             \/ stage' = stage + 1 /\ at' = "send"
        BY <1>3 DEF EndStage, Script
    <2>2. \A n \in Stages : n < stage' \/ at' = "done" => n < stage \/ n = stage
        BY <1>0, <2>1 DEF Stages
    <2>3. \A n \in Stages : n < stage' \/ at' = "done" => Len(printed[n]) = Len(StageReads[n])
        BY <1>0, <2>1, <2>2 DEF PrintedInv
    <2>4. at' = "done" => stage' = 4
        BY <2>1
    <2> QED
        BY <1>0, <1>1, <2>1, <2>3, <2>4 DEF PrintedInv
<1>4. ASSUME scriptVars' = scriptVars
      PROVE  PrintedInv'
    BY <1>2, <1>4 DEF scriptVars
<1>5. ASSUME NEW tx \in Txs, Execute(tx)
      PROVE  PrintedInv'
    <2>1. scriptVars' = scriptVars
        BY <1>5, ExecuteBegins DEF Begin
    <2> QED
        BY <1>4, <2>1
<1>6. CASE Decide \/ AfterCommit \/ UNCHANGED vars \/ \E m \in MethodIds : ImportOther(m)
    BY <1>4, <1>6 DEF Decide, AfterCommit, ImportOther, vars
<1>7. CASE Commit
    BY <1>2, <1>7 DEF Commit
<1>8. CASE Send \/ Subscribe \/ Check
    <2>1. /\ printed' = printed /\ stage' = stage /\ lagged' = lagged
          /\ at' \in {"subscribe", "check", "read", "failed"}
        BY <1>8 DEF Send, Subscribe, Check, Script
    <2> QED
        BY <1>2, <2>1
<1>9. CASE Read
    BY <1>9, ReadPrints
<1> QED
    BY <1>3, <1>5, <1>6, <1>7, <1>8, <1>9 DEF Next, ScriptStep

\* The example prints what its README shows, unless it read a snapshot that was a
\* block old, or other users sent something to its wallets: whatever they do to
\* each other, and in whatever blocks its transactions are.
THEOREM PrintsAsReadme == Spec => []PrintsReadme
<1>1. ASSUME LedgerInv, PrintInv
      PROVE  PrintsReadme
    <2> SUFFICES ASSUME at = "done", ~lagged, Quiet
                 PROVE  printed = Readme
        BY DEF PrintsReadme, Quiet, Readme
    <2>1. printed \in [Stages -> Seq(Nat)]
        BY <1>1 DEF LedgerInv, ScriptInv, IInv, TypeOK
    <2>2. \A n \in Stages :
            /\ Len(printed[n]) = Len(StageReads[n])
            /\ \A i \in 1..Len(printed[n]) : printed[n][i] = Readme[n][i]
        BY <1>1 DEF PrintInv, PrintedInv
    <2>3. /\ Len(StageReads[1]) = 0 /\ Len(StageReads[2]) = 2
          /\ Len(StageReads[3]) = 2 /\ Len(StageReads[4]) = 2
        <3>1. /\ StageReads[1] = <<>> /\ StageReads[2] = <<Alice, Bob>>
              /\ StageReads[3] = <<Alice, Bob>> /\ StageReads[4] = <<Bob, Alice>>
            BY Zenon DEF StageReads
        <3> QED
            BY <3>1
    <2>4. /\ Readme[1] = <<>> /\ Readme[2] = <<100, 100>>
          /\ Readme[3] = <<90, 110>> /\ Readme[4] = <<85, 115>>
        BY Zenon DEF Readme
    <2>5. \A s \in Seq(Nat) : Len(s) = 0 => s = <<>>
        OBVIOUS
    <2>6. ASSUME NEW s \in Seq(Nat), NEW a, NEW b, Len(s) = 2, s[1] = a, s[2] = b
          PROVE  s = <<a, b>>
        BY <2>6
    <2>7. 1 \in Stages /\ 2 \in Stages /\ 3 \in Stages /\ 4 \in Stages
        BY DEF Stages
    <2>8. printed[1] = <<>>
        BY <2>1, <2>2, <2>3, <2>5, <2>7
    <2>9. ASSUME NEW n \in {2, 3, 4}, NEW a, NEW b, Readme[n] = <<a, b>>
          PROVE  printed[n] = <<a, b>>
        <3>1. n \in Stages /\ Len(StageReads[n]) = 2
            BY <2>3, <2>7
        <3>2. Len(printed[n]) = 2 /\ printed[n][1] = <<a, b>>[1] /\ printed[n][2] = <<a, b>>[2]
            BY <2>2, <2>9, <3>1
        <3> QED
            BY <2>1, <2>6, <3>1, <3>2
    <2>10. /\ printed[2] = <<100, 100>> /\ printed[3] = <<90, 110>>
           /\ printed[4] = <<85, 115>>
        BY <2>4, <2>9
    <2>11. printed \in [1..4 -> Seq(Nat)]
        BY <2>1 DEF Stages
    <2>12. printed = <<printed[1], printed[2], printed[3], printed[4]>>
        BY <2>11
    <2> QED
        BY <2>8, <2>10, <2>12, Zenon DEF Readme
<1>2. Init /\ [][Next]_vars /\ []LedgerInv /\ []Proved!IInv => []PrintInv
    BY InitPrintInv, NextPrintInv, PTL
<1> QED
    BY <1>1, <1>2, LedgerInvariant, LedgerIsAccount, PTL DEF Spec
=============================================================================
