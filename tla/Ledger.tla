------------------------------- MODULE Ledger -------------------------------
(***************************************************************************)
(* What the cryptocurrency service promises its users, however it is run:  *)
(* a transaction takes effect at once or never, and only one time; a       *)
(* wallet is created once, by its owner, with InitBalance in it; money     *)
(* leaves a wallet only by its owner's hand, up to what is in it; and who  *)
(* reads a wallet reads the last block or the one before.                  *)
(***************************************************************************)
EXTENDS Integers, FiniteSetsExt

CONSTANTS
    Keys,
    Txs,            \* records with a method, an author, a receiver and an amount
    CreateWalletId,
    TransferId,
    InitBalance,
    NoWallet

VARIABLES
    balances,   \* of each wallet
    done,       \* the transactions that took effect
    block,      \* balances and transactions of the last block
    public      \* the balances of the block readers see

vars == <<balances, done, block, public>>

NoWallets == [k \in Keys |-> NoWallet]

Init ==
    /\ balances = NoWallets /\ done = {}
    /\ block = [balances |-> NoWallets, done |-> {}]
    /\ public = NoWallets

Create(tx) ==
    /\ tx.method = CreateWalletId
    /\ tx \notin done /\ done' = done \union {tx}
    /\ balances[tx.author] = NoWallet
    /\ balances' = [balances EXCEPT ![tx.author] = InitBalance]
    /\ UNCHANGED <<block, public>>

\* What the receiver gets is added even where author and receiver are one.
Transfer(tx) ==
    /\ tx.method = TransferId
    /\ tx \notin done /\ done' = done \union {tx}
    /\ tx.to \in Keys
    /\ balances[tx.author] # NoWallet /\ balances[tx.to] # NoWallet
    /\ tx.amount <= balances[tx.author]
    /\ balances' = [k \in Keys |-> IF k = tx.to THEN balances[k] + tx.amount
                                   ELSE IF k = tx.author THEN balances[k] - tx.amount
                                   ELSE balances[k]]
    /\ UNCHANGED <<block, public>>

Commit ==
    /\ public = block.balances
    /\ block' = [balances |-> balances, done |-> done]
    /\ UNCHANGED <<balances, done, public>>

Publish ==
    /\ public' = block.balances
    /\ UNCHANGED <<balances, done, block>>

Next ==
    \/ \E tx \in Txs : Create(tx) \/ Transfer(tx)
    \/ Commit
    \/ Publish

Spec == Init /\ [][Next]_vars

-----------------------------------------------------------------------------
(* A ledger is an account of the transactions that took effect *)

Transfers(txs) == {tx \in txs : tx.method = TransferId}
Amounts(txs) == SumFunctionOnSet([tx \in Txs |-> tx.amount], txs)

\* A wallet is there when its creation took effect, and holds what it was
\* created with, all that was sent to it, less what its owner sent to others.
BalanceAfter(txs, k) ==
    InitBalance + Amounts({tx \in Transfers(txs) : tx.to = k})
                - Amounts({tx \in Transfers(txs) : tx.author = k /\ tx.to # k})

LedgerAfter(txs) ==
    [k \in Keys |-> IF \E tx \in txs : tx.method = CreateWalletId /\ tx.author = k
                    THEN BalanceAfter(txs, k) ELSE NoWallet]

\* All money there is: what the wallets were created with, and what transfers
\* to oneself added.
Holders(ledger) == {k \in Keys : ledger[k] # NoWallet}
Money(ledger) == SumFunctionOnSet(ledger, Holders(ledger))
MoneyAfter(txs, holders) ==
    InitBalance * Cardinality(holders) + Amounts({tx \in Transfers(txs) : tx.to = tx.author})
=============================================================================
