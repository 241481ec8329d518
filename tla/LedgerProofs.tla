---------------------------- MODULE LedgerProofs ----------------------------
(***************************************************************************)
(* Proofs about Ledger: balances and money are an account of the           *)
(* transactions that took effect, for any keys and transactions. They rest *)
(* on what sums over finite sets are, which is proved first.               *)
(***************************************************************************)
EXTENDS Ledger, FiniteSetTheorems, WellFoundedInduction, TLAPS

-----------------------------------------------------------------------------
(* Sums over finite sets: SumFunctionOnSet of the community modules, by      *)
(* induction over the number of elements                                     *)

\* A set of naturals that is not empty has a least element.
LEMMA LeastNatural ==
    ASSUME NEW T \in SUBSET Nat, T # {}
    PROVE  \E n \in T : \A m \in T : n <= m
<1> DEFINE R == OpToRel(<, Nat)
<1>1. IsWellFoundedOn(R, Nat)
    BY NatLessThanWellFounded
<1>2. \A x, y \in Nat : x < y => <<x, y>> \in R
    BY DEF OpToRel
<1> HIDE DEF R
<1>3. PICK n \in T : \A m \in T : <<m, n>> \notin R
    BY <1>1, WFMin
<1>4. ASSUME NEW m \in T
      PROVE  n <= m
    <2>1. n \in Nat /\ m \in Nat
        OBVIOUS
    <2>2. ~(m < n)
        BY <1>2, <1>3, <2>1
    <2> QED
        BY <2>1, <2>2
<1> QED
    BY <1>4

\* Induction, with the set of the numbers of which something holds in the
\* place of a predicate.
LEMMA NaturalInduction ==
    ASSUME NEW T, 0 \in T, \A n \in Nat : n \in T => n + 1 \in T
    PROVE  \A n \in Nat : n \in T
<1> SUFFICES ASSUME Nat \ T # {}
             PROVE  FALSE
    OBVIOUS
<1>1. PICK n \in Nat \ T : \A m \in Nat \ T : n <= m
    BY LeastNatural
<1>2. n # 0 /\ n - 1 \in Nat /\ n - 1 \in T
    BY <1>1
<1> QED
    BY <1>1, <1>2

\* The element a fold takes first, and the recursion it follows.
First(s) == CHOOSE x \in s : TRUE
SumStep(g, f, s) == IF s = {} THEN 0 ELSE f[First(s)] + g[s \ {First(s)}]
IsSum(g, f, S) == g = [s \in SUBSET S |-> SumStep(g, f, s)]

LEMMA SumUnfolds ==
    ASSUME NEW f, NEW S
    PROVE  SumFunctionOnSet(f, S) = (CHOOSE g : IsSum(g, f, S))[S]
BY DEF SumFunctionOnSet, FoldFunctionOnSet, MapThenFoldSet, IsSum, SumStep, First

LEMMA FirstIsRemoved ==
    ASSUME NEW s, IsFiniteSet(s), s # {}
    PROVE  /\ First(s) \in s
           /\ IsFiniteSet(s \ {First(s)})
           /\ Cardinality(s) \in Nat \ {0}
           /\ Cardinality(s \ {First(s)}) = Cardinality(s) - 1
<1>1. First(s) \in s
    BY DEF First
<1> QED
    BY <1>1, FS_RemoveElement, FS_CardinalityType, FS_EmptySet

\* The recursion has a solution.
LEMMA SumExists ==
    ASSUME NEW f, NEW S, IsFiniteSet(S)
    PROVE  \E g : IsSum(g, f, S)
<1> DEFINE Small(n) == {s \in SUBSET S : Cardinality(s) <= n}
           Solves(g, n) == g = [s \in Small(n) |-> SumStep(g, f, s)]
           T == {n \in Nat : \E g : Solves(g, n)}
<1>1. \A s \in SUBSET S : IsFiniteSet(s) /\ Cardinality(s) \in Nat
    BY FS_Subset, FS_CardinalityType
<1>2. 0 \in T
    <2> DEFINE g == [s \in Small(0) |-> 0]
    <2>1. \A s \in Small(0) : s = {}
        BY <1>1, FS_EmptySet
    <2>2. \A s \in Small(0) : SumStep(g, f, s) = 0
        BY <2>1 DEF SumStep
    <2>3. Solves(g, 0)
        BY <2>2
    <2> QED
        BY <2>3
<1>3. ASSUME NEW n \in Nat, n \in T
      PROVE  n + 1 \in T
    <2>1. PICK g : Solves(g, n)
        BY <1>3
    <2> DEFINE h == [s \in Small(n + 1) |-> SumStep(g, f, s)]
    <2>2. \A s \in Small(n) : s \in Small(n + 1) /\ h[s] = g[s]
        <3>1. \A s \in Small(n) : s \in Small(n + 1)
            BY <1>1
        <3>2. \A s \in Small(n) : g[s] = SumStep(g, f, s)
            BY <2>1
        <3> QED
            BY <3>1, <3>2
    <2>3. ASSUME NEW s \in Small(n + 1)
          PROVE  SumStep(h, f, s) = SumStep(g, f, s)
        <3>1. CASE s = {}
            BY <3>1 DEF SumStep
        <3>2. CASE s # {}
            <4>1. s \ {First(s)} \in Small(n)
                BY <1>1, <3>2, FirstIsRemoved
            <4>2. h[s \ {First(s)}] = g[s \ {First(s)}]
                BY <2>2, <4>1
            <4> QED
                BY <4>2 DEF SumStep
        <3> QED
            BY <3>1, <3>2
    <2>4. h = [s \in Small(n + 1) |-> SumStep(h, f, s)]
        BY <2>3
    <2> HIDE DEF h
    <2>5. Solves(h, n + 1)
        BY <2>4
    <2> HIDE DEF Solves
    <2>6. \E k : Solves(k, n + 1)
        BY <2>5
    <2> QED
        BY <2>6
<1> HIDE DEF T
<1>4. Cardinality(S) \in T
    BY <1>1, <1>2, <1>3, NaturalInduction
<1>5. Small(Cardinality(S)) = SUBSET S
    BY FS_Subset, <1>1
<1> QED
    BY <1>4, <1>5 DEF T, IsSum

\* It has one only, and its values are those of sums over smaller sets.
LEMMA SumIsUnique ==
    ASSUME NEW f, NEW g, NEW S, NEW U, S \subseteq U, IsFiniteSet(U),
           \A x \in S : f[x] = g[x],
           NEW sf, IsSum(sf, f, S), NEW sg, IsSum(sg, g, U)
    PROVE  \A s \in SUBSET S : sf[s] = sg[s]
<1> DEFINE T == {n \in Nat : \A s \in SUBSET S : Cardinality(s) = n => sf[s] = sg[s]}
<1>1. \A s \in SUBSET S : IsFiniteSet(s) /\ Cardinality(s) \in Nat
    BY FS_Subset, FS_CardinalityType
<1>2. \A s \in SUBSET S : sf[s] = SumStep(sf, f, s) /\ sg[s] = SumStep(sg, g, s)
    <2>1. \A s \in SUBSET S : s \in SUBSET U
        OBVIOUS
    <2>2. \A s \in SUBSET S : sf[s] = SumStep(sf, f, s)
        BY DEF IsSum
    <2>3. \A s \in SUBSET U : sg[s] = SumStep(sg, g, s)
        BY DEF IsSum
    <2> QED
        BY <2>1, <2>2, <2>3
<1>3. 0 \in T
    <2>1. \A s \in SUBSET S : Cardinality(s) = 0 => s = {}
        BY <1>1, FS_EmptySet
    <2> QED
        BY <1>2, <2>1 DEF SumStep
<1>4. ASSUME NEW n \in Nat, n \in T
      PROVE  n + 1 \in T
    <2> SUFFICES ASSUME NEW s \in SUBSET S, Cardinality(s) = n + 1
                 PROVE  sf[s] = sg[s]
        OBVIOUS
    <2>1. s # {}
        BY FS_EmptySet
    <2>2. /\ First(s) \in S /\ s \ {First(s)} \in SUBSET S
          /\ Cardinality(s \ {First(s)}) = n
        BY <1>1, <2>1, FirstIsRemoved
    <2>3. sf[s \ {First(s)}] = sg[s \ {First(s)}]
        BY <1>4, <2>2
    <2> QED
        BY <1>2, <2>1, <2>2, <2>3 DEF SumStep
<1> HIDE DEF T
<1>5. \A n \in Nat : n \in T
    BY <1>3, <1>4, NaturalInduction
<1> QED
    BY <1>1, <1>5 DEF T

LEMMA SumIsSum ==
    ASSUME NEW f, NEW S, IsFiniteSet(S)
    PROVE  \E g : IsSum(g, f, S) /\ g[S] = SumFunctionOnSet(f, S)
<1> DEFINE g == CHOOSE g : IsSum(g, f, S)
<1>1. IsSum(g, f, S)
    BY SumExists
<1> QED
    BY <1>1, SumUnfolds

\* Sums depend on the summands only.
LEMMA SumAgrees ==
    ASSUME NEW S, IsFiniteSet(S), NEW f, NEW g, \A x \in S : f[x] = g[x]
    PROVE  SumFunctionOnSet(f, S) = SumFunctionOnSet(g, S)
<1>1. PICK sf : IsSum(sf, f, S) /\ sf[S] = SumFunctionOnSet(f, S)
    BY SumIsSum
<1>2. PICK sg : IsSum(sg, g, S) /\ sg[S] = SumFunctionOnSet(g, S)
    BY SumIsSum
<1>3. sf[S] = sg[S]
    <2>1. S \in SUBSET S
        OBVIOUS
    <2> QED
        BY <1>1, <1>2, <2>1, SumIsUnique
<1> QED
    BY <1>1, <1>2, <1>3

LEMMA SumOfNone ==
    ASSUME NEW f
    PROVE  SumFunctionOnSet(f, {}) = 0
<1>1. PICK g : IsSum(g, f, {}) /\ g[{}] = SumFunctionOnSet(f, {})
    BY SumIsSum, FS_EmptySet
<1>2. g[{}] = SumStep(g, f, {})
    BY <1>1 DEF IsSum
<1> QED
    BY <1>1, <1>2 DEF SumStep

LEMMA SumOfFirst ==
    ASSUME NEW f, NEW S, IsFiniteSet(S), S # {}
    PROVE  SumFunctionOnSet(f, S) = f[First(S)] + SumFunctionOnSet(f, S \ {First(S)})
<1> DEFINE R == S \ {First(S)}
<1>1. PICK g : IsSum(g, f, S) /\ g[S] = SumFunctionOnSet(f, S)
    BY SumIsSum
<1>2. IsFiniteSet(R) /\ R \subseteq S
    BY FirstIsRemoved
<1> HIDE DEF R
<1>3. PICK h : IsSum(h, f, R) /\ h[R] = SumFunctionOnSet(f, R)
    BY <1>2, SumIsSum
<1>4. h[R] = g[R]
    <2>1. \A s \in SUBSET R : h[s] = g[s]
        BY <1>1, <1>2, <1>3, SumIsUnique
    <2> QED
        BY <2>1
<1>5. g[S] = SumStep(g, f, S)
    BY <1>1 DEF IsSum
<1> QED
    BY <1>1, <1>3, <1>4, <1>5 DEF SumStep, R

\* Sums of integers are integers; any element may be taken first.
LEMMA SumOfIntegers ==
    ASSUME NEW f, NEW S, IsFiniteSet(S), \A x \in S : f[x] \in Int
    PROVE  /\ SumFunctionOnSet(f, S) \in Int
           /\ \A y \in S : SumFunctionOnSet(f, S) = f[y] + SumFunctionOnSet(f, S \ {y})
<1> DEFINE Total(s) == SumFunctionOnSet(f, s)
           Holds(s) == Total(s) \in Int /\ \A y \in s : Total(s) = f[y] + Total(s \ {y})
           T == {n \in Nat : \A s \in SUBSET S : Cardinality(s) <= n => Holds(s)}
<1>1. \A s \in SUBSET S : IsFiniteSet(s) /\ Cardinality(s) \in Nat
    BY FS_Subset, FS_CardinalityType
<1>2. 0 \in T
    <2>1. Holds({})
        BY SumOfNone
    <2>2. \A s \in SUBSET S : Cardinality(s) <= 0 => s = {}
        BY <1>1, FS_EmptySet
    <2> HIDE DEF Holds
    <2> QED
        BY <2>1, <2>2
<1>3. ASSUME NEW n \in Nat, n \in T
      PROVE  n + 1 \in T
    <2> SUFFICES ASSUME NEW s \in SUBSET S, Cardinality(s) = n + 1
                 PROVE  Holds(s)
        BY <1>1, <1>3
    <2> DEFINE p == First(s)
    <2>1. s # {}
        BY FS_EmptySet
    <2>2. p \in s /\ p \in S
        BY <1>1, <2>1, FirstIsRemoved
    <2>3. \A y \in s : s \ {y} \in SUBSET S /\ Cardinality(s \ {y}) = n
        BY <1>1, FS_RemoveElement
    <2>4. Total(s) = f[p] + Total(s \ {p})
        BY <1>1, <2>1, SumOfFirst
    <2> HIDE DEF Total, p
    <2>5. \A y \in s : Holds(s \ {y})
        BY <1>3, <2>3
    <2>6. Total(s) \in Int
        BY <2>2, <2>4, <2>5
    <2>7. ASSUME NEW y \in s
          PROVE  Total(s) = f[y] + Total(s \ {y})
        <3>1. CASE y = p
            BY <2>4, <3>1
        <3>2. CASE y # p
            <4>1. y \in s \ {p} /\ p \in s \ {y} /\ (s \ {p}) \ {y} = (s \ {y}) \ {p}
                BY <2>2, <3>2
            <4>2. /\ Total(s \ {p}) = f[y] + Total((s \ {p}) \ {y})
                  /\ Total(s \ {y}) = f[p] + Total((s \ {p}) \ {y})
                BY <2>2, <2>5, <4>1
            <4>3. /\ f[y] \in Int /\ f[p] \in Int
                  /\ Total(s \ {p}) \in Int /\ Total(s \ {y}) \in Int
                BY <2>2, <2>5
            <4>4. Total((s \ {p}) \ {y}) \in Int
                <5>1. /\ (s \ {p}) \ {y} \in SUBSET S
                      /\ Cardinality((s \ {p}) \ {y}) <= n
                    <6>1. /\ s \ {p} \in SUBSET S /\ IsFiniteSet(s \ {p})
                          /\ Cardinality(s \ {p}) = n
                        BY <1>1, <2>2, <2>3
                    <6>2. Cardinality((s \ {p}) \ {y}) = n - 1
                        BY <4>1, <6>1, FS_RemoveElement
                    <6> QED
                        BY <6>1, <6>2
                <5> QED
                    BY <1>3, <5>1
            <4> QED
                BY <2>4, <4>2, <4>3, <4>4
        <3> QED
            BY <3>1, <3>2
    <2> QED
        BY <2>6, <2>7
<1> HIDE DEF T, Holds
<1>4. \A n \in Nat : n \in T
    BY <1>2, <1>3, NaturalInduction
<1>5. Holds(S)
    BY <1>1, <1>4 DEF T
<1> QED
    BY <1>5 DEF Holds

LEMMA SumWithElement ==
    ASSUME NEW f, NEW S, IsFiniteSet(S), \A y \in S : f[y] \in Int,
           NEW x, x \notin S, f[x] \in Int
    PROVE  SumFunctionOnSet(f, S \union {x}) = SumFunctionOnSet(f, S) + f[x]
<1> DEFINE U == S \union {x}
<1>1. IsFiniteSet(U) /\ x \in U /\ U \ {x} = S /\ \A y \in U : f[y] \in Int
    BY FS_AddElement
<1> HIDE DEF U
<1>2. SumFunctionOnSet(f, U) = f[x] + SumFunctionOnSet(f, S)
    BY <1>1, SumOfIntegers
<1>3. SumFunctionOnSet(f, S) \in Int
    BY SumOfIntegers
<1> QED
    BY <1>2, <1>3 DEF U

\* A change of one summand is a change of the sum.
LEMMA SumWithChange ==
    ASSUME NEW f, NEW g, NEW S, IsFiniteSet(S), \A y \in S : f[y] \in Int,
           NEW x \in S, g[x] \in Int, \A y \in S : y # x => g[y] = f[y]
    PROVE  SumFunctionOnSet(g, S) = SumFunctionOnSet(f, S) - f[x] + g[x]
<1> DEFINE R == S \ {x}
<1>1. IsFiniteSet(R) /\ \A y \in R : y \in S /\ g[y] = f[y]
    BY FS_RemoveElement
<1>2. \A y \in S : g[y] \in Int
    OBVIOUS
<1>3. SumFunctionOnSet(f, S) = f[x] + SumFunctionOnSet(f, R)
    BY SumOfIntegers
<1>4. SumFunctionOnSet(g, S) = g[x] + SumFunctionOnSet(g, R)
    BY <1>2, SumOfIntegers
<1> HIDE DEF R
<1>5. SumFunctionOnSet(g, R) = SumFunctionOnSet(f, R)
    BY <1>1, SumAgrees
<1>6. SumFunctionOnSet(f, R) \in Int
    BY <1>1, SumOfIntegers
<1> QED
    BY <1>3, <1>4, <1>5, <1>6

-----------------------------------------------------------------------------
(* Accounts *)

\* What a service that has wallets and transactions takes for granted.
WellFormed ==
    /\ NoWallet \notin Nat /\ InitBalance \in Nat
    /\ CreateWalletId # TransferId
    /\ \A tx \in Txs : tx.author \in Keys /\ tx.amount \in Nat

Ledgers == [Keys -> Nat \union {NoWallet}]

\* The ledger is what the transactions made; whoever takes part in a transfer
\* has a wallet, so a wallet that is created begins without a past.
Accounts(ledger, txs) ==
    /\ ledger \in Ledgers
    /\ txs \in SUBSET Txs /\ IsFiniteSet(txs)
    /\ \A tx \in Transfers(txs) :
        tx.to \in Keys /\ ledger[tx.author] # NoWallet /\ ledger[tx.to] # NoWallet
    /\ IsFiniteSet(Holders(ledger))
    /\ ledger = LedgerAfter(txs)
    /\ Money(ledger) = MoneyAfter(txs, Holders(ledger))

LEMMA AmountsType ==
    ASSUME WellFormed, NEW txs \in SUBSET Txs, IsFiniteSet(txs)
    PROVE  Amounts(txs) \in Int
<1> DEFINE f == [tx \in Txs |-> tx.amount]
<1>1. \A tx \in txs : f[tx] \in Int
    BY DEF WellFormed
<1> HIDE DEF f
<1>2. SumFunctionOnSet(f, txs) \in Int
    BY <1>1, SumOfIntegers
<1> QED
    BY <1>2 DEF Amounts, f

LEMMA AmountsOfNone ==
    Amounts({}) = 0
BY SumOfNone DEF Amounts

LEMMA AmountsWithElement ==
    ASSUME WellFormed, NEW txs \in SUBSET Txs, IsFiniteSet(txs), NEW tx \in Txs, tx \notin txs
    PROVE  Amounts(txs \union {tx}) = Amounts(txs) + tx.amount
<1> DEFINE f == [t \in Txs |-> t.amount]
<1>1. f[tx] = tx.amount /\ f[tx] \in Int /\ \A t \in txs : f[t] \in Int
    BY DEF WellFormed
<1> HIDE DEF f
<1>2. SumFunctionOnSet(f, txs \union {tx}) = SumFunctionOnSet(f, txs) + f[tx]
    BY <1>1, SumWithElement
<1> QED
    BY <1>1, <1>2 DEF Amounts, f

LEMMA NoWalletsAccount ==
    ASSUME WellFormed
    PROVE  Accounts(NoWallets, {})
<1>1. NoWallets \in Ledgers /\ IsFiniteSet({})
    BY FS_EmptySet DEF NoWallets, Ledgers
<1>2. Transfers({}) = {} /\ Holders(NoWallets) = {} /\ NoWallets = LedgerAfter({})
    BY DEF Transfers, Holders, NoWallets, LedgerAfter
<1>3. Money(NoWallets) = 0
    BY <1>2, SumOfNone DEF Money
<1>4. {tx \in Transfers({}) : tx.to = tx.author} = {}
    BY <1>2
<1>5. MoneyAfter({}, {}) = 0
    <2>1. MoneyAfter({}, {}) = InitBalance * 0 + 0
        BY <1>4, AmountsOfNone, FS_EmptySet, Zenon DEF MoneyAfter
    <2> QED
        BY <2>1 DEF WellFormed
<1> QED
    BY <1>1, <1>2, <1>3, <1>5 DEF Accounts

\* A creation that takes effect on a ledger that is an account leaves one.
LEMMA CreationAccounts ==
    ASSUME WellFormed, NEW ledger, NEW txs, Accounts(ledger, txs),
           NEW tx \in Txs, tx \notin txs, tx.method = CreateWalletId,
           ledger[tx.author] = NoWallet
    PROVE  Accounts([ledger EXCEPT ![tx.author] = InitBalance], txs \union {tx})
<1> DEFINE after == [ledger EXCEPT ![tx.author] = InitBalance]
           dn == txs \union {tx}
<1>0. /\ ledger \in Ledgers /\ txs \in SUBSET Txs /\ IsFiniteSet(txs)
      /\ IsFiniteSet(Holders(ledger)) /\ ledger = LedgerAfter(txs)
      /\ Money(ledger) = MoneyAfter(txs, Holders(ledger))
      /\ \A t \in Transfers(txs) :
            t.to \in Keys /\ ledger[t.author] # NoWallet /\ ledger[t.to] # NoWallet
    BY DEF Accounts
<1>1. tx.author \in Keys /\ InitBalance \in Nat /\ InitBalance # NoWallet
    BY DEF WellFormed
<1>2. after \in Ledgers
    BY <1>0, <1>1 DEF Ledgers
<1>3. \A k \in Keys : after[k] = IF k = tx.author THEN InitBalance ELSE ledger[k]
    BY <1>0 DEF Ledgers
<1>4. dn \in SUBSET Txs /\ IsFiniteSet(dn)
    BY <1>0, FS_AddElement
<1>5. Transfers(dn) = Transfers(txs) /\ Transfers(txs) \subseteq Txs
    BY <1>0 DEF Transfers, WellFormed
<1> HIDE DEF after, dn
<1>6. \A t \in Transfers(dn) :
        t.to \in Keys /\ after[t.author] # NoWallet /\ after[t.to] # NoWallet
    BY <1>0, <1>1, <1>3, <1>5 DEF WellFormed
<1>7. Holders(after) = Holders(ledger) \union {tx.author} /\ tx.author \notin Holders(ledger)
    BY <1>1, <1>3 DEF Holders
<1>8. after = LedgerAfter(dn)
    <2>1. ASSUME NEW k \in Keys
          PROVE  after[k] = LedgerAfter(dn)[k]
        <3>1. BalanceAfter(dn, k) = BalanceAfter(txs, k)
            BY <1>5 DEF BalanceAfter
        <3>2. CASE k = tx.author
            <4>1. \E t \in dn : t.method = CreateWalletId /\ t.author = k
                BY <3>2 DEF dn
            <4>2. /\ {t \in Transfers(txs) : t.to = k} = {}
                  /\ {t \in Transfers(txs) : t.author = k /\ t.to # k} = {}
                BY <1>0, <3>2
            <4>3. BalanceAfter(txs, k) = InitBalance + 0 - 0
                BY <4>2, AmountsOfNone, Zenon DEF BalanceAfter
            <4> QED
                BY <1>1, <1>3, <3>1, <3>2, <4>1, <4>3 DEF LedgerAfter
        <3>3. CASE k # tx.author
            <4>1. (\E t \in dn : t.method = CreateWalletId /\ t.author = k)
                    <=> (\E t \in txs : t.method = CreateWalletId /\ t.author = k)
                BY <3>3 DEF dn
            <4>2. after[k] = LedgerAfter(txs)[k]
                BY <1>0, <1>3, <3>3
            <4> QED
                BY <3>1, <4>1, <4>2 DEF LedgerAfter
        <3> QED
            BY <3>2, <3>3
    <2> QED
        BY <1>2, <2>1 DEF Ledgers, LedgerAfter
<1>9. Money(after) = MoneyAfter(dn, Holders(after)) /\ IsFiniteSet(Holders(after))
    <2> DEFINE H == Holders(ledger)
    <2>1. \A k \in H : ledger[k] \in Int /\ after[k] = ledger[k] /\ after[k] \in Int
        BY <1>0, <1>3, <1>7 DEF Holders, Ledgers
    <2>2. after[tx.author] = InitBalance
        BY <1>1, <1>3
    <2>3. IsFiniteSet(H) /\ tx.author \notin H /\ Holders(after) = H \union {tx.author}
        BY <1>0, <1>7
    <2> HIDE DEF H
    <2>4. SumFunctionOnSet(after, H \union {tx.author}) = SumFunctionOnSet(after, H) + InitBalance
        BY <1>1, <2>1, <2>2, <2>3, SumWithElement
    <2>5. SumFunctionOnSet(after, H) = SumFunctionOnSet(ledger, H)
        BY <2>1, <2>3, SumAgrees
    <2>6. Money(after) = Money(ledger) + InitBalance
        BY <2>3, <2>4, <2>5 DEF Money, H
    <2>7. Cardinality(H \union {tx.author}) = Cardinality(H) + 1 /\ Cardinality(H) \in Nat
          /\ IsFiniteSet(H \union {tx.author})
        BY <2>3, FS_AddElement, FS_CardinalityType
    <2>8. Amounts({t \in Transfers(txs) : t.to = t.author}) \in Int
        <3>1. IsFiniteSet({t \in Transfers(txs) : t.to = t.author})
            BY <1>0, FS_Subset DEF Transfers
        <3> QED
            BY <1>5, <3>1, AmountsType
    <2>9. InitBalance * (Cardinality(H) + 1) = InitBalance * Cardinality(H) + InitBalance
          /\ InitBalance * Cardinality(H) \in Int
        BY <1>1, <2>7
    <2> QED
        BY <1>0, <1>1, <1>5, <2>3, <2>6, <2>7, <2>8, <2>9 DEF MoneyAfter, H
<1> QED
    BY <1>2, <1>4, <1>6, <1>8, <1>9 DEF Accounts, after, dn

\* So does a transfer.
LEMMA TransferAccounts ==
    ASSUME WellFormed, NEW ledger, NEW txs, Accounts(ledger, txs),
           NEW tx \in Txs, tx \notin txs, tx.method = TransferId, tx.to \in Keys,
           ledger[tx.author] # NoWallet, ledger[tx.to] # NoWallet,
           tx.amount <= ledger[tx.author],
           NEW after,
           after = [k \in Keys |-> IF k = tx.to THEN ledger[k] + tx.amount
                                   ELSE IF k = tx.author THEN ledger[k] - tx.amount
                                   ELSE ledger[k]]
    PROVE  Accounts(after, txs \union {tx})
<1> DEFINE dn == txs \union {tx}
           H == Holders(ledger)
<1>0. /\ ledger \in Ledgers /\ txs \in SUBSET Txs /\ IsFiniteSet(txs)
      /\ IsFiniteSet(H) /\ ledger = LedgerAfter(txs)
      /\ Money(ledger) = MoneyAfter(txs, H)
      /\ \A t \in Transfers(txs) :
            t.to \in Keys /\ ledger[t.author] # NoWallet /\ ledger[t.to] # NoWallet
    BY DEF Accounts
<1>1. tx.author \in Keys /\ tx.amount \in Nat /\ InitBalance \in Nat
    BY DEF WellFormed
<1>2. ledger[tx.author] \in Nat /\ ledger[tx.to] \in Nat
    BY <1>0, <1>1 DEF Ledgers
<1>3. /\ after[tx.to] = ledger[tx.to] + tx.amount
      /\ tx.author # tx.to => after[tx.author] = ledger[tx.author] - tx.amount
      /\ \A k \in Keys : k # tx.to /\ k # tx.author => after[k] = ledger[k]
    BY <1>1
<1>4. after \in Ledgers
    <2>1. \A k \in Keys : after[k] \in Nat \union {NoWallet}
        BY <1>0, <1>1, <1>2, <1>3 DEF Ledgers
    <2> QED
        BY <2>1 DEF Ledgers
<1>5. \A k \in Keys : after[k] = NoWallet <=> ledger[k] = NoWallet
    BY <1>1, <1>2, <1>3 DEF WellFormed
<1>6. Holders(after) = H
    BY <1>5 DEF Holders
<1>7. dn \in SUBSET Txs /\ IsFiniteSet(dn)
    BY <1>0, FS_AddElement
<1>8. Transfers(dn) = Transfers(txs) \union {tx} /\ tx \notin Transfers(txs)
    BY DEF Transfers
<1>9. Transfers(txs) \in SUBSET Txs /\ IsFiniteSet(Transfers(txs))
    BY <1>0, FS_Subset DEF Transfers
<1> HIDE DEF dn, H
<1>10. \A t \in Transfers(dn) :
        t.to \in Keys /\ after[t.author] # NoWallet /\ after[t.to] # NoWallet
    BY <1>0, <1>1, <1>5, <1>8, <1>9 DEF WellFormed
\* A part of the transfers with tx in it weighs tx.amount more.
<1>11. ASSUME NEW part \in SUBSET Transfers(txs)
       PROVE  /\ Amounts(part) \in Int
              /\ Amounts(part \union {tx}) = Amounts(part) + tx.amount
    <2>1. part \in SUBSET Txs /\ IsFiniteSet(part) /\ tx \notin part
        BY <1>8, <1>9, FS_Subset
    <2> QED
        BY <2>1, AmountsType, AmountsWithElement
<1>12. after = LedgerAfter(dn)
    <2>1. ASSUME NEW k \in Keys
          PROVE  after[k] = LedgerAfter(dn)[k]
        <3> DEFINE In(s) == {t \in Transfers(s) : t.to = k}
                   Out(s) == {t \in Transfers(s) : t.author = k /\ t.to # k}
        <3>1. (\E t \in dn : t.method = CreateWalletId /\ t.author = k)
                <=> (\E t \in txs : t.method = CreateWalletId /\ t.author = k)
            BY DEF dn, WellFormed
        <3>2. /\ Amounts(In(txs)) \in Int /\ Amounts(Out(txs)) \in Int
              /\ Amounts(In(txs) \union {tx}) = Amounts(In(txs)) + tx.amount
              /\ Amounts(Out(txs) \union {tx}) = Amounts(Out(txs)) + tx.amount
            BY <1>11
        <3>3. /\ In(dn) = IF tx.to = k THEN In(txs) \union {tx} ELSE In(txs)
              /\ Out(dn) = IF tx.author = k /\ tx.to # k THEN Out(txs) \union {tx} ELSE Out(txs)
            BY <1>8
        <3>4. /\ BalanceAfter(dn, k) = InitBalance + Amounts(In(dn)) - Amounts(Out(dn))
              /\ BalanceAfter(txs, k) = InitBalance + Amounts(In(txs)) - Amounts(Out(txs))
            BY DEF BalanceAfter
        <3> HIDE DEF In, Out
        <3>5. BalanceAfter(dn, k) = IF k = tx.to THEN BalanceAfter(txs, k) + tx.amount
                                    ELSE IF k = tx.author THEN BalanceAfter(txs, k) - tx.amount
                                    ELSE BalanceAfter(txs, k)
            BY <1>1, <3>2, <3>3, <3>4
        <3>6. ledger[k] = LedgerAfter(txs)[k]
            BY <1>0
        <3>7. CASE ledger[k] = NoWallet
            <4>1. after[k] = NoWallet /\ k # tx.to /\ k # tx.author
                BY <1>5, <3>7
            <4> QED
                BY <3>1, <3>5, <3>6, <3>7, <4>1 DEF LedgerAfter
        <3>8. CASE ledger[k] # NoWallet
            <4>1. \E t \in dn : t.method = CreateWalletId /\ t.author = k
                BY <3>1, <3>6, <3>8 DEF LedgerAfter
            <4>2. ledger[k] = BalanceAfter(txs, k)
                BY <3>6, <3>8 DEF LedgerAfter
            <4> QED
                BY <1>3, <3>5, <4>1, <4>2 DEF LedgerAfter
        <3> QED
            BY <3>7, <3>8
    <2> QED
        BY <1>4, <2>1 DEF Ledgers, LedgerAfter
<1>13. Money(after) = MoneyAfter(dn, H)
    <2> DEFINE Self(s) == {t \in Transfers(s) : t.to = t.author}
    <2>1. \A k \in H : k \in Keys /\ ledger[k] \in Int
        BY <1>0 DEF H, Holders, Ledgers
    <2>2. tx.author \in H /\ tx.to \in H
        BY <1>1 DEF H, Holders
    <2>3. SumFunctionOnSet(ledger, H) \in Int /\ IsFiniteSet(H)
        BY <1>0, <2>1, SumOfIntegers
    <2>4. InitBalance * Cardinality(H) \in Int
        BY <1>1, <2>3, FS_CardinalityType
    <2>5. Amounts(Self(txs)) \in Int /\ Amounts(Self(txs) \union {tx}) = Amounts(Self(txs)) + tx.amount
        BY <1>11
    <2>6. /\ Money(after) = SumFunctionOnSet(after, H) /\ Money(ledger) = SumFunctionOnSet(ledger, H)
          /\ MoneyAfter(dn, H) = InitBalance * Cardinality(H) + Amounts(Self(dn))
          /\ MoneyAfter(txs, H) = InitBalance * Cardinality(H) + Amounts(Self(txs))
        BY <1>6 DEF Money, MoneyAfter, H
    <2>7. CASE tx.to = tx.author
        <3>1. Self(dn) = Self(txs) \union {tx}
            BY <1>8, <2>7
        <3>2. SumFunctionOnSet(after, H) = SumFunctionOnSet(ledger, H) - ledger[tx.to] + after[tx.to]
            <4>1. after[tx.to] \in Int /\ \A k \in H : k # tx.to => after[k] = ledger[k]
                BY <1>1, <1>2, <1>3, <2>1, <2>7
            <4> QED
                BY <2>1, <2>2, <2>3, <4>1, SumWithChange
        <3>3. SumFunctionOnSet(after, H) = SumFunctionOnSet(ledger, H) + tx.amount
            BY <1>1, <1>2, <1>3, <2>3, <3>2
        <3>4. SumFunctionOnSet(ledger, H) = InitBalance * Cardinality(H) + Amounts(Self(txs))
            BY <1>0, <2>6
        <3>5. Amounts(Self(dn)) = Amounts(Self(txs)) + tx.amount
            BY <2>5, <3>1
        <3> HIDE DEF Self
        <3> QED
            BY <1>1, <2>3, <2>4, <2>5, <2>6, <3>3, <3>4, <3>5
    <2>8. CASE tx.to # tx.author
        <3>1. Self(dn) = Self(txs)
            BY <1>8, <2>8
        <3> DEFINE half == [ledger EXCEPT ![tx.to] = ledger[tx.to] + tx.amount]
        <3>2. /\ half[tx.to] = after[tx.to] /\ half[tx.author] = ledger[tx.author]
              /\ \A k \in H : k # tx.to => half[k] = ledger[k]
              /\ \A k \in H : k # tx.author => after[k] = half[k]
            BY <1>0, <1>1, <1>3, <2>1, <2>8 DEF Ledgers
        <3>3. /\ after[tx.to] \in Int /\ after[tx.author] \in Int
            BY <1>1, <1>2, <1>3, <2>8
        <3>4. \A k \in H : half[k] \in Int
            BY <2>1, <3>2, <3>3
        <3> HIDE DEF half
        <3>5. SumFunctionOnSet(half, H) = SumFunctionOnSet(ledger, H) - ledger[tx.to] + half[tx.to]
            BY <2>1, <2>2, <2>3, <3>2, <3>4, SumWithChange
        <3>6. SumFunctionOnSet(after, H) = SumFunctionOnSet(half, H) - half[tx.author] + after[tx.author]
            BY <2>2, <2>3, <3>2, <3>3, <3>4, SumWithChange
        <3>7. SumFunctionOnSet(after, H) = SumFunctionOnSet(ledger, H)
            BY <1>1, <1>2, <1>3, <2>3, <2>8, <3>2, <3>5, <3>6
        <3> QED
            BY <1>0, <2>6, <3>1, <3>7
    <2> QED
        BY <2>7, <2>8
<1> QED
    BY <1>0, <1>4, <1>6, <1>7, <1>10, <1>12, <1>13 DEF Accounts, dn

-----------------------------------------------------------------------------
(* The ledger and its blocks *)

IInv == Accounts(balances, done) /\ Accounts(block.balances, block.done)

\* At any time, and in any block, every balance is what the transactions that
\* took effect made it, and so is all the money together.
THEOREM LedgersAreAccounts ==
    ASSUME WellFormed
    PROVE  Spec => []IInv
<1>1. Init => IInv
    BY NoWalletsAccount DEF Init, IInv
<1>2. IInv /\ [Next]_vars => IInv'
    <2> SUFFICES ASSUME IInv, [Next]_vars
                 PROVE  IInv'
        OBVIOUS
    <2>1. ASSUME NEW tx \in Txs, Create(tx)
          PROVE  IInv'
        BY <2>1, CreationAccounts DEF IInv, Create
    <2>2. ASSUME NEW tx \in Txs, Transfer(tx)
          PROVE  IInv'
        <3>1. Accounts(balances', done \union {tx})
            BY <2>2, TransferAccounts DEF IInv, Transfer
        <3> QED
            BY <2>2, <3>1 DEF IInv, Transfer
    <2>3. CASE Commit
        BY <2>3 DEF IInv, Commit
    <2>4. CASE Publish \/ UNCHANGED vars
        BY <2>4 DEF IInv, Publish, vars
    <2> QED
        BY <2>1, <2>2, <2>3, <2>4 DEF Next
<1> QED
    BY <1>1, <1>2, PTL DEF Spec
=============================================================================
