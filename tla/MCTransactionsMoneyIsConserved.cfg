CONSTANTS
    Alice = alice
    Bob = bob
    Carol = carol
    Keys = {alice, bob, carol}
    NoKey = nokey
    NoWallet = nowallet
    MaxOthers = 2
    MethodIds <- MCMethodIds
    OtherTxs <- MCOtherTxs

SPECIFICATION Spec

INVARIANT MoneyIsConserved
