--------------------------- MODULE MCTransactions ---------------------------
(* One other user, who makes every kind of transaction there is: a wallet    *)
(* (twice), transfers to the script, to nobody, to herself and beyond her    *)
(* means, one with a malformed key, one called by a service, one that does   *)
(* not parse, and one of a method the service does not have.                 *)
EXTENDS Transactions

CONSTANT Carol

OtherMethodId == 3
MCMethodIds == {CreateWalletId, TransferId, OtherMethodId}

FromCarol(to, amount, seed) == TransferTx(Carol, to, amount, seed)

MCOtherTxs ==
    {CreateTx(Carol), [CreateTx(Carol) EXCEPT !.seed = 1],
     FromCarol(Carol, 40, 1), FromCarol(Bob, 60, 2), FromCarol(Bob, 120, 3),
     FromCarol(NoKey, 1, 4),
     [CreateTx(Alice) EXCEPT !.caller = "service"],
     [CreateTx(Carol) EXCEPT !.parses = FALSE],
     [CreateTx(Carol) EXCEPT !.method = OtherMethodId]}
=============================================================================
