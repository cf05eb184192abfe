--------------------------- MODULE WalletService ---------------------------
(***************************************************************************)
(* WalletService: recharging the wallet, paying an order with it.  Both    *)
(* read the balance outside the transaction that writes it, and write an   *)
(* absolute value.  frozenAmount is always 0: no code writes it after the  *)
(* wallet's creation.                                                      *)
(***************************************************************************)
EXTENDS Store

\* recharge reads the wallet ...
Recharge(w, u) ==
    /\ Begin(w, NewFrame("rechargeCommit", None, None, u, wallet[u].balance, None))
    /\ UNCHANGED <<order, tx, credits, wallet, qr>>

\* Mutated form of RechargeCommit: the balance is replaced by the amount.
RechargeCommitReplaces(w) ==
    /\ req[w].pc = "rechargeCommit"
    /\ wallet' = [wallet EXCEPT ![req[w].u] =
                    [balance |-> RechargeAmount, ledger |-> @.ledger + RechargeAmount]]
    /\ Return(w)
    /\ UNCHANGED <<order, tx, credits, qr>>

\* ... and writes the RECHARGE row and the balance in one transaction.
RechargeCommit(w) ==
    /\ req[w].pc = "rechargeCommit"
    /\ wallet' = [wallet EXCEPT ![req[w].u] =
                    [balance |-> req[w].n + RechargeAmount,
                     ledger |-> @.ledger + RechargeAmount]]
    /\ Return(w)
    /\ UNCHANGED <<order, tx, credits, qr>>

\* payWithWallet reads the wallet ...
PayWithWallet(w, o) ==
    /\ order[o].status # "ABSENT"
    /\ Begin(w, NewFrame("walletReadOrder", o, None, Owner[o], wallet[Owner[o]].balance, None))
    /\ UNCHANGED <<order, tx, credits, wallet, qr>>

\* Mutated form of WalletReadOrder: the balance is not checked.
WalletReadOrderUnchecked(w) ==
    /\ req[w].pc = "walletReadOrder"
    /\ IF order[req[w].o].status = "PENDING"
       THEN Goto(w, "walletCommit") ELSE Return(w)
    /\ UNCHANGED <<order, tx, credits, wallet, qr>>

\* ... then the order, which must be PENDING and cost no more than the balance ...
WalletReadOrder(w) ==
    /\ req[w].pc = "walletReadOrder"
    /\ IF /\ order[req[w].o].status = "PENDING"
          /\ req[w].n >= TotalAmount[req[w].o]
       THEN Goto(w, "walletCommit") ELSE Return(w)
    /\ UNCHANGED <<order, tx, credits, wallet, qr>>

\* ... and debits the wallet with a DEBIT_ORDER row, settles the order and credits the restaurants in
\* one transaction that looks at neither again.
WalletCommit(w) ==
    /\ req[w].pc = "walletCommit"
    /\ wallet' = [wallet EXCEPT ![req[w].u] = [balance |-> req[w].n - TotalAmount[req[w].o],
                                               ledger |-> @.ledger - TotalAmount[req[w].o]]]
    /\ SetOrderPaid(req[w].o)
    /\ CreditRestaurants(req[w].o, "wallet")
    /\ Return(w)
    /\ UNCHANGED <<tx, qr>>

WalletBegin(w) ==
    \/ \E u \in Users : Recharge(w, u)
    \/ \E o \in Orders : PayWithWallet(w, o)

WalletStep(w) == RechargeCommit(w) \/ WalletReadOrder(w) \/ WalletCommit(w)

=============================================================================
