---------------------------- MODULE AdminService ----------------------------
(***************************************************************************)
(* AdminService.manuallyValidateTransaction: an administrator declares     *)
(* that a payment the system holds for PENDING or FAILED went through.     *)
(***************************************************************************)
EXTENDS Store

\* The row is read: it exists and is not SUCCESS.
ManuallyValidate(w, t) ==
    /\ tx[t].status \in {"PENDING", "FAILED"}
    /\ Begin(w, NewFrame("adminRead", tx[t].order, t, None, 0, None))
    /\ UNCHANGED <<order, tx, credits, wallet, qr>>

\* A transaction updates the row, which locks it, and reads the order: PAID, it
\* commits at once ...
AdminRead(w) ==
    /\ req[w].pc = "adminRead"
    /\ Unlocked(req[w].t)
    /\ IF order[req[w].o].status = "PAID"
       THEN SetTxStatus(req[w].t, "SUCCESS") /\ Return(w)
       ELSE Goto(w, "adminCommit") /\ UNCHANGED tx
    /\ UNCHANGED <<order, credits, wallet, qr>>

\* ... and otherwise, whatever other status it is in, the order is settled and
\* the restaurants are credited by the same commit.
AdminCommit(w) ==
    /\ req[w].pc = "adminCommit"
    /\ tx' = [tx EXCEPT ![req[w].t].status = "SUCCESS"]
    /\ SetOrderPaid(req[w].o)
    /\ CreditRestaurants(req[w].o, "admin")
    /\ Return(w)
    /\ UNCHANGED <<wallet, qr>>

AdminBegin(w) == \E t \in Txs : ManuallyValidate(w, t)

AdminStep(w) == AdminRead(w) \/ AdminCommit(w)

=============================================================================
