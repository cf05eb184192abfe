-------------------------- MODULE PaymentsService --------------------------
(***************************************************************************)
(* PaymentsService: initiation of a payment, the two ways Orange Money     *)
(* reports one (the browser redirect and the webhook), the client's own    *)
(* verification, and the confirmation they share.  Calls the code rejects  *)
(* on its guards change nothing and are left out.                          *)
(***************************************************************************)
EXTENDS OrangeMoney

MAX_RETRIES == 3

PaymentFrame(pc, o, t) == NewFrame(pc, o, t, None, 0, None)

-----------------------------------------------------------------------------
(* initiatePayment *)

\* Bound: a payment starts only while a row id is left for it and for every
\* initiation in flight that has not taken its own yet.
RowLeft ==
    Cardinality({t \in Txs : Fresh(t)}) >
    Cardinality({w \in Workers : req[w].pc \in {"initCancelOld", "initGateway",
                                                 "initFailedRow", "initConfirm"}})

\* The order is read and must be payable.
InitiatePayment(w, o, method) ==
    /\ order[o].status \in {"PENDING", "AWAITING_PAYMENT"}
    /\ RowLeft
    /\ Begin(w, NewFrame(IF order[o].status = "AWAITING_PAYMENT"
                         THEN "initCancelOld" ELSE "initGateway", o, None, None, 0, method))
    /\ UNCHANGED <<order, tx, credits, wallet, qr>>

\* Mutated form of CancelOldTransactions: the updateMany is forgotten.
CancelOldTransactionsForgotten(w) ==
    /\ req[w].pc = "initCancelOld"
    /\ Goto(w, "initGateway")
    /\ UNCHANGED <<order, tx, credits, wallet, qr>>

\* A retry fails every payment row of the order that is still PENDING.
CancelOldTransactions(w) ==
    /\ req[w].pc = "initCancelOld"
    /\ \A t \in PendingTxs(req[w].o) : Unlocked(t)
    /\ tx' = [t \in Txs |-> IF t \in PendingTxs(req[w].o)
                            THEN [tx[t] EXCEPT !.status = "FAILED"] ELSE tx[t]]
    /\ Goto(w, "initGateway")
    /\ UNCHANGED <<order, credits, wallet, qr>>

\* getStrategy knows no CASH_ON_DELIVERY: the call throws, after the old rows failed.
GatewayUnsupported(w) ==
    /\ req[w].pc = "initGateway"
    /\ req[w].arg = "CASH_ON_DELIVERY"
    /\ Return(w)
    /\ UNCHANGED <<order, tx, credits, wallet, qr>>

\* The mock strategy always succeeds at once.
GatewaySynchronous(w) ==
    /\ req[w].pc = "initGateway"
    /\ req[w].arg = "WAVE"
    /\ Goto(w, "initConfirm")
    /\ UNCHANGED <<order, tx, credits, wallet, qr>>

\* Orange Money creates a QR for the order, or the call fails.
GatewayOrangeMoney(w) ==
    /\ req[w].pc = "initGateway"
    /\ req[w].arg = "ORANGE_MONEY"
    /\ \/ \E t \in Txs :
            /\ Fresh(t)
            /\ qr' = [qr EXCEPT ![t] = [state |-> "issued", order |-> req[w].o,
                                       quotedFor |-> {}]]
            /\ req' = [req EXCEPT ![w].pc = "initPendingRow", ![w].t = t]
            /\ UNCHANGED arrivals
       \/ Goto(w, "initFailedRow") /\ UNCHANGED qr
    /\ UNCHANGED <<order, tx, credits, wallet>>

\* The gateway refused: a FAILED row records it, the order is left as it is.
CreateFailedRow(w) ==
    /\ req[w].pc = "initFailedRow"
    /\ \E t \in Txs :
         /\ Fresh(t)
         /\ tx' = [tx EXCEPT ![t] = [status |-> "FAILED", order |-> req[w].o,
                                     provider |-> "ORANGE_MONEY"]]
    /\ Return(w)
    /\ UNCHANGED <<order, credits, wallet, qr>>

\* The gateway answered: a PENDING row refers to the QR ...
CreatePendingRow(w) ==
    /\ req[w].pc = "initPendingRow"
    /\ tx' = [tx EXCEPT ![req[w].t] = [status |-> "PENDING", order |-> req[w].o,
                                       provider |-> "ORANGE_MONEY"]]
    /\ Goto(w, "initOrder")
    /\ UNCHANGED <<order, credits, wallet, qr>>

\* ... and the order awaits its payment, whatever its status has become.  The
\* answer gives the client the QR, unless it ran out meanwhile.
AwaitPayment(w) ==
    /\ req[w].pc = "initOrder"
    /\ order' = [order EXCEPT ![req[w].o].status = "AWAITING_PAYMENT",
                              ![req[w].o].paymentMethod = "ORANGE_MONEY"]
    /\ qr' = [qr EXCEPT ![req[w].t].state = IF @ = "issued" THEN "open" ELSE @]
    /\ Return(w)
    /\ UNCHANGED <<tx, credits, wallet>>

\* confirmPayment: one transaction settles the order and credits the
\* restaurants, without looking at the order again.
ConfirmPayment(w) ==
    /\ req[w].pc = "initConfirm"
    /\ \E t \in Txs :
         /\ Fresh(t)
         /\ tx' = [tx EXCEPT ![t] = [status |-> "SUCCESS", order |-> req[w].o,
                                     provider |-> "WAVE"]]
    /\ order' = [order EXCEPT ![req[w].o] = [status |-> "PAID", paymentStatus |-> "PAID",
                                             paymentMethod |-> "WAVE"]]
    /\ CreditRestaurants(req[w].o, "online")
    /\ Return(w)
    /\ UNCHANGED <<wallet, qr>>

-----------------------------------------------------------------------------
(* Orange Money reports back *)

\* Mutated form of RedirectCallback: the success page is believed, not verified.
RedirectCallbackBelieved(w, o, type) ==
    /\ \E t \in PendingTxs(o) :
         /\ tx[t].provider = "ORANGE_MONEY"
         /\ order[o].status # "PAID"
         /\ Begin(w, PaymentFrame(IF type = "cancel" THEN "markFailed" ELSE "markSuccess", o, t))
    /\ UNCHANGED <<order, tx, credits, wallet, qr>>

\* handleOrangeMoneyRedirectCallback: the client's browser comes back from
\* Orange Money.  Some PENDING row of the order is picked up.
RedirectCallback(w, o, type) ==
    /\ \E t \in PendingTxs(o) :
         /\ tx[t].provider = "ORANGE_MONEY"
         /\ order[o].status # "PAID"
         /\ Begin(w, PaymentFrame(IF type = "cancel" THEN "markFailed" ELSE "verify", o, t))
    /\ UNCHANGED <<order, tx, credits, wallet, qr>>

\* Both pages are public and name an order only: Orange Money sends the browser to
\* one of them, and it may be loaded again at any time, whatever became of the QR.
Redirect(w) ==
    \E o \in Orders, type \in {"success", "cancel"} : RedirectCallback(w, o, type)

\* Mutated form of WebhookCallback: a paid order is not ignored.
WebhookCallbackOnPaid(w, o, status) ==
    /\ \E t \in PendingTxs(o) :
         Begin(w, PaymentFrame(CASE status = "paid" -> "markSuccess"
                                 [] status = "unknown" -> "verify"
                                 [] OTHER -> "markFailed", o, t))
    /\ UNCHANGED <<order, tx, credits, wallet, qr>>

\* handleOrangeMoneyCallback: the payload names the order and not the QR, so
\* that some PENDING row of the order is picked up.
WebhookCallback(w, o, status) ==
    /\ \E t \in PendingTxs(o) :
         /\ order[o].status # "PAID"
         /\ Begin(w, PaymentFrame(CASE status = "paid" -> "markSuccess"
                                    [] status = "unknown" -> "verify"
                                    [] OTHER -> "markFailed", o, t))
    /\ UNCHANGED <<order, tx, credits, wallet, qr>>

\* Orange Money posts its notification once a QR is settled: late, again, or
\* never; the payload may carry no status the code knows.  That nobody else posts
\* one, and that it tells the truth, is assumed: the route is public and unsigned.
Webhook(w) ==
    \E q \in Txs :
        /\ qr[q].state \in QrFinal
        /\ \E status \in {qr[q].state, "unknown"} : WebhookCallback(w, qr[q].order, status)

\* verifyPayment: the client polls one of his payments that is still PENDING.
VerifyPayment(w, t) ==
    /\ tx[t].status = "PENDING"
    /\ Begin(w, PaymentFrame(IF order[tx[t].order].status = "PAID"
                             THEN "settleTx" ELSE "clientVerify", tx[t].order, t))
    /\ UNCHANGED <<order, tx, credits, wallet, qr>>

-----------------------------------------------------------------------------
(* What the handlers do next *)

\* Both notifications: the API decides; pending leaves everything as it is.
Verify(w) ==
    /\ req[w].pc = "verify"
    /\ \E outcome \in VerifyOutcomes(req[w].t) :
         \/ outcome = "success" /\ Goto(w, "markSuccess")
         \/ outcome = "pending" /\ Return(w)
         \/ outcome = "failed" /\ Goto(w, "markFailed")
    /\ UNCHANGED <<order, tx, credits, wallet, qr>>

\* Mutated form of ClientVerify: pending is taken for a success.
ClientVerifyPending(w) ==
    /\ req[w].pc = "clientVerify"
    /\ \E q \in Txs : \E outcome \in VerifyOutcomes(q) :
         IF outcome # "failed"
         THEN /\ Goto(w, "markSuccess")
              /\ qr' = [qr EXCEPT ![q].quotedFor = @ \cup ({req[w].o} \ {qr[q].order})]
         ELSE Return(w) /\ UNCHANGED qr
    /\ UNCHANGED <<order, tx, credits, wallet>>

\* The client's verification acts on a success only.  It asks about the reference
\* the client sends, which is compared with that of the row by no code: q may be
\* the QR of another order, and quotedFor remembers that for the properties.
ClientVerify(w) ==
    /\ req[w].pc = "clientVerify"
    /\ \E q \in Txs : \E outcome \in VerifyOutcomes(q) :
         IF outcome = "success"
         THEN /\ Goto(w, "markSuccess")
              /\ qr' = [qr EXCEPT ![q].quotedFor = @ \cup ({req[w].o} \ {qr[q].order})]
         ELSE Return(w) /\ UNCHANGED qr
    /\ UNCHANGED <<order, tx, credits, wallet>>

\* The order was PAID already: only the row is settled.
SettleTx(w) ==
    /\ req[w].pc = "settleTx"
    /\ SetTxStatus(req[w].t, "SUCCESS")
    /\ Return(w)
    /\ UNCHANGED <<order, credits, wallet, qr>>

\* Mutated form of MarkSuccess: the row is left PENDING.
MarkSuccessForgotten(w) ==
    /\ req[w].pc = "markSuccess"
    /\ req' = [req EXCEPT ![w].pc = "confirmRead", ![w].n = 1]
    /\ UNCHANGED <<order, tx, credits, wallet, qr, arrivals>>

\* The row is settled first, in a write of its own ...
MarkSuccess(w) ==
    /\ req[w].pc = "markSuccess"
    /\ SetTxStatus(req[w].t, "SUCCESS")
    /\ req' = [req EXCEPT ![w].pc = "confirmRead", ![w].n = 1]
    /\ UNCHANGED <<order, credits, wallet, qr, arrivals>>

\* Mutated form of RetryOrThrow: one attempt too many.
RetryOrThrowOffByOne(w) ==
    /\ IF req[w].n <= MAX_RETRIES
       THEN req' = [req EXCEPT ![w].pc = "confirmRead", ![w].n = @ + 1]
       ELSE req' = [req EXCEPT ![w] = Idle]
    /\ UNCHANGED arrivals

\* Mutated form of RetryOrThrow: the attempts are not counted.
RetryOrThrowForever(w) == Goto(w, "confirmRead")

\* An attempt failed: after a delay the next one starts, the third one throws.
RetryOrThrow(w) ==
    /\ IF req[w].n < MAX_RETRIES
       THEN req' = [req EXCEPT ![w].pc = "confirmRead", ![w].n = @ + 1]
       ELSE req' = [req EXCEPT ![w] = Idle]
    /\ UNCHANGED arrivals

\* Mutated form of ConfirmRead: the order is not looked at again.
ConfirmReadUnchecked(w) ==
    /\ req[w].pc = "confirmRead"
    /\ Goto(w, "confirmCommit")
    /\ UNCHANGED <<order, tx, credits, wallet, qr>>

\* ... then confirmPaymentFromCallback opens a transaction and reads the order ...
ConfirmRead(w) ==
    /\ req[w].pc = "confirmRead"
    /\ IF order[req[w].o].status = "PAID" THEN Return(w) ELSE Goto(w, "confirmCommit")
    /\ UNCHANGED <<order, tx, credits, wallet, qr>>

\* ... which settles the order and credits the restaurants.  The commit may
\* succeed and its acknowledgement be lost: that attempt counts as failed.
ConfirmCommit(w) ==
    /\ req[w].pc = "confirmCommit"
    /\ SetOrderPaid(req[w].o)
    /\ CreditRestaurants(req[w].o, "online")
    /\ Return(w) \/ RetryOrThrow(w)
    /\ UNCHANGED <<tx, wallet, qr>>

\* The transaction failed and was rolled back.
ConfirmFails(w) ==
    /\ req[w].pc \in {"confirmRead", "confirmCommit"}
    /\ RetryOrThrow(w)
    /\ UNCHANGED <<order, tx, credits, wallet, qr>>

\* A refused payment fails its row first ...
MarkFailed(w) ==
    /\ req[w].pc = "markFailed"
    /\ SetTxStatus(req[w].t, "FAILED")
    /\ Goto(w, "resetOrder")
    /\ UNCHANGED <<order, credits, wallet, qr>>

\* Mutated form of ResetOrder: the payment status is reset as well.
ResetOrderUnpaid(w) ==
    /\ req[w].pc = "resetOrder"
    /\ order' = [order EXCEPT ![req[w].o].status = "PENDING",
                              ![req[w].o].paymentStatus = "UNPAID"]
    /\ Return(w)
    /\ UNCHANGED <<tx, credits, wallet, qr>>

\* ... then makes the order payable again, whatever its status has become.
ResetOrder(w) ==
    /\ req[w].pc = "resetOrder"
    /\ SetOrderStatus(req[w].o, "PENDING")
    /\ Return(w)
    /\ UNCHANGED <<tx, credits, wallet, qr>>

-----------------------------------------------------------------------------

PaymentsBegin(w) ==
    \/ \E o \in Orders, method \in PaymentMethod : InitiatePayment(w, o, method)
    \/ Redirect(w)
    \/ Webhook(w)
    \/ \E t \in Txs : VerifyPayment(w, t)

PaymentsStep(w) ==
    \/ CancelOldTransactions(w) \/ GatewayUnsupported(w) \/ GatewaySynchronous(w)
    \/ GatewayOrangeMoney(w) \/ CreateFailedRow(w) \/ CreatePendingRow(w)
    \/ AwaitPayment(w) \/ ConfirmPayment(w)
    \/ Verify(w) \/ ClientVerify(w) \/ SettleTx(w) \/ MarkSuccess(w)
    \/ ConfirmRead(w) \/ ConfirmCommit(w) \/ ConfirmFails(w)
    \/ MarkFailed(w) \/ ResetOrder(w)

=============================================================================
