--------------------------- MODULE PaymentProofs ---------------------------
(***************************************************************************)
(* Restaurants are credited for an online payment only if one was accepted *)
(* for the order: the inductive invariant PaymentInv, for every value of   *)
(* the constants.  And every step of a request brings it nearer its end.   *)
(***************************************************************************)
EXTENDS CheckoutProofs

\* What a step never takes back: rows and QR codes keep their order, a paid QR
\* stays paid, and so does a payment at the mock provider.
Grows ==
    /\ \A t \in Txs : tx[t].status # "ABSENT" =>
          /\ tx'[t].status # "ABSENT"
          /\ tx'[t].order = tx[t].order
          /\ tx'[t].provider = tx[t].provider
          /\ tx[t].provider = "WAVE" /\ tx[t].status = "SUCCESS" => tx'[t].status = "SUCCESS"
    /\ \A q \in Txs : qr[q].state # "ABSENT" =>
          /\ qr'[q].state # "ABSENT"
          /\ qr'[q].order = qr[q].order
          /\ qr[q].quotedFor \subseteq qr'[q].quotedFor
          /\ qr[q].state = "paid" => qr'[q].state = "paid"

LEMMA NothingMoved ==
    ASSUME UNCHANGED <<tx, qr>>
    PROVE  Grows /\ (RowsAgree => RowsAgree')
BY DEF Grows, RowsAgree

\* The status of one row that exists is set, of a row of Orange Money unless to SUCCESS.
LEMMA StatusSet ==
    ASSUME TypeOK, RowsAgree, NEW t \in Txs, NEW s \in {"SUCCESS", "FAILED"},
           tx[t].status # "ABSENT", s = "FAILED" => tx[t].provider = "ORANGE_MONEY",
           tx' = [tx EXCEPT ![t].status = s], UNCHANGED qr
    PROVE  Grows /\ RowsAgree'
<1>1. tx \in [Txs -> TxRow]
    BY DEF TypeOK
<1>2. \A x \in Txs : /\ tx'[x].order = tx[x].order
                     /\ tx'[x].provider = tx[x].provider
                     /\ tx'[x].status = IF x = t THEN s ELSE tx[x].status
    BY <1>1 DEF TxRow
<1>3. Grows
    BY <1>2 DEF Grows
<1>4. RowsAgree'
    BY <1>2 DEF RowsAgree
<1> QED BY <1>3, <1>4

\* A new row, whose QR if any is one of Orange Money's for the same order.
LEMMA RowInserted ==
    ASSUME TypeOK, RowsAgree, NEW t \in Txs, NEW s \in TransactionStatus, NEW o \in Orders,
           NEW m \in PaymentMethod,
           IF qr[t].state = "ABSENT"
           THEN tx[t].status = "ABSENT" /\ s # "PENDING"
           ELSE qr[t].order = o /\ m = "ORANGE_MONEY",
           tx' = [tx EXCEPT ![t] = [status |-> s, order |-> o, provider |-> m]],
           UNCHANGED qr
    PROVE  Grows /\ RowsAgree'
<1>1. tx \in [Txs -> TxRow]
    BY DEF TypeOK
<1>2. /\ tx'[t].status = s /\ tx'[t].order = o /\ tx'[t].provider = m
      /\ \A x \in Txs \ {t} : tx'[x] = tx[x]
    BY <1>1
<1>3. s # "ABSENT"
    BY DEF TransactionStatus
<1>4. Grows
    BY <1>2, <1>3 DEF Grows, RowsAgree
<1>5. RowsAgree'
    BY <1>2, <1>3 DEF RowsAgree
<1> QED BY <1>4, <1>5

\* The state of one QR that exists and is not paid is set.
LEMMA QrSet ==
    ASSUME TypeOK, RowsAgree, NEW t \in Txs, NEW s \in QrFinal \cup {"open"},
           qr[t].state # "ABSENT", qr[t].state # "paid",
           qr' = [qr EXCEPT ![t].state = s], UNCHANGED tx
    PROVE  Grows /\ RowsAgree'
<1>1. qr \in [Txs -> QrCode]
    BY DEF TypeOK
<1>2. \A x \in Txs : /\ qr'[x].order = qr[x].order
                     /\ qr'[x].quotedFor = qr[x].quotedFor
                     /\ qr'[x].state = IF x = t THEN s ELSE qr[x].state
    BY <1>1 DEF QrCode
<1>3. s # "ABSENT"
    BY DEF QrFinal
<1>4. Grows
    BY <1>2, <1>3 DEF Grows
<1>5. RowsAgree'
    BY <1>2, <1>3 DEF RowsAgree
<1> QED BY <1>4, <1>5

\* What the slot of a request that acts holds.
LEMMA FrameKnown ==
    ASSUME PaymentInv, NEW w \in Workers
    PROVE  /\ TypeOK /\ RowsAgree /\ OnlineCreditBacked
           /\ req[w] \in Frame /\ FrameOK(req[w]) /\ RequestBacked(req[w])
           /\ req[w].pc \in OrderSteps => req[w].o \in Orders
           /\ req[w].pc \in RowSteps => req[w].t \in Txs /\ req[w].o \in Orders
BY DEF PaymentInv, TypeOK, FrameOK, OrderSteps, RowSteps, Steps

\* A client's verification ends, or succeeds by a QR that is paid, which then counts for
\* the order of the request.
Quotes(w, q) ==
    /\ Goto(w, "markSuccess")
    /\ qr[q].state = "paid"
    /\ qr'[q].order = req[w].o \/ req[w].o \in qr'[q].quotedFor
    /\ \A x \in Txs : /\ qr'[x].state = qr[x].state
                      /\ qr'[x].order = qr[x].order
                      /\ qr[x].quotedFor \subseteq qr'[x].quotedFor
                      /\ qr'[x].quotedFor \subseteq
                           qr[x].quotedFor \cup (IF x = q THEN {req[w].o} ELSE {})

LEMMA ClientVerifyQuotes ==
    ASSUME PaymentInv, NEW w \in Workers, ClientVerify(w)
    PROVE  /\ UNCHANGED <<order, tx, credits, wallet>>
           /\ \/ Return(w) /\ UNCHANGED qr
              \/ \E q \in Txs : Quotes(w, q)
<1>1. qr \in [Txs -> QrCode] /\ UNCHANGED <<order, tx, credits, wallet>>
    BY DEF PaymentInv, TypeOK, ClientVerify
<1>2. CASE Return(w) /\ UNCHANGED qr
    BY <1>1, <1>2
<1>3. ASSUME NEW q \in Txs, qr[q].state = "paid", Goto(w, "markSuccess"),
             qr' = [qr EXCEPT ![q].quotedFor = @ \cup ({req[w].o} \ {qr[q].order})]
      PROVE  Quotes(w, q)
    <2>1. \A x \in Txs \ {q} : qr'[x] = qr[x]
        BY <1>1, <1>3
    <2>2. /\ qr'[q].state = "paid" /\ qr'[q].order = qr[q].order
          /\ qr'[q].quotedFor = qr[q].quotedFor \cup ({req[w].o} \ {qr[q].order})
        BY <1>1, <1>3 DEF QrCode
    <2> QED BY <1>3, <2>1, <2>2 DEF Quotes
<1>4. \A q \in Txs : "success" \in VerifyOutcomes(q) => qr[q].state = "paid"
    BY DEF VerifyOutcomes
<1> QED BY <1>1, <1>2, <1>3, <1>4 DEF ClientVerify

LEMMA PaymentsStepGrows ==
    ASSUME PaymentInv, NEW w \in Workers, PaymentsStep(w)
    PROVE  Grows /\ RowsAgree'
<1> DEFINE o == req[w].o
           t == req[w].t
<1>1. /\ TypeOK /\ RowsAgree
      /\ FrameOK(req[w]) /\ RequestBacked(req[w])
      /\ req[w].pc \in OrderSteps => o \in Orders
      /\ req[w].pc \in RowSteps => t \in Txs /\ o \in Orders
    BY FrameKnown
<1> USE <1>1
<1>2. CASE UNCHANGED <<tx, qr>>
    BY <1>2, NothingMoved
<1>3. CASE CancelOldTransactions(w)
    <2>1. \A x \in Txs : /\ tx'[x].order = tx[x].order
                         /\ tx'[x].provider = tx[x].provider
                         /\ \/ tx'[x].status = tx[x].status
                            \/ tx[x].status = "PENDING" /\ tx'[x].status = "FAILED"
        BY <1>3 DEF CancelOldTransactions, PendingTxs, TypeOK, TxRow
    <2>2. UNCHANGED qr
        BY <1>3 DEF CancelOldTransactions
    <2> QED BY <2>1, <2>2 DEF Grows, RowsAgree
<1>4. CASE GatewayOrangeMoney(w)
    <2>1. o \in Orders /\ UNCHANGED tx
        BY <1>4 DEF GatewayOrangeMoney, OrderSteps, Steps
    <2>2. CASE UNCHANGED qr
        BY <2>1, <2>2, NothingMoved
    <2>3. CASE ~ UNCHANGED qr
        <3>1. PICK q \in Txs : /\ Fresh(q)
                               /\ qr' = [qr EXCEPT ![q] = [state |-> "issued", order |-> o,
                                                           quotedFor |-> {}]]
            BY <1>4, <2>3 DEF GatewayOrangeMoney
        <3>2. /\ qr'[q].state = "issued" /\ qr'[q].order = o
              /\ \A x \in Txs \ {q} : qr'[x] = qr[x]
            BY <3>1 DEF TypeOK
        <3> QED BY <2>1, <3>1, <3>2 DEF Grows, RowsAgree, Fresh
    <2> QED BY <2>2, <2>3
<1>5. CASE CreateFailedRow(w)
    <2>1. o \in Orders /\ UNCHANGED qr
        BY <1>5 DEF CreateFailedRow, OrderSteps, Steps
    <2>2. PICK q \in Txs : /\ Fresh(q)
                           /\ tx' = [tx EXCEPT ![q] = [status |-> "FAILED", order |-> o,
                                                       provider |-> "ORANGE_MONEY"]]
        BY <1>5 DEF CreateFailedRow
    <2>3. "FAILED" \in TransactionStatus /\ "ORANGE_MONEY" \in PaymentMethod
        BY DEF TransactionStatus, PaymentMethod
    <2> QED BY <2>1, <2>2, <2>3, RowInserted DEF Fresh
<1>6. CASE CreatePendingRow(w)
    <2>1. /\ t \in Txs /\ o \in Orders
          /\ qr[t].state # "ABSENT" /\ qr[t].order = o
        BY <1>6 DEF CreatePendingRow, RowSteps, RequestBacked
    <2>2. "PENDING" \in TransactionStatus /\ "ORANGE_MONEY" \in PaymentMethod
        BY DEF TransactionStatus, PaymentMethod
    <2>3. /\ tx' = [tx EXCEPT ![t] = [status |-> "PENDING", order |-> o,
                                       provider |-> "ORANGE_MONEY"]]
          /\ UNCHANGED qr
        BY <1>6 DEF CreatePendingRow
    <2> QED BY <2>1, <2>2, <2>3, RowInserted
<1>7. CASE AwaitPayment(w)
    <2>1. t \in Txs /\ UNCHANGED tx
        BY <1>7 DEF AwaitPayment, RowSteps
    <2>2. CASE qr[t].state = "issued"
        BY <1>7, <2>1, <2>2, QrSet DEF AwaitPayment
    <2>3. CASE qr[t].state # "issued"
        <3>1. UNCHANGED qr
            BY <1>7, <2>1, <2>3 DEF AwaitPayment, TypeOK, QrCode
        <3> QED BY <2>1, <3>1, NothingMoved
    <2> QED BY <2>2, <2>3
<1>8. CASE ConfirmPayment(w)
    <2>1. o \in Orders /\ UNCHANGED qr
        BY <1>8 DEF ConfirmPayment, OrderSteps, Steps
    <2>2. PICK q \in Txs : /\ Fresh(q)
                           /\ tx' = [tx EXCEPT ![q] = [status |-> "SUCCESS", order |-> o,
                                                       provider |-> "WAVE"]]
        BY <1>8 DEF ConfirmPayment
    <2>3. "SUCCESS" \in TransactionStatus /\ "WAVE" \in PaymentMethod
        BY DEF TransactionStatus, PaymentMethod
    <2> QED BY <2>1, <2>2, <2>3, RowInserted DEF Fresh
<1>9. CASE SettleTx(w) \/ MarkSuccess(w)
    <2>1. t \in Txs /\ tx[t].status # "ABSENT"
        BY <1>9 DEF SettleTx, MarkSuccess, RowSteps, RequestBacked
    <2>2. tx' = [tx EXCEPT ![t].status = "SUCCESS"] /\ UNCHANGED qr
        BY <1>9 DEF SettleTx, MarkSuccess, SetTxStatus
    <2> QED BY <2>1, <2>2, StatusSet
<1>10. CASE MarkFailed(w)
    <2>1. t \in Txs /\ tx[t].status # "ABSENT" /\ qr[t].state # "ABSENT"
        BY <1>10 DEF MarkFailed, RowSteps, RequestBacked
    <2>2. tx[t].provider = "ORANGE_MONEY"
        BY <2>1 DEF RowsAgree
    <2>3. tx' = [tx EXCEPT ![t].status = "FAILED"] /\ UNCHANGED qr
        BY <1>10 DEF MarkFailed, SetTxStatus
    <2> QED BY <2>1, <2>2, <2>3, StatusSet
<1>11. CASE \/ GatewayUnsupported(w) \/ GatewaySynchronous(w) \/ Verify(w)
            \/ ConfirmRead(w) \/ ConfirmCommit(w) \/ ConfirmFails(w) \/ ResetOrder(w)
    BY <1>2, <1>11 DEF GatewayUnsupported, GatewaySynchronous, Verify,
       ConfirmRead, ConfirmCommit, ConfirmFails, ResetOrder
<1>12. CASE ClientVerify(w)
    <2>1. UNCHANGED tx /\ (UNCHANGED qr \/ \E q \in Txs : Quotes(w, q))
        BY <1>12, ClientVerifyQuotes
    <2>2. ASSUME NEW q \in Txs, Quotes(w, q) PROVE Grows /\ RowsAgree'
        BY <2>1, <2>2 DEF Quotes, Grows, RowsAgree
    <2> QED BY <1>2, <2>1, <2>2
<1> QED BY <1>3, <1>4, <1>5, <1>6, <1>7, <1>8, <1>9, <1>10, <1>11, <1>12 DEF PaymentsStep

\* No step takes back a row, a QR code or a payment, and rows and QR codes go on
\* to agree.
LEMMA NextGrows ==
    ASSUME PaymentInv, [Next]_vars
    PROVE  Grows /\ RowsAgree'
<1>1. TypeOK /\ RowsAgree
    BY DEF PaymentInv
<1>2. CASE UNCHANGED <<tx, qr>>
    BY <1>1, <1>2, NothingMoved
<1>3. CASE OrangeMoneyNext
    <2>1. PICK q \in Txs, s \in QrFinal :
            SetQr(q, s) /\ qr[q].state # "ABSENT" /\ qr[q].state # "paid"
        BY <1>3 DEF OrangeMoneyNext, PayQr, CancelQr, ExpireQr, QrFinal
    <2> QED BY <1>1, <2>1, QrSet DEF SetQr
<1>4. ASSUME NEW w \in Workers, AdminStep(w) PROVE Grows /\ RowsAgree'
    <2> DEFINE t == req[w].t
    <2>1. t \in Txs /\ tx[t].status # "ABSENT" /\ UNCHANGED qr
        BY <1>4, FrameKnown DEF AdminStep, AdminRead, AdminCommit, RowSteps, RequestBacked
    <2>2. UNCHANGED tx \/ tx' = [tx EXCEPT ![t].status = "SUCCESS"]
        BY <1>4 DEF AdminStep, AdminRead, AdminCommit, SetTxStatus
    <2> QED BY <1>1, <1>2, <2>1, <2>2, StatusSet
<1>5. ASSUME NEW w \in Workers, Arrive(w) \/ OrdersStep(w) \/ WalletStep(w) \/ Abort(w)
      PROVE  UNCHANGED <<tx, qr>>
    BY <1>5 DEF Arrive, PaymentsBegin, InitiatePayment, Redirect, RedirectCallback, Webhook,
       WebhookCallback, VerifyPayment, OrdersBegin, UpdateStatus, WalletBegin, Recharge,
       PayWithWallet, AdminBegin, ManuallyValidate, OrdersStep, WriteStatus, DeliverCod,
       WalletStep, RechargeCommit, WalletReadOrder, WalletCommit, Abort
<1>6. CASE OrdersCreate
    BY <1>2, <1>6 DEF OrdersCreate, Create
<1>7. CASE UNCHANGED vars
    BY <1>2, <1>7 DEF vars
<1> QED BY <1>2, <1>3, <1>4, <1>5, <1>6, <1>7, PaymentsStepGrows DEF Next, Step

-----------------------------------------------------------------------------
(* The requests in flight *)

\* A request that waits keeps what backs it.
LEMMA WaitingBacked ==
    ASSUME PaymentInv, Grows, NEW w \in Workers, req'[w] = req[w]
    PROVE  RequestBacked(req[w])'
<1>1. /\ RequestBacked(req[w])
      /\ req[w].pc \in RowSteps => req[w].t \in Txs
    BY FrameKnown
<1>2. PaidAtOrange(req[w].o) => PaidAtOrange(req[w].o)'
    BY DEF PaidAtOrange, Accepted, Grows
<1> QED BY <1>1, <1>2 DEF RequestBacked, Grows, RowSteps

LEMMA IdleBacked ==
    ASSUME NEW w \in Workers, req'[w] = Idle
    PROVE  RequestBacked(req[w])'
<1>1. req'[w].pc = "idle"
    BY DEF Idle, NewFrame
<1> QED BY <1>1 DEF RequestBacked, RowSteps

\* A frame at a step of the confirmation.
LEMMA ConfirmingBacked ==
    ASSUME PaymentInv, Grows, NEW w \in Workers,
           req[w].pc \in RowSteps \ {"initPendingRow"},
           PaidAtOrange(req[w].o) \/ PaidAtOrange(req[w].o)',
           req'[w].pc \in {"markSuccess", "confirmRead", "confirmCommit"},
           req'[w].o = req[w].o, req'[w].t = req[w].t
    PROVE  RequestBacked(req[w])'
<1>1. /\ RequestBacked(req[w])
      /\ req[w].t \in Txs
    BY FrameKnown
<1>2. PaidAtOrange(req[w].o)'
    BY DEF PaidAtOrange, Accepted, Grows
<1> QED BY <1>1, <1>2 DEF RequestBacked, Grows, RowSteps

\* What a step leaves in the slot of the request that takes it.
LEMMA StepMoves ==
    ASSUME TypeOK, NEW w \in Workers
    PROVE  /\ \A f : req' = [req EXCEPT ![w] = f] => req'[w] = f
           /\ Return(w) => req'[w] = Idle
           /\ \A pc : Goto(w, pc) => /\ req'[w].pc = pc
                                      /\ req'[w].o = req[w].o
                                      /\ req'[w].t = req[w].t
           /\ RetryOrThrow(w) => \/ req'[w] = Idle
                                 \/ /\ req'[w].pc = "confirmRead"
                                    /\ req'[w].o = req[w].o
                                    /\ req'[w].t = req[w].t
<1>1. req \in [Workers -> Frame]
    BY DEF TypeOK
<1>2. \A f : req' = [req EXCEPT ![w] = f] => req'[w] = f
    BY <1>1
<1>3. Return(w) => req'[w] = Idle
    BY <1>1 DEF Return
<1>4. \A pc : Goto(w, pc) => /\ req'[w].pc = pc
                             /\ req'[w].o = req[w].o
                             /\ req'[w].t = req[w].t
    BY <1>1 DEF Goto, Frame
<1>5. RetryOrThrow(w) => \/ req'[w] = Idle
                         \/ /\ req'[w].pc = "confirmRead"
                            /\ req'[w].o = req[w].o
                            /\ req'[w].t = req[w].t
    BY <1>1 DEF RetryOrThrow, Frame
<1> QED BY <1>2, <1>3, <1>4, <1>5

LEMMA PaymentsStepBacked ==
    ASSUME PaymentInv, Grows, NEW w \in Workers, PaymentsStep(w)
    PROVE  RequestBacked(req[w])'
<1> DEFINE o == req[w].o
           t == req[w].t
<1>1. /\ TypeOK /\ RowsAgree /\ RequestBacked(req[w])
      /\ req[w].pc \in OrderSteps => o \in Orders
      /\ req[w].pc \in RowSteps => t \in Txs /\ o \in Orders
    BY FrameKnown
<1>2. CASE Return(w)
    BY <1>1, <1>2, StepMoves, IdleBacked
<1>3. CASE \/ CancelOldTransactions(w) \/ GatewaySynchronous(w)
    <2>1. req'[w].pc \in {"initGateway", "initConfirm"}
        BY <1>1, <1>3, StepMoves DEF CancelOldTransactions, GatewaySynchronous
    <2> QED BY <2>1 DEF RequestBacked, RowSteps
<1>4. CASE GatewayOrangeMoney(w)
    <2>1. o \in Orders
        BY <1>1, <1>4 DEF GatewayOrangeMoney, OrderSteps, Steps
    <2>2. CASE Goto(w, "initFailedRow")
        <3>1. req'[w].pc = "initFailedRow"
            BY <1>1, <2>2, StepMoves
        <3> QED BY <3>1 DEF RequestBacked, RowSteps
    <2>3. ASSUME NEW q \in Txs,
                 qr' = [qr EXCEPT ![q] = [state |-> "issued", order |-> o, quotedFor |-> {}]],
                 req' = [req EXCEPT ![w].pc = "initPendingRow", ![w].t = q]
          PROVE  RequestBacked(req[w])'
        <3>1. qr'[q].state = "issued" /\ qr'[q].order = o
            BY <1>1, <2>3 DEF TypeOK
        <3>2. req'[w].pc = "initPendingRow" /\ req'[w].t = q /\ req'[w].o = o
            BY <1>1, <2>3 DEF TypeOK, Frame
        <3> QED BY <3>1, <3>2 DEF RequestBacked, RowSteps
    <2> QED BY <1>4, <2>2, <2>3 DEF GatewayOrangeMoney
<1>5. CASE CreatePendingRow(w)
    <2>1. req'[w].pc = "initOrder" /\ req'[w].o = o /\ req'[w].t = t
        BY <1>1, <1>5, StepMoves DEF CreatePendingRow
    <2>2. tx'[t].status = "PENDING" /\ tx'[t].order = o
        BY <1>1, <1>5 DEF CreatePendingRow, TypeOK, RowSteps
    <2> QED BY <2>1, <2>2 DEF RequestBacked, RowSteps
<1>6. CASE Verify(w) \/ ClientVerify(w)
    <2>1. /\ t \in Txs /\ qr[t].state # "ABSENT" /\ qr[t].order = o
          /\ req[w].pc \in {"verify", "clientVerify"}
        BY <1>1, <1>6 DEF Verify, ClientVerify, RequestBacked, RowSteps
    <2>2. CASE Goto(w, "markSuccess") /\ (PaidAtOrange(o) \/ PaidAtOrange(o)')
        <3>1. PaidAtOrange(o) \/ PaidAtOrange(o)'
            BY <2>2
        <3>2. req'[w].pc = "markSuccess" /\ req'[w].o = o /\ req'[w].t = t
            BY <1>1, <2>2, StepMoves
        <3> QED BY <2>1, <3>1, <3>2, ConfirmingBacked DEF RowSteps
    <2>3. CASE Goto(w, "markFailed")
        <3>1. req'[w].pc = "markFailed" /\ req'[w].o = o /\ req'[w].t = t
            BY <1>1, <2>3, StepMoves
        <3>2. tx[t].status # "ABSENT" /\ tx[t].order = o
            BY <1>1, <2>1 DEF RequestBacked, RowSteps
        <3> QED BY <2>1, <3>1, <3>2 DEF RequestBacked, Grows, RowSteps
    <2>4. CASE ClientVerify(w)
        <3>1. ASSUME NEW q \in Txs, Quotes(w, q) PROVE Goto(w, "markSuccess") /\ PaidAtOrange(o)'
            <4>1. req'[w].o = o
                BY <1>1, <3>1, StepMoves DEF Quotes
            <4>2. Accepted(q, o)'
                BY <3>1, <4>1 DEF Quotes, Accepted
            <4> QED BY <3>1, <4>2 DEF Quotes, PaidAtOrange
        <3> QED BY <1>2, <2>2, <2>4, <3>1, ClientVerifyQuotes
    <2>5. "success" \in VerifyOutcomes(t) => PaidAtOrange(o)
        BY <2>1 DEF VerifyOutcomes, PaidAtOrange, Accepted
    <2> QED BY <1>2, <1>6, <2>2, <2>3, <2>4, <2>5 DEF Verify
<1>7. CASE MarkSuccess(w)
    <2>1. req[w].pc = "markSuccess" /\ PaidAtOrange(o)
        BY <1>1, <1>7 DEF MarkSuccess, RequestBacked
    <2>2. req'[w].pc = "confirmRead" /\ req'[w].o = o /\ req'[w].t = t
        BY <1>1, <1>7 DEF MarkSuccess, TypeOK, Frame
    <2> QED BY <2>1, <2>2, ConfirmingBacked DEF RowSteps
<1>8. CASE ConfirmRead(w) \/ ConfirmCommit(w) \/ ConfirmFails(w)
    <2>1. req[w].pc \in {"confirmRead", "confirmCommit"} /\ PaidAtOrange(o)
        BY <1>1, <1>8 DEF ConfirmRead, ConfirmCommit, ConfirmFails, RequestBacked
    <2>2. CASE /\ req'[w].pc \in {"confirmRead", "confirmCommit"}
               /\ req'[w].o = o
               /\ req'[w].t = t
        BY <2>1, <2>2, ConfirmingBacked DEF RowSteps
    <2>3. Goto(w, "confirmCommit") \/ Return(w) \/ RetryOrThrow(w)
        BY <1>8 DEF ConfirmRead, ConfirmCommit, ConfirmFails
    <2> QED BY <1>1, <2>2, <2>3, StepMoves, IdleBacked
<1>9. CASE MarkFailed(w)
    <2>1. /\ t \in Txs /\ tx[t].status # "ABSENT" /\ tx[t].order = o
        BY <1>1, <1>9 DEF MarkFailed, RequestBacked, RowSteps
    <2>2. req'[w].pc = "resetOrder" /\ req'[w].o = o /\ req'[w].t = t
        BY <1>1, <1>9, StepMoves DEF MarkFailed
    <2> QED BY <2>1, <2>2 DEF RequestBacked, Grows, RowSteps
<1>10. CASE \/ GatewayUnsupported(w) \/ CreateFailedRow(w) \/ AwaitPayment(w)
            \/ ConfirmPayment(w) \/ SettleTx(w) \/ ResetOrder(w)
    BY <1>2, <1>10 DEF GatewayUnsupported, CreateFailedRow, AwaitPayment, ConfirmPayment,
       SettleTx, ResetOrder
<1> QED BY <1>3, <1>4, <1>5, <1>6, <1>7, <1>8, <1>9, <1>10 DEF PaymentsStep

\* A request arrives on a PENDING row of its order, or on no row at all.
LEMMA PaymentFrameBacked ==
    ASSUME PaymentInv, Grows, NEW w \in Workers, NEW pc \in RowSteps, NEW o, NEW t \in Txs,
           Begin(w, PaymentFrame(pc, o, t)),
           tx[t].status # "ABSENT", tx[t].order = o,
           pc \in {"initPendingRow", "verify", "clientVerify", "markFailed"}
               => qr[t].state # "ABSENT",
           pc \in {"markSuccess", "confirmRead", "confirmCommit"} => PaidAtOrange(o)
    PROVE  RequestBacked(req[w])'
<1>1. req'[w] = PaymentFrame(pc, o, t)
    BY DEF Begin, PaymentInv, TypeOK
<1>2. req'[w].pc = pc /\ req'[w].o = o /\ req'[w].t = t
    BY <1>1 DEF PaymentFrame, NewFrame
<1>3. tx'[t].status # "ABSENT" /\ tx'[t].order = o
    BY DEF Grows
<1>4. qr[t].state # "ABSENT" => qr'[t].state # "ABSENT" /\ qr'[t].order = o
    BY DEF Grows, PaymentInv, RowsAgree
<1>5. PaidAtOrange(o) => PaidAtOrange(req[w].o)'
    BY <1>2 DEF Grows, PaidAtOrange, Accepted
<1> QED BY <1>2, <1>3, <1>4, <1>5 DEF RequestBacked

LEMMA ArriveBacked ==
    ASSUME PaymentInv, Grows, NEW w \in Workers, Arrive(w)
    PROVE  RequestBacked(req[w])'
<1>1. TypeOK /\ RowsAgree
    BY DEF PaymentInv
<1>2. ASSUME NEW o \in Orders, NEW type \in {"success", "cancel"}, RedirectCallback(w, o, type)
      PROVE  RequestBacked(req[w])'
    <2>1. PICK t \in PendingTxs(o) :
            Begin(w, PaymentFrame(IF type = "cancel" THEN "markFailed" ELSE "verify", o, t))
        BY <1>2 DEF RedirectCallback
    <2>2. /\ t \in Txs /\ tx[t].status # "ABSENT" /\ tx[t].order = o
          /\ qr[t].state # "ABSENT"
        BY <1>1, <2>1 DEF PendingTxs, RowsAgree
    <2> QED BY <2>1, <2>2, PaymentFrameBacked DEF RowSteps
<1>3. ASSUME NEW q \in Txs, NEW status \in {qr[q].state, "unknown"}, qr[q].state \in QrFinal,
             WebhookCallback(w, qr[q].order, status)
      PROVE  RequestBacked(req[w])'
    <2> DEFINE pc == CASE status = "paid" -> "markSuccess"
                       [] status = "unknown" -> "verify"
                       [] OTHER -> "markFailed"
    <2>1. PICK t \in PendingTxs(qr[q].order) : Begin(w, PaymentFrame(pc, qr[q].order, t))
        BY <1>3 DEF WebhookCallback
    <2>2. /\ t \in Txs /\ tx[t].status # "ABSENT" /\ tx[t].order = qr[q].order
          /\ qr[t].state # "ABSENT"
        BY <1>1, <2>1 DEF PendingTxs, RowsAgree
    <2>3. pc \in {"markSuccess", "verify", "markFailed"}
        OBVIOUS
    <2>4. pc = "markSuccess" => status = "paid"
        OBVIOUS
    <2>5. status = "paid" => PaidAtOrange(qr[q].order)
        BY <1>3 DEF PaidAtOrange, Accepted
    <2> HIDE DEF pc
    <2> QED BY <2>1, <2>2, <2>3, <2>4, <2>5, PaymentFrameBacked DEF RowSteps
<1>4. ASSUME NEW t \in Txs, VerifyPayment(w, t)
      PROVE  RequestBacked(req[w])'
    <2>1. /\ tx[t].status # "ABSENT" /\ qr[t].state # "ABSENT"
          /\ Begin(w, PaymentFrame(IF order[tx[t].order].status = "PAID"
                                   THEN "settleTx" ELSE "clientVerify", tx[t].order, t))
        BY <1>1, <1>4 DEF VerifyPayment, RowsAgree
    <2> QED BY <2>1, PaymentFrameBacked DEF RowSteps
<1>5. ASSUME NEW t \in Txs, ManuallyValidate(w, t)
      PROVE  RequestBacked(req[w])'
    <2>1. tx[t].status # "ABSENT" /\ Begin(w, PaymentFrame("adminRead", tx[t].order, t))
        BY <1>5 DEF ManuallyValidate, PaymentFrame
    <2> QED BY <2>1, PaymentFrameBacked DEF RowSteps
<1>6. ASSUME NEW f, f.pc \notin RowSteps, Begin(w, f)
      PROVE  RequestBacked(req[w])'
    <2>1. req'[w] = f
        BY <1>1, <1>6 DEF Begin, TypeOK
    <2> QED BY <1>6, <2>1 DEF RequestBacked, RowSteps
<1>7. ASSUME NEW o \in Orders, NEW method \in PaymentMethod, InitiatePayment(w, o, method)
      PROVE  RequestBacked(req[w])'
    BY <1>6, <1>7 DEF InitiatePayment, NewFrame, RowSteps
<1>8. ASSUME NEW o \in Orders, NEW status \in OrderStatus, UpdateStatus(w, o, status)
      PROVE  RequestBacked(req[w])'
    BY <1>6, <1>8 DEF UpdateStatus, NewFrame, RowSteps
<1>9. CASE WalletBegin(w)
    BY <1>6, <1>9 DEF WalletBegin, Recharge, PayWithWallet, NewFrame, RowSteps
<1> QED BY <1>2, <1>3, <1>4, <1>5, <1>7, <1>8, <1>9
        DEF Arrive, PaymentsBegin, Redirect, Webhook, OrdersBegin, AdminBegin

\* A step of one request leaves the others suspended where they are.
LEMMA OthersWait ==
    ASSUME TypeOK, NEW w \in Workers, NEW x \in Workers, w # x,
           Arrive(w) \/ Step(w) \/ Abort(w)
    PROVE  req'[x] = req[x]
<1>1. req \in [Workers -> Frame]
    BY DEF TypeOK
<1>2. ASSUME NEW f, Begin(w, f)
      PROVE  req'[x] = req[x]
    BY <1>1, <1>2 DEF Begin
<1>3. CASE Arrive(w)
    BY <1>2, <1>3 DEF Arrive, PaymentsBegin, InitiatePayment, Redirect, RedirectCallback,
       Webhook, WebhookCallback, VerifyPayment, OrdersBegin, UpdateStatus, WalletBegin,
       Recharge, PayWithWallet, AdminBegin, ManuallyValidate
<1>4. CASE Abort(w)
    BY <1>1, <1>4 DEF Abort, Return
<1>5. ASSUME Return(w) \/ (\E pc : Goto(w, pc)) \/ RetryOrThrow(w)
      PROVE  req'[x] = req[x]
    BY <1>1, <1>5 DEF Return, Goto, RetryOrThrow
<1>6. CASE OrdersStep(w) \/ WalletStep(w) \/ AdminStep(w)
    BY <1>5, <1>6 DEF OrdersStep, WriteStatus, DeliverCod, WalletStep, RechargeCommit,
       WalletReadOrder, WalletCommit, AdminStep, AdminRead, AdminCommit
<1>7. CASE GatewayOrangeMoney(w) \/ MarkSuccess(w)
    BY <1>1, <1>5, <1>7 DEF GatewayOrangeMoney, MarkSuccess
<1>8. CASE \/ CancelOldTransactions(w) \/ GatewayUnsupported(w) \/ GatewaySynchronous(w)
           \/ CreateFailedRow(w) \/ CreatePendingRow(w) \/ AwaitPayment(w)
           \/ ConfirmPayment(w) \/ Verify(w) \/ ClientVerify(w) \/ SettleTx(w)
           \/ ConfirmRead(w) \/ ConfirmCommit(w) \/ ConfirmFails(w)
           \/ MarkFailed(w) \/ ResetOrder(w)
    BY <1>5, <1>8 DEF CancelOldTransactions, GatewayUnsupported, GatewaySynchronous,
       CreateFailedRow, CreatePendingRow, AwaitPayment, ConfirmPayment, Verify,
       ClientVerify, SettleTx, ConfirmRead, ConfirmCommit, ConfirmFails, MarkFailed,
       ResetOrder
<1> QED BY <1>3, <1>4, <1>6, <1>7, <1>8 DEF Step, PaymentsStep

\* Whatever the step, every request in flight is backed after it.
LEMMA NextBacked ==
    ASSUME PaymentInv, Grows, [Next]_vars
    PROVE  \A w \in Workers : RequestBacked(req[w])'
<1> SUFFICES ASSUME NEW x \in Workers
             PROVE  RequestBacked(req[x])'
    OBVIOUS
<1>1. CASE req'[x] = req[x]
    BY <1>1, WaitingBacked
<1>2. CASE req'[x] = Idle
    BY <1>2, IdleBacked
<1>3. ASSUME NEW w \in Workers, w # x, Arrive(w) \/ Step(w) \/ Abort(w)
      PROVE  req'[x] = req[x]
    BY <1>3, FrameKnown, OthersWait
<1>4. CASE Arrive(x)
    BY <1>4, ArriveBacked
<1>5. CASE PaymentsStep(x)
    BY <1>5, PaymentsStepBacked
<1>6. CASE OrdersStep(x) \/ WalletStep(x) \/ AdminStep(x) \/ Abort(x)
    <2>1. TypeOK /\ FrameOK(req[x]) /\ RequestBacked(req[x])
          /\ (req[x].pc \in RowSteps => req[x].t \in Txs)
        BY FrameKnown
    <2>2. Return(x) \/ Goto(x, "walletCommit")
            \/ (Goto(x, "adminCommit") /\ req[x].pc = "adminRead")
        BY <1>6 DEF OrdersStep, WriteStatus, DeliverCod, WalletStep, RechargeCommit,
           WalletReadOrder, WalletCommit, AdminStep, AdminRead, AdminCommit, Abort
    <2>3. CASE Goto(x, "walletCommit")
        <3>1. req'[x].pc = "walletCommit"
            BY <2>1, <2>3, StepMoves
        <3> QED BY <3>1 DEF RequestBacked, RowSteps
    <2>4. CASE Goto(x, "adminCommit") /\ req[x].pc = "adminRead"
        <3>1. req'[x].pc = "adminCommit" /\ req'[x].o = req[x].o /\ req'[x].t = req[x].t
            BY <2>1, <2>4, StepMoves
        <3> QED BY <2>1, <2>4, <3>1 DEF RequestBacked, Grows, RowSteps
    <2> QED BY <1>2, <2>1, <2>2, <2>3, <2>4, StepMoves
<1>7. CASE OrdersCreate \/ OrangeMoneyNext \/ UNCHANGED vars
    BY <1>1, <1>7 DEF OrdersCreate, Create, OrangeMoneyNext, PayQr, CancelQr, ExpireQr, SetQr, vars
<1> QED BY <1>1, <1>3, <1>4, <1>5, <1>6, <1>7 DEF Next, Step

-----------------------------------------------------------------------------
(* The credits *)

\* A credit of another origin, or none, leaves the online credits as they are.
LEMMA OtherOrigin ==
    ASSUME TypeOK, NEW o \in Orders, NEW origin \in Origins, origin # "online",
           CreditRestaurants(o, origin)
    PROVE  \A x \in Orders : credits'[x]["online"] = credits[x]["online"]
BY DEF CreditRestaurants, TypeOK, Origins

\* Every step keeps online credits backed.
LEMMA NextOnlineCreditBacked ==
    ASSUME PaymentInv, Grows, [Next]_vars
    PROVE  OnlineCreditBacked'
<1>1. TypeOK /\ RowsAgree /\ OnlineCreditBacked
    BY DEF PaymentInv
<1>2. ASSUME NEW o \in Orders, PaidAtOrange(o) \/ PaidByMock(o)
      PROVE  PaidAtOrange(o)' \/ PaidByMock(o)'
    BY <1>2 DEF PaidAtOrange, Accepted, PaidByMock, Grows
<1>3. CASE \A x \in Orders : credits'[x]["online"] = credits[x]["online"]
    BY <1>1, <1>2, <1>3 DEF OnlineCreditBacked
<1>4. CASE UNCHANGED credits
    BY <1>3, <1>4
<1>5. ASSUME NEW o \in Orders, CreditRestaurants(o, "online"),
             PaidAtOrange(o)' \/ PaidByMock(o)'
      PROVE  OnlineCreditBacked'
    <2>1. \A x \in Orders \ {o} : credits'[x] = credits[x]
        BY <1>1, <1>5 DEF CreditRestaurants, TypeOK
    <2> QED BY <1>1, <1>2, <1>5, <2>1 DEF OnlineCreditBacked
<1>6. ASSUME NEW w \in Workers, ConfirmPayment(w)
      PROVE  OnlineCreditBacked'
    <2>1. PICK o \in Orders : o = req[w].o
        BY <1>6, FrameKnown DEF ConfirmPayment, OrderSteps, Steps
    <2>2. PICK t \in Txs : tx' = [tx EXCEPT ![t] = [status |-> "SUCCESS", order |-> o,
                                                    provider |-> "WAVE"]]
        BY <1>6, <2>1 DEF ConfirmPayment
    <2>3. /\ tx'[t].status = "SUCCESS"
          /\ tx'[t].order = o
          /\ tx'[t].provider = "WAVE"
        BY <1>1, <2>2 DEF TypeOK
    <2>4. PaidByMock(o)'
        BY <2>3 DEF PaidByMock
    <2> QED BY <1>5, <1>6, <2>1, <2>4 DEF ConfirmPayment
<1>7. ASSUME NEW w \in Workers, ConfirmCommit(w)
      PROVE  OnlineCreditBacked'
    <2>1. req[w].o \in Orders /\ PaidAtOrange(req[w].o)
        BY <1>7, FrameKnown DEF ConfirmCommit, RowSteps, RequestBacked
    <2> QED BY <1>2, <1>5, <1>7, <2>1 DEF ConfirmCommit
<1>8. ASSUME NEW w \in Workers, PaymentsStep(w)
      PROVE  OnlineCreditBacked'
    BY <1>4, <1>6, <1>7, <1>8 DEF PaymentsStep, CancelOldTransactions, GatewayUnsupported,
       GatewaySynchronous, GatewayOrangeMoney, CreateFailedRow, CreatePendingRow, AwaitPayment,
       Verify, ClientVerify, SettleTx, MarkSuccess, ConfirmRead, ConfirmFails, MarkFailed,
       ResetOrder
<1>9. ASSUME NEW w \in Workers, OrdersStep(w) \/ WalletStep(w) \/ AdminStep(w)
      PROVE  OnlineCreditBacked'
    <2>1. CASE DeliverCod(w)
        <3>1. req[w].o \in Orders
            BY <2>1, FrameKnown DEF DeliverCod, OrderSteps, Steps
        <3> QED BY <1>1, <1>3, <2>1, <3>1, OtherOrigin DEF DeliverCod, Origins
    <2>2. CASE WalletCommit(w)
        <3>1. req[w].o \in Orders
            BY <2>2, FrameKnown DEF WalletCommit, OrderSteps, Steps
        <3> QED BY <1>1, <1>3, <2>2, <3>1, OtherOrigin DEF WalletCommit, Origins
    <2>3. CASE AdminCommit(w)
        <3>1. req[w].o \in Orders
            BY <2>3, FrameKnown DEF AdminCommit, OrderSteps, Steps
        <3> QED BY <1>1, <1>3, <2>3, <3>1, OtherOrigin DEF AdminCommit, Origins
    <2> QED BY <1>4, <1>9, <2>1, <2>2, <2>3 DEF OrdersStep, WriteStatus, WalletStep,
           RechargeCommit, WalletReadOrder, AdminStep, AdminRead
<1>10. ASSUME NEW w \in Workers, Arrive(w) \/ Abort(w)
       PROVE  UNCHANGED credits
    BY <1>10 DEF Arrive, PaymentsBegin, InitiatePayment, Redirect, RedirectCallback, Webhook,
       WebhookCallback, VerifyPayment, OrdersBegin, UpdateStatus, WalletBegin, Recharge,
       PayWithWallet, AdminBegin, ManuallyValidate, Abort
<1>11. CASE OrdersCreate \/ OrangeMoneyNext \/ UNCHANGED vars
    BY <1>4, <1>11 DEF OrdersCreate, Create, OrangeMoneyNext, PayQr, CancelQr, ExpireQr, SetQr,
       vars
<1> QED BY <1>4, <1>8, <1>9, <1>10, <1>11 DEF Next, Step

-----------------------------------------------------------------------------
(* The invariant *)

LEMMA InitPaymentInv == Init => PaymentInv
<1> SUFFICES ASSUME Init PROVE PaymentInv
    OBVIOUS
<1> USE DEF Init, StoreInit
<1>1. RowsAgree
    BY DEF RowsAgree
<1>2. \A w \in Workers : RequestBacked(req[w])
    BY DEF RequestBacked, RowSteps, Idle, NewFrame
<1>3. OnlineCreditBacked
    BY DEF OnlineCreditBacked, Origins
<1> QED BY <1>1, <1>2, <1>3, InitTypeOK DEF PaymentInv

LEMMA NextPaymentInv == PaymentInv /\ [Next]_vars => PaymentInv'
<1> SUFFICES ASSUME PaymentInv, [Next]_vars PROVE PaymentInv'
    OBVIOUS
<1>1. TypeOK'
    BY NextTypeOK DEF PaymentInv
<1>2. Grows /\ RowsAgree'
    BY NextGrows
<1>3. (\A w \in Workers : RequestBacked(req[w]))'
    BY <1>2, NextBacked
<1>4. OnlineCreditBacked'
    BY <1>2, NextOnlineCreditBacked
<1> QED BY <1>1, <1>2, <1>3, <1>4 DEF PaymentInv

\* PaymentInv holds in every reachable state: types, rows and QR codes that
\* agree, requests that work on rows of their own order.
THEOREM PaymentInvariant == Spec => []PaymentInv
BY InitPaymentInv, NextPaymentInv, PTL DEF Spec

\* The tables and every suspended handler are well typed in every reachable
\* state; in particular no confirmation makes more than MAX_RETRIES attempts.
THEOREM TypeCorrect == Spec => []TypeOK
<1>1. PaymentInv => TypeOK
    BY DEF PaymentInv
<1> QED BY <1>1, PaymentInvariant, PTL

\* Whatever the interleaving, the crashes and the answers of Orange Money, and given
\* that its notifications are truthful, restaurants are credited for an online
\* payment of an order only if one of its QR codes was paid, a paid QR was quoted to
\* verify it, or the mock provider took the payment.
THEOREM OnlineCreditsBacked == Spec => []OnlineCreditBacked
<1>1. PaymentInv => OnlineCreditBacked
    BY DEF PaymentInv
<1> QED BY <1>1, PaymentInvariant, PTL

-----------------------------------------------------------------------------
(* Requests end *)

\* Steps that end a request whatever they find.
LastSteps == {"initFailedRow", "initOrder", "initConfirm", "settleTx", "resetOrder",
              "updateStatus", "updateCod", "rechargeCommit", "walletCommit", "adminCommit"}

\* StepsLeft, read step by step.
LEMMA StepsLeftAt ==
    ASSUME NEW f
    PROVE  /\ f.pc = "idle" => StepsLeft(f) = 0
           /\ f.pc = "confirmRead" => StepsLeft(f) = 2 * (MAX_RETRIES - f.n) + 2
           /\ f.pc = "confirmCommit" => StepsLeft(f) = 2 * (MAX_RETRIES - f.n) + 1
           /\ f.pc = "markSuccess" => StepsLeft(f) = 2 * MAX_RETRIES + 1
           /\ f.pc \in {"verify", "clientVerify"} => StepsLeft(f) = 2 * MAX_RETRIES + 2
           /\ f.pc = "initCancelOld" => StepsLeft(f) = 4
           /\ f.pc = "initGateway" => StepsLeft(f) = 3
           /\ f.pc \in {"initPendingRow", "markFailed", "walletReadOrder", "adminRead"} =>
                  StepsLeft(f) = 2
           /\ f.pc \in LastSteps => StepsLeft(f) = 1
BY DEF StepsLeft, LastSteps

\* The confirmation counts its attempts.
LEMMA RetryRunsOut ==
    ASSUME TypeOK, NEW w \in Workers, req[w].pc \in {"confirmRead", "confirmCommit"},
           RetryOrThrow(w)
    PROVE  StepsLeft(req'[w]) \in 0 .. StepsLeft(req[w]) - 1
<1>1. req \in [Workers -> Frame] /\ req[w].n \in 1 .. MAX_RETRIES /\ MAX_RETRIES = 3
    BY DEF TypeOK, FrameOK, MAX_RETRIES
<1>2. \/ req'[w] = Idle
      \/ req[w].n < MAX_RETRIES /\ req'[w].pc = "confirmRead" /\ req'[w].n = req[w].n + 1
    BY <1>1 DEF RetryOrThrow, Frame
<1>3. StepsLeft(req[w]) \in {2 * (MAX_RETRIES - req[w].n) + 2, 2 * (MAX_RETRIES - req[w].n) + 1}
    BY StepsLeftAt
<1>4. CASE req'[w] = Idle
    <2>1. StepsLeft(req'[w]) = 0
        BY <1>4, StepsLeftAt DEF Idle, NewFrame
    <2> QED BY <1>1, <1>3, <2>1
<1>5. CASE req[w].n < MAX_RETRIES /\ req'[w].pc = "confirmRead" /\ req'[w].n = req[w].n + 1
    <2>1. StepsLeft(req'[w]) = 2 * (MAX_RETRIES - (req[w].n + 1)) + 2
        BY <1>5, StepsLeftAt
    <2> QED BY <1>1, <1>3, <1>5, <2>1
<1> QED BY <1>2, <1>4, <1>5

LEMMA StepRunsOut ==
    ASSUME TypeOK, NEW w \in Workers, Step(w)
    PROVE  StepsLeft(req'[w]) \in 0 .. StepsLeft(req[w]) - 1
<1> DEFINE f == req[w]
           g == req'[w]
<1>1. /\ req \in [Workers -> Frame] /\ FrameOK(f) /\ MAX_RETRIES = 3 /\ Idle.pc = "idle"
      /\ f.pc \in {"confirmRead", "confirmCommit"} => f.n \in 1 .. MAX_RETRIES
    BY DEF TypeOK, FrameOK, Idle, NewFrame, MAX_RETRIES
<1>2. ASSUME Return(w), f.pc # "idle" PROVE StepsLeft(g) \in 0 .. StepsLeft(f) - 1
    <2>1. StepsLeft(g) = 0
        BY <1>1, <1>2, StepMoves, StepsLeftAt
    <2>2. StepsLeft(f) \in Nat \ {0}
        <3>1. f.pc \in Steps
            BY <1>1 DEF Frame
        <3> QED BY <1>1, <1>2, <3>1, StepsLeftAt DEF Steps, LastSteps
    <2> QED BY <2>1, <2>2
<1>3. \A pc : Goto(w, pc) => g.pc = pc /\ g.n = f.n
    BY <1>1 DEF Goto, Frame
<1>4. CASE CancelOldTransactions(w) \/ GatewaySynchronous(w) \/ CreatePendingRow(w) \/ MarkFailed(w)
    <2>1. \/ f.pc = "initCancelOld" /\ g.pc = "initGateway"
          \/ f.pc = "initGateway" /\ g.pc = "initConfirm"
          \/ f.pc = "initPendingRow" /\ g.pc = "initOrder"
          \/ f.pc = "markFailed" /\ g.pc = "resetOrder"
        BY <1>3, <1>4 DEF CancelOldTransactions, GatewaySynchronous, CreatePendingRow, MarkFailed
    <2> QED BY <2>1, StepsLeftAt DEF LastSteps
<1>5. CASE GatewayOrangeMoney(w)
    <2>1. f.pc = "initGateway" /\ g.pc \in {"initPendingRow", "initFailedRow"}
        BY <1>1, <1>3, <1>5 DEF GatewayOrangeMoney, Frame
    <2> QED BY <2>1, StepsLeftAt DEF LastSteps
<1>6. CASE Verify(w) \/ ClientVerify(w)
    <2>1. f.pc \in {"verify", "clientVerify"} /\ (Return(w) \/ g.pc \in {"markSuccess", "markFailed"})
        BY <1>3, <1>6 DEF Verify, ClientVerify
    <2> QED BY <1>1, <1>2, <2>1, StepsLeftAt
<1>7. CASE MarkSuccess(w)
    <2>1. f.pc = "markSuccess" /\ g.pc = "confirmRead" /\ g.n = 1
        BY <1>1, <1>7 DEF MarkSuccess, Frame
    <2> QED BY <1>1, <2>1, StepsLeftAt
<1>8. CASE ConfirmRead(w) /\ ~Return(w)
    <2>1. f.pc = "confirmRead" /\ g.pc = "confirmCommit" /\ g.n = f.n
        BY <1>3, <1>8 DEF ConfirmRead
    <2> QED BY <1>1, <2>1, StepsLeftAt
<1>9. CASE (ConfirmCommit(w) \/ ConfirmFails(w)) /\ ~Return(w)
    BY <1>9, RetryRunsOut DEF ConfirmCommit, ConfirmFails
<1>10. CASE (WalletReadOrder(w) \/ AdminRead(w)) /\ ~Return(w)
    <2>1. f.pc \in {"walletReadOrder", "adminRead"} /\ g.pc \in {"walletCommit", "adminCommit"}
        BY <1>3, <1>10 DEF WalletReadOrder, AdminRead
    <2> QED BY <2>1, StepsLeftAt DEF LastSteps
<1>11. CASE Return(w)
    <2>1. f.pc # "idle"
        BY DEF Step, PaymentsStep, OrdersStep, WalletStep, AdminStep, CancelOldTransactions,
           GatewayUnsupported, GatewaySynchronous, GatewayOrangeMoney, CreateFailedRow,
           CreatePendingRow, AwaitPayment, ConfirmPayment, Verify, ClientVerify, SettleTx,
           MarkSuccess, ConfirmRead, ConfirmCommit, ConfirmFails, MarkFailed, ResetOrder,
           WriteStatus, DeliverCod, RechargeCommit, WalletReadOrder, WalletCommit, AdminRead,
           AdminCommit
    <2> QED BY <1>2, <1>11, <2>1
<1>12. CASE \/ GatewayUnsupported(w) \/ CreateFailedRow(w) \/ AwaitPayment(w)
            \/ ConfirmPayment(w) \/ SettleTx(w) \/ ResetOrder(w) \/ OrdersStep(w)
            \/ RechargeCommit(w) \/ WalletCommit(w) \/ AdminCommit(w)
    BY <1>11, <1>12 DEF GatewayUnsupported, CreateFailedRow, AwaitPayment, ConfirmPayment,
       SettleTx, ResetOrder, OrdersStep, WriteStatus, DeliverCod, RechargeCommit,
       WalletCommit, AdminCommit
<1> QED BY <1>4, <1>5, <1>6, <1>7, <1>8, <1>9, <1>10, <1>11, <1>12
        DEF Step, PaymentsStep, WalletStep, AdminStep

\* Every step of a request brings it nearer its end, whatever the other requests do: that
\* is what TLAPS can check of RequestsEnd, beside which it needs that steps are enabled.
THEOREM RequestsRunOut == Spec => StepsRunOut
<1>1. TypeOK /\ [Next]_vars =>
          [\A w \in Workers : Step(w) => StepsLeft(req'[w]) \in 0 .. StepsLeft(req[w]) - 1]_vars
    BY StepRunsOut
<1> QED BY <1>1, TypeCorrect, PTL DEF Spec, StepsRunOut

=============================================================================
