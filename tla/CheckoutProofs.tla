--------------------------- MODULE CheckoutProofs ---------------------------
(***************************************************************************)
(* Proofs about Checkout, for every set of orders, rows, clients and       *)
(* slots, every price and every bound on the requests.                     *)
(***************************************************************************)
EXTENDS Checkout, TLAPS

LEMMA InitTypeOK == Init => TypeOK
<1> SUFFICES ASSUME Init PROVE TypeOK
    OBVIOUS
<1> USE DEF Init, StoreInit
<1>1. order \in [Orders -> OrderRow]
    BY DEF OrderRow
<1>2. tx \in [Txs -> TxRow]
    BY DEF TxRow
<1>3. credits \in [Orders -> [Origins -> Nat]]
    OBVIOUS
<1>4. wallet \in [Users -> WalletRow]
    BY DEF WalletRow
<1>5. qr \in [Txs -> QrCode]
    BY DEF QrCode
<1>6. req \in [Workers -> Frame]
    BY DEF Frame, Idle, NewFrame, Steps
<1>7. \A w \in Workers : FrameOK(req[w])
    BY DEF FrameOK, Idle, NewFrame, OrderSteps, RowSteps
<1> QED BY <1>1, <1>2, <1>3, <1>4, <1>5, <1>6, <1>7 DEF TypeOK

-----------------------------------------------------------------------------
(* Frames *)

\* The slots of requests are well typed.
RequestsOK ==
    /\ req \in [Workers -> Frame]
    /\ \A w \in Workers : FrameOK(req[w])

LEMMA IdleFrame == Idle \in Frame /\ FrameOK(Idle)
BY DEF Idle, NewFrame, Frame, FrameOK, Steps, OrderSteps, RowSteps

\* Replacing the frame of one slot by a well-typed one keeps the slots well typed.
LEMMA SlotUpdate ==
    ASSUME RequestsOK, NEW w \in Workers, NEW f \in Frame, FrameOK(f),
           req' = [req EXCEPT ![w] = f]
    PROVE  RequestsOK'
BY DEF RequestsOK

\* A frame that moves to a step whose needs it meets stays well typed.
LEMMA FrameMoves ==
    ASSUME NEW f \in Frame, NEW pc \in Steps \ {"idle"},
           pc # "rechargeCommit" => f.o \in Orders,
           pc \in RowSteps => f.t \in Txs,
           pc \in {"rechargeCommit", "walletReadOrder", "walletCommit"} => f.u \in Users,
           pc \in {"confirmRead", "confirmCommit"} => f.n \in 1 .. MAX_RETRIES,
           pc \in {"initCancelOld", "initGateway"} => f.arg \in PaymentMethod,
           pc = "updateStatus" => f.arg \in OrderStatus
    PROVE  [f EXCEPT !.pc = pc] \in Frame /\ FrameOK([f EXCEPT !.pc = pc])
BY DEF Frame, FrameOK, OrderSteps

LEMMA ReturnOK ==
    ASSUME RequestsOK, NEW w \in Workers, Return(w)
    PROVE  RequestsOK'
BY SlotUpdate, IdleFrame DEF Return

\* What a frame holds at the step it is suspended at.
LEMMA FrameHolds ==
    ASSUME RequestsOK, NEW w \in Workers
    PROVE  /\ req[w] \in Frame
           /\ FrameOK(req[w])
           /\ req[w].pc \in Steps
BY DEF RequestsOK, Frame

LEMMA GotoOK ==
    ASSUME RequestsOK, NEW w \in Workers, NEW pc \in Steps \ {"idle"}, Goto(w, pc),
           pc # "rechargeCommit" => req[w].o \in Orders,
           pc \in RowSteps => req[w].t \in Txs,
           pc \in {"rechargeCommit", "walletReadOrder", "walletCommit"} => req[w].u \in Users,
           pc \in {"confirmRead", "confirmCommit"} => req[w].n \in 1 .. MAX_RETRIES,
           pc \in {"initCancelOld", "initGateway"} => req[w].arg \in PaymentMethod,
           pc = "updateStatus" => req[w].arg \in OrderStatus
    PROVE  RequestsOK'
<1> DEFINE f == [req[w] EXCEPT !.pc = pc]
<1>1. f \in Frame /\ FrameOK(f)
    <2> HIDE DEF f
    <2> req[w] \in Frame BY FrameHolds
    <2> QED BY FrameMoves DEF f
<1>2. req' = [req EXCEPT ![w] = f]
    BY DEF Goto
<1> HIDE DEF f
<1> QED BY <1>1, <1>2, SlotUpdate

-----------------------------------------------------------------------------
(* Tables *)

\* The tables and the QR codes are well typed.
TablesOK ==
    /\ order \in [Orders -> OrderRow]
    /\ tx \in [Txs -> TxRow]
    /\ credits \in [Orders -> [Origins -> Nat]]
    /\ wallet \in [Users -> WalletRow]
    /\ qr \in [Txs -> QrCode]
    /\ arrivals \in Nat

LEMMA TypeOKParts ==
    /\ TypeOK <=> TablesOK /\ RequestsOK
    /\ TypeOK' <=> TablesOK' /\ RequestsOK'
BY DEF TypeOK, TablesOK, RequestsOK

LEMMA OrderStatusTyped ==
    ASSUME TablesOK, NEW o \in Orders, NEW s \in OrderStatus, SetOrderStatus(o, s)
    PROVE  order' \in [Orders -> OrderRow]
BY DEF TablesOK, SetOrderStatus, OrderRow

LEMMA OrderPaidTyped ==
    ASSUME TablesOK, NEW o \in Orders, SetOrderPaid(o)
    PROVE  order' \in [Orders -> OrderRow]
BY DEF TablesOK, SetOrderPaid, OrderRow, OrderStatus

LEMMA TxStatusTyped ==
    ASSUME TablesOK, NEW t \in Txs, NEW s \in TransactionStatus, SetTxStatus(t, s)
    PROVE  tx' \in [Txs -> TxRow]
BY DEF TablesOK, SetTxStatus, TxRow

LEMMA CreditsTyped ==
    ASSUME TablesOK, NEW o \in Orders, NEW origin \in Origins, CreditRestaurants(o, origin)
    PROVE  credits' \in [Orders -> [Origins -> Nat]]
BY DEF TablesOK, CreditRestaurants

LEMMA RowTyped ==
    ASSUME TablesOK, NEW t \in Txs, NEW s \in TransactionStatus, NEW o \in Orders,
           NEW m \in PaymentMethod,
           tx' = [tx EXCEPT ![t] = [status |-> s, order |-> o, provider |-> m]]
    PROVE  tx' \in [Txs -> TxRow]
BY DEF TablesOK, TxRow

\* What replaces a QR code: its state moves, or it is quoted for one more order.
LEMMA QrTyped ==
    ASSUME qr \in [Txs -> QrCode], NEW q \in Txs, NEW o \in Orders
    PROVE  /\ [state |-> "issued", order |-> o, quotedFor |-> {}] \in QrCode
           /\ [qr[q] EXCEPT !.state = IF @ = "issued" THEN "open" ELSE @] \in QrCode
           /\ [qr[q] EXCEPT !.quotedFor = @ \cup ({o} \ {qr[q].order})] \in QrCode
           /\ \A c \in QrCode : [qr EXCEPT ![q] = c] \in [Txs -> QrCode]
<1>1. qr[q] \in QrCode /\ {} \in SUBSET Orders
    OBVIOUS
<1>2. qr[q].quotedFor \cup ({o} \ {qr[q].order}) \in SUBSET Orders
    <2>1. qr[q].quotedFor \in SUBSET Orders
        BY <1>1 DEF QrCode
    <2> QED BY <2>1
<1>3. [state |-> "issued", order |-> o, quotedFor |-> {}] \in QrCode
    BY <1>1 DEF QrCode
<1>4. [qr[q] EXCEPT !.state = IF @ = "issued" THEN "open" ELSE @] \in QrCode
    BY <1>1 DEF QrCode
<1>5. [qr[q] EXCEPT !.quotedFor = @ \cup ({o} \ {qr[q].order})] \in QrCode
    BY <1>1, <1>2 DEF QrCode
<1> QED BY <1>3, <1>4, <1>5

LEMMA BalanceTyped ==
    ASSUME TablesOK, NEW u \in Users, NEW b \in Int, NEW x \in Int,
           wallet' = [wallet EXCEPT ![u] = [balance |-> b, ledger |-> @.ledger - x]]
    PROVE  wallet' \in [Users -> WalletRow]
<1>1. wallet[u].ledger - x \in Int
    BY DEF TablesOK, WalletRow
<1> QED BY <1>1 DEF TablesOK, WalletRow

-----------------------------------------------------------------------------
(* The steps of a request *)

\* A frame that starts attempt k of the confirmation.
LEMMA FrameConfirms ==
    ASSUME NEW f \in Frame, f.o \in Orders, f.t \in Txs, NEW k \in 1 .. MAX_RETRIES
    PROVE  /\ [f EXCEPT !.pc = "confirmRead", !.n = k] \in Frame
           /\ FrameOK([f EXCEPT !.pc = "confirmRead", !.n = k])
<1> DEFINE g == [f EXCEPT !.pc = "confirmRead", !.n = k]
<1>1. k \in Int
    BY DEF MAX_RETRIES
<1>2. g \in Frame
    BY <1>1 DEF Frame, Steps
<1>3. g.pc = "confirmRead" /\ g.n = k /\ g.o = f.o /\ g.t = f.t
    BY DEF Frame
<1> HIDE DEF g
<1>4. FrameOK(g)
    BY <1>3 DEF FrameOK
<1> QED BY <1>2, <1>4 DEF g

LEMMA RetryOK ==
    ASSUME RequestsOK, NEW w \in Workers, RetryOrThrow(w),
           req[w].pc \in {"confirmRead", "confirmCommit"}
    PROVE  RequestsOK'
<1> DEFINE f == [req[w] EXCEPT !.pc = "confirmRead", !.n = req[w].n + 1]
<1>1. CASE req[w].n < MAX_RETRIES
    <2>1. req[w] \in Frame /\ FrameOK(req[w])
        BY FrameHolds
    <2>2. req[w].o \in Orders /\ req[w].t \in Txs /\ req[w].n + 1 \in 1 .. MAX_RETRIES
        BY <2>1, <1>1 DEF FrameOK, OrderSteps, RowSteps, Steps, MAX_RETRIES
    <2>4. f \in Frame /\ FrameOK(f)
        BY <2>1, <2>2, FrameConfirms
    <2>3. req' = [req EXCEPT ![w] = f]
        BY <1>1 DEF RetryOrThrow
    <2> HIDE DEF f
    <2> QED BY <2>4, <2>3, SlotUpdate
<1>2. CASE ~(req[w].n < MAX_RETRIES)
    BY <1>2, SlotUpdate, IdleFrame DEF RetryOrThrow
<1> QED BY <1>1, <1>2

LEMMA PaymentsStepTypeOK ==
    ASSUME TypeOK, NEW w \in Workers, PaymentsStep(w)
    PROVE  TypeOK'
<1>1. TablesOK /\ RequestsOK
    BY TypeOKParts
<1>2. /\ req[w] \in Frame
      /\ FrameOK(req[w])
    BY <1>1, FrameHolds
<1> USE <1>1, <1>2, TypeOKParts
<1> DEFINE o == req[w].o
           t == req[w].t
<1>a. CASE CancelOldTransactions(w)
    <2>1. tx' \in [Txs -> TxRow]
        BY <1>a DEF CancelOldTransactions, TablesOK, TxRow, TransactionStatus
    <2>2. RequestsOK'
        BY <1>a, GotoOK DEF CancelOldTransactions, FrameOK, Steps, OrderSteps, RowSteps
    <2> QED BY <1>a, <2>1, <2>2 DEF CancelOldTransactions, TablesOK, Goto
<1>b. CASE GatewayUnsupported(w)
    BY <1>b, ReturnOK DEF GatewayUnsupported, TablesOK, Return
<1>c. CASE GatewaySynchronous(w)
    <2>1. RequestsOK'
        BY <1>c, GotoOK DEF GatewaySynchronous, FrameOK, Steps, OrderSteps, RowSteps
    <2> QED BY <1>c, <2>1 DEF GatewaySynchronous, TablesOK, Goto
<1>d. CASE GatewayOrangeMoney(w)
    <2>1. o \in Orders
        BY <1>d DEF GatewayOrangeMoney, FrameOK, OrderSteps, Steps
    <2>2. ASSUME NEW q \in Txs,
                 qr' = [qr EXCEPT ![q] = [state |-> "issued", order |-> req[w].o,
                                          quotedFor |-> {}]],
                 req' = [req EXCEPT ![w].pc = "initPendingRow", ![w].t = q]
          PROVE  qr' \in [Txs -> QrCode] /\ RequestsOK'
        <3>1. qr' \in [Txs -> QrCode]
            BY <2>1, <2>2, QrTyped DEF TablesOK
        <3> DEFINE f == [req[w] EXCEPT !.pc = "initPendingRow", !.t = q]
        <3>2. f \in Frame /\ FrameOK(f)
            BY <2>1 DEF Frame, FrameOK, OrderSteps, RowSteps, Steps
        <3>3. req' = [req EXCEPT ![w] = f]
            BY <2>2
        <3> HIDE DEF f
        <3> QED BY <3>1, <3>2, <3>3, SlotUpdate
    <2>3. CASE Goto(w, "initFailedRow") /\ UNCHANGED qr
        <3>1. RequestsOK'
            BY <2>1, <2>3, GotoOK DEF Steps, RowSteps
        <3> QED BY <1>d, <2>3, <3>1 DEF GatewayOrangeMoney, TablesOK, Goto
    <2> QED BY <1>d, <2>2, <2>3 DEF GatewayOrangeMoney, TablesOK
<1>e. CASE CreateFailedRow(w)
    <2>1. o \in Orders
        BY <1>e DEF CreateFailedRow, FrameOK, OrderSteps, Steps
    <2>2. tx' \in [Txs -> TxRow]
        BY <1>e, <2>1, RowTyped DEF CreateFailedRow, TransactionStatus, PaymentMethod
    <2> QED BY <1>e, <2>2, ReturnOK DEF CreateFailedRow, TablesOK, Return
<1>f. CASE CreatePendingRow(w)
    <2>1. o \in Orders /\ t \in Txs
        BY <1>f DEF CreatePendingRow, FrameOK, OrderSteps, RowSteps, Steps
    <2>2. tx' \in [Txs -> TxRow]
        BY <1>f, <2>1, RowTyped DEF CreatePendingRow, TransactionStatus, PaymentMethod
    <2>3. RequestsOK'
        BY <1>f, <2>1, GotoOK DEF CreatePendingRow, Steps
    <2> QED BY <1>f, <2>2, <2>3 DEF CreatePendingRow, TablesOK, Goto
<1>g. CASE AwaitPayment(w)
    <2>1. o \in Orders /\ t \in Txs
        BY <1>g DEF AwaitPayment, FrameOK, OrderSteps, RowSteps, Steps
    <2>2. order' \in [Orders -> OrderRow]
        BY <1>g, <2>1 DEF AwaitPayment, TablesOK, OrderRow, OrderStatus, PaymentMethod
    <2>3. qr' \in [Txs -> QrCode]
        BY <1>g, <2>1, QrTyped DEF AwaitPayment, TablesOK
    <2> QED BY <1>g, <2>2, <2>3, ReturnOK DEF AwaitPayment, TablesOK, Return
<1>h. CASE ConfirmPayment(w)
    <2>1. o \in Orders
        BY <1>h DEF ConfirmPayment, FrameOK, OrderSteps, Steps
    <2>2. tx' \in [Txs -> TxRow]
        BY <1>h, <2>1, RowTyped DEF ConfirmPayment, TransactionStatus, PaymentMethod
    <2>3. order' \in [Orders -> OrderRow]
        BY <1>h, <2>1 DEF ConfirmPayment, TablesOK, OrderRow, OrderStatus, PaymentMethod
    <2>4. credits' \in [Orders -> [Origins -> Nat]]
        BY <1>h, <2>1, CreditsTyped DEF ConfirmPayment, Origins
    <2> QED BY <1>h, <2>2, <2>3, <2>4, ReturnOK DEF ConfirmPayment, TablesOK, Return
<1>i. CASE Verify(w)
    <2>1. RequestsOK'
        BY <1>i, GotoOK, ReturnOK DEF Verify, FrameOK, Steps, OrderSteps, RowSteps
    <2> QED BY <1>i, <2>1 DEF Verify, TablesOK, Goto, Return
<1>j. CASE ClientVerify(w)
    <2>1. RequestsOK'
        BY <1>j, GotoOK, ReturnOK DEF ClientVerify, FrameOK, Steps, OrderSteps, RowSteps
    <2>2. qr' \in [Txs -> QrCode]
        <3>1. o \in Orders
            BY <1>j DEF ClientVerify, FrameOK, OrderSteps, Steps
        <3>2. ASSUME NEW q \in Txs,
                     qr' = [qr EXCEPT ![q].quotedFor = @ \cup ({o} \ {qr[q].order})]
              PROVE  qr' \in [Txs -> QrCode]
            <4>1. [qr[q] EXCEPT !.quotedFor = @ \cup ({o} \ {qr[q].order})] \in QrCode
                BY <3>1, QrTyped DEF TablesOK
            <4> QED BY <3>1, <3>2, <4>1, QrTyped DEF TablesOK
        <3> QED BY <1>j, <3>2 DEF ClientVerify, TablesOK
    <2> QED BY <1>j, <2>1, <2>2 DEF ClientVerify, TablesOK, Goto, Return
<1>k. CASE SettleTx(w)
    <2>1. tx' \in [Txs -> TxRow]
        BY <1>k, TxStatusTyped DEF SettleTx, FrameOK, RowSteps, TransactionStatus
    <2> QED BY <1>k, <2>1, ReturnOK DEF SettleTx, TablesOK, Return
<1>l. CASE MarkSuccess(w)
    <2>1. o \in Orders /\ t \in Txs
        BY <1>l DEF MarkSuccess, FrameOK, OrderSteps, RowSteps, Steps
    <2>2. tx' \in [Txs -> TxRow]
        BY <1>l, <2>1, TxStatusTyped DEF MarkSuccess, TransactionStatus
    <2> DEFINE f == [req[w] EXCEPT !.pc = "confirmRead", !.n = 1]
    <2>3. f \in Frame /\ FrameOK(f)
        <3>1. 1 \in 1 .. MAX_RETRIES
            BY DEF MAX_RETRIES
        <3> QED BY <2>1, <3>1, FrameConfirms
    <2>4. req' = [req EXCEPT ![w] = f]
        BY <1>l DEF MarkSuccess
    <2> HIDE DEF f
    <2>5. RequestsOK'
        BY <2>3, <2>4, SlotUpdate
    <2> QED BY <1>l, <2>2, <2>5 DEF MarkSuccess, TablesOK
<1>m. CASE ConfirmRead(w)
    <2>1. RequestsOK'
        BY <1>m, GotoOK, ReturnOK DEF ConfirmRead, FrameOK, Steps, OrderSteps, RowSteps
    <2> QED BY <1>m, <2>1 DEF ConfirmRead, TablesOK, Goto, Return
<1>n. CASE ConfirmCommit(w)
    <2>1. o \in Orders
        BY <1>n DEF ConfirmCommit, FrameOK, OrderSteps, Steps
    <2>2. order' \in [Orders -> OrderRow]
        BY <1>n, <2>1, OrderPaidTyped DEF ConfirmCommit
    <2>3. credits' \in [Orders -> [Origins -> Nat]]
        BY <1>n, <2>1, CreditsTyped DEF ConfirmCommit, Origins
    <2>4. RequestsOK'
        BY <1>n, ReturnOK, RetryOK DEF ConfirmCommit
    <2> QED BY <1>n, <2>2, <2>3, <2>4 DEF ConfirmCommit, TablesOK, Return, RetryOrThrow
<1>o. CASE ConfirmFails(w)
    <2>1. RequestsOK'
        BY <1>o, RetryOK DEF ConfirmFails
    <2> QED BY <1>o, <2>1 DEF ConfirmFails, TablesOK, RetryOrThrow
<1>p. CASE MarkFailed(w)
    <2>1. tx' \in [Txs -> TxRow]
        BY <1>p, TxStatusTyped DEF MarkFailed, FrameOK, RowSteps, TransactionStatus
    <2>2. RequestsOK'
        BY <1>p, GotoOK DEF MarkFailed, FrameOK, Steps, OrderSteps, RowSteps
    <2> QED BY <1>p, <2>1, <2>2 DEF MarkFailed, TablesOK, Goto
<1>q. CASE ResetOrder(w)
    <2>1. order' \in [Orders -> OrderRow]
        BY <1>q, OrderStatusTyped DEF ResetOrder, FrameOK, OrderSteps, Steps, OrderStatus
    <2> QED BY <1>q, <2>1, ReturnOK DEF ResetOrder, TablesOK, Return
<1> QED BY <1>a, <1>b, <1>c, <1>d, <1>e, <1>f, <1>g, <1>h, <1>i, <1>j, <1>k, <1>l, <1>m,
           <1>n, <1>o, <1>p, <1>q DEF PaymentsStep

\* A request that arrives takes a free slot.
LEMMA BeginOK ==
    ASSUME TypeOK, NEW w \in Workers, NEW f \in Frame, FrameOK(f), Begin(w, f),
           UNCHANGED <<order, tx, credits, wallet, qr>>
    PROVE  TypeOK'
<1>1. RequestsOK'
    BY TypeOKParts, SlotUpdate DEF Begin
<1> QED BY <1>1, TypeOKParts DEF TablesOK, Begin

LEMMA OrdersStepTypeOK ==
    ASSUME TypeOK, NEW w \in Workers, OrdersStep(w)
    PROVE  TypeOK'
<1>1. TablesOK /\ RequestsOK
    BY TypeOKParts
<1>2. /\ req[w] \in Frame
      /\ FrameOK(req[w])
    BY <1>1, FrameHolds
<1> USE <1>1, <1>2, TypeOKParts
<1>3. CASE WriteStatus(w)
    <2>1. order' \in [Orders -> OrderRow]
        BY <1>3, OrderStatusTyped DEF WriteStatus, FrameOK, OrderSteps, Steps
    <2> QED BY <1>3, <2>1, ReturnOK DEF WriteStatus, TablesOK, Return
<1>4. CASE DeliverCod(w)
    <2>1. req[w].o \in Orders
        BY <1>4 DEF DeliverCod, FrameOK, OrderSteps, Steps
    <2>2. order' \in [Orders -> OrderRow]
        BY <1>4, <2>1 DEF DeliverCod, TablesOK, OrderRow, OrderStatus
    <2>3. credits' \in [Orders -> [Origins -> Nat]]
        BY <1>4, <2>1, CreditsTyped DEF DeliverCod, Origins
    <2> QED BY <1>4, <2>2, <2>3, ReturnOK DEF DeliverCod, TablesOK, Return
<1> QED BY <1>3, <1>4 DEF OrdersStep

LEMMA WalletStepTypeOK ==
    ASSUME TypeOK, NEW w \in Workers, WalletStep(w)
    PROVE  TypeOK'
<1>1. TablesOK /\ RequestsOK
    BY TypeOKParts
<1>2. /\ req[w] \in Frame
      /\ FrameOK(req[w])
      /\ req[w].n \in Int
    BY <1>1, FrameHolds DEF Frame
<1> USE <1>1, <1>2, TypeOKParts
<1>3. CASE RechargeCommit(w)
    <2>1. req[w].u \in Users
        BY <1>3 DEF RechargeCommit, FrameOK
    <2>2. wallet' \in [Users -> WalletRow]
        BY <1>3, <2>1, StoreAssumption DEF RechargeCommit, TablesOK, WalletRow
    <2> QED BY <1>3, <2>2, ReturnOK DEF RechargeCommit, TablesOK, Return
<1>4. CASE WalletReadOrder(w)
    <2>1. RequestsOK'
        BY <1>4, GotoOK, ReturnOK DEF WalletReadOrder, FrameOK, Steps, OrderSteps, RowSteps
    <2> QED BY <1>4, <2>1 DEF WalletReadOrder, TablesOK, Goto, Return
<1>5. CASE WalletCommit(w)
    <2>1. req[w].o \in Orders /\ req[w].u \in Users
        BY <1>5 DEF WalletCommit, FrameOK, OrderSteps, Steps
    <2>2. wallet' \in [Users -> WalletRow]
        <3>1. req[w].n - TotalAmount[req[w].o] \in Int /\ TotalAmount[req[w].o] \in Int
            BY <2>1, StoreAssumption
        <3> QED BY <1>5, <2>1, <3>1, BalanceTyped DEF WalletCommit
    <2>3. order' \in [Orders -> OrderRow]
        BY <1>5, <2>1, OrderPaidTyped DEF WalletCommit
    <2>4. credits' \in [Orders -> [Origins -> Nat]]
        BY <1>5, <2>1, CreditsTyped DEF WalletCommit, Origins
    <2> QED BY <1>5, <2>2, <2>3, <2>4, ReturnOK DEF WalletCommit, TablesOK, Return
<1> QED BY <1>3, <1>4, <1>5 DEF WalletStep

LEMMA AdminStepTypeOK ==
    ASSUME TypeOK, NEW w \in Workers, AdminStep(w)
    PROVE  TypeOK'
<1>1. TablesOK /\ RequestsOK
    BY TypeOKParts
<1>2. /\ req[w] \in Frame
      /\ FrameOK(req[w])
    BY <1>1, FrameHolds
<1> USE <1>1, <1>2, TypeOKParts
<1>3. CASE AdminRead(w)
    <2>1. req[w].o \in Orders /\ req[w].t \in Txs
        BY <1>3 DEF AdminRead, FrameOK, OrderSteps, RowSteps, Steps
    <2>2. tx' \in [Txs -> TxRow]
        BY <1>3, <2>1, TxStatusTyped DEF AdminRead, TransactionStatus, TablesOK
    <2>3. RequestsOK'
        BY <1>3, <2>1, GotoOK, ReturnOK DEF AdminRead, Steps
    <2> QED BY <1>3, <2>2, <2>3 DEF AdminRead, TablesOK, Goto, Return
<1>4. CASE AdminCommit(w)
    <2>1. req[w].o \in Orders /\ req[w].t \in Txs
        BY <1>4 DEF AdminCommit, FrameOK, OrderSteps, RowSteps, Steps
    <2>2. tx' \in [Txs -> TxRow]
        BY <1>4, <2>1 DEF AdminCommit, TablesOK, TxRow, TransactionStatus
    <2>3. order' \in [Orders -> OrderRow]
        BY <1>4, <2>1, OrderPaidTyped DEF AdminCommit
    <2>4. credits' \in [Orders -> [Origins -> Nat]]
        BY <1>4, <2>1, CreditsTyped DEF AdminCommit, Origins
    <2> QED BY <1>4, <2>2, <2>3, <2>4, ReturnOK DEF AdminCommit, TablesOK, Return
<1> QED BY <1>3, <1>4 DEF AdminStep

-----------------------------------------------------------------------------
(* The arrival of a request, and the environment *)

\* A frame made of values of its types that meets the needs of its step.
LEMMA FrameBuilt ==
    ASSUME NEW pc \in Steps, NEW o \in Orders \cup {None}, NEW t \in Txs \cup {None},
           NEW u \in Users \cup {None}, NEW n \in Int,
           NEW arg \in OrderStatus \cup PaymentMethod \cup {None},
           pc \in OrderSteps => o \in Orders,
           pc \in RowSteps => t \in Txs,
           pc \in {"rechargeCommit", "walletReadOrder", "walletCommit"} => u \in Users,
           pc \in {"confirmRead", "confirmCommit"} => n \in 1 .. MAX_RETRIES,
           pc \in {"initCancelOld", "initGateway"} => arg \in PaymentMethod,
           pc = "updateStatus" => arg \in OrderStatus,
           NEW f, f = NewFrame(pc, o, t, u, n, arg)
    PROVE  f \in Frame /\ FrameOK(f)
<1> USE DEF NewFrame
<1>1. f \in Frame
    BY DEF Frame
<1>2. f.pc = pc /\ f.o = o /\ f.t = t /\ f.u = u /\ f.n = n /\ f.arg = arg
    OBVIOUS
<1>3. FrameOK(f)
    BY <1>2 DEF FrameOK
<1> QED BY <1>1, <1>3

LEMMA PaymentFrameTyped ==
    ASSUME NEW pc \in RowSteps \ {"confirmRead", "confirmCommit"}, NEW o \in Orders, NEW t \in Txs
    PROVE  PaymentFrame(pc, o, t) \in Frame /\ FrameOK(PaymentFrame(pc, o, t))
<1>1. PaymentFrame(pc, o, t) = NewFrame(pc, o, t, None, 0, None)
    BY DEF PaymentFrame
<1>2. /\ pc \in Steps
      /\ pc \notin {"confirmRead", "confirmCommit", "rechargeCommit", "walletReadOrder",
                    "walletCommit", "initCancelOld", "initGateway", "updateStatus"}
    BY DEF RowSteps, Steps
<1> QED BY <1>1, <1>2, FrameBuilt

LEMMA ArriveTypeOK ==
    ASSUME TypeOK, RowsAgree, NEW w \in Workers, Arrive(w)
    PROVE  TypeOK'
<1>1. ASSUME NEW o \in Orders, NEW method \in PaymentMethod, InitiatePayment(w, o, method)
      PROVE  TypeOK'
    <2> DEFINE pc == IF order[o].status = "AWAITING_PAYMENT"
                     THEN "initCancelOld" ELSE "initGateway"
               f == NewFrame(pc, o, None, None, 0, method)
    <2>1. f \in Frame /\ FrameOK(f)
        <3>1. /\ pc \in Steps
              /\ pc \notin RowSteps
              /\ pc \notin {"rechargeCommit", "walletReadOrder", "walletCommit", "confirmRead",
                            "confirmCommit", "updateStatus"}
            BY DEF Steps, RowSteps
        <3> HIDE DEF pc
        <3> QED BY <3>1, FrameBuilt
    <2>2. Begin(w, f) /\ UNCHANGED <<order, tx, credits, wallet, qr>>
        BY <1>1 DEF InitiatePayment
    <2> HIDE DEF f
    <2> QED BY <2>1, <2>2, BeginOK
<1>2. ASSUME NEW o, NEW type \in {"success", "cancel"}, RedirectCallback(w, o, type)
      PROVE  TypeOK'
    <2>1. PICK t \in PendingTxs(o) :
            Begin(w, PaymentFrame(IF type = "cancel" THEN "markFailed" ELSE "verify", o, t))
        BY <1>2 DEF RedirectCallback
    <2>2. t \in Txs /\ o \in Orders
        BY <2>1 DEF PendingTxs, RowsAgree
    <2>3. (IF type = "cancel" THEN "markFailed" ELSE "verify")
             \in RowSteps \ {"confirmRead", "confirmCommit"}
        BY DEF RowSteps
    <2> QED BY <1>2, <2>1, <2>2, <2>3, PaymentFrameTyped, BeginOK DEF RedirectCallback
<1>3. ASSUME NEW o, NEW status, WebhookCallback(w, o, status)
      PROVE  TypeOK'
    <2> DEFINE pc == CASE status = "paid" -> "markSuccess"
                       [] status = "unknown" -> "verify"
                       [] OTHER -> "markFailed"
    <2>1. PICK t \in PendingTxs(o) : Begin(w, PaymentFrame(pc, o, t))
        BY <1>3 DEF WebhookCallback
    <2>2. t \in Txs /\ o \in Orders
        BY <2>1 DEF PendingTxs, RowsAgree
    <2>3. pc \in RowSteps \ {"confirmRead", "confirmCommit"}
        BY DEF RowSteps
    <2> HIDE DEF pc
    <2> QED BY <1>3, <2>1, <2>2, <2>3, PaymentFrameTyped, BeginOK DEF WebhookCallback
<1>4. ASSUME NEW t \in Txs, VerifyPayment(w, t)
      PROVE  TypeOK'
    <2> DEFINE pc == IF order[tx[t].order].status = "PAID" THEN "settleTx" ELSE "clientVerify"
    <2>1. tx[t].order \in Orders
        BY <1>4 DEF VerifyPayment, RowsAgree
    <2>2. pc \in RowSteps \ {"confirmRead", "confirmCommit"}
        BY DEF RowSteps
    <2>3. Begin(w, PaymentFrame(pc, tx[t].order, t))
        BY <1>4 DEF VerifyPayment
    <2> HIDE DEF pc
    <2> QED BY <1>4, <2>1, <2>2, <2>3, PaymentFrameTyped, BeginOK DEF VerifyPayment
<1>5. ASSUME NEW o \in Orders, NEW status \in OrderStatus, UpdateStatus(w, o, status)
      PROVE  TypeOK'
    <2> DEFINE pc == IF /\ status = "DELIVERED"
                        /\ order[o].paymentMethod = "CASH_ON_DELIVERY"
                     THEN "updateCod" ELSE "updateStatus"
               f == NewFrame(pc, o, None, None, 0, status)
    <2>1. f \in Frame /\ FrameOK(f)
        <3>1. /\ pc \in Steps
              /\ pc \notin RowSteps
              /\ pc \notin {"rechargeCommit", "walletReadOrder", "walletCommit", "confirmRead",
                            "confirmCommit", "initCancelOld", "initGateway"}
            BY DEF Steps, RowSteps
        <3> HIDE DEF pc
        <3> QED BY <3>1, FrameBuilt
    <2>2. Begin(w, f) /\ UNCHANGED <<order, tx, credits, wallet, qr>>
        BY <1>5 DEF UpdateStatus
    <2> HIDE DEF f
    <2> QED BY <2>1, <2>2, BeginOK
<1>6. ASSUME NEW u \in Users, Recharge(w, u)
      PROVE  TypeOK'
    <2> DEFINE f == NewFrame("rechargeCommit", None, None, u, wallet[u].balance, None)
    <2>0. wallet[u].balance \in Int
        BY DEF TypeOK, WalletRow
    <2>1. f \in Frame /\ FrameOK(f)
        BY <2>0 DEF NewFrame, Frame, FrameOK, RowSteps, OrderSteps, Steps
    <2>2. Begin(w, f) /\ UNCHANGED <<order, tx, credits, wallet, qr>>
        BY <1>6 DEF Recharge
    <2> HIDE DEF f
    <2> QED BY <2>1, <2>2, BeginOK
<1>7. ASSUME NEW o \in Orders, PayWithWallet(w, o)
      PROVE  TypeOK'
    <2> DEFINE f == NewFrame("walletReadOrder", o, None, Owner[o], wallet[Owner[o]].balance,
                             None)
    <2>0. Owner[o] \in Users /\ wallet[Owner[o]].balance \in Int
        BY StoreAssumption DEF TypeOK, WalletRow
    <2>1. f \in Frame /\ FrameOK(f)
        BY <2>0 DEF NewFrame, Frame, FrameOK, RowSteps, OrderSteps, Steps
    <2>2. Begin(w, f) /\ UNCHANGED <<order, tx, credits, wallet, qr>>
        BY <1>7 DEF PayWithWallet
    <2> HIDE DEF f
    <2> QED BY <2>1, <2>2, BeginOK
<1>8. ASSUME NEW t \in Txs, ManuallyValidate(w, t)
      PROVE  TypeOK'
    <2> DEFINE f == NewFrame("adminRead", tx[t].order, t, None, 0, None)
    <2>0. tx[t].order \in Orders
        BY <1>8 DEF ManuallyValidate, RowsAgree
    <2>1. f \in Frame /\ FrameOK(f)
        <3>1. "adminRead" \in RowSteps \ {"confirmRead", "confirmCommit"}
            BY DEF RowSteps
        <3>2. f = PaymentFrame("adminRead", tx[t].order, t)
            BY DEF PaymentFrame
        <3> HIDE DEF f
        <3> QED BY <2>0, <3>1, <3>2, PaymentFrameTyped
    <2>2. Begin(w, f) /\ UNCHANGED <<order, tx, credits, wallet, qr>>
        BY <1>8 DEF ManuallyValidate
    <2> HIDE DEF f
    <2> QED BY <2>1, <2>2, BeginOK
<1> QED BY <1>1, <1>2, <1>3, <1>4, <1>5, <1>6, <1>7, <1>8
        DEF Arrive, PaymentsBegin, Redirect, Webhook, OrdersBegin, WalletBegin, AdminBegin

LEMMA EnvironmentTypeOK ==
    ASSUME TypeOK, OrdersCreate \/ OrangeMoneyNext
    PROVE  TypeOK'
<1>1. CASE OrdersCreate
    <2>1. order' \in [Orders -> OrderRow]
        BY <1>1 DEF OrdersCreate, Create, TypeOK, OrderRow, OrderStatus, PaymentMethod
    <2> QED BY <1>1, <2>1 DEF OrdersCreate, Create, TypeOK
<1>2. CASE OrangeMoneyNext
    <2>1. PICK t \in Txs, s \in QrFinal : SetQr(t, s)
        BY <1>2 DEF OrangeMoneyNext, PayQr, CancelQr, ExpireQr, QrFinal
    <2>2. qr' \in [Txs -> QrCode]
        BY <2>1 DEF SetQr, TypeOK, QrCode, QrFinal
    <2> QED BY <2>1, <2>2 DEF SetQr, TypeOK
<1> QED BY <1>1, <1>2

\* Every step keeps the types, given that rows and QR codes agree.
LEMMA NextTypeOK ==
    ASSUME TypeOK, RowsAgree, [Next]_vars
    PROVE  TypeOK'
<1>1. ASSUME NEW w \in Workers, Step(w) PROVE TypeOK'
    BY <1>1, PaymentsStepTypeOK, OrdersStepTypeOK, WalletStepTypeOK, AdminStepTypeOK DEF Step
<1>2. ASSUME NEW w \in Workers, Abort(w) PROVE TypeOK'
    BY <1>2, TypeOKParts, ReturnOK DEF Abort, Return, TablesOK
<1>3. CASE UNCHANGED vars
    BY <1>3 DEF vars, TypeOK
<1> QED BY <1>1, <1>2, <1>3, ArriveTypeOK, EnvironmentTypeOK DEF Next

=============================================================================
