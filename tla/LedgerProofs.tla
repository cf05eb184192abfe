---------------------------- MODULE LedgerProofs ----------------------------
(***************************************************************************)
(* The books, for every value of the constants.  Whatever interleaves, no  *)
(* wallet is overdrawn, an order counts as paid exactly when its           *)
(* restaurants were credited, and handlers implement PaymentLife.  When    *)
(* requests do not overlap, no payment is credited twice, no PAID order is *)
(* reset and wallets are what their rows add up to; when none of them dies *)
(* either, an order has one PENDING row and is credited as often as paid.  *)
(* All of it rests on the types and the rows of PaymentInv.                *)
(***************************************************************************)
EXTENDS PaymentProofs, FiniteSetTheorems

-----------------------------------------------------------------------------
(* Wallets *)

WalletSteps == {"rechargeCommit", "walletReadOrder", "walletCommit"}

\* What a request of the wallet holds before it overwrites a balance.
Covered(w) ==
    /\ req[w].pc = "rechargeCommit" => req[w].n >= 0
    /\ req[w].pc = "walletCommit" => req[w].n >= TotalAmount[req[w].o]

\* No step of a payment, an order or a validation goes on to one of the wallet.
LEMMA OtherStepsAway ==
    ASSUME TypeOK, NEW w \in Workers,
           PaymentsStep(w) \/ OrdersStep(w) \/ AdminStep(w) \/ Abort(w)
    PROVE  req'[w].pc \notin WalletSteps /\ UNCHANGED wallet
<1>1. req \in [Workers -> Frame] /\ Idle.pc = "idle"
    BY DEF TypeOK, Idle, NewFrame
<1>2. ASSUME \/ Return(w)
             \/ \E pc : pc \notin WalletSteps /\ Goto(w, pc)
             \/ RetryOrThrow(w)
      PROVE  req'[w].pc \notin WalletSteps
    BY <1>1, <1>2, StepMoves DEF WalletSteps
<1>3. CASE OrdersStep(w) \/ AdminStep(w) \/ Abort(w)
    BY <1>2, <1>3 DEF OrdersStep, WriteStatus, DeliverCod, AdminStep, AdminRead, AdminCommit,
       Abort, WalletSteps
<1>4. CASE GatewayOrangeMoney(w) \/ MarkSuccess(w)
    <2>1. req'[w].pc \notin WalletSteps
        BY <1>1, <1>2, <1>4 DEF GatewayOrangeMoney, MarkSuccess, WalletSteps, Frame
    <2> QED BY <1>4, <2>1 DEF GatewayOrangeMoney, MarkSuccess
<1>5. CASE \/ CancelOldTransactions(w) \/ GatewayUnsupported(w) \/ GatewaySynchronous(w)
           \/ CreateFailedRow(w) \/ CreatePendingRow(w) \/ AwaitPayment(w)
           \/ ConfirmPayment(w) \/ Verify(w) \/ ClientVerify(w) \/ SettleTx(w)
           \/ ConfirmRead(w) \/ ConfirmCommit(w) \/ ConfirmFails(w)
           \/ MarkFailed(w) \/ ResetOrder(w)
    BY <1>2, <1>5 DEF CancelOldTransactions, GatewayUnsupported, GatewaySynchronous,
       CreateFailedRow, CreatePendingRow, AwaitPayment, ConfirmPayment, Verify,
       ClientVerify, SettleTx, ConfirmRead, ConfirmCommit, ConfirmFails, MarkFailed,
       ResetOrder, WalletSteps
<1> QED BY <1>3, <1>4, <1>5 DEF PaymentsStep

\* A request that arrives holds the balance it just read, if any.
JustRead(w) ==
    req'[w].pc \in WalletSteps =>
        /\ req'[w].pc # "walletCommit" /\ req'[w].u \in Users
        /\ req'[w].n = wallet[req'[w].u].balance
        /\ req'[w].pc = "walletReadOrder" => req'[w].u = Owner[req'[w].o]

LEMMA ArriveReads ==
    ASSUME TypeOK, NEW w \in Workers, Arrive(w)
    PROVE  JustRead(w) /\ UNCHANGED wallet
<1>1. req \in [Workers -> Frame] /\ wallet \in [Users -> WalletRow]
    BY DEF TypeOK
<1>2. ASSUME NEW f, Begin(w, f), f.pc \notin WalletSteps
      PROVE  JustRead(w)
    <2>1. req'[w] = f
        BY <1>1, <1>2 DEF Begin
    <2> QED BY <1>2, <2>1 DEF JustRead
<1>3. ASSUME NEW u \in Users, Recharge(w, u)
      PROVE  JustRead(w) /\ UNCHANGED wallet
    <2>1. req'[w] = NewFrame("rechargeCommit", None, None, u, wallet[u].balance, None)
        BY <1>1, <1>3 DEF Recharge, Begin
    <2>2. req'[w].pc = "rechargeCommit" /\ req'[w].n = wallet[u].balance /\ req'[w].u = u
        BY <2>1 DEF NewFrame
    <2> QED BY <1>3, <2>2 DEF Recharge, JustRead
<1>4. ASSUME NEW o \in Orders, PayWithWallet(w, o)
      PROVE  JustRead(w) /\ UNCHANGED wallet
    <2>1. req'[w] = NewFrame("walletReadOrder", o, None, Owner[o], wallet[Owner[o]].balance, None)
        BY <1>1, <1>4 DEF PayWithWallet, Begin
    <2>2. /\ req'[w].pc = "walletReadOrder" /\ req'[w].u = Owner[o] /\ Owner[o] \in Users
          /\ req'[w].n = wallet[Owner[o]].balance /\ req'[w].o = o
        BY <2>1, StoreAssumption DEF NewFrame
    <2> QED BY <1>4, <2>2 DEF PayWithWallet, JustRead
<1>5. CASE OrdersBegin(w) \/ AdminBegin(w)
    BY <1>2, <1>5 DEF OrdersBegin, UpdateStatus, AdminBegin, ManuallyValidate, NewFrame,
       WalletSteps
<1>6. CASE PaymentsBegin(w)
    <2>1. ASSUME NEW o \in Orders, NEW method \in PaymentMethod, InitiatePayment(w, o, method)
          PROVE  JustRead(w) /\ UNCHANGED wallet
        BY <1>2, <2>1 DEF InitiatePayment, NewFrame, WalletSteps
    <2>2. ASSUME NEW o, NEW type, RedirectCallback(w, o, type)
          PROVE  JustRead(w) /\ UNCHANGED wallet
        BY <1>2, <2>2 DEF RedirectCallback, PaymentFrame, NewFrame, WalletSteps
    <2>3. ASSUME NEW o, NEW status, WebhookCallback(w, o, status)
          PROVE  JustRead(w) /\ UNCHANGED wallet
        <3> DEFINE pc == CASE status = "paid" -> "markSuccess"
                           [] status = "unknown" -> "verify"
                           [] OTHER -> "markFailed"
        <3>1. PICK t \in PendingTxs(o) : Begin(w, PaymentFrame(pc, o, t))
            BY <2>3 DEF WebhookCallback
        <3>2. pc \notin WalletSteps
            BY DEF WalletSteps
        <3>3. PaymentFrame(pc, o, t).pc = pc
            BY DEF PaymentFrame, NewFrame
        <3> HIDE DEF pc
        <3>4. JustRead(w)
            BY <1>2, <3>1, <3>2, <3>3
        <3> QED BY <2>3, <3>4 DEF WebhookCallback
    <2>4. ASSUME NEW t \in Txs, VerifyPayment(w, t)
          PROVE  JustRead(w) /\ UNCHANGED wallet
        BY <1>2, <2>4 DEF VerifyPayment, PaymentFrame, NewFrame, WalletSteps
    <2> QED BY <1>6, <2>1, <2>2, <2>3, <2>4 DEF PaymentsBegin, Redirect, Webhook
<1> QED BY <1>3, <1>4, <1>5, <1>6 DEF Arrive, WalletBegin

\* A step of the wallet leaves balances that are not negative.
LEMMA WalletStepCovered ==
    ASSUME TypeOK, WalletInv, NEW w \in Workers, WalletStep(w)
    PROVE  Covered(w)' /\ WalletNeverNegative'
<1>1. /\ req \in [Workers -> Frame] /\ wallet \in [Users -> WalletRow]
      /\ req[w].n \in Int /\ FrameOK(req[w])
      /\ Idle.pc = "idle"
    BY DEF TypeOK, Frame, Idle, NewFrame
<1>2. CASE RechargeCommit(w)
    <2>1. req[w].n >= 0 /\ RechargeAmount \in Nat /\ req[w].u \in Users
        BY <1>1, <1>2, StoreAssumption DEF RechargeCommit, WalletInv, FrameOK
    <2>2. \A u \in Users : wallet'[u].balance = IF u = req[w].u THEN req[w].n + RechargeAmount
                                                                ELSE wallet[u].balance
        BY <1>1, <1>2, <2>1 DEF RechargeCommit
    <2>3. WalletNeverNegative'
        BY <1>1, <2>1, <2>2 DEF WalletNeverNegative, WalletInv
    <2>4. Covered(w)'
        BY <1>1, <1>2, StepMoves DEF RechargeCommit, Covered
    <2> QED BY <2>3, <2>4
<1>3. CASE WalletReadOrder(w)
    <2>1. WalletNeverNegative'
        BY <1>3 DEF WalletReadOrder, WalletInv, WalletNeverNegative
    <2>2. CASE Return(w)
        BY <1>1, <2>1, <2>2, StepMoves DEF Covered
    <2>3. CASE Goto(w, "walletCommit") /\ req[w].n >= TotalAmount[req[w].o]
        <3>1. req' = [req EXCEPT ![w].pc = "walletCommit"]
            BY <2>3 DEF Goto
        <3>2. req'[w].pc = "walletCommit" /\ req'[w].n = req[w].n /\ req'[w].o = req[w].o
            BY <1>1, <3>1 DEF Frame
        <3> QED BY <2>1, <2>3, <3>2 DEF Covered
    <2> QED BY <1>3, <2>2, <2>3 DEF WalletReadOrder
<1>4. CASE WalletCommit(w)
    <2>1. req[w].n >= TotalAmount[req[w].o] /\ req[w].o \in Orders /\ req[w].u \in Users
        BY <1>1, <1>4 DEF WalletCommit, WalletInv, FrameOK, OrderSteps, Steps
    <2>2. TotalAmount[req[w].o] \in Nat
        BY <2>1, StoreAssumption
    <2>3. \A u \in Users : wallet'[u].balance = IF u = req[w].u
                                                THEN req[w].n - TotalAmount[req[w].o]
                                                ELSE wallet[u].balance
        BY <1>1, <1>4, <2>1 DEF WalletCommit, WalletRow
    <2>4. WalletNeverNegative'
        BY <1>1, <2>1, <2>2, <2>3 DEF WalletNeverNegative, WalletInv
    <2>5. Covered(w)'
        BY <1>1, <1>4, StepMoves DEF WalletCommit, Covered
    <2> QED BY <2>4, <2>5
<1> QED BY <1>2, <1>3, <1>4 DEF WalletStep

LEMMA NextWalletInv == PaymentInv /\ WalletInv /\ [Next]_vars => WalletInv'
<1> SUFFICES ASSUME PaymentInv, WalletInv, [Next]_vars PROVE WalletInv'
    OBVIOUS
<1>1. TypeOK
    BY DEF PaymentInv
<1>2. ASSUME NEW x \in Workers, req'[x] = req[x] PROVE Covered(x)'
    BY <1>2 DEF WalletInv, Covered
<1>3. ASSUME UNCHANGED wallet PROVE WalletNeverNegative'
    BY <1>3 DEF WalletInv, WalletNeverNegative
<1>4. ASSUME NEW w \in Workers, Arrive(w) \/ Step(w) \/ Abort(w)
      PROVE  WalletNeverNegative' /\ \A x \in Workers : Covered(x)'
    <2>1. Covered(w)' /\ WalletNeverNegative'
        <3>1. CASE Arrive(w)
            <4>1. JustRead(w) /\ UNCHANGED wallet
                BY <1>1, <3>1, ArriveReads
            <4> QED BY <1>3, <4>1 DEF JustRead, Covered, WalletSteps, WalletInv, WalletNeverNegative
        <3> QED BY <1>1, <1>3, <1>4, <3>1, OtherStepsAway, WalletStepCovered
                DEF Step, Covered, WalletSteps
    <2>2. \A x \in Workers \ {w} : Covered(x)'
        BY <1>1, <1>2, <1>4, OthersWait
    <2> QED BY <2>1, <2>2
<1>5. ASSUME OrdersCreate \/ OrangeMoneyNext \/ UNCHANGED vars
      PROVE  WalletNeverNegative' /\ \A x \in Workers : Covered(x)'
    BY <1>2, <1>3, <1>5 DEF OrdersCreate, Create, OrangeMoneyNext, PayQr, CancelQr, ExpireQr,
       SetQr, vars
<1>6. WalletNeverNegative' /\ \A x \in Workers : Covered(x)'
    BY <1>4, <1>5 DEF Next
<1> QED BY <1>6 DEF WalletInv, Covered

\* Recharges and wallet payments overwrite balances with stale values, in any
\* interleaving, and still no wallet is ever overdrawn.
THEOREM WalletsNotOverdrawn == Spec => []WalletNeverNegative
<1>1. Init => WalletInv
    BY DEF Init, StoreInit, WalletInv, WalletNeverNegative, Idle, NewFrame
<1>2. WalletInv => WalletNeverNegative
    BY DEF WalletInv
<1> QED BY <1>1, <1>2, NextWalletInv, PaymentInvariant, PTL DEF Spec

-----------------------------------------------------------------------------
(* Credits *)

\* A step that does not settle order o ...
Unsettled(o) ==
    /\ order'[o].paymentStatus = order[o].paymentStatus
    /\ order'[o].status = "ABSENT" <=> order[o].status = "ABSENT"
    /\ credits'[o] = credits[o]

\* ... one that does ...
Settled(o) ==
    /\ order'[o].paymentStatus = "PAID"
    /\ order'[o].status # "ABSENT"
    /\ \E origin \in Origins : credits' = [credits EXCEPT ![o][origin] = @ + 1]

\* ... and the one that creates it.
Created(o) ==
    /\ order[o].status = "ABSENT" /\ order'[o].status # "ABSENT"
    /\ order'[o].paymentStatus # "PAID"
    /\ credits'[o] = credits[o]

\* A step that writes a status over an order that exists settles nothing.
LEMMA StatusUnsettles ==
    ASSUME TypeOK, NEW o \in Orders, NEW s, s # "ABSENT", order[o].status # "ABSENT",
           SetOrderStatus(o, s), UNCHANGED credits
    PROVE  \A x \in Orders : Unsettled(x)
<1>1. \A x \in Orders : /\ order'[x].paymentStatus = order[x].paymentStatus
                        /\ order'[x].status = IF x = o THEN s ELSE order[x].status
    BY DEF TypeOK, OrderRow, SetOrderStatus
<1> QED BY <1>1 DEF Unsettled

\* The four transactions that settle an order touch no other.
LEMMA OneSettled ==
    ASSUME TypeOK, NEW o \in Orders, NEW origin \in Origins, CreditRestaurants(o, origin),
           order'[o].paymentStatus = "PAID", order'[o].status # "ABSENT",
           \A x \in Orders \ {o} : order'[x] = order[x]
    PROVE  \A x \in Orders : Unsettled(x) \/ Settled(x)
<1>1. Settled(o)
    BY DEF Settled, CreditRestaurants
<1>2. \A x \in Orders \ {o} : credits'[x] = credits[x]
    BY DEF CreditRestaurants, TypeOK
<1> QED BY <1>1, <1>2 DEF Unsettled

LEMMA OrderPaidSettles ==
    ASSUME TypeOK, NEW o \in Orders, NEW origin \in Origins, CreditRestaurants(o, origin),
           SetOrderPaid(o)
    PROVE  \A x \in Orders : Unsettled(x) \/ Settled(x)
<1>1. /\ order'[o].paymentStatus = "PAID" /\ order'[o].status = "PAID"
      /\ \A x \in Orders \ {o} : order'[x] = order[x]
    BY DEF TypeOK, SetOrderPaid, OrderRow
<1> QED BY <1>1, OneSettled

LEMMA NothingSettled ==
    ASSUME UNCHANGED <<order, credits>>
    PROVE  \A x \in Orders : Unsettled(x)
BY DEF Unsettled

\* What a frame refers to, in the invariant of the credits.
LEMMA FrameRefers ==
    ASSUME PaymentInv, CreditInv, NEW w \in Workers, req[w].pc \in OrderSteps
    PROVE  TypeOK /\ FrameOK(req[w]) /\ req[w].o \in Orders /\ order[req[w].o].status # "ABSENT"
BY FrameKnown DEF CreditInv

LEMMA PaymentsStepSettles ==
    ASSUME PaymentInv, CreditInv, NEW w \in Workers, PaymentsStep(w)
    PROVE  \A x \in Orders : Unsettled(x) \/ Settled(x)
<1> DEFINE o == req[w].o
<1>1. TypeOK
    BY DEF PaymentInv
<1>2. CASE AwaitPayment(w)
    <2>1. o \in Orders /\ order[o].status # "ABSENT" /\ UNCHANGED credits
        BY <1>2, FrameRefers DEF AwaitPayment, OrderSteps, Steps
    <2>2. \A x \in Orders : /\ order'[x].paymentStatus = order[x].paymentStatus
                            /\ order'[x].status = IF x = o THEN "AWAITING_PAYMENT"
                                                  ELSE order[x].status
        BY <1>1, <1>2, <2>1 DEF AwaitPayment, TypeOK, OrderRow
    <2> QED BY <2>1, <2>2 DEF Unsettled
<1>3. CASE ConfirmPayment(w)
    <2>1. o \in Orders
        BY <1>3, FrameRefers DEF ConfirmPayment, OrderSteps, Steps
    <2>2. /\ order'[o].paymentStatus = "PAID" /\ order'[o].status = "PAID"
          /\ \A x \in Orders \ {o} : order'[x] = order[x]
        BY <1>1, <1>3, <2>1 DEF ConfirmPayment, TypeOK
    <2> QED BY <1>1, <1>3, <2>1, <2>2, OneSettled DEF ConfirmPayment, Origins
<1>4. CASE ConfirmCommit(w)
    <2>1. o \in Orders
        BY <1>4, FrameRefers DEF ConfirmCommit, OrderSteps, Steps
    <2> QED BY <1>1, <1>4, <2>1, OrderPaidSettles DEF ConfirmCommit, Origins
<1>5. CASE ResetOrder(w)
    <2>1. o \in Orders /\ order[o].status # "ABSENT"
        BY <1>5, FrameRefers DEF ResetOrder, OrderSteps, Steps
    <2> QED BY <1>1, <1>5, <2>1, StatusUnsettles DEF ResetOrder
<1>6. CASE \/ CancelOldTransactions(w) \/ GatewayUnsupported(w) \/ GatewaySynchronous(w)
           \/ GatewayOrangeMoney(w) \/ CreateFailedRow(w) \/ CreatePendingRow(w)
           \/ Verify(w) \/ ClientVerify(w) \/ SettleTx(w) \/ MarkSuccess(w)
           \/ ConfirmRead(w) \/ ConfirmFails(w) \/ MarkFailed(w)
    BY <1>6, NothingSettled DEF CancelOldTransactions, GatewayUnsupported, GatewaySynchronous,
       GatewayOrangeMoney, CreateFailedRow, CreatePendingRow, Verify, ClientVerify, SettleTx,
       MarkSuccess, ConfirmRead, ConfirmFails, MarkFailed
<1> QED BY <1>2, <1>3, <1>4, <1>5, <1>6 DEF PaymentsStep

\* Whatever the step of a request, an order is settled or left as it counted ...
LEMMA StepSettles ==
    ASSUME PaymentInv, CreditInv, NEW w \in Workers, Step(w)
    PROVE  \A x \in Orders : Unsettled(x) \/ Settled(x)
<1>1. TypeOK
    BY DEF PaymentInv
<1>2. CASE OrdersStep(w)
    <2>1. CASE WriteStatus(w)
        <3>1. req[w].o \in Orders /\ order[req[w].o].status # "ABSENT" /\ FrameOK(req[w])
            BY <2>1, FrameRefers DEF WriteStatus, OrderSteps, Steps
        <3>2. req[w].arg # "ABSENT"
            BY <2>1, <3>1 DEF WriteStatus, FrameOK, OrderStatus
        <3> QED BY <1>1, <2>1, <3>1, <3>2, StatusUnsettles DEF WriteStatus
    <2>2. CASE DeliverCod(w)
        <3>1. req[w].o \in Orders
            BY <2>2, FrameRefers DEF DeliverCod, OrderSteps, Steps
        <3>2. /\ order'[req[w].o].paymentStatus = "PAID"
              /\ order'[req[w].o].status = "DELIVERED"
              /\ \A x \in Orders \ {req[w].o} : order'[x] = order[x]
            BY <1>1, <2>2, <3>1 DEF DeliverCod, TypeOK, OrderRow
        <3> QED BY <1>1, <2>2, <3>1, <3>2, OneSettled DEF DeliverCod, Origins
    <2> QED BY <1>2, <2>1, <2>2 DEF OrdersStep
<1>3. CASE WalletStep(w)
    <2>1. CASE WalletCommit(w)
        <3>1. req[w].o \in Orders
            BY <2>1, FrameRefers DEF WalletCommit, OrderSteps, Steps
        <3> QED BY <1>1, <2>1, <3>1, OrderPaidSettles DEF WalletCommit, Origins
    <2> QED BY <1>3, <2>1, NothingSettled DEF WalletStep, RechargeCommit, WalletReadOrder
<1>4. CASE AdminStep(w)
    <2>1. CASE AdminCommit(w)
        <3>1. req[w].o \in Orders
            BY <2>1, FrameRefers DEF AdminCommit, OrderSteps, Steps
        <3> QED BY <1>1, <2>1, <3>1, OrderPaidSettles DEF AdminCommit, Origins
    <2> QED BY <1>4, <2>1, NothingSettled DEF AdminStep, AdminRead
<1> QED BY <1>2, <1>3, <1>4, PaymentsStepSettles DEF Step

\* ... and it is created at most once.
LEMMA NextSettles ==
    ASSUME PaymentInv, CreditInv, [Next]_vars
    PROVE  \A x \in Orders : Unsettled(x) \/ Settled(x) \/ Created(x)
<1>1. TypeOK
    BY DEF PaymentInv
<1>5. CASE OrdersCreate
    <2>1. PICK o \in Orders, method \in {"CASH_ON_DELIVERY", None} : Create(o, method)
        BY <1>5 DEF OrdersCreate
    <2>2. Created(o)
        BY <1>1, <2>1 DEF Create, Created, TypeOK
    <2>3. \A x \in Orders \ {o} : Unsettled(x)
        BY <1>1, <2>1 DEF Create, Unsettled, TypeOK
    <2> QED BY <2>2, <2>3
<1>6. ASSUME NEW w \in Workers, Arrive(w) \/ Abort(w)
      PROVE  UNCHANGED <<order, credits>>
    BY <1>6 DEF Arrive, PaymentsBegin, InitiatePayment, Redirect, RedirectCallback, Webhook,
       WebhookCallback, VerifyPayment, OrdersBegin, UpdateStatus, WalletBegin, Recharge,
       PayWithWallet, AdminBegin, ManuallyValidate, Abort
<1>7. CASE OrangeMoneyNext \/ UNCHANGED vars
    BY <1>7, NothingSettled DEF OrangeMoneyNext, PayQr, CancelQr, ExpireQr, SetQr, vars
<1> QED BY <1>5, <1>6, <1>7, NothingSettled, StepSettles DEF Next

\* A row that appears belongs to an order that exists.
LEMMA NewRows ==
    ASSUME PaymentInv, CreditInv, [Next]_vars, NEW t \in Txs,
           tx[t].status = "ABSENT", tx'[t].status # "ABSENT"
    PROVE  tx'[t].order \in Orders /\ order[tx'[t].order].status # "ABSENT"
<1>1. TypeOK /\ tx \in [Txs -> TxRow]
    BY DEF PaymentInv, TypeOK
<1>2. ASSUME NEW w \in Workers, NEW q \in Txs, NEW s, NEW m, req[w].pc \in OrderSteps,
             tx' = [tx EXCEPT ![q] = [status |-> s, order |-> req[w].o, provider |-> m]]
      PROVE  tx'[t].order \in Orders /\ order[tx'[t].order].status # "ABSENT"
    <2>1. q = t
        BY <1>1, <1>2
    <2>2. tx'[t].order = req[w].o
        BY <1>1, <1>2, <2>1
    <2> QED BY <1>2, <2>2, FrameRefers
<1>3. ASSUME NEW q \in Txs, NEW s, tx[q].status # "ABSENT", tx' = [tx EXCEPT ![q].status = s]
      PROVE  FALSE
    BY <1>1, <1>3
<1>4. ASSUME UNCHANGED tx PROVE FALSE
    BY <1>4
<1>5. ASSUME NEW w \in Workers, PaymentsStep(w)
      PROVE  tx'[t].order \in Orders /\ order[tx'[t].order].status # "ABSENT"
    <2>1. CASE CancelOldTransactions(w)
        BY <1>1, <2>1 DEF CancelOldTransactions, PendingTxs
    <2>2. CASE CreateFailedRow(w) \/ ConfirmPayment(w)
        BY <1>2, <2>2 DEF CreateFailedRow, ConfirmPayment, OrderSteps, Steps
    <2>3. CASE CreatePendingRow(w)
        <3>1. req[w].t \in Txs /\ req[w].pc \in OrderSteps
            BY <2>3, FrameKnown DEF CreatePendingRow, RowSteps, OrderSteps, Steps
        <3> QED BY <1>2, <2>3, <3>1 DEF CreatePendingRow
    <2>4. CASE SettleTx(w) \/ MarkSuccess(w) \/ MarkFailed(w)
        <3>1. req[w].t \in Txs /\ tx[req[w].t].status # "ABSENT"
            BY <2>4, FrameKnown DEF SettleTx, MarkSuccess, MarkFailed, RowSteps, RequestBacked
        <3> QED BY <1>3, <2>4, <3>1 DEF SettleTx, MarkSuccess, MarkFailed, SetTxStatus
    <2>5. CASE \/ GatewayUnsupported(w) \/ GatewaySynchronous(w) \/ GatewayOrangeMoney(w)
               \/ AwaitPayment(w) \/ Verify(w) \/ ClientVerify(w)
               \/ ConfirmRead(w) \/ ConfirmCommit(w) \/ ConfirmFails(w) \/ ResetOrder(w)
        BY <1>4, <2>5 DEF GatewayUnsupported, GatewaySynchronous, GatewayOrangeMoney,
           AwaitPayment, Verify, ClientVerify, ConfirmRead, ConfirmCommit, ConfirmFails,
           ResetOrder
    <2> QED BY <1>5, <2>1, <2>2, <2>3, <2>4, <2>5 DEF PaymentsStep
<1>6. ASSUME NEW w \in Workers, AdminStep(w) PROVE FALSE
    <2>1. req[w].t \in Txs /\ tx[req[w].t].status # "ABSENT"
        BY <1>6, FrameKnown DEF AdminStep, AdminRead, AdminCommit, RowSteps, RequestBacked
    <2> QED BY <1>3, <1>4, <1>6, <2>1 DEF AdminStep, AdminRead, AdminCommit, SetTxStatus
<1>7. ASSUME NEW w \in Workers, Arrive(w) \/ OrdersStep(w) \/ WalletStep(w) \/ Abort(w)
      PROVE  FALSE
    BY <1>4, <1>7 DEF Arrive, PaymentsBegin, InitiatePayment, Redirect, RedirectCallback,
       Webhook, WebhookCallback, VerifyPayment, OrdersBegin, UpdateStatus, WalletBegin,
       Recharge, PayWithWallet, AdminBegin, ManuallyValidate, OrdersStep, WriteStatus,
       DeliverCod, WalletStep, RechargeCommit, WalletReadOrder, WalletCommit, Abort
<1>8. ASSUME OrdersCreate \/ OrangeMoneyNext \/ UNCHANGED vars
      PROVE  FALSE
    BY <1>4, <1>8 DEF OrdersCreate, Create, OrangeMoneyNext, PayQr, CancelQr, ExpireQr, SetQr,
       vars
<1> QED BY <1>5, <1>6, <1>7, <1>8 DEF Next, Step

\* A request that arrives on an order found it in the database.
LEMMA ArriveRefers ==
    ASSUME PaymentInv, CreditInv, NEW w \in Workers, Arrive(w), req'[w].pc \in OrderSteps
    PROVE  req'[w].o \in Orders /\ order[req'[w].o].status # "ABSENT"
<1>1. TypeOK /\ RowsAgree /\ req \in [Workers -> Frame]
    BY DEF PaymentInv, TypeOK
<1>2. ASSUME NEW f, Begin(w, f) PROVE req'[w] = f
    BY <1>1, <1>2 DEF Begin
<1>3. ASSUME NEW f, Begin(w, f), f.o \in Orders, order[f.o].status # "ABSENT"
      PROVE  req'[w].o \in Orders /\ order[req'[w].o].status # "ABSENT"
    BY <1>2, <1>3
<1>4. ASSUME NEW t \in Txs, tx[t].status # "ABSENT", NEW pc,
             Begin(w, PaymentFrame(pc, tx[t].order, t))
      PROVE  req'[w].o \in Orders /\ order[req'[w].o].status # "ABSENT"
    BY <1>1, <1>3, <1>4 DEF PaymentFrame, NewFrame, RowsAgree, CreditInv
<1>5. ASSUME NEW o \in Orders, NEW method \in PaymentMethod, InitiatePayment(w, o, method)
      PROVE  req'[w].o \in Orders /\ order[req'[w].o].status # "ABSENT"
    BY <1>3, <1>5 DEF InitiatePayment, NewFrame
<1>6. ASSUME NEW o, NEW type, RedirectCallback(w, o, type)
      PROVE  req'[w].o \in Orders /\ order[req'[w].o].status # "ABSENT"
    BY <1>4, <1>6 DEF RedirectCallback, PendingTxs
<1>7. ASSUME NEW o, NEW status, WebhookCallback(w, o, status)
      PROVE  req'[w].o \in Orders /\ order[req'[w].o].status # "ABSENT"
    <2> DEFINE pc == CASE status = "paid" -> "markSuccess"
                       [] status = "unknown" -> "verify"
                       [] OTHER -> "markFailed"
    <2>1. PICK t \in PendingTxs(o) : Begin(w, PaymentFrame(pc, o, t))
        BY <1>7 DEF WebhookCallback
    <2>2. t \in Txs /\ tx[t].status # "ABSENT" /\ tx[t].order = o
        BY <2>1 DEF PendingTxs
    <2> HIDE DEF pc
    <2> QED BY <1>4, <2>1, <2>2
<1>8. ASSUME NEW t \in Txs, VerifyPayment(w, t)
      PROVE  req'[w].o \in Orders /\ order[req'[w].o].status # "ABSENT"
    BY <1>4, <1>8 DEF VerifyPayment
<1>9. ASSUME NEW t \in Txs, ManuallyValidate(w, t)
      PROVE  req'[w].o \in Orders /\ order[req'[w].o].status # "ABSENT"
    BY <1>4, <1>9 DEF ManuallyValidate, PaymentFrame
<1>10. ASSUME NEW o \in Orders, NEW status \in OrderStatus, UpdateStatus(w, o, status)
       PROVE  req'[w].o \in Orders /\ order[req'[w].o].status # "ABSENT"
    <2>1. order[o].status # "ABSENT"
        BY <1>10 DEF UpdateStatus, VALID_TRANSITIONS
    <2> QED BY <1>3, <1>10, <2>1 DEF UpdateStatus, NewFrame
<1>11. ASSUME NEW o \in Orders, PayWithWallet(w, o)
       PROVE  req'[w].o \in Orders /\ order[req'[w].o].status # "ABSENT"
    BY <1>3, <1>11 DEF PayWithWallet, NewFrame
<1>12. ASSUME NEW u \in Users, Recharge(w, u) PROVE FALSE
    BY <1>2, <1>12 DEF Recharge, NewFrame, OrderSteps
<1> QED BY <1>5, <1>6, <1>7, <1>8, <1>9, <1>10, <1>11, <1>12
        DEF Arrive, PaymentsBegin, Redirect, Webhook, OrdersBegin, WalletBegin, AdminBegin

\* A request that goes on keeps its order.
LEMMA StepRefers ==
    ASSUME PaymentInv, CreditInv, NEW w \in Workers, Step(w) \/ Abort(w),
           req'[w].pc \in OrderSteps
    PROVE  req[w].pc \in OrderSteps /\ req'[w].o = req[w].o
<1>1. /\ TypeOK /\ req \in [Workers -> Frame]
      /\ Idle.pc \notin OrderSteps
    BY DEF PaymentInv, TypeOK, Idle, NewFrame, OrderSteps
<1>2. ASSUME \/ Return(w)
             \/ req[w].pc \in OrderSteps /\ (RetryOrThrow(w) \/ (\E pc : Goto(w, pc)))
      PROVE  req[w].pc \in OrderSteps /\ req'[w].o = req[w].o
    BY <1>1, <1>2, StepMoves
<1>3. CASE GatewayOrangeMoney(w) \/ MarkSuccess(w)
    BY <1>1, <1>2, <1>3 DEF GatewayOrangeMoney, MarkSuccess, Frame, OrderSteps, Steps
<1>4. CASE \/ CancelOldTransactions(w) \/ GatewayUnsupported(w) \/ GatewaySynchronous(w)
           \/ CreateFailedRow(w) \/ CreatePendingRow(w) \/ AwaitPayment(w)
           \/ ConfirmPayment(w) \/ Verify(w) \/ ClientVerify(w) \/ SettleTx(w)
           \/ ConfirmRead(w) \/ ConfirmCommit(w) \/ ConfirmFails(w)
           \/ MarkFailed(w) \/ ResetOrder(w)
    BY <1>2, <1>4 DEF CancelOldTransactions, GatewayUnsupported, GatewaySynchronous,
       CreateFailedRow, CreatePendingRow, AwaitPayment, ConfirmPayment, Verify,
       ClientVerify, SettleTx, ConfirmRead, ConfirmCommit, ConfirmFails, MarkFailed,
       ResetOrder, OrderSteps, Steps
<1>5. CASE OrdersStep(w) \/ WalletStep(w) \/ AdminStep(w) \/ Abort(w)
    BY <1>2, <1>5 DEF OrdersStep, WriteStatus, DeliverCod, WalletStep, RechargeCommit,
       WalletReadOrder, WalletCommit, AdminStep, AdminRead, AdminCommit, Abort,
       OrderSteps, Steps
<1> QED BY <1>3, <1>4, <1>5 DEF Step, PaymentsStep

LEMMA NextCreditInv == PaymentInv /\ CreditInv /\ [Next]_vars => CreditInv'
<1> SUFFICES ASSUME PaymentInv, CreditInv, [Next]_vars PROVE CreditInv'
    OBVIOUS
<1>1. /\ TypeOK /\ RowsAgree
      /\ credits \in [Orders -> [Origins -> Nat]]
    BY DEF PaymentInv, TypeOK
<1>2. \A x \in Orders : Unsettled(x) \/ Settled(x) \/ Created(x)
    BY NextSettles
<1>3. ASSUME NEW o \in Orders, order[o].status # "ABSENT"
      PROVE  order'[o].status # "ABSENT"
    BY <1>2, <1>3 DEF Unsettled, Settled, Created
<1>4. PaidMeansCredited' /\ \A o \in Orders : order'[o].status = "ABSENT" => TotalCredits(o)' = 0
    <2> SUFFICES ASSUME NEW o \in Orders
                 PROVE  /\ (order'[o].paymentStatus = "PAID") <=> (TotalCredits(o)' > 0)
                        /\ order'[o].status = "ABSENT" => TotalCredits(o)' = 0
        BY DEF PaidMeansCredited
    <2>1. CASE Unsettled(o)
        BY <2>1 DEF Unsettled, CreditInv, PaidMeansCredited, TotalCredits
    <2>2. CASE Settled(o)
        <3>1. PICK origin \in Origins : credits' = [credits EXCEPT ![o][origin] = @ + 1]
            BY <2>2 DEF Settled
        <3>2. \A g \in Origins : /\ credits'[o][g] \in Nat
                                 /\ g = origin => credits'[o][g] > 0
            BY <1>1, <3>1
        <3>3. TotalCredits(o)' > 0
            BY <3>2 DEF TotalCredits, Origins
        <3> QED BY <2>2, <3>3 DEF Settled
    <2>3. CASE Created(o)
        <3>1. TotalCredits(o)' = 0
            BY <2>3 DEF Created, CreditInv, TotalCredits
        <3> QED BY <2>3, <3>1 DEF Created
    <2> QED BY <1>2, <2>1, <2>2, <2>3
<1>5. ASSUME NEW t \in Txs, tx'[t].status # "ABSENT"
      PROVE  order'[tx'[t].order].status # "ABSENT"
    <2>1. CASE tx[t].status = "ABSENT"
        BY <1>3, <1>5, <2>1, NewRows
    <2>2. CASE tx[t].status # "ABSENT"
        <3>1. tx'[t].order = tx[t].order
            BY <2>2, NextGrows DEF Grows
        <3> QED BY <1>1, <1>3, <2>2, <3>1 DEF RowsAgree, CreditInv
    <2> QED BY <2>1, <2>2
<1>6. ASSUME NEW x \in Workers, req'[x].pc \in OrderSteps
      PROVE  order'[req'[x].o].status # "ABSENT"
    <2>1. CASE req[x].pc \in OrderSteps /\ req'[x].o = req[x].o
        BY <1>3, <2>1, FrameRefers
    <2>2. CASE Arrive(x)
        BY <1>3, <1>6, <2>2, ArriveRefers
    <2>3. CASE Step(x) \/ Abort(x)
        BY <1>6, <2>1, <2>3, StepRefers
    <2>4. CASE req'[x] = req[x]
        BY <1>6, <2>1, <2>4
    <2>5. ASSUME NEW w \in Workers, w # x, Arrive(w) \/ Step(w) \/ Abort(w)
          PROVE  req'[x] = req[x]
        BY <1>1, <2>5, OthersWait
    <2>6. ASSUME OrdersCreate \/ OrangeMoneyNext \/ UNCHANGED vars
          PROVE  req'[x] = req[x]
        BY <2>6 DEF OrdersCreate, Create, OrangeMoneyNext, PayQr, CancelQr, ExpireQr, SetQr,
           vars
    <2> QED BY <2>2, <2>3, <2>4, <2>5, <2>6 DEF Next
<1> QED BY <1>4, <1>5, <1>6 DEF CreditInv

\* In any interleaving of the five transactions that settle an order with the
\* writes that move its status, paymentStatus is PAID exactly on the orders
\* whose restaurants were credited.
THEOREM PaidOrdersCredited == Spec => []PaidMeansCredited
<1>1. Init => CreditInv
    BY DEF Init, StoreInit, CreditInv, PaidMeansCredited, TotalCredits, Origins, Idle, NewFrame,
       OrderSteps
<1>2. CreditInv => PaidMeansCredited
    BY DEF CreditInv
<1> QED BY <1>1, <1>2, NextCreditInv, PaymentInvariant, PTL DEF Spec

-----------------------------------------------------------------------------
(* The life of a payment *)

Stages == [o \in Orders |-> Stage(o)]

Taken == {o \in Orders : PaidAtOrange(o) \/ PaidByMock(o)}

Accounts == [u \in Users |-> wallet[u].ledger]

LifeVars == <<Stages, Taken, credits, Accounts>>

\* No row of the mock provider and no paid QR code appears, and none is quoted.
NoMoney ==
    /\ \A t \in Txs : tx'[t].provider = "WAVE" =>
          tx[t].provider = "WAVE" /\ tx[t].order = tx'[t].order
    /\ \A q \in Txs : qr'[q].state = "paid" =>
          /\ qr[q].state = "paid" /\ qr[q].order = qr'[q].order
          /\ qr'[q].quotedFor \subseteq qr[q].quotedFor

\* Money that was taken stays taken, and a step without money takes none.
LEMMA TakenGrows ==
    ASSUME Grows, LifeInv
    PROVE  /\ Taken \subseteq Taken'
           /\ NoMoney => Taken' = Taken
<1>1. ASSUME NEW o \in Taken PROVE o \in Taken'
    <2>1. CASE PaidAtOrange(o)
        <3>1. PICK q \in Txs : Accepted(q, o)
            BY <2>1 DEF PaidAtOrange
        <3>2. Accepted(q, o)'
            BY <3>1 DEF Accepted, Grows
        <3> QED BY <3>2 DEF Taken, PaidAtOrange
    <2>2. CASE PaidByMock(o)
        <3>1. PICK t \in Txs : /\ tx[t].order = o /\ tx[t].provider = "WAVE"
                               /\ tx[t].status = "SUCCESS"
            BY <2>2 DEF PaidByMock
        <3>2. tx'[t].order = o /\ tx'[t].provider = "WAVE" /\ tx'[t].status = "SUCCESS"
            BY <3>1 DEF Grows
        <3> QED BY <3>2 DEF Taken, PaidByMock
    <2> QED BY <2>1, <2>2 DEF Taken
<1>2. ASSUME NoMoney, NEW o \in Taken' PROVE o \in Taken
    <2>1. \A q \in Txs : Accepted(q, o)' => Accepted(q, o)
        BY <1>2 DEF NoMoney, Accepted
    <2>2. PaidByMock(o)' => PaidByMock(o)
        BY <1>2 DEF NoMoney, PaidByMock, LifeInv
    <2> QED BY <1>2, <2>1, <2>2 DEF Taken, PaidAtOrange
<1> QED BY <1>1, <1>2

\* Only the client, who pays a QR code or quotes one, and the mock provider move money.
LEMMA StepNoMoney ==
    ASSUME PaymentInv, NEW w \in Workers, Step(w), ~ConfirmPayment(w), ~ClientVerify(w)
    PROVE  NoMoney
<1>1. /\ TypeOK /\ RowsAgree /\ tx \in [Txs -> TxRow] /\ qr \in [Txs -> QrCode]
      /\ req[w].pc \in RowSteps => req[w].t \in Txs
    BY FrameKnown DEF TypeOK
<1>2. ASSUME NEW t \in Txs, NEW s, tx' = [tx EXCEPT ![t].status = s], UNCHANGED qr PROVE NoMoney
    BY <1>1, <1>2 DEF NoMoney, TxRow
<1>3. ASSUME NEW t \in Txs, NEW s, NEW o, UNCHANGED qr,
             tx' = [tx EXCEPT ![t] = [status |-> s, order |-> o, provider |-> "ORANGE_MONEY"]]
      PROVE  NoMoney
    BY <1>1, <1>3 DEF NoMoney
<1>4. ASSUME UNCHANGED <<tx, qr>> PROVE NoMoney
    BY <1>4 DEF NoMoney
<1>5. CASE CancelOldTransactions(w)
    BY <1>1, <1>5 DEF CancelOldTransactions, NoMoney, TxRow, PendingTxs
<1>6. CASE GatewayOrangeMoney(w) \/ AwaitPayment(w)
    <2>1. \A q \in Txs : qr'[q] = qr[q] \/ qr'[q].state \in {"issued", "open"}
                            \/ /\ qr'[q].state = qr[q].state /\ qr'[q].order = qr[q].order
                               /\ qr'[q].quotedFor = qr[q].quotedFor
        BY <1>1, <1>6 DEF GatewayOrangeMoney, AwaitPayment, QrCode
    <2>2. UNCHANGED tx
        BY <1>6 DEF GatewayOrangeMoney, AwaitPayment
    <2> QED BY <2>1, <2>2 DEF NoMoney
<1>7. CASE CreateFailedRow(w)
    BY <1>3, <1>7 DEF CreateFailedRow
<1>8. CASE CreatePendingRow(w)
    BY <1>1, <1>3, <1>8 DEF CreatePendingRow, RowSteps
<1>9. CASE SettleTx(w) \/ MarkSuccess(w) \/ MarkFailed(w) \/ AdminRead(w) \/ AdminCommit(w)
    BY <1>1, <1>2, <1>4, <1>9 DEF SettleTx, MarkSuccess, MarkFailed, AdminRead, AdminCommit,
       SetTxStatus, RowSteps
<1>10. CASE \/ GatewayUnsupported(w) \/ GatewaySynchronous(w) \/ Verify(w)
            \/ ConfirmRead(w) \/ ConfirmCommit(w) \/ ConfirmFails(w) \/ ResetOrder(w)
            \/ OrdersStep(w) \/ WalletStep(w)
    BY <1>4, <1>10 DEF GatewayUnsupported, GatewaySynchronous, Verify,
       ConfirmRead, ConfirmCommit, ConfirmFails, ResetOrder, OrdersStep, WriteStatus,
       DeliverCod, WalletStep, RechargeCommit, WalletReadOrder, WalletCommit
<1> QED BY <1>5, <1>6, <1>7, <1>8, <1>9, <1>10 DEF Step, PaymentsStep, AdminStep

\* A step that credits nobody leaves every order at its stage.
LEMMA StagesKept ==
    ASSUME PaymentInv, CreditInv, NEW w \in Workers, Step(w), UNCHANGED credits
    PROVE  Stages' = Stages
<1>1. credits \in [Orders -> [Origins -> Nat]]
    BY DEF PaymentInv, TypeOK
<1>2. ASSUME NEW o \in Orders PROVE Stage(o)' = Stage(o)
    <2>1. ~Settled(o)
        <3>1. ASSUME NEW origin \in Origins, credits' = [credits EXCEPT ![o][origin] = @ + 1]
              PROVE  FALSE
            <4>1. credits'[o][origin] = credits[o][origin] + 1 /\ credits[o][origin] \in Nat
                BY <1>1, <3>1
            <4> QED BY <4>1
        <3> QED BY <3>1 DEF Settled
    <2>2. Unsettled(o)
        BY <2>1, StepSettles
    <2> QED BY <2>2 DEF Unsettled, Stage
<1> QED BY <1>2 DEF Stages

\* A transaction that settles order o and credits its restaurants is a Settle of PaymentLife.
LEMMA SettleMaps ==
    ASSUME NEW o \in Orders, NEW origin, order[o].status # "ABSENT",
           CreditRestaurants(o, origin),
           order'[o].status # "ABSENT", order'[o].paymentStatus = "PAID",
           \A x \in Orders \ {o} : order'[x] = order[x]
    PROVE  Life!Settle(o, origin)
<1>1. Stages[o] # "absent"
    BY DEF Stages, Stage
<1>2. Stages' = [Stages EXCEPT ![o] = "settled"]
    BY DEF Stages, Stage
<1> QED BY <1>1, <1>2 DEF Life!Settle, Stages, CreditRestaurants

\* The steps of requests, as moves of PaymentLife.
LEMMA StepLife ==
    ASSUME PaymentInv, CreditInv, LifeInv, NEW w \in Workers, Step(w)
    PROVE  [Life!Next]_LifeVars
<1>1. PICK o : o = req[w].o
    OBVIOUS
<1>2. /\ TypeOK /\ order \in [Orders -> OrderRow] /\ wallet \in [Users -> WalletRow]
      /\ tx \in [Txs -> TxRow] /\ FrameOK(req[w]) /\ RequestBacked(req[w])
      /\ req[w].pc \in OrderSteps => o \in Orders /\ order[o].status # "ABSENT"
    BY <1>1, FrameKnown, FrameRefers DEF TypeOK
<1>3. Grows
    BY NextGrows DEF Next
<1> DEFINE MovesMoney == ConfirmPayment(w) \/ ClientVerify(w)
<1>4. ~MovesMoney => Taken' = Taken
    BY <1>3, StepNoMoney, TakenGrows
<1>5. UNCHANGED wallet => Accounts' = Accounts
    BY DEF Accounts
<1>6. ASSUME SetOrderPaid(o), o \in Orders
      PROVE  /\ order'[o].status = "PAID" /\ order'[o].paymentStatus = "PAID"
             /\ \A x \in Orders \ {o} : order'[x] = order[x]
    BY <1>2, <1>6 DEF SetOrderPaid, OrderRow
<1>7. CASE ConfirmPayment(w)
    <2>1. o \in Orders /\ order[o].status # "ABSENT"
        BY <1>2, <1>7 DEF ConfirmPayment, OrderSteps, Steps
    <2>2. /\ order'[o].status = "PAID" /\ order'[o].paymentStatus = "PAID"
          /\ \A x \in Orders \ {o} : order'[x] = order[x]
        BY <1>1, <1>2, <1>7, <2>1 DEF ConfirmPayment
    <2>3. Life!Settle(o, "online")
        BY <1>1, <1>7, <2>1, <2>2, SettleMaps DEF ConfirmPayment
    <2>4. PICK t \in Txs :
             tx' = [tx EXCEPT ![t] = [status |-> "SUCCESS", order |-> o, provider |-> "WAVE"]]
        BY <1>1, <1>7 DEF ConfirmPayment
    <2>5. /\ tx'[t].status = "SUCCESS" /\ tx'[t].order = o /\ tx'[t].provider = "WAVE"
          /\ \A x \in Txs \ {t} : tx'[x] = tx[x]
        BY <1>2, <2>4
    <2>6. Taken' = Taken \cup {o}
        <3>1. PaidByMock(o)'
            BY <2>5 DEF PaidByMock
        <3>2. \A x \in Orders \ {o} : PaidByMock(x)' => PaidByMock(x)
            BY <2>5 DEF PaidByMock
        <3>3. \A x \in Orders : PaidAtOrange(x)' => PaidAtOrange(x)
            BY <1>7 DEF ConfirmPayment, PaidAtOrange, Accepted
        <3> QED BY <1>3, <2>1, <3>1, <3>2, <3>3, TakenGrows DEF Taken
    <2>7. Life!SettleAtOnce(o)
        BY <1>5, <1>7, <2>3, <2>6 DEF ConfirmPayment, Life!SettleAtOnce, Taken, Accounts
    <2> QED BY <2>1, <2>7 DEF Life!Next
<1>8. CASE ConfirmCommit(w)
    <2>1. o \in Orders /\ order[o].status # "ABSENT" /\ PaidAtOrange(o)
        BY <1>1, <1>2, <1>8 DEF ConfirmCommit, OrderSteps, Steps, RequestBacked
    <2>2. Life!Settle(o, "online")
        BY <1>1, <1>6, <1>8, <2>1, SettleMaps DEF ConfirmCommit
    <2>3. ~MovesMoney
        BY <1>8 DEF ConfirmPayment, ClientVerify, ConfirmCommit
    <2>4. Life!SettleTaken(o)
        BY <1>4, <1>5, <1>8, <2>1, <2>2, <2>3
           DEF ConfirmCommit, Life!SettleTaken, Taken, Accounts
    <2> QED BY <2>1, <2>4 DEF Life!Next
<1>9. CASE DeliverCod(w) \/ AdminCommit(w)
    <2>1. o \in Orders /\ order[o].status # "ABSENT" /\ ~MovesMoney
        BY <1>2, <1>9 DEF DeliverCod, AdminCommit, ConfirmPayment, ClientVerify, OrderSteps,
           Steps
    <2>2. /\ order'[o].status # "ABSENT" /\ order'[o].paymentStatus = "PAID"
          /\ \A x \in Orders \ {o} : order'[x] = order[x]
        <3>1. CASE DeliverCod(w)
            BY <1>1, <1>2, <2>1, <3>1 DEF DeliverCod, OrderRow
        <3>2. CASE AdminCommit(w)
            BY <1>1, <1>6, <2>1, <3>2 DEF AdminCommit
        <3> QED BY <1>9, <3>1, <3>2
    <2>3. Life!Settle(o, "cod") \/ Life!Settle(o, "admin")
        BY <1>1, <1>9, <2>1, <2>2, SettleMaps DEF DeliverCod, AdminCommit
    <2>4. Life!SettleOnWord(o)
        BY <1>4, <1>5, <1>9, <2>1, <2>3
           DEF DeliverCod, AdminCommit, Life!SettleOnWord, Taken, Accounts
    <2> QED BY <2>1, <2>4 DEF Life!Next
<1>10. CASE WalletCommit(w)
    <2>1. /\ o \in Orders /\ order[o].status # "ABSENT" /\ ~MovesMoney
          /\ req[w].u = Owner[o] /\ Owner[o] \in Users
        BY <1>1, <1>2, <1>10, StoreAssumption
           DEF WalletCommit, ConfirmPayment, ClientVerify, OrderSteps, Steps, LifeInv
    <2>2. Life!Settle(o, "wallet")
        BY <1>1, <1>6, <1>10, <2>1, SettleMaps DEF WalletCommit
    <2>3. Accounts' = [Accounts EXCEPT ![Owner[o]] = @ - TotalAmount[o]]
        BY <1>1, <1>2, <1>10, <2>1 DEF WalletCommit, Accounts
    <2>4. Life!SettleFromWallet(o)
        BY <1>4, <2>1, <2>2, <2>3 DEF Life!SettleFromWallet, Taken, Accounts
    <2> QED BY <2>1, <2>4 DEF Life!Next
<1>11. CASE RechargeCommit(w)
    <2>1. PICK u \in Users : u = req[w].u
        BY <1>2, <1>11 DEF RechargeCommit, FrameOK
    <2>2. Accounts' = [Accounts EXCEPT ![u] = @ + RechargeAmount]
        BY <1>2, <1>11, <2>1 DEF RechargeCommit, Accounts
    <2>3. UNCHANGED credits /\ ~MovesMoney
        BY <1>11 DEF RechargeCommit, ConfirmPayment, ClientVerify
    <2>4. Life!Recharge(u)
        BY <1>4, <2>2, <2>3, StagesKept DEF Life!Recharge, Stages, Taken, Accounts
    <2> QED BY <2>4 DEF Life!Next
<1>12. CASE UNCHANGED <<credits, wallet>> /\ ~MovesMoney
    BY <1>4, <1>5, <1>12, StagesKept DEF LifeVars
<1>13. CASE ClientVerify(w)
    <2>1. o \in Orders /\ order[o].status # "ABSENT"
        BY <1>2, <1>13 DEF ClientVerify, OrderSteps, Steps
    <2>2. UNCHANGED <<order, tx, credits, wallet>>
        BY ClientVerifyQuotes, <1>13
    <2>3. Stages' = Stages /\ Accounts' = Accounts
        BY <2>2 DEF Stages, Stage, Accounts
    <2>4. CASE UNCHANGED qr
        <3>1. Taken' = Taken
            BY <2>2, <2>4 DEF Taken, PaidAtOrange, Accepted, PaidByMock
        <3> QED BY <2>2, <2>3, <3>1 DEF LifeVars
    <2>5. ASSUME NEW q \in Txs, Quotes(w, q) PROVE [Life!Next]_LifeVars
        <3>1. Taken' = Taken \cup {o}
            <4>1. Accepted(q, o)'
                BY <1>1, <2>5 DEF Quotes, Accepted
            <4>2. \A x \in Orders \ {o}, p \in Txs : Accepted(p, x)' => Accepted(p, x)
                BY <1>1, <2>5 DEF Quotes, Accepted
            <4>3. \A x \in Orders : PaidByMock(x)' => PaidByMock(x)
                BY <2>2 DEF PaidByMock
            <4> QED BY <1>3, <2>1, <4>1, <4>2, <4>3, TakenGrows DEF Taken, PaidAtOrange
        <3>2. Life!Take(o)
            BY <2>1, <2>2, <2>3, <3>1 DEF Life!Take, Stages, Stage, Taken, Accounts
        <3> QED BY <2>1, <3>2 DEF Life!Next
    <2> QED BY <1>13, <2>4, <2>5, ClientVerifyQuotes
<1>14. CASE \/ CancelOldTransactions(w) \/ GatewayUnsupported(w) \/ GatewaySynchronous(w)
            \/ GatewayOrangeMoney(w) \/ CreateFailedRow(w) \/ CreatePendingRow(w)
            \/ AwaitPayment(w) \/ Verify(w) \/ SettleTx(w) \/ MarkSuccess(w)
            \/ ConfirmRead(w) \/ ConfirmFails(w) \/ MarkFailed(w) \/ ResetOrder(w)
            \/ WriteStatus(w) \/ WalletReadOrder(w) \/ AdminRead(w)
    <2>1. UNCHANGED <<credits, wallet>>
        BY <1>14 DEF CancelOldTransactions, GatewayUnsupported, GatewaySynchronous,
           GatewayOrangeMoney, CreateFailedRow, CreatePendingRow, AwaitPayment, Verify,
           SettleTx, MarkSuccess, ConfirmRead, ConfirmFails, MarkFailed,
           ResetOrder, WriteStatus, WalletReadOrder, AdminRead
    <2> QED BY <1>7, <1>12, <1>13, <2>1
<1> QED BY <1>7, <1>8, <1>9, <1>10, <1>11, <1>13, <1>14
        DEF Step, PaymentsStep, OrdersStep, WalletStep, AdminStep

\* Orders that are placed, QR codes that are paid or run out, and requests that arrive or
\* die, as moves of PaymentLife.
LEMMA BesideLife ==
    ASSUME PaymentInv, LifeInv, Grows,
           \/ OrdersCreate \/ OrangeMoneyNext \/ UNCHANGED vars
           \/ \E w \in Workers : Arrive(w) \/ Abort(w)
    PROVE  [Life!Next]_LifeVars
<1>1. order \in [Orders -> OrderRow] /\ qr \in [Txs -> QrCode] /\ RowsAgree
    BY DEF PaymentInv, TypeOK
<1>2. CASE OrdersCreate
    <2>1. PICK o \in Orders, method \in {"CASH_ON_DELIVERY", None} : Create(o, method)
        BY <1>2 DEF OrdersCreate
    <2>2. /\ order[o].status = "ABSENT" /\ order'[o].status = "PENDING"
          /\ order'[o].paymentStatus # "PAID"
          /\ \A x \in Orders \ {o} : order'[x] = order[x]
        BY <1>1, <2>1 DEF Create
    <2>3. Stages[o] = "absent" /\ Stages' = [Stages EXCEPT ![o] = "due"]
        BY <2>2 DEF Stages, Stage
    <2>4. Taken' = Taken /\ UNCHANGED <<credits, Accounts>>
        BY <2>1 DEF Create, Taken, PaidAtOrange, Accepted, PaidByMock, Accounts
    <2>5. Life!Place(o)
        BY <2>3, <2>4 DEF Life!Place, Stages, Taken, Accounts
    <2> QED BY <2>5 DEF Life!Next
<1>3. ASSUME NEW t \in Txs, PayQr(t) PROVE [Life!Next]_LifeVars
    <2>1. PICK o \in Orders : o = qr[t].order /\ order[o].status # "ABSENT"
        BY <1>1, <1>3 DEF PayQr, RowsAgree, LifeInv
    <2>2. /\ qr'[t].state = "paid" /\ qr'[t].order = o /\ qr'[t].quotedFor = {}
          /\ \A q \in Txs \ {t} : qr'[q] = qr[q]
          /\ UNCHANGED <<order, tx, credits, wallet>>
        BY <1>1, <1>3, <2>1 DEF PayQr, SetQr, QrCode, LifeInv
    <2>3. Taken' = Taken \cup {o}
        <3>1. Accepted(t, o)'
            BY <2>2 DEF Accepted
        <3>2. \A x \in Orders \ {o}, q \in Txs : Accepted(q, x)' => Accepted(q, x)
            BY <2>2 DEF Accepted
        <3>3. \A x \in Orders : PaidByMock(x)' => PaidByMock(x)
            BY <2>2 DEF PaidByMock
        <3> QED BY <2>1, <3>1, <3>2, <3>3, TakenGrows DEF Taken, PaidAtOrange
    <2>4. Stages' = Stages /\ Accounts' = Accounts
        BY <2>2 DEF Stages, Stage, Accounts
    <2>5. Life!Take(o)
        BY <2>1, <2>2, <2>3, <2>4 DEF Life!Take, Stages, Stage, Taken, Accounts
    <2> QED BY <2>5 DEF Life!Next
<1>4. ASSUME NEW t \in Txs, CancelQr(t) \/ ExpireQr(t) PROVE [Life!Next]_LifeVars
    <2>1. PICK s \in {"cancelled", "expired"} : SetQr(t, s)
        BY <1>4 DEF CancelQr, ExpireQr
    <2>2. NoMoney /\ UNCHANGED <<order, credits, wallet>>
        BY <1>1, <2>1 DEF SetQr, NoMoney, QrCode
    <2>3. Taken' = Taken
        BY <2>2, TakenGrows
    <2> QED BY <2>2, <2>3 DEF LifeVars, Stages, Stage, Accounts
<1>5. CASE UNCHANGED vars \/ \E w \in Workers : Arrive(w) \/ Abort(w)
    <2>1. UNCHANGED <<order, tx, credits, wallet, qr>>
        BY <1>5 DEF vars, Arrive, PaymentsBegin, InitiatePayment, Redirect, RedirectCallback,
           Webhook, WebhookCallback, VerifyPayment, OrdersBegin, UpdateStatus, WalletBegin,
           Recharge, PayWithWallet, AdminBegin, ManuallyValidate, Abort
    <2>2. Taken' = Taken
        BY <2>1 DEF Taken, PaidAtOrange, Accepted, PaidByMock
    <2> QED BY <2>1, <2>2 DEF LifeVars, Stages, Stage, Accounts
<1> QED BY <1>2, <1>3, <1>4, <1>5 DEF OrangeMoneyNext

\* The requests that write QR codes, beside Orange Money.
LEMMA QrWritten ==
    ASSUME [Next]_vars, ~ UNCHANGED qr, ~ OrangeMoneyNext
    PROVE  \E w \in Workers : GatewayOrangeMoney(w) \/ AwaitPayment(w) \/ ClientVerify(w)
<1>1. ~ OrdersCreate
    BY DEF OrdersCreate, Create
<1>2. \A w \in Workers : ~Arrive(w) /\ ~Abort(w)
    BY DEF Arrive, PaymentsBegin, InitiatePayment, Redirect, RedirectCallback,
       Webhook, WebhookCallback, VerifyPayment, OrdersBegin, UpdateStatus, WalletBegin,
       Recharge, PayWithWallet, AdminBegin, ManuallyValidate, Abort
<1>3. \A w \in Workers : ~OrdersStep(w) /\ ~WalletStep(w) /\ ~AdminStep(w)
    BY DEF OrdersStep, WriteStatus, DeliverCod, WalletStep, RechargeCommit,
       WalletReadOrder, WalletCommit, AdminStep, AdminRead, AdminCommit
<1>4. PICK w \in Workers : PaymentsStep(w)
    BY <1>1, <1>2, <1>3 DEF Next, Step, vars
<1>5. GatewayOrangeMoney(w) \/ AwaitPayment(w) \/ ClientVerify(w)
    BY <1>4 DEF PaymentsStep, CancelOldTransactions, GatewayUnsupported,
       GatewaySynchronous, CreateFailedRow, CreatePendingRow, ConfirmPayment, Verify,
       SettleTx, MarkSuccess, ConfirmRead, ConfirmCommit, ConfirmFails, MarkFailed, ResetOrder
<1> QED BY <1>5

\* A QR code that appears was made for an order that exists.
LEMMA QrOrders ==
    ASSUME PaymentInv, CreditInv, LifeInv, [Next]_vars, NEW q \in Txs, qr'[q].state # "ABSENT"
    PROVE  order'[qr'[q].order].status # "ABSENT"
<1>1. qr \in [Txs -> QrCode] /\ RowsAgree /\ Grows
    BY NextGrows DEF PaymentInv, TypeOK
<1>2. ASSUME NEW o \in Orders, order[o].status # "ABSENT" PROVE order'[o].status # "ABSENT"
    BY <1>2, NextSettles DEF Unsettled, Settled, Created
<1>3. CASE qr[q].state # "ABSENT"
    <2>1. qr[q].order \in Orders /\ order[qr[q].order].status # "ABSENT"
        BY <1>1, <1>3 DEF RowsAgree, LifeInv
    <2> QED BY <1>1, <1>2, <1>3, <2>1 DEF Grows
<1>4. CASE qr[q].state = "ABSENT"
    <2>1. PICK w \in Workers : GatewayOrangeMoney(w) \/ AwaitPayment(w) \/ ClientVerify(w)
        <3>1. ~ UNCHANGED qr
            BY <1>4
        <3>2. ~ OrangeMoneyNext
            BY <1>1, <1>4 DEF OrangeMoneyNext, PayQr, CancelQr, ExpireQr, SetQr, QrCode
        <3> QED BY <3>1, <3>2, QrWritten
    <2>2. CASE AwaitPayment(w)
        <3>1. req[w].t \in Txs /\ qr' = [qr EXCEPT ![req[w].t].state = IF @ = "issued" THEN "open" ELSE @]
            BY <2>2, FrameKnown DEF AwaitPayment, RowSteps
        <3> QED BY <1>1, <1>4, <3>1 DEF QrCode
    <2>3. CASE GatewayOrangeMoney(w)
        <3>1. req[w].o \in Orders /\ order[req[w].o].status # "ABSENT"
            BY <2>3, FrameRefers DEF GatewayOrangeMoney, OrderSteps, Steps
        <3>2. qr'[q].order = req[w].o
            BY <1>1, <1>4, <2>3 DEF GatewayOrangeMoney
        <3> QED BY <1>2, <3>1, <3>2
    <2>4. CASE ClientVerify(w)
        BY <1>4, <2>4, ClientVerifyQuotes DEF Quotes
    <2> QED BY <2>1, <2>2, <2>3, <2>4
<1> QED BY <1>3, <1>4

\* A QR code is quoted with success only once it is paid.
LEMMA QuotedPaid ==
    ASSUME PaymentInv, LifeInv, [Next]_vars, NEW q \in Txs, qr'[q].quotedFor # {}
    PROVE  qr'[q].state = "paid"
<1>1. qr \in [Txs -> QrCode] /\ Grows /\ (qr[q].quotedFor # {} => qr[q].state = "paid")
    BY NextGrows DEF PaymentInv, TypeOK, LifeInv
<1>2. CASE qr[q].quotedFor # {}
    BY <1>1, <1>2 DEF Grows
<1>3. CASE qr[q].quotedFor = {}
    <2>1. PICK w \in Workers : ClientVerify(w)
        <3>1. ~ UNCHANGED qr
            BY <1>3
        <3>2. ~ OrangeMoneyNext
            BY <1>1, <1>3 DEF OrangeMoneyNext, PayQr, CancelQr, ExpireQr, SetQr, QrCode
        <3>3. PICK w \in Workers : GatewayOrangeMoney(w) \/ AwaitPayment(w) \/ ClientVerify(w)
            BY <3>1, <3>2, QrWritten
        <3>4. ~GatewayOrangeMoney(w) /\ ~AwaitPayment(w)
            BY <1>1, <1>3 DEF GatewayOrangeMoney, AwaitPayment, QrCode
        <3> QED BY <3>3, <3>4
    <2> QED BY <1>3, <2>1, ClientVerifyQuotes DEF Quotes
<1> QED BY <1>2, <1>3

\* The mock provider's rows are born SUCCESS and stay so.
LEMMA MockRows ==
    ASSUME PaymentInv, LifeInv, [Next]_vars, NEW t \in Txs, tx'[t].provider = "WAVE"
    PROVE  tx'[t].status = "SUCCESS"
<1>1. Grows /\ tx \in [Txs -> TxRow]
    BY NextGrows DEF PaymentInv, TypeOK
<1>2. ASSUME tx[t].provider = "WAVE" PROVE tx'[t].status = "SUCCESS"
    BY <1>1, <1>2 DEF LifeInv, Grows
<1>3. ASSUME NoMoney PROVE tx'[t].status = "SUCCESS"
    BY <1>2, <1>3 DEF NoMoney
<1>8. ASSUME NEW w \in Workers, ClientVerify(w) PROVE UNCHANGED tx
    BY <1>8 DEF ClientVerify
<1>4. ASSUME NEW w \in Workers, ConfirmPayment(w) PROVE tx'[t].status = "SUCCESS"
    BY <1>1, <1>2, <1>4 DEF ConfirmPayment
<1>5. ASSUME UNCHANGED tx PROVE tx'[t].status = "SUCCESS"
    BY <1>2, <1>5
<1>6. ASSUME NEW w \in Workers, Arrive(w) \/ Abort(w) PROVE UNCHANGED tx
    BY <1>6 DEF Arrive, PaymentsBegin, InitiatePayment, Redirect, RedirectCallback,
       Webhook, WebhookCallback, VerifyPayment, OrdersBegin, UpdateStatus, WalletBegin,
       Recharge, PayWithWallet, AdminBegin, ManuallyValidate, Abort
<1>7. ASSUME OrdersCreate \/ OrangeMoneyNext \/ UNCHANGED vars PROVE UNCHANGED tx
    BY <1>7 DEF OrdersCreate, Create, OrangeMoneyNext, PayQr, CancelQr, ExpireQr, SetQr, vars
<1> QED BY <1>3, <1>4, <1>5, <1>6, <1>7, <1>8, StepNoMoney DEF Next

\* A request pays with the wallet of the client who placed its order.
OwnWallet(f) == f.pc \in {"walletReadOrder", "walletCommit"} => f.u = Owner[f.o]

LEMMA OwnWallets ==
    ASSUME PaymentInv, LifeInv, [Next]_vars, NEW x \in Workers
    PROVE  OwnWallet(req'[x])
<1>1. TypeOK /\ req \in [Workers -> Frame] /\ OwnWallet(req[x]) /\ Idle.pc = "idle"
    BY DEF PaymentInv, TypeOK, LifeInv, OwnWallet, Idle, NewFrame
<1>2. CASE Arrive(x)
    BY <1>1, <1>2, ArriveReads DEF JustRead, OwnWallet, WalletSteps
<1>3. CASE Step(x) \/ Abort(x)
    <2>1. CASE ~WalletStep(x)
        BY <1>1, <1>3, <2>1, OtherStepsAway DEF Step, OwnWallet, WalletSteps
    <2>2. CASE Return(x)
        BY <1>1, <2>2, StepMoves DEF OwnWallet
    <2>3. CASE WalletReadOrder(x) /\ Goto(x, "walletCommit")
        <3>1. req'[x].u = req[x].u /\ req'[x].o = req[x].o /\ req[x].pc = "walletReadOrder"
            BY <1>1, <2>3 DEF WalletReadOrder, Goto, Frame
        <3> QED BY <1>1, <3>1 DEF OwnWallet
    <2> QED BY <2>1, <2>2, <2>3 DEF WalletStep, RechargeCommit, WalletReadOrder, WalletCommit
<1>4. ASSUME req'[x] = req[x] PROVE OwnWallet(req'[x])
    BY <1>1, <1>4
<1>5. ASSUME OrdersCreate \/ OrangeMoneyNext \/ UNCHANGED vars PROVE req'[x] = req[x]
    BY <1>5 DEF OrdersCreate, Create, OrangeMoneyNext, PayQr, CancelQr, ExpireQr, SetQr, vars
<1> QED BY <1>1, <1>2, <1>3, <1>4, <1>5, OthersWait DEF Next

\* Under any interleaving, with crashes, lost acknowledgements and statuses overwritten by
\* stale requests, the handlers implement PaymentLife: an order is settled by the very step
\* that credits its restaurants, stays settled, and is settled online only once a payment
\* was accepted for it, be it one that its client quoted from another order.
THEOREM PaymentsImplementLife == Spec => ImplementsLife
<1>1. Init => CreditInv /\ LifeInv /\ Life!Init
    <2> SUFFICES ASSUME Init PROVE CreditInv /\ LifeInv /\ Life!Init
        OBVIOUS
    <2>1. CreditInv
        BY DEF Init, StoreInit, CreditInv, PaidMeansCredited, TotalCredits, Origins, Idle,
           NewFrame, OrderSteps
    <2>2. \A t \in Txs : tx[t].provider # "WAVE"
        BY StoreAssumption DEF Init, StoreInit, PaymentMethod
    <2>3. LifeInv
        BY <2>2 DEF Init, StoreInit, LifeInv, Idle, NewFrame
    <2>4. Taken = {}
        BY <2>2 DEF Init, StoreInit, Taken, PaidAtOrange, Accepted, PaidByMock
    <2>5. Stages = [o \in Orders |-> "absent"] /\ Accounts = [u \in Users |-> 0]
        BY DEF Init, StoreInit, Stages, Stage, Accounts
    <2>6. Life!Init
        BY <2>4, <2>5 DEF Init, StoreInit, Life!Init, Origins, Taken, Stages, Accounts
    <2> QED BY <2>1, <2>3, <2>6
<1>2. PaymentInv /\ CreditInv /\ LifeInv /\ [Next]_vars => LifeInv'
    BY QrOrders, QuotedPaid, MockRows, OwnWallets DEF LifeInv, OwnWallet
<1>3. PaymentInv /\ CreditInv /\ LifeInv /\ [Next]_vars => [Life!Next]_LifeVars
    BY NextGrows, StepLife, BesideLife DEF Next
<1> QED BY <1>1, <1>2, <1>3, NextCreditInv, PaymentInvariant, PTL
        DEF Spec, ImplementsLife, Life!Spec, LifeVars, Stages, Taken, Accounts

-----------------------------------------------------------------------------
(* Requests that do not overlap: every credit has a row of its own *)

Serial == \A v, w \in Workers : v = w

\* Rounds of credits that need a row.
Claims(o) == credits[o]["online"] + credits[o]["admin"]

\* A row that is SUCCESS stays so.
SuccessKept ==
    \A t \in Txs : tx[t].status = "SUCCESS"
                     => tx'[t].status = "SUCCESS" /\ tx'[t].order = tx[t].order

\* A PAID order is not made payable again by this step.
PaidKept == \A o \in Orders : order[o].status = "PAID" => order'[o].status \notin Payable

LEMMA RowsCounted ==
    ASSUME IsFiniteSet(Txs), SuccessKept, NEW o
    PROVE  /\ Cardinality(SuccessRows(o)) \in Nat /\ Cardinality(SuccessRows(o)') \in Nat
           /\ Cardinality(SuccessRows(o)) <= Cardinality(SuccessRows(o)')
           /\ \A t \in SuccessRows(o)' \ SuccessRows(o) :
                Cardinality(SuccessRows(o)) + 1 <= Cardinality(SuccessRows(o)')
<1> DEFINE S == SuccessRows(o)
           T == SuccessRows(o)'
<1>1. S \in SUBSET T /\ T \in SUBSET Txs /\ S \in SUBSET Txs
    BY DEF SuccessKept, SuccessRows
<1> HIDE DEF S, T
<1>2. IsFiniteSet(S) /\ IsFiniteSet(T) /\ Cardinality(S) <= Cardinality(T)
    BY <1>1, FS_Subset
<1>3. Cardinality(S) \in Nat /\ Cardinality(T) \in Nat
    BY <1>2, FS_CardinalityType
<1>4. ASSUME NEW t \in T \ S PROVE Cardinality(S) + 1 <= Cardinality(T)
    <2>1. Cardinality(S \cup {t}) = Cardinality(S) + 1
        BY <1>2, FS_AddElement
    <2>2. S \cup {t} \in SUBSET T
        BY <1>1
    <2> QED BY <1>2, <2>1, <2>2, FS_Subset
<1> QED BY <1>2, <1>3, <1>4 DEF S, T

\* What no step of a request changes is covered as before.
LEMMA ClaimsKept ==
    ASSUME IsFiniteSet(Txs), TypeOK, CreditsCovered, SuccessKept,
           \A o \in Orders : Claims(o)' = Claims(o)
    PROVE  CreditsCovered'
<1> SUFFICES ASSUME NEW o \in Orders
             PROVE  Claims(o)' <= Cardinality(SuccessRows(o)')
    BY DEF CreditsCovered, Claims
<1>1. Claims(o) \in Nat /\ Claims(o) <= Cardinality(SuccessRows(o))
    BY DEF TypeOK, Claims, CreditsCovered, Origins
<1> QED BY <1>1, RowsCounted

\* A round of credits that a row is left for.
LEMMA ClaimAdded ==
    ASSUME IsFiniteSet(Txs), TypeOK, CreditsCovered, SuccessKept,
           NEW x \in Orders, NEW origin \in {"online", "admin"}, CreditRestaurants(x, origin),
           Claims(x) + 1 <= Cardinality(SuccessRows(x)')
    PROVE  CreditsCovered'
<1> SUFFICES ASSUME NEW o \in Orders
             PROVE  Claims(o)' <= Cardinality(SuccessRows(o)')
    BY DEF CreditsCovered, Claims
<1>1. Claims(o) \in Nat /\ Claims(o) <= Cardinality(SuccessRows(o))
    BY DEF TypeOK, Claims, CreditsCovered, Origins
<1>2. /\ o # x => Claims(o)' = Claims(o)
      /\ o = x => Claims(o)' = Claims(o) + 1
    BY DEF TypeOK, Claims, CreditRestaurants, Origins
<1> QED BY <1>1, <1>2, RowsCounted

LEMMA OtherClaims ==
    ASSUME TypeOK, NEW x \in Orders, NEW origin \in {"wallet", "cod"},
           CreditRestaurants(x, origin)
    PROVE  \A o \in Orders : Claims(o)' = Claims(o)
BY DEF TypeOK, Claims, CreditRestaurants, Origins

\* With one slot there is no other request.
LEMMA OneRequest ==
    ASSUME Serial, NEW w \in Workers, CreditsCovered', RequestAlone(req[w])'
    PROVE  SerialInv'
BY DEF Serial, SerialInv

LEMMA IdleAlone ==
    ASSUME NEW w \in Workers, req'[w] = Idle
    PROVE  RequestAlone(req[w])'
<1>1. req'[w].pc = "idle"
    BY DEF Idle, NewFrame
<1> QED BY <1>1 DEF RequestAlone

\* No owner makes an order PENDING, nor a PAID order payable.
LEMMA NeverToPending ==
    /\ \A s : "PENDING" \notin VALID_TRANSITIONS(s)
    /\ \A s \in VALID_TRANSITIONS("PAID") : s \notin Payable
<1>1. ASSUME NEW s PROVE "PENDING" \notin VALID_TRANSITIONS(s)
    <2>1. CASE s \in {"PENDING", "AWAITING_PAYMENT", "PAID", "PREPARING", "READY"}
        BY <2>1 DEF VALID_TRANSITIONS
    <2>2. CASE s \notin {"PENDING", "AWAITING_PAYMENT", "PAID", "PREPARING", "READY"}
        BY <2>2 DEF VALID_TRANSITIONS
    <2> QED BY <2>1, <2>2
<1>2. \A s \in VALID_TRANSITIONS("PAID") : s \notin Payable
    BY DEF VALID_TRANSITIONS, Payable
<1> QED BY <1>1, <1>2

\* A request that arrives has just read what it goes by, and writes nothing.
LEMMA ArriveAlone ==
    ASSUME TypeOK, NEW w \in Workers, Arrive(w)
    PROVE  RequestAlone(req[w])' /\ UNCHANGED <<order, tx, credits>>
<1>1. req \in [Workers -> Frame]
    BY DEF TypeOK
<1>2. ASSUME NEW f, Begin(w, f) PROVE req'[w] = f
    BY <1>1, <1>2 DEF Begin
<1>3. ASSUME NEW o, NEW t, NEW pc, Begin(w, PaymentFrame(pc, o, t)),
             UNCHANGED <<order, tx, credits, wallet, qr>>,
             tx[t].status = "PENDING",
             pc \in {"verify", "clientVerify", "markSuccess", "markFailed"}
               => order[o].status # "PAID",
             pc \in {"verify", "clientVerify", "markSuccess", "markFailed", "settleTx"}
      PROVE  RequestAlone(req[w])' /\ UNCHANGED <<order, tx, credits>>
    <2>1. req'[w].pc = pc /\ req'[w].o = o /\ req'[w].t = t
        BY <1>2, <1>3 DEF PaymentFrame, NewFrame
    <2> QED BY <1>3, <2>1 DEF RequestAlone
<1>4. ASSUME NEW o \in Orders, NEW method \in PaymentMethod, InitiatePayment(w, o, method)
      PROVE  RequestAlone(req[w])' /\ UNCHANGED <<order, tx, credits>>
    <2>1. req'[w].pc \in {"initCancelOld", "initGateway"} /\ req'[w].o = o
        BY <1>2, <1>4 DEF InitiatePayment, NewFrame
    <2> QED BY <1>4, <2>1 DEF InitiatePayment, RequestAlone
<1>5. ASSUME NEW o, NEW type, RedirectCallback(w, o, type)
      PROVE  RequestAlone(req[w])' /\ UNCHANGED <<order, tx, credits>>
    BY <1>3, <1>5 DEF RedirectCallback, PendingTxs
<1>6. ASSUME NEW o, NEW status, WebhookCallback(w, o, status)
      PROVE  RequestAlone(req[w])' /\ UNCHANGED <<order, tx, credits>>
    <2> DEFINE pc == CASE status = "paid" -> "markSuccess"
                       [] status = "unknown" -> "verify"
                       [] OTHER -> "markFailed"
    <2>1. PICK t \in PendingTxs(o) :
                 Begin(w, PaymentFrame(pc, o, t)) /\ order[o].status # "PAID"
        BY <1>6 DEF WebhookCallback
    <2>2. pc \in {"markSuccess", "verify", "markFailed"}
        OBVIOUS
    <2>3. tx[t].status = "PENDING" /\ UNCHANGED <<order, tx, credits, wallet, qr>>
        BY <1>6, <2>1 DEF PendingTxs, WebhookCallback
    <2> HIDE DEF pc
    <2> QED BY <1>3, <2>1, <2>2, <2>3
<1>7. ASSUME NEW t \in Txs, VerifyPayment(w, t)
      PROVE  RequestAlone(req[w])' /\ UNCHANGED <<order, tx, credits>>
    BY <1>3, <1>7 DEF VerifyPayment
<1>8. ASSUME NEW o \in Orders, NEW status \in OrderStatus, UpdateStatus(w, o, status)
      PROVE  RequestAlone(req[w])' /\ UNCHANGED <<order, tx, credits>>
    <2> DEFINE pc == IF status = "DELIVERED" /\ order[o].paymentMethod = "CASH_ON_DELIVERY"
                     THEN "updateCod" ELSE "updateStatus"
    <2>0. Begin(w, NewFrame(pc, o, None, None, 0, status)) /\ pc \in {"updateStatus", "updateCod"}
        BY <1>8 DEF UpdateStatus
    <2> HIDE DEF pc
    <2>1. /\ req'[w].pc \in {"updateStatus", "updateCod"}
          /\ req'[w].arg = status /\ req'[w].o = o
        BY <1>2, <2>0 DEF NewFrame
    <2>2. status # "PENDING" /\ (status \in Payable => order[o].status # "PAID")
        BY <1>8, NeverToPending DEF UpdateStatus
    <2> QED BY <1>8, <2>1, <2>2 DEF UpdateStatus, RequestAlone
<1>9. CASE WalletBegin(w)
    <2>1. ASSUME NEW f, Begin(w, f), f.pc \in {"rechargeCommit", "walletReadOrder"},
                 UNCHANGED <<order, tx, credits>>
          PROVE  RequestAlone(req[w])' /\ UNCHANGED <<order, tx, credits>>
        BY <1>2, <2>1 DEF RequestAlone
    <2>2. ASSUME NEW u \in Users, Recharge(w, u)
          PROVE  RequestAlone(req[w])' /\ UNCHANGED <<order, tx, credits>>
        BY <2>1, <2>2 DEF Recharge, NewFrame
    <2>3. ASSUME NEW o \in Orders, PayWithWallet(w, o)
          PROVE  RequestAlone(req[w])' /\ UNCHANGED <<order, tx, credits>>
        BY <2>1, <2>3 DEF PayWithWallet, NewFrame
    <2> QED BY <1>9, <2>2, <2>3 DEF WalletBegin
<1>10. ASSUME NEW t \in Txs, ManuallyValidate(w, t)
       PROVE  RequestAlone(req[w])' /\ UNCHANGED <<order, tx, credits>>
    <2>1. req'[w].pc = "adminRead" /\ req'[w].t = t
        BY <1>2, <1>10 DEF ManuallyValidate, NewFrame
    <2> QED BY <1>10, <2>1 DEF ManuallyValidate, RequestAlone
<1> QED BY <1>4, <1>5, <1>6, <1>7, <1>8, <1>9, <1>10
        DEF Arrive, PaymentsBegin, Redirect, Webhook, OrdersBegin, AdminBegin

\* Steps that write neither rows nor orders nor credits.
LEMMA QuietAlone ==
    ASSUME PaymentInv, NEW w \in Workers, RequestAlone(req[w]),
           \/ GatewayUnsupported(w) \/ GatewaySynchronous(w) \/ GatewayOrangeMoney(w)
           \/ Verify(w) \/ ClientVerify(w) \/ ConfirmRead(w) \/ ConfirmFails(w)
           \/ WalletReadOrder(w) \/ Abort(w)
    PROVE  RequestAlone(req[w])' /\ UNCHANGED <<order, tx, credits>>
<1>1. TypeOK /\ req \in [Workers -> Frame]
    BY DEF PaymentInv, TypeOK
<1>2. ASSUME Return(w) PROVE RequestAlone(req[w])'
    BY <1>1, <1>2, StepMoves, IdleAlone
<1>3. CASE GatewayUnsupported(w) \/ GatewaySynchronous(w) \/ WalletReadOrder(w) \/ Abort(w)
    BY <1>1, <1>2, <1>3, StepMoves
       DEF GatewayUnsupported, GatewaySynchronous, WalletReadOrder, Abort, RequestAlone
<1>4. CASE GatewayOrangeMoney(w)
    <2>1. ASSUME NEW t \in Txs, Fresh(t),
                 req' = [req EXCEPT ![w].pc = "initPendingRow", ![w].t = t]
          PROVE  req'[w].pc = "initPendingRow" /\ req'[w].t = t /\ req'[w].o = req[w].o
        BY <1>1, <2>1 DEF Frame
    <2> QED BY <1>1, <1>4, <2>1, StepMoves DEF GatewayOrangeMoney, Fresh, RequestAlone
<1>5. CASE Verify(w)
    BY <1>1, <1>2, <1>5, StepMoves DEF Verify, RequestAlone
<1>6. CASE ClientVerify(w)
    BY <1>1, <1>2, <1>6, StepMoves DEF ClientVerify, RequestAlone
<1>7. ASSUME ConfirmRead(w) \/ ConfirmFails(w),
             req'[w].pc \in {"confirmRead", "confirmCommit"}, req'[w].o = req[w].o,
             req'[w].pc = "confirmCommit" => order[req[w].o].status # "PAID"
      PROVE  RequestAlone(req[w])'
    <2>1. UNCHANGED <<order, tx, credits>> /\ req[w].pc \in {"confirmRead", "confirmCommit"}
        BY <1>7 DEF ConfirmRead, ConfirmFails
    <2>2. SuccessRows(req[w].o)' = SuccessRows(req'[w].o)
        BY <1>7, <2>1 DEF SuccessRows
    <2>3. /\ SuccessRows(req'[w].o) = SuccessRows(req[w].o)
          /\ SuccessRows(req[w].o)' = SuccessRows(req[w].o)
        BY <1>7, <2>2
    <2> QED BY <1>7, <2>1, <2>3 DEF RequestAlone
<1>8. CASE ConfirmRead(w) \/ ConfirmFails(w)
    <2>1. UNCHANGED <<order, tx, credits>>
        BY <1>8 DEF ConfirmRead, ConfirmFails
    <2>2. \/ Return(w)
          \/ req'[w].pc = "confirmCommit" /\ req'[w].o = req[w].o /\ order[req[w].o].status # "PAID"
          \/ req'[w] = Idle
          \/ req'[w].pc = "confirmRead" /\ req'[w].o = req[w].o
        BY <1>1, <1>8, StepMoves DEF ConfirmRead, ConfirmFails
    <2> QED BY <1>2, <1>7, <1>8, <2>1, <2>2, IdleAlone
<1> QED BY <1>3, <1>4, <1>5, <1>6, <1>8

SerialStep == SerialInv' /\ PaidKept

\* Steps that write rows of payments, or the order, and credit nobody.
LEMMA WriteSerial ==
    ASSUME Serial, IsFiniteSet(Txs), PaymentInv, SerialInv, NEW w \in Workers,
           \/ CancelOldTransactions(w) \/ CreateFailedRow(w) \/ CreatePendingRow(w)
           \/ AwaitPayment(w) \/ SettleTx(w) \/ MarkFailed(w) \/ ResetOrder(w)
           \/ WriteStatus(w) \/ RechargeCommit(w) \/ AdminRead(w)
    PROVE  SerialStep
<1> DEFINE o == req[w].o
           t == req[w].t
<1>1. /\ TypeOK /\ req \in [Workers -> Frame]
      /\ tx \in [Txs -> TxRow] /\ order \in [Orders -> OrderRow]
      /\ CreditsCovered /\ RequestAlone(req[w])
      /\ req[w].pc \in RowSteps => t \in Txs /\ o \in Orders
    BY FrameKnown DEF SerialInv, TypeOK
<1>2. ASSUME SuccessKept, UNCHANGED credits, RequestAlone(req[w])', PaidKept
      PROVE  SerialStep
    <2>1. \A x \in Orders : Claims(x)' = Claims(x)
        BY <1>2 DEF Claims
    <2> QED BY <1>1, <1>2, <2>1, ClaimsKept, OneRequest DEF SerialStep
<1>3. ASSUME UNCHANGED order PROVE PaidKept
    BY <1>3 DEF PaidKept, Payable
<1>4. ASSUME UNCHANGED tx PROVE SuccessKept
    BY <1>4 DEF SuccessKept
<1>5. ASSUME Return(w) PROVE RequestAlone(req[w])'
    BY <1>1, <1>5, StepMoves, IdleAlone
<1>6. CASE CancelOldTransactions(w)
    <2>1. SuccessKept
        BY <1>1, <1>6 DEF CancelOldTransactions, PendingTxs, SuccessKept
    <2>2. RequestAlone(req[w])'
        BY <1>1, <1>6, StepMoves DEF CancelOldTransactions, RequestAlone
    <2> QED BY <1>2, <1>3, <1>6, <2>1, <2>2 DEF CancelOldTransactions
<1>7. CASE CreateFailedRow(w)
    <2>1. SuccessKept
        BY <1>1, <1>7 DEF CreateFailedRow, Fresh, SuccessKept
    <2> QED BY <1>2, <1>3, <1>5, <1>7, <2>1 DEF CreateFailedRow
<1>8. CASE CreatePendingRow(w)
    <2>1. tx[t].status = "ABSENT"
        BY <1>1, <1>8 DEF CreatePendingRow, RequestAlone
    <2>2. SuccessKept
        BY <1>1, <1>8, <2>1 DEF CreatePendingRow, SuccessKept
    <2>3. RequestAlone(req[w])'
        BY <1>1, <1>8, StepMoves DEF CreatePendingRow, RequestAlone
    <2> QED BY <1>2, <1>3, <1>8, <2>2, <2>3 DEF CreatePendingRow
<1>9. CASE AwaitPayment(w)
    <2>1. order[o].status # "PAID"
        BY <1>1, <1>9 DEF AwaitPayment, RequestAlone
    <2>2. PaidKept
        BY <1>1, <1>9, <2>1 DEF AwaitPayment, PaidKept, Payable
    <2> QED BY <1>2, <1>4, <1>5, <1>9, <2>2 DEF AwaitPayment
<1>10. CASE SettleTx(w)
    <2>1. SuccessKept
        BY <1>1, <1>10 DEF SettleTx, SetTxStatus, SuccessKept
    <2> QED BY <1>2, <1>3, <1>5, <1>10, <2>1 DEF SettleTx
<1>11. CASE MarkFailed(w)
    <2>1. tx[t].status = "PENDING" /\ order[o].status # "PAID"
        BY <1>1, <1>11 DEF MarkFailed, RequestAlone
    <2>2. SuccessKept
        BY <1>1, <1>11, <2>1 DEF MarkFailed, SetTxStatus, SuccessKept
    <2>3. RequestAlone(req[w])'
        BY <1>1, <1>11, <2>1, StepMoves DEF MarkFailed, RequestAlone
    <2> QED BY <1>2, <1>3, <1>11, <2>2, <2>3 DEF MarkFailed
<1>12. CASE ResetOrder(w)
    <2>1. order[o].status # "PAID"
        BY <1>1, <1>12 DEF ResetOrder, RequestAlone
    <2>2. PaidKept
        BY <1>1, <1>12, <2>1 DEF ResetOrder, SetOrderStatus, PaidKept, Payable
    <2> QED BY <1>2, <1>4, <1>5, <1>12, <2>2 DEF ResetOrder
<1>13. CASE WriteStatus(w)
    <2>1. req[w].arg \in Payable => order[o].status # "PAID"
        BY <1>1, <1>13 DEF WriteStatus, RequestAlone
    <2>2. PaidKept
        BY <1>1, <1>13, <2>1 DEF WriteStatus, SetOrderStatus, PaidKept, Payable
    <2> QED BY <1>2, <1>4, <1>5, <1>13, <2>2 DEF WriteStatus
<1>14. CASE RechargeCommit(w)
    BY <1>2, <1>3, <1>4, <1>5, <1>14 DEF RechargeCommit
<1>15. CASE AdminRead(w)
    <2>1. SuccessKept
        <3>1. CASE UNCHANGED tx
            BY <1>4, <3>1
        <3>2. CASE SetTxStatus(t, "SUCCESS")
            BY <1>1, <1>15, <3>2 DEF SetTxStatus, SuccessKept
        <3> QED BY <1>15, <3>1, <3>2 DEF AdminRead
    <2>2. RequestAlone(req[w])'
        BY <1>1, <1>5, <1>15, StepMoves DEF AdminRead, RequestAlone
    <2> QED BY <1>2, <1>3, <1>15, <2>1, <2>2 DEF AdminRead
<1> QED BY <1>6, <1>7, <1>8, <1>9, <1>10, <1>11, <1>12, <1>13, <1>14, <1>15

\* Steps that credit restaurants, or settle the row they are credited for.
LEMMA CreditSerial ==
    ASSUME Serial, IsFiniteSet(Txs), PaymentInv, SerialInv, NEW w \in Workers,
           \/ ConfirmPayment(w) \/ MarkSuccess(w) \/ ConfirmCommit(w)
           \/ DeliverCod(w) \/ WalletCommit(w) \/ AdminCommit(w)
    PROVE  SerialStep
<1>0. PICK o, t : o = req[w].o /\ t = req[w].t
    OBVIOUS
<1> USE <1>0
<1>1. /\ TypeOK /\ req \in [Workers -> Frame]
      /\ tx \in [Txs -> TxRow] /\ order \in [Orders -> OrderRow]
      /\ CreditsCovered /\ RequestAlone(req[w]) /\ RequestBacked(req[w])
      /\ req[w].pc \in OrderSteps => o \in Orders
      /\ req[w].pc \in RowSteps => t \in Txs
    BY FrameKnown DEF SerialInv, TypeOK
<1>2. o \in Orders /\ Claims(o) \in Nat /\ Claims(o) <= Cardinality(SuccessRows(o))
    <2>1. o \in Orders
        BY <1>1 DEF ConfirmPayment, MarkSuccess, ConfirmCommit, DeliverCod, WalletCommit,
           AdminCommit, OrderSteps, Steps
    <2> QED BY <1>1, <2>1 DEF TypeOK, Claims, CreditsCovered, Origins
<1>3. ASSUME CreditsCovered', RequestAlone(req[w])', PaidKept PROVE SerialStep
    BY <1>3, OneRequest DEF SerialStep
<1>4. ASSUME UNCHANGED tx PROVE SuccessKept /\ SuccessRows(o)' = SuccessRows(o)
    BY <1>4 DEF SuccessKept, SuccessRows
<1>5. ASSUME Return(w) PROVE RequestAlone(req[w])'
    BY <1>1, <1>5, StepMoves, IdleAlone
<1>6. ASSUME NEW r \in Txs, tx[r].status # "SUCCESS", tx'[r].status = "SUCCESS",
             tx'[r].order = o, SuccessKept
      PROVE  Claims(o) + 1 <= Cardinality(SuccessRows(o)')
    <2>1. r \in SuccessRows(o)' \ SuccessRows(o)
        BY <1>6 DEF SuccessRows
    <2> QED BY <1>2, <1>6, <2>1, RowsCounted
<1>7. ASSUME \A x \in Orders : order'[x] # order[x] => order'[x].status \notin Payable
      PROVE  PaidKept
    BY <1>7 DEF PaidKept, Payable
<1>8. ASSUME SetOrderPaid(o) PROVE PaidKept
    BY <1>1, <1>7, <1>8 DEF SetOrderPaid, Payable
<1>9. CASE ConfirmPayment(w)
    <2>1. PICK r \in Txs : /\ Fresh(r)
                           /\ tx' = [tx EXCEPT ![r] = [status |-> "SUCCESS", order |-> o,
                                                       provider |-> "WAVE"]]
        BY <1>9 DEF ConfirmPayment
    <2>2. /\ tx[r].status # "SUCCESS" /\ SuccessKept
          /\ tx'[r].status = "SUCCESS" /\ tx'[r].order = o
        BY <1>1, <2>1 DEF Fresh, SuccessKept
    <2>3. CreditsCovered'
        BY <1>1, <1>2, <1>6, <1>9, <2>2, ClaimAdded DEF ConfirmPayment
    <2>4. PaidKept
        BY <1>1, <1>7, <1>9 DEF ConfirmPayment, Payable
    <2> QED BY <1>3, <1>5, <1>9, <2>3, <2>4 DEF ConfirmPayment
<1>10. CASE MarkSuccess(w)
    <2>1. t \in Txs /\ tx[t].status = "PENDING" /\ tx[t].order = o
        BY <1>1, <1>10 DEF MarkSuccess, RequestAlone, RequestBacked, RowSteps
    <2>2. SuccessKept /\ tx'[t].status = "SUCCESS" /\ tx'[t].order = o
        BY <1>1, <1>10, <2>1 DEF MarkSuccess, SetTxStatus, SuccessKept
    <2>3. UNCHANGED <<order, credits>> /\ Claims(o) + 1 <= Cardinality(SuccessRows(o)')
        BY <1>6, <1>10, <2>1, <2>2 DEF MarkSuccess
    <2>4. req'[w].pc = "confirmRead" /\ req'[w].o = o
        BY <1>1, <1>10 DEF MarkSuccess, Frame
    <2>5. SuccessRows(req[w].o)' = SuccessRows(o)'
        BY <2>4 DEF SuccessRows
    <2>6. RequestAlone(req[w])'
        BY <2>3, <2>4, <2>5 DEF RequestAlone, Claims
    <2>7. CreditsCovered'
        <3>1. \A x \in Orders : Claims(x)' = Claims(x)
            BY <2>3 DEF Claims
        <3> QED BY <1>1, <2>2, <3>1, ClaimsKept
    <2> QED BY <1>3, <1>7, <2>3, <2>6, <2>7
<1>11. CASE ConfirmCommit(w)
    <2>1. SuccessKept /\ Claims(o) + 1 <= Cardinality(SuccessRows(o)')
        <3>1. order[o].status # "PAID" /\ UNCHANGED tx
            BY <1>1, <1>11 DEF ConfirmCommit, RequestAlone
        <3>2. Claims(o) + 1 <= Cardinality(SuccessRows(o))
            BY <1>1, <1>11, <3>1 DEF ConfirmCommit, RequestAlone, Claims
        <3> QED BY <1>2, <1>4, <3>1, <3>2, RowsCounted
    <2>2. CreditsCovered'
        BY <1>1, <1>2, <1>11, <2>1, ClaimAdded DEF ConfirmCommit
    <2>3. order'[o].status = "PAID"
        BY <1>1, <1>2, <1>11 DEF ConfirmCommit, SetOrderPaid
    <2>4. RequestAlone(req[w])'
        <3>1. CASE Return(w)
            BY <1>5, <3>1
        <3>2. CASE RetryOrThrow(w)
            <4>1. req'[w] = Idle \/ (req'[w].pc = "confirmRead" /\ req'[w].o = o)
                BY <1>1, <3>2, StepMoves
            <4> QED BY <2>3, <4>1, IdleAlone DEF RequestAlone
        <3> QED BY <1>11, <3>1, <3>2 DEF ConfirmCommit
    <2> QED BY <1>3, <1>8, <1>11, <2>2, <2>4 DEF ConfirmCommit
<1>12. CASE DeliverCod(w)
    <2>1. CreditsCovered'
        BY <1>1, <1>2, <1>4, <1>12, OtherClaims, ClaimsKept DEF DeliverCod
    <2>2. PaidKept
        BY <1>1, <1>7, <1>12 DEF DeliverCod, Payable
    <2> QED BY <1>3, <1>5, <1>12, <2>1, <2>2 DEF DeliverCod
<1>13. CASE WalletCommit(w)
    <2>1. CreditsCovered'
        BY <1>1, <1>2, <1>4, <1>13, OtherClaims, ClaimsKept DEF WalletCommit
    <2> QED BY <1>3, <1>5, <1>8, <1>13, <2>1 DEF WalletCommit
<1>14. CASE AdminCommit(w)
    <2>1. t \in Txs /\ tx[t].status # "SUCCESS" /\ tx[t].order = o
        BY <1>1, <1>14 DEF AdminCommit, RequestAlone, RequestBacked, RowSteps
    <2>2. SuccessKept /\ tx'[t].status = "SUCCESS" /\ tx'[t].order = o
        BY <1>1, <1>14, <2>1 DEF AdminCommit, SuccessKept
    <2>3. CreditsCovered'
        BY <1>1, <1>2, <1>6, <1>14, <2>1, <2>2, ClaimAdded DEF AdminCommit
    <2> QED BY <1>3, <1>5, <1>8, <1>14, <2>3 DEF AdminCommit
<1> QED BY <1>9, <1>10, <1>11, <1>12, <1>13, <1>14

\* Orders that are placed and QR codes that are paid touch none of it.
LEMMA BesideSerial ==
    ASSUME IsFiniteSet(Txs), PaymentInv, SerialInv,
           OrdersCreate \/ OrangeMoneyNext \/ UNCHANGED vars
    PROVE  SerialStep
<1>1. TypeOK /\ CreditsCovered /\ order \in [Orders -> OrderRow]
    BY DEF PaymentInv, SerialInv, TypeOK
<1>2. /\ UNCHANGED <<tx, credits, req>>
      /\ \A o \in Orders : /\ order[o].status = "PAID" <=> order'[o].status = "PAID"
    BY <1>1 DEF OrdersCreate, Create, OrangeMoneyNext, PayQr, CancelQr, ExpireQr, SetQr, vars
<1>3. SuccessKept /\ (\A o \in Orders : Claims(o)' = Claims(o))
    BY <1>2 DEF SuccessKept, Claims
<1>4. CreditsCovered'
    BY <1>1, <1>3, ClaimsKept
<1>5. ASSUME NEW w \in Workers PROVE RequestAlone(req[w])'
    <2>1. RequestAlone(req[w]) /\ (req[w].pc \in OrderSteps => req[w].o \in Orders)
        BY FrameKnown DEF SerialInv
    <2>2. SuccessRows(req[w].o)' = SuccessRows(req[w].o)
        BY <1>2 DEF SuccessRows
    <2> QED BY <1>2, <2>1, <2>2 DEF RequestAlone, OrderSteps, Steps
<1>6. PaidKept
    BY <1>2 DEF PaidKept, Payable
<1> QED BY <1>4, <1>5, <1>6 DEF SerialStep, SerialInv

LEMMA NextSerial ==
    ASSUME Serial, IsFiniteSet(Txs)
    PROVE  PaymentInv /\ SerialInv /\ [Next]_vars => SerialStep
<1> SUFFICES ASSUME PaymentInv, SerialInv, [Next]_vars PROVE SerialStep
    OBVIOUS
<1>1. TypeOK /\ CreditsCovered
    BY DEF PaymentInv, SerialInv
<1>2. ASSUME NEW w \in Workers, RequestAlone(req[w])', UNCHANGED <<order, tx, credits>>
      PROVE  SerialStep
    <2>1. SuccessKept /\ PaidKept /\ (\A o \in Orders : Claims(o)' = Claims(o))
        BY <1>2 DEF SuccessKept, PaidKept, Payable, Claims
    <2> QED BY <1>1, <1>2, <2>1, ClaimsKept, OneRequest DEF SerialStep
<1>3. ASSUME NEW w \in Workers, Arrive(w) PROVE SerialStep
    BY <1>1, <1>2, <1>3, ArriveAlone
<1>4. ASSUME NEW w \in Workers, Step(w) \/ Abort(w) PROVE SerialStep
    <2>1. RequestAlone(req[w])
        BY DEF SerialInv
    <2> QED BY <1>2, <1>4, <2>1, QuietAlone, WriteSerial, CreditSerial
            DEF Step, PaymentsStep, OrdersStep, WalletStep, AdminStep
<1> QED BY <1>3, <1>4, BesideSerial DEF Next

LEMMA InitSerial == Init => SerialInv
<1> SUFFICES ASSUME Init PROVE SerialInv
    OBVIOUS
<1>1. \A o : SuccessRows(o) = {}
    BY DEF Init, StoreInit, SuccessRows
<1>2. CreditsCovered
    <2>1. \A o \in Orders : credits[o]["online"] = 0 /\ credits[o]["admin"] = 0
        BY DEF Init, StoreInit, Origins
    <2>2. \A o : Cardinality(SuccessRows(o)) = 0
        BY <1>1, FS_EmptySet
    <2> QED BY <2>1, <2>2 DEF CreditsCovered
<1>3. \A w \in Workers : RequestAlone(req[w])
    BY DEF Init, StoreInit, RequestAlone, Idle, NewFrame
<1> QED BY <1>2, <1>3 DEF SerialInv

\* When requests do not overlap, every online or admin credit has a SUCCESS row
\* of its own: repeated notifications, lost acknowledgements, manual validations and
\* requests that die between two writes credit nobody twice.
THEOREM SerialCreditsCovered ==
    ASSUME Serial, IsFiniteSet(Txs) PROVE Spec => []CreditsCovered
<1>1. PaymentInv /\ SerialInv /\ [Next]_vars => SerialInv'
    BY NextSerial DEF SerialStep
<1>2. SerialInv => CreditsCovered
    BY DEF SerialInv
<1> QED BY <1>1, <1>2, InitSerial, PaymentInvariant, PTL DEF Spec

\* When requests do not overlap, an order that is PAID is not made payable again, neither
\* PENDING nor AWAITING_PAYMENT, whatever pages are loaded again and notifications late.
THEOREM SerialPaidNotReset ==
    ASSUME Serial, IsFiniteSet(Txs) PROVE Spec => PaidOrderNotReset
<1>1. PaymentInv /\ SerialInv /\ [Next]_vars => SerialInv' /\ PaidKept
    BY NextSerial DEF SerialStep
<1> QED BY <1>1, InitSerial, PaymentInvariant, PTL DEF Spec, PaidOrderNotReset, PaidKept

-----------------------------------------------------------------------------
(* Requests that do not overlap and do not die: one payment, one credit *)

InitSteps == {"initCancelOld", "initGateway", "initFailedRow", "initPendingRow", "initConfirm",
              "initOrder"}

ClearSteps == {"initGateway", "initFailedRow", "initPendingRow", "initConfirm", "confirmRead",
               "confirmCommit", "resetOrder"}

Confirms == {"confirmRead", "confirmCommit"}

\* No row becomes PENDING.
PendingShrinks ==
    \A t \in Txs : tx'[t].status = "PENDING"
                     => tx[t].status = "PENDING" /\ tx'[t].order = tx[t].order

\* The order stays, or leaves the payable ones, perhaps with its first online credit,
\* or becomes payable, uncredited and without a row.
Moves(o) ==
    \/ UNCHANGED <<order[o].status, credits[o]["online"]>>
    \/ /\ order'[o].status \notin Payable \cup {"ABSENT"}
       /\ \/ credits'[o]["online"] = credits[o]["online"]
          \/ PendingTxs(o) = {} /\ credits[o]["online"] = 0 /\ credits'[o]["online"] = 1
    \/ /\ credits[o]["online"] = 0 /\ credits'[o]["online"] = 0
       /\ order'[o].status = "AWAITING_PAYMENT" \/ PendingTxs(o) = {}

LEMMA CalmKept ==
    ASSUME TypeOK, PendingShrinks, NEW o \in Orders, OrderCalm(o), Moves(o),
           \A w \in Workers : req[w].pc # "initOrder"
    PROVE  OrderCalm(o)'
<1>1. PendingTxs(o)' \subseteq PendingTxs(o)
    BY DEF PendingShrinks, PendingTxs
<1>2. \A s, t \in PendingTxs(o)' : s = t
    BY <1>1 DEF OrderCalm
<1>3. order[o].status \in {"ABSENT", "PENDING"} => PendingTxs(o) = {}
    BY DEF OrderCalm
<1>4. order'[o].status \in {"ABSENT", "PENDING"} => PendingTxs(o)' = {}
    BY <1>1, <1>3 DEF Moves, Payable
<1>5. credits[o]["online"] > 0 =>
         /\ credits[o]["online"] = 1 /\ PendingTxs(o) = {}
         /\ order[o].status \notin Payable \cup {"ABSENT"}
    BY DEF OrderCalm
<1>6. credits'[o]["online"] > 0 =>
         /\ credits'[o]["online"] = 1 /\ PendingTxs(o)' = {}
         /\ order'[o].status \notin Payable \cup {"ABSENT"}
    BY <1>1, <1>5 DEF Moves
<1> QED BY <1>2, <1>4, <1>6 DEF OrderCalm

\* What a request holds at its next step.
LEMMA CalmFrame ==
    ASSUME NEW w \in Workers, NEW o, NEW pc, req'[w].pc = pc, req'[w].o = o,
           pc # "updateStatus",
           pc \in InitSteps => order'[o].status \in Payable,
           pc \in ClearSteps => PendingTxs(o)' = {},
           pc = "resetOrder" \/ (pc \in Confirms /\ order'[o].status # "PAID")
             => credits'[o]["online"] = 0
    PROVE  RequestCalm(req[w])'
<1>1. PendingTxs(req[w].o)' = PendingTxs(o)'
    BY DEF PendingTxs
<1> QED BY <1>1 DEF RequestCalm, InitSteps, ClearSteps, Confirms

LEMMA IdleCalm ==
    ASSUME NEW w \in Workers, req'[w] = Idle
    PROVE  RequestCalm(req[w])'
<1>1. req'[w].pc = "idle"
    BY DEF Idle, NewFrame
<1> QED BY <1>1 DEF RequestCalm

LEMMA OneCalm ==
    ASSUME Serial, NEW w \in Workers, \A o \in Orders : OrderCalm(o)', RequestCalm(req[w])'
    PROVE  CalmInv'
BY DEF Serial, CalmInv

\* AWAITING_PAYMENT is what an owner makes of a PENDING order only.
LEMMA AwaitingFromPending ==
    \A s : "AWAITING_PAYMENT" \in VALID_TRANSITIONS(s) => s = "PENDING"
<1> TAKE s
<1>1. CASE s \in {"PENDING", "AWAITING_PAYMENT", "PAID", "PREPARING", "READY"}
    BY <1>1 DEF VALID_TRANSITIONS
<1>2. CASE s \notin {"PENDING", "AWAITING_PAYMENT", "PAID", "PREPARING", "READY"}
    BY <1>2 DEF VALID_TRANSITIONS
<1> QED BY <1>1, <1>2

\* A step that is not the last one of an initiation.
LEMMA StepCalm ==
    ASSUME Serial, TypeOK, CalmInv, NEW w \in Workers, req[w].pc # "initOrder",
           PendingShrinks, \A o \in Orders : Moves(o), RequestCalm(req[w])'
    PROVE  CalmInv'
<1>1. \A v \in Workers : req[v].pc # "initOrder"
    BY DEF Serial
<1>2. \A o \in Orders : OrderCalm(o)'
    BY <1>1, CalmKept DEF CalmInv
<1> QED BY <1>2, OneCalm

\* What does not write the tables leaves the orders as they are.
LEMMA NothingMoves ==
    ASSUME UNCHANGED <<order, tx, credits>>
    PROVE  PendingShrinks /\ \A o : Moves(o) /\ PendingTxs(o)' = PendingTxs(o)
BY DEF PendingShrinks, Moves, PendingTxs

LEMMA ArriveCalm ==
    ASSUME Serial, TypeOK, CalmInv, NEW w \in Workers, Arrive(w)
    PROVE  CalmInv'
<1>1. req \in [Workers -> Frame] /\ UNCHANGED <<order, tx, credits>>
    BY ArriveAlone DEF TypeOK
<1>2. ASSUME NEW f, Begin(w, f) PROVE req'[w] = f
    BY <1>1, <1>2 DEF Begin
<1>3. req[w].pc = "idle" /\ \A v \in Workers : req[v].pc # "initOrder"
    <2>1. req[w] = Idle
        BY DEF Arrive, PaymentsBegin, InitiatePayment, Redirect, RedirectCallback, Webhook,
           WebhookCallback, VerifyPayment, OrdersBegin, UpdateStatus, WalletBegin, Recharge,
           PayWithWallet, AdminBegin, ManuallyValidate, Begin
    <2> QED BY <2>1 DEF Idle, NewFrame, Serial
<1>4. ASSUME NEW pc, req'[w].pc = pc, pc \notin InitSteps \cup ClearSteps \cup {"updateStatus"}
      PROVE  RequestCalm(req[w])'
    BY <1>4 DEF RequestCalm, InitSteps, ClearSteps
<1>5. ASSUME NEW o, NEW t, NEW pc, Begin(w, PaymentFrame(pc, o, t)),
             pc \in {"verify", "clientVerify", "markSuccess", "markFailed", "settleTx"}
      PROVE  RequestCalm(req[w])'
    <2>1. req'[w].pc = pc
        BY <1>2, <1>5 DEF PaymentFrame, NewFrame
    <2> QED BY <1>4, <1>5, <2>1 DEF InitSteps, ClearSteps
<1>6. ASSUME NEW o \in Orders, NEW method \in PaymentMethod, InitiatePayment(w, o, method)
      PROVE  RequestCalm(req[w])'
    <2> DEFINE pc == IF order[o].status = "AWAITING_PAYMENT" THEN "initCancelOld" ELSE "initGateway"
    <2>1. /\ Begin(w, NewFrame(pc, o, None, None, 0, method)) /\ order[o].status \in Payable
          /\ \/ pc = "initCancelOld"
             \/ pc = "initGateway" /\ order[o].status = "PENDING"
        BY <1>6 DEF InitiatePayment, Payable
    <2> HIDE DEF pc
    <2>2. req'[w].pc = pc /\ req'[w].o = o
        BY <1>2, <2>1 DEF NewFrame
    <2>3. order[o].status = "PENDING" => PendingTxs(o) = {}
        BY <1>3 DEF CalmInv, OrderCalm
    <2>4. PendingTxs(o)' = PendingTxs(o) /\ order' = order
        BY <1>1, NothingMoves
    <2> QED BY <2>1, <2>2, <2>3, <2>4, CalmFrame DEF InitSteps, ClearSteps, Confirms
<1>7. ASSUME NEW o, NEW type, RedirectCallback(w, o, type) PROVE RequestCalm(req[w])'
    BY <1>5, <1>7 DEF RedirectCallback
<1>8. ASSUME NEW o, NEW status, WebhookCallback(w, o, status) PROVE RequestCalm(req[w])'
    <2> DEFINE pc == CASE status = "paid" -> "markSuccess"
                       [] status = "unknown" -> "verify"
                       [] OTHER -> "markFailed"
    <2>1. PICK t \in PendingTxs(o) : Begin(w, PaymentFrame(pc, o, t))
        BY <1>8 DEF WebhookCallback
    <2>2. pc \in {"markSuccess", "verify", "markFailed"}
        OBVIOUS
    <2> HIDE DEF pc
    <2> QED BY <1>5, <2>1, <2>2
<1>9. ASSUME NEW t \in Txs, VerifyPayment(w, t) PROVE RequestCalm(req[w])'
    BY <1>5, <1>9 DEF VerifyPayment
<1>10. ASSUME NEW o \in Orders, NEW status \in OrderStatus, UpdateStatus(w, o, status)
       PROVE  RequestCalm(req[w])'
    <2> DEFINE pc == IF status = "DELIVERED" /\ order[o].paymentMethod = "CASH_ON_DELIVERY"
                     THEN "updateCod" ELSE "updateStatus"
    <2>1. Begin(w, NewFrame(pc, o, None, None, 0, status)) /\ pc \in {"updateStatus", "updateCod"}
        BY <1>10 DEF UpdateStatus
    <2> HIDE DEF pc
    <2>2. req'[w].pc \in {"updateStatus", "updateCod"} /\ req'[w].arg = status /\ req'[w].o = o
        BY <1>2, <2>1 DEF NewFrame
    <2>3. status = "AWAITING_PAYMENT" => order[o].status = "PENDING"
        BY <1>10, AwaitingFromPending DEF UpdateStatus
    <2> QED BY <1>1, <2>2, <2>3 DEF RequestCalm
<1>11. ASSUME NEW u \in Users, Recharge(w, u) PROVE RequestCalm(req[w])'
    <2>1. req'[w].pc = "rechargeCommit"
        BY <1>2, <1>11 DEF Recharge, NewFrame
    <2> QED BY <1>4, <2>1 DEF InitSteps, ClearSteps
<1>12. ASSUME NEW o \in Orders, PayWithWallet(w, o) PROVE RequestCalm(req[w])'
    <2>1. req'[w].pc = "walletReadOrder"
        BY <1>2, <1>12 DEF PayWithWallet, NewFrame
    <2> QED BY <1>4, <2>1 DEF InitSteps, ClearSteps
<1>13. ASSUME NEW t \in Txs, ManuallyValidate(w, t) PROVE RequestCalm(req[w])'
    <2>1. req'[w].pc = "adminRead"
        BY <1>2, <1>13 DEF ManuallyValidate, NewFrame
    <2> QED BY <1>4, <2>1 DEF InitSteps, ClearSteps
<1>14. RequestCalm(req[w])'
    BY <1>6, <1>7, <1>8, <1>9, <1>10, <1>11, <1>12, <1>13
       DEF Arrive, PaymentsBegin, Redirect, Webhook, OrdersBegin, WalletBegin, AdminBegin
<1> QED BY <1>1, <1>3, <1>14, StepCalm, NothingMoves

\* Steps that write neither rows nor orders nor credits.
LEMMA QuietCalm ==
    ASSUME Serial, PaymentInv, CalmInv, NEW w \in Workers,
           \/ GatewayUnsupported(w) \/ GatewaySynchronous(w) \/ GatewayOrangeMoney(w)
           \/ Verify(w) \/ ClientVerify(w) \/ ConfirmRead(w) \/ ConfirmFails(w)
           \/ WalletReadOrder(w)
    PROVE  CalmInv'
<1>1. TypeOK /\ req \in [Workers -> Frame] /\ RequestCalm(req[w])
    BY DEF PaymentInv, TypeOK, CalmInv
<1>2. UNCHANGED <<order, tx, credits>> /\ req[w].pc # "initOrder"
    BY DEF GatewayUnsupported, GatewaySynchronous, GatewayOrangeMoney, Verify, ClientVerify,
       ConfirmRead, ConfirmFails, WalletReadOrder
<1> SUFFICES RequestCalm(req[w])'
    BY <1>1, <1>2, StepCalm, NothingMoves
<1>3. PICK o : o = req[w].o
    OBVIOUS
<1>4. PendingTxs(o)' = PendingTxs(o)
    BY <1>2, NothingMoves
<1>5. ASSUME Return(w) PROVE RequestCalm(req[w])'
    BY <1>1, <1>5, StepMoves, IdleCalm
<1>6. ASSUME NEW pc, req'[w].pc = pc, req'[w].o = o,
             pc \in {"verify", "markSuccess", "markFailed", "walletCommit"}
      PROVE  RequestCalm(req[w])'
    BY <1>6, CalmFrame DEF InitSteps, ClearSteps, Confirms
<1>7. CASE GatewayUnsupported(w)
    BY <1>5, <1>7 DEF GatewayUnsupported
<1>8. CASE GatewaySynchronous(w) \/ GatewayOrangeMoney(w)
    <2>1. order[o].status \in Payable /\ PendingTxs(o) = {}
        BY <1>1, <1>3, <1>8 DEF GatewaySynchronous, GatewayOrangeMoney, RequestCalm
    <2>2. /\ req'[w].pc \in {"initConfirm", "initPendingRow", "initFailedRow"}
          /\ req'[w].o = o
        <3>1. CASE GatewaySynchronous(w)
            BY <1>1, <1>3, <3>1, StepMoves DEF GatewaySynchronous
        <3>2. CASE GatewayOrangeMoney(w)
            <4>1. ASSUME NEW t \in Txs, req' = [req EXCEPT ![w].pc = "initPendingRow", ![w].t = t]
                  PROVE  req'[w].pc = "initPendingRow" /\ req'[w].o = o
                BY <1>1, <1>3, <4>1 DEF Frame
            <4> QED BY <1>1, <1>3, <3>2, <4>1, StepMoves DEF GatewayOrangeMoney
        <3> QED BY <1>8, <3>1, <3>2
    <2>3. order'[o].status \in Payable /\ PendingTxs(o)' = {}
        BY <1>2, <1>4, <2>1
    <2> QED BY <2>2, <2>3, CalmFrame DEF Confirms
<1>9. CASE Verify(w)
    BY <1>1, <1>3, <1>5, <1>6, <1>9, StepMoves DEF Verify
<1>10. CASE ClientVerify(w)
    BY <1>1, <1>3, <1>5, <1>6, <1>10, StepMoves DEF ClientVerify
<1>11. CASE WalletReadOrder(w)
    BY <1>1, <1>3, <1>5, <1>6, <1>11, StepMoves DEF WalletReadOrder
<1>12. CASE ConfirmRead(w) \/ ConfirmFails(w)
    <2>1. req[w].pc \in Confirms
        BY <1>12 DEF ConfirmRead, ConfirmFails, Confirms
    <2>2. PendingTxs(o) = {} /\ (order[o].status # "PAID" => credits[o]["online"] = 0)
        BY <1>1, <1>3, <2>1 DEF RequestCalm, Confirms
    <2>3. req'[w] = Idle \/ (req'[w].pc \in Confirms /\ req'[w].o = o)
        BY <1>1, <1>3, <1>12, StepMoves DEF ConfirmRead, ConfirmFails, Confirms
    <2>4. PendingTxs(o)' = {} /\ (order'[o].status # "PAID" => credits'[o]["online"] = 0)
        BY <1>2, <1>4, <2>2
    <2> QED BY <2>3, <2>4, IdleCalm, CalmFrame DEF InitSteps, Confirms
<1> QED BY <1>7, <1>8, <1>9, <1>10, <1>11, <1>12

\* Steps that write payment rows only, and none PENDING.
LEMMA RowsCalm ==
    ASSUME Serial, PaymentInv, SerialInv, CalmInv, NEW w \in Workers,
           \/ CancelOldTransactions(w) \/ CreateFailedRow(w) \/ SettleTx(w)
           \/ MarkSuccess(w) \/ MarkFailed(w) \/ RechargeCommit(w) \/ AdminRead(w)
    PROVE  CalmInv'
<1>1. PICK o, t : o = req[w].o /\ t = req[w].t
    OBVIOUS
<1>2. /\ TypeOK /\ req \in [Workers -> Frame] /\ tx \in [Txs -> TxRow]
      /\ credits \in [Orders -> [Origins -> Nat]]
      /\ RequestCalm(req[w]) /\ RequestAlone(req[w]) /\ RequestBacked(req[w])
      /\ req[w].pc \in OrderSteps => o \in Orders
      /\ req[w].pc \in RowSteps => t \in Txs
    BY <1>1, FrameKnown DEF SerialInv, CalmInv, TypeOK
<1>3. /\ UNCHANGED <<order, credits>> /\ req[w].pc # "initOrder"
      /\ \A x \in Orders : Moves(x)
    BY DEF CancelOldTransactions, CreateFailedRow, SettleTx, MarkSuccess, MarkFailed,
       RechargeCommit, AdminRead, Moves
<1> SUFFICES PendingShrinks /\ RequestCalm(req[w])'
    BY <1>2, <1>3, StepCalm
<1>4. ASSUME NEW s \in {"SUCCESS", "FAILED"}, t \in Txs, SetTxStatus(t, s)
      PROVE  PendingShrinks /\ t \notin PendingTxs(o)' /\ PendingTxs(o)' \subseteq PendingTxs(o)
    BY <1>2, <1>4 DEF SetTxStatus, PendingShrinks, PendingTxs
<1>5. ASSUME UNCHANGED tx PROVE PendingShrinks
    BY <1>5 DEF PendingShrinks
<1>6. ASSUME Return(w) PROVE RequestCalm(req[w])'
    BY <1>2, <1>6, StepMoves, IdleCalm
<1>7. CASE CancelOldTransactions(w)
    <2>1. PendingShrinks
        BY <1>2, <1>7 DEF CancelOldTransactions, PendingShrinks, PendingTxs
    <2>2. \A r \in Txs : tx'[r] = IF r \in PendingTxs(o)
                                  THEN [tx[r] EXCEPT !.status = "FAILED"] ELSE tx[r]
        BY <1>1, <1>7 DEF CancelOldTransactions
    <2>3. PendingTxs(o)' = {}
        <3>1. \A r \in Txs : IF r \in PendingTxs(o) THEN tx'[r].status = "FAILED"
                                                    ELSE tx'[r] = tx[r]
            BY <1>2, <2>2 DEF TxRow
        <3> QED BY <3>1 DEF PendingTxs
    <2>4. order'[o].status \in Payable
        BY <1>1, <1>2, <1>3, <1>7 DEF CancelOldTransactions, RequestCalm
    <2>5. req'[w].pc = "initGateway" /\ req'[w].o = o
        BY <1>1, <1>2, <1>7, StepMoves DEF CancelOldTransactions
    <2> QED BY <2>1, <2>3, <2>4, <2>5, CalmFrame DEF Confirms
<1>8. CASE CreateFailedRow(w)
    <2>1. PendingShrinks
        BY <1>2, <1>8 DEF CreateFailedRow, PendingShrinks
    <2> QED BY <1>6, <1>8, <2>1 DEF CreateFailedRow
<1>9. CASE SettleTx(w)
    BY <1>1, <1>2, <1>4, <1>6, <1>9 DEF SettleTx, RowSteps
<1>10. CASE MarkSuccess(w) \/ MarkFailed(w)
    <2>1. t \in PendingTxs(o) /\ o \in Orders
        BY <1>1, <1>2, <1>10
           DEF MarkSuccess, MarkFailed, RequestAlone, RequestBacked, RowSteps, OrderSteps,
               Steps, PendingTxs
    <2>2. credits[o]["online"] = 0 /\ (\A r \in PendingTxs(o) : r = t)
        <3>1. OrderCalm(o) /\ credits[o]["online"] \in Nat
            BY <1>2, <2>1 DEF CalmInv, Origins
        <3> QED BY <2>1, <3>1 DEF OrderCalm
    <2>3. t \in Txs /\ \E s \in {"SUCCESS", "FAILED"} : SetTxStatus(t, s)
        BY <1>1, <1>2, <1>10 DEF MarkSuccess, MarkFailed, RowSteps
    <2>4. PendingShrinks /\ PendingTxs(o)' = {} /\ credits'[o]["online"] = 0
        BY <1>3, <1>4, <2>2, <2>3
    <2>5. req'[w].pc \in {"confirmRead", "resetOrder"} /\ req'[w].o = o
        <3>1. CASE MarkSuccess(w)
            BY <1>1, <1>2, <3>1 DEF MarkSuccess, Frame
        <3>2. CASE MarkFailed(w)
            BY <1>1, <1>2, <3>2, StepMoves DEF MarkFailed
        <3> QED BY <1>10, <3>1, <3>2
    <2> QED BY <2>4, <2>5, CalmFrame DEF InitSteps
<1>11. CASE RechargeCommit(w)
    BY <1>5, <1>6, <1>11 DEF RechargeCommit
<1>12. CASE AdminRead(w)
    <2>1. PendingShrinks
        BY <1>1, <1>2, <1>4, <1>5, <1>12 DEF AdminRead, RowSteps
    <2>2. RequestCalm(req[w])'
        <3>1. ASSUME Goto(w, "adminCommit") PROVE RequestCalm(req[w])'
            BY <1>2, <3>1, StepMoves, CalmFrame DEF InitSteps, ClearSteps, Confirms
        <3> QED BY <1>6, <1>12, <3>1 DEF AdminRead
    <2> QED BY <2>1, <2>2
<1> QED BY <1>7, <1>8, <1>9, <1>10, <1>11, <1>12

\* The transactions that credit an order, and the writes of its status.
LEMMA CreditCalm ==
    ASSUME Serial, PaymentInv, SerialInv, CalmInv, NEW w \in Workers,
           \/ ConfirmPayment(w) \/ ConfirmCommit(w) \/ ResetOrder(w) \/ WriteStatus(w)
           \/ DeliverCod(w) \/ WalletCommit(w) \/ AdminCommit(w)
    PROVE  CalmInv'
<1>1. PICK o, t : o = req[w].o /\ t = req[w].t
    OBVIOUS
<1>2. /\ TypeOK /\ req \in [Workers -> Frame] /\ FrameOK(req[w])
      /\ tx \in [Txs -> TxRow] /\ order \in [Orders -> OrderRow]
      /\ credits \in [Orders -> [Origins -> Nat]]
      /\ RequestCalm(req[w]) /\ RequestAlone(req[w])
      /\ req[w].pc \in RowSteps => t \in Txs
    BY <1>1, FrameKnown DEF SerialInv, CalmInv, TypeOK
<1>3. o \in Orders /\ OrderCalm(o) /\ credits[o]["online"] \in Nat /\ req[w].pc # "initOrder"
    <2>1. req[w].pc \in OrderSteps /\ req[w].pc # "initOrder"
        BY DEF ConfirmPayment, ConfirmCommit, ResetOrder, WriteStatus, DeliverCod,
           WalletCommit, AdminCommit, OrderSteps, Steps
    <2> QED BY <1>1, <1>2, <2>1, FrameKnown DEF CalmInv, Origins
<1> SUFFICES PendingShrinks /\ (\A x \in Orders : Moves(x)) /\ RequestCalm(req[w])'
    BY <1>2, <1>3, StepCalm
<1>4. ASSUME UNCHANGED tx PROVE PendingShrinks
    BY <1>4 DEF PendingShrinks
<1>5. ASSUME Return(w) PROVE RequestCalm(req[w])'
    BY <1>2, <1>5, StepMoves, IdleCalm
<1>6. ASSUME \A x \in Orders \ {o} : order'[x] = order[x] /\ credits'[x] = credits[x], Moves(o)
      PROVE  \A x \in Orders : Moves(x)
    BY <1>6 DEF Moves
<1>7. ASSUME NEW origin \in Origins, CreditRestaurants(o, origin)
      PROVE  /\ \A x \in Orders \ {o} : credits'[x] = credits[x]
             /\ credits'[o]["online"] = IF origin = "online" THEN credits[o]["online"] + 1
                                                             ELSE credits[o]["online"]
    BY <1>2, <1>3, <1>7 DEF CreditRestaurants, Origins
<1>8. ASSUME SetOrderPaid(o)
      PROVE  order'[o].status = "PAID" /\ \A x \in Orders \ {o} : order'[x] = order[x]
    BY <1>2, <1>3, <1>8 DEF SetOrderPaid
<1>9. ASSUME NEW s, SetOrderStatus(o, s)
      PROVE  order'[o].status = s /\ \A x \in Orders \ {o} : order'[x] = order[x]
    BY <1>2, <1>3, <1>9 DEF SetOrderStatus, OrderRow
<1>10. CASE ConfirmPayment(w)
    <2>1. PendingTxs(o) = {} /\ credits[o]["online"] = 0
        <3>1. PendingTxs(o) = {} /\ order[o].status \in Payable
            BY <1>1, <1>2, <1>10 DEF ConfirmPayment, RequestCalm
        <3> QED BY <1>3, <3>1 DEF OrderCalm
    <2>2. PendingShrinks
        BY <1>2, <1>10 DEF ConfirmPayment, PendingShrinks
    <2>3. order'[o].status = "PAID" /\ \A x \in Orders \ {o} : order'[x] = order[x]
        BY <1>1, <1>2, <1>3, <1>10 DEF ConfirmPayment
    <2>4. /\ credits'[o]["online"] = 1
          /\ \A x \in Orders \ {o} : credits'[x] = credits[x]
        BY <1>1, <1>7, <1>10, <2>1 DEF ConfirmPayment, Origins
    <2>5. Moves(o)
        BY <2>1, <2>3, <2>4 DEF Moves, Payable
    <2> QED BY <1>5, <1>6, <1>10, <2>2, <2>3, <2>4, <2>5 DEF ConfirmPayment
<1>11. CASE ConfirmCommit(w)
    <2>1. PendingTxs(o) = {} /\ credits[o]["online"] = 0
        BY <1>1, <1>2, <1>11 DEF ConfirmCommit, RequestCalm, RequestAlone
    <2>2. order'[o].status = "PAID" /\ \A x \in Orders \ {o} : order'[x] = order[x]
        BY <1>1, <1>8, <1>11 DEF ConfirmCommit
    <2>3. /\ credits'[o]["online"] = 1
          /\ \A x \in Orders \ {o} : credits'[x] = credits[x]
        BY <1>1, <1>7, <1>11, <2>1 DEF ConfirmCommit, Origins
    <2>4. Moves(o)
        BY <2>1, <2>2, <2>3 DEF Moves, Payable
    <2>5. RequestCalm(req[w])'
        <3>1. CASE RetryOrThrow(w)
            <4>1. req'[w] = Idle \/ (req'[w].pc = "confirmRead" /\ req'[w].o = o)
                BY <1>1, <1>2, <3>1, StepMoves
            <4>2. PendingTxs(o)' = {}
                BY <1>11, <2>1 DEF ConfirmCommit, PendingTxs
            <4> QED BY <2>2, <4>1, <4>2, IdleCalm, CalmFrame DEF InitSteps
        <3> QED BY <1>5, <1>11, <3>1 DEF ConfirmCommit
    <2> QED BY <1>4, <1>6, <1>11, <2>2, <2>3, <2>4, <2>5 DEF ConfirmCommit
<1>12. CASE ResetOrder(w)
    <2>1. PendingTxs(o) = {} /\ credits[o]["online"] = 0
        BY <1>1, <1>2, <1>12 DEF ResetOrder, RequestCalm
    <2>2. credits' = credits /\ Moves(o)
        BY <1>12, <2>1 DEF ResetOrder, Moves
    <2> QED BY <1>1, <1>4, <1>5, <1>6, <1>9, <1>12, <2>2 DEF ResetOrder
<1>13. CASE WriteStatus(w)
    <2>1. req[w].arg \in OrderStatus \ {"PENDING"}
        BY <1>2, <1>13 DEF WriteStatus, RequestAlone, FrameOK
    <2>2. order'[o].status = req[w].arg /\ \A x \in Orders \ {o} : order'[x] = order[x]
        BY <1>1, <1>9, <1>13 DEF WriteStatus
    <2>3. req[w].arg = "AWAITING_PAYMENT" => credits[o]["online"] = 0
        <3>1. req[w].arg = "AWAITING_PAYMENT" => order[o].status = "PENDING"
            BY <1>1, <1>2, <1>13 DEF WriteStatus, RequestCalm
        <3> QED BY <1>3, <3>1 DEF OrderCalm, Payable
    <2>4. credits' = credits /\ Moves(o)
        BY <1>13, <2>1, <2>2, <2>3 DEF WriteStatus, Moves, Payable, OrderStatus
    <2> QED BY <1>4, <1>5, <1>6, <1>13, <2>2, <2>4 DEF WriteStatus
<1>14. CASE DeliverCod(w)
    <2>1. order'[o].status = "DELIVERED" /\ \A x \in Orders \ {o} : order'[x] = order[x]
        BY <1>1, <1>2, <1>3, <1>14 DEF DeliverCod, OrderRow
    <2>2. /\ credits'[o]["online"] = credits[o]["online"]
          /\ \A x \in Orders \ {o} : credits'[x] = credits[x]
        BY <1>1, <1>7, <1>14 DEF DeliverCod, Origins
    <2>3. Moves(o)
        BY <2>1, <2>2 DEF Moves, Payable
    <2> QED BY <1>4, <1>5, <1>6, <1>14, <2>1, <2>2, <2>3 DEF DeliverCod
<1>15. CASE WalletCommit(w) \/ AdminCommit(w)
    <2>1. order'[o].status = "PAID" /\ \A x \in Orders \ {o} : order'[x] = order[x]
        BY <1>1, <1>8, <1>15 DEF WalletCommit, AdminCommit
    <2>2. /\ credits'[o]["online"] = credits[o]["online"]
          /\ \A x \in Orders \ {o} : credits'[x] = credits[x]
        BY <1>1, <1>7, <1>15 DEF WalletCommit, AdminCommit, Origins
    <2>3. Moves(o)
        BY <2>1, <2>2 DEF Moves, Payable
    <2>4. PendingShrinks
        <3>1. CASE WalletCommit(w)
            BY <1>4, <3>1 DEF WalletCommit
        <3>2. CASE AdminCommit(w)
            BY <1>1, <1>2, <3>2 DEF AdminCommit, PendingShrinks, RowSteps
        <3> QED BY <1>15, <3>1, <3>2
    <2> QED BY <1>5, <1>6, <1>15, <2>1, <2>2, <2>3, <2>4 DEF WalletCommit, AdminCommit
<1> QED BY <1>10, <1>11, <1>12, <1>13, <1>14, <1>15

\* The row an initiation leaves PENDING, and the order it leaves awaiting its payment.
LEMMA InitiationCalm ==
    ASSUME Serial, PaymentInv, SerialInv, CalmInv, NEW w \in Workers,
           CreatePendingRow(w) \/ AwaitPayment(w)
    PROVE  CalmInv'
<1>1. PICK o, t : o = req[w].o /\ t = req[w].t
    OBVIOUS
<1>2. /\ TypeOK /\ req \in [Workers -> Frame] /\ RequestCalm(req[w]) /\ RequestAlone(req[w])
      /\ tx \in [Txs -> TxRow] /\ order \in [Orders -> OrderRow]
    BY DEF PaymentInv, SerialInv, CalmInv, TypeOK
<1>3. t \in Txs /\ o \in Orders /\ OrderCalm(o) /\ order[o].status \in Payable
    BY <1>1, <1>2, FrameKnown DEF CalmInv, RequestCalm, CreatePendingRow, AwaitPayment, RowSteps
<1>4. \A x \in Orders \ {o} :
         /\ OrderCalm(x)
         /\ order[x].status \in {"ABSENT", "PENDING"} => PendingTxs(x) = {}
    BY <1>1 DEF Serial, CalmInv, OrderCalm
<1>5. ASSUME \A x \in Orders \ {o} : order'[x] = order[x] /\ PendingTxs(x)' = PendingTxs(x),
             UNCHANGED credits
      PROVE  \A x \in Orders \ {o} : OrderCalm(x)'
    BY <1>4, <1>5 DEF OrderCalm
<1>6. credits[o]["online"] > 0 => FALSE
    BY <1>3 DEF OrderCalm
<1>7. CASE CreatePendingRow(w)
    <2>1. PendingTxs(o) = {} /\ tx[t].status = "ABSENT"
        BY <1>1, <1>2, <1>7 DEF CreatePendingRow, RequestCalm, RequestAlone
    <2>2. /\ tx'[t].status = "PENDING" /\ tx'[t].order = o
          /\ \A r \in Txs \ {t} : tx'[r] = tx[r]
        BY <1>1, <1>2, <1>3, <1>7 DEF CreatePendingRow
    <2>3. /\ PendingTxs(o)' = {t}
          /\ \A x \in Orders \ {o} : PendingTxs(x)' = PendingTxs(x)
        BY <1>3, <2>1, <2>2 DEF PendingTxs
    <2>4. req'[w].pc = "initOrder" /\ req'[w].o = o
        BY <1>1, <1>2, <1>7, StepMoves DEF CreatePendingRow
    <2>5. UNCHANGED <<order, credits>>
        BY <1>7 DEF CreatePendingRow
    <2>6. OrderCalm(o)'
        BY <1>6, <2>3, <2>4, <2>5 DEF OrderCalm
    <2>7. RequestCalm(req[w])'
        BY <1>3, <2>4, <2>5, CalmFrame DEF ClearSteps, Confirms
    <2> QED BY <1>5, <2>3, <2>5, <2>6, <2>7, OneCalm
<1>8. CASE AwaitPayment(w)
    <2>1. /\ order'[o].status = "AWAITING_PAYMENT"
          /\ \A x \in Orders \ {o} : order'[x] = order[x]
        BY <1>1, <1>2, <1>3, <1>8 DEF AwaitPayment, OrderRow
    <2>2. UNCHANGED <<tx, credits>> /\ \A x \in Orders : PendingTxs(x)' = PendingTxs(x)
        BY <1>8 DEF AwaitPayment, PendingTxs
    <2>3. OrderCalm(o)'
        BY <1>3, <1>6, <2>1, <2>2 DEF OrderCalm
    <2>4. RequestCalm(req[w])'
        BY <1>2, <1>8, StepMoves, IdleCalm DEF AwaitPayment
    <2> QED BY <1>5, <2>1, <2>2, <2>3, <2>4, OneCalm
<1> QED BY <1>7, <1>8

\* Orders that are placed and QR codes that are paid.
LEMMA BesideCalm ==
    ASSUME PaymentInv, CalmInv, OrdersCreate \/ OrangeMoneyNext \/ UNCHANGED vars
    PROVE  CalmInv'
<1>1. order \in [Orders -> OrderRow]
    BY DEF PaymentInv, TypeOK
<1>2. /\ UNCHANGED <<tx, credits, req>>
      /\ \A o \in Orders : \/ order'[o] = order[o]
                           \/ order[o].status = "ABSENT" /\ order'[o].status = "PENDING"
    BY <1>1 DEF OrdersCreate, Create, OrangeMoneyNext, PayQr, CancelQr, ExpireQr, SetQr, vars
<1>3. \A o : PendingTxs(o)' = PendingTxs(o)
    BY <1>2 DEF PendingTxs
<1>4. ASSUME NEW o \in Orders PROVE OrderCalm(o)'
    <2>1. OrderCalm(o)
        BY DEF CalmInv
    <2> QED BY <1>2, <1>3, <2>1 DEF OrderCalm
<1>5. ASSUME NEW w \in Workers PROVE RequestCalm(req[w])'
    <2>1. PICK o : o = req[w].o
        OBVIOUS
    <2>2. RequestCalm(req[w]) /\ req'[w] = req[w] /\ PendingTxs(o)' = PendingTxs(o)
        BY <1>2, <1>3 DEF CalmInv
    <2>3. PendingTxs(req[w].o)' = PendingTxs(o)
        BY <2>1, <2>2 DEF PendingTxs
    <2>4. req[w].pc \in OrderSteps => req[w].o \in Orders
        BY FrameKnown
    <2> QED BY <1>2, <2>1, <2>2, <2>3, <2>4 DEF RequestCalm, OrderSteps, Steps, Payable
<1> QED BY <1>4, <1>5 DEF CalmInv

LEMMA NextCalm ==
    ASSUME Serial, ~Faulty
    PROVE  PaymentInv /\ SerialInv /\ CalmInv /\ [Next]_vars => CalmInv'
<1> SUFFICES ASSUME PaymentInv, SerialInv, CalmInv, [Next]_vars PROVE CalmInv'
    OBVIOUS
<1>1. ASSUME NEW w \in Workers, Arrive(w) PROVE CalmInv'
    BY <1>1, ArriveCalm DEF PaymentInv
<1>2. ASSUME NEW w \in Workers, Step(w) PROVE CalmInv'
    BY <1>2, QuietCalm, RowsCalm, CreditCalm, InitiationCalm
       DEF Step, PaymentsStep, OrdersStep, WalletStep, AdminStep
<1>3. \A w \in Workers : ~Abort(w)
    BY DEF Abort
<1> QED BY <1>1, <1>2, <1>3, BesideCalm DEF Next

LEMMA InitCalm == Init => CalmInv
<1> SUFFICES ASSUME Init PROVE CalmInv
    OBVIOUS
<1>1. ASSUME NEW o \in Orders PROVE OrderCalm(o)
    BY DEF Init, StoreInit, OrderCalm, PendingTxs, Origins
<1>2. ASSUME NEW w \in Workers PROVE RequestCalm(req[w])
    BY DEF Init, StoreInit, RequestCalm, Idle, NewFrame
<1> QED BY <1>1, <1>2 DEF CalmInv

LEMMA CalmInvariant ==
    ASSUME Serial, IsFiniteSet(Txs), ~Faulty
    PROVE  Spec => [](PaymentInv /\ CalmInv)
<1>1. PaymentInv /\ SerialInv /\ [Next]_vars => SerialInv'
    BY NextSerial DEF SerialStep
<1> QED BY <1>1, InitSerial, InitCalm, NextCalm, PaymentInvariant, PTL DEF Spec

\* When requests neither overlap nor die, the webhook, which names an order only, finds
\* at most one PENDING row to settle or to fail.
THEOREM CalmOnePendingRow ==
    ASSUME Serial, IsFiniteSet(Txs), ~Faulty PROVE Spec => []OnePendingRow
<1>1. CalmInv => OnePendingRow
    <2> SUFFICES ASSUME CalmInv, NEW o \in Orders PROVE Cardinality(PendingTxs(o)) <= 1
        BY DEF OnePendingRow
    <2>1. ASSUME NEW t \in PendingTxs(o) PROVE PendingTxs(o) = {t}
        <3>1. \A s, r \in PendingTxs(o) : s = r
            BY DEF CalmInv, OrderCalm
        <3> QED BY <2>1, <3>1
    <2>2. CASE PendingTxs(o) = {}
        BY <2>2, FS_EmptySet
    <2>3. ASSUME NEW t \in PendingTxs(o) PROVE Cardinality(PendingTxs(o)) = 1
        BY <2>1, <2>3, FS_Singleton
    <2> QED BY <2>2, <2>3
<1> QED BY <1>1, CalmInvariant, PTL

\* Then restaurants are credited for an order no more often than payments were accepted
\* for it, of its own QR codes or of one that its client quoted.
THEOREM CalmCreditedPerPayment ==
    ASSUME Serial, IsFiniteSet(Txs), ~Faulty PROVE Spec => []CreditedPerPayment
<1>1. PaymentInv /\ CalmInv => CreditedPerPayment
    <2> SUFFICES ASSUME PaymentInv, CalmInv, NEW o \in Orders
                 PROVE  credits[o]["online"] <= PaymentsReceived(o)
        BY DEF CreditedPerPayment
    <2> DEFINE P == {q \in Txs : Accepted(q, o)}
               M == {t \in SuccessRows(o) : tx[t].provider = "WAVE"}
    <2>1. IsFiniteSet(P) /\ IsFiniteSet(M)
        <3>1. P \subseteq Txs /\ M \subseteq Txs
            BY DEF SuccessRows
        <3> QED BY <3>1, FS_Subset
    <2>2. Cardinality(P) \in Nat /\ Cardinality(M) \in Nat
        BY <2>1, FS_CardinalityType
    <2>3. credits[o]["online"] \in Nat /\ (credits[o]["online"] = 0 \/ credits[o]["online"] = 1)
        <3>1. credits[o]["online"] \in Nat
            BY DEF PaymentInv, TypeOK, Origins
        <3> QED BY <3>1 DEF CalmInv, OrderCalm
    <2>4. credits[o]["online"] > 0 => P # {} \/ M # {}
        BY DEF PaymentInv, OnlineCreditBacked, PaidAtOrange, PaidByMock, SuccessRows
    <2>5. (P # {} => Cardinality(P) # 0) /\ (M # {} => Cardinality(M) # 0)
        BY <2>1, FS_EmptySet
    <2>6. PaymentsReceived(o) = Cardinality(P) + Cardinality(M)
        BY DEF PaymentsReceived
    <2> HIDE DEF P, M
    <2> QED BY <2>2, <2>3, <2>4, <2>5, <2>6
<1> QED BY <1>1, CalmInvariant, PTL

-----------------------------------------------------------------------------
(* Requests that do not overlap: no recharge and no payment is lost *)

\* A step that leaves the balances alone, and no balance in the frame that it has not
\* just read.
LEMMA BalanceUntouched ==
    ASSUME Serial, LedgerInv, NEW w \in Workers, UNCHANGED wallet,
           BalanceHolds(req'[w])
    PROVE  LedgerInv'
<1>1. WalletLedger'
    BY DEF LedgerInv, WalletLedger
<1>2. \A v \in Workers : BalanceHolds(req[v])'
    BY DEF Serial, BalanceHolds
<1> QED BY <1>1, <1>2 DEF LedgerInv

\* A step of the wallet writes to the balance what its row adds to the sum.
LEMMA WalletStepBooked ==
    ASSUME Serial, TypeOK, LedgerInv, NEW w \in Workers, WalletStep(w)
    PROVE  LedgerInv'
<1>1. /\ req \in [Workers -> Frame] /\ wallet \in [Users -> WalletRow]
      /\ BalanceHolds(req[w]) /\ FrameOK(req[w]) /\ Idle.pc = "idle"
    BY DEF TypeOK, LedgerInv, Idle, NewFrame
<1>2. ASSUME Return(w) PROVE BalanceHolds(req'[w]) /\ \A v \in Workers : BalanceHolds(req[v])'
    BY <1>1, <1>2, StepMoves DEF Serial, BalanceHolds
<1>3. CASE RechargeCommit(w)
    <2>1. req[w].u \in Users /\ req[w].n = wallet[req[w].u].balance
        BY <1>1, <1>3 DEF RechargeCommit, BalanceHolds, FrameOK
    <2>2. WalletLedger'
        BY <1>1, <1>3, <2>1 DEF RechargeCommit, LedgerInv, WalletLedger
    <2> QED BY <1>2, <1>3, <2>2 DEF RechargeCommit, LedgerInv
<1>4. CASE WalletReadOrder(w)
    <2>1. ASSUME Goto(w, "walletCommit") PROVE BalanceHolds(req'[w])
        <3>1. req'[w].n = req[w].n /\ req'[w].u = req[w].u
            BY <1>1, <2>1 DEF Goto, Frame
        <3> QED BY <1>1, <1>4, <3>1 DEF WalletReadOrder, BalanceHolds
    <2> QED BY <1>2, <1>4, <2>1, BalanceUntouched DEF WalletReadOrder
<1>5. CASE WalletCommit(w)
    <2>1. req[w].u \in Users /\ req[w].n = wallet[req[w].u].balance
        BY <1>1, <1>5 DEF WalletCommit, BalanceHolds, FrameOK
    <2>2. WalletLedger'
        BY <1>1, <1>5, <2>1 DEF WalletCommit, LedgerInv, WalletLedger
    <2> QED BY <1>2, <1>5, <2>2 DEF WalletCommit, LedgerInv
<1> QED BY <1>3, <1>4, <1>5 DEF WalletStep

LEMMA NextBooked == ASSUME Serial PROVE TypeOK /\ LedgerInv /\ [Next]_vars => LedgerInv'
<1> SUFFICES ASSUME TypeOK, LedgerInv, [Next]_vars PROVE LedgerInv'
    OBVIOUS
<1>1. ASSUME NEW w \in Workers, Arrive(w) PROVE LedgerInv'
    <2>1. JustRead(w) /\ UNCHANGED wallet
        BY <1>1, ArriveReads
    <2> QED BY <2>1, BalanceUntouched DEF JustRead, BalanceHolds, WalletSteps
<1>2. ASSUME NEW w \in Workers, Step(w) \/ Abort(w) PROVE LedgerInv'
    <2>1. CASE ~WalletStep(w)
        <3>1. req'[w].pc \notin WalletSteps /\ UNCHANGED wallet
            BY <1>2, <2>1, OtherStepsAway DEF Step
        <3> QED BY <3>1, BalanceUntouched DEF BalanceHolds, WalletSteps
    <2> QED BY <2>1, WalletStepBooked
<1>3. ASSUME OrdersCreate \/ OrangeMoneyNext \/ UNCHANGED vars PROVE LedgerInv'
    BY <1>3 DEF OrdersCreate, Create, OrangeMoneyNext, PayQr, CancelQr, ExpireQr, SetQr, vars,
       LedgerInv, WalletLedger, BalanceHolds
<1> QED BY <1>1, <1>2, <1>3 DEF Next

\* The balance of a wallet, which recharge and payWithWallet overwrite with a value they
\* computed from an older one, is the sum of its rows when no two requests overlap,
\* whichever of them dies on its way.
THEOREM SerialWalletLedger == ASSUME Serial PROVE Spec => []WalletLedger
<1>1. Init => LedgerInv
    BY DEF Init, StoreInit, LedgerInv, WalletLedger, BalanceHolds, Idle, NewFrame
<1>2. LedgerInv => WalletLedger
    BY DEF LedgerInv
<1>3. PaymentInv => TypeOK
    BY DEF PaymentInv
<1> QED BY <1>1, <1>2, <1>3, NextBooked, PaymentInvariant, PTL DEF Spec

=============================================================================
