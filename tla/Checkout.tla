------------------------------ MODULE Checkout ------------------------------
(***************************************************************************)
(* The payment side of the backend: every request that moves an order or   *)
(* money before delivery, run by concurrent handlers against one database, *)
(* with the clients and Orange Money as environment.                       *)
(***************************************************************************)
EXTENDS PaymentsService, OrdersService, WalletService, AdminService

Init == StoreInit

\* A request arrives.
Arrive(w) == PaymentsBegin(w) \/ OrdersBegin(w) \/ WalletBegin(w) \/ AdminBegin(w)

\* A request in flight goes on to its next await.
Step(w) == PaymentsStep(w) \/ OrdersStep(w) \/ WalletStep(w) \/ AdminStep(w)

Next ==
    \/ OrdersCreate
    \/ OrangeMoneyNext
    \/ \E w \in Workers : Arrive(w) \/ Step(w) \/ Abort(w)

Spec == Init /\ [][Next]_vars

\* Node.js resumes every handler whose await is over, and every await ends: a
\* handler is never abandoned.  Nobody owes the system a request or a payment.
FairSpec == Spec /\ \A w \in Workers : WF_vars(Step(w))

-----------------------------------------------------------------------------
(* Type invariant *)

\* Steps of requests that hold an order, and of those that hold a row of it.
OrderSteps == Steps \ {"idle", "rechargeCommit"}

RowSteps == {"initPendingRow", "initOrder", "verify", "clientVerify", "settleTx",
             "markSuccess", "confirmRead", "confirmCommit", "markFailed", "resetOrder",
             "adminRead", "adminCommit"}

\* A frame holds what the steps still to come need.
FrameOK(f) ==
    /\ f.pc \in OrderSteps => f.o \in Orders
    /\ f.pc \in RowSteps => f.t \in Txs
    /\ f.pc \in {"rechargeCommit", "walletReadOrder", "walletCommit"} => f.u \in Users
    /\ f.pc \in {"confirmRead", "confirmCommit"} => f.n \in 1 .. MAX_RETRIES
    /\ f.pc \in {"initCancelOld", "initGateway"} => f.arg \in PaymentMethod
    /\ f.pc = "updateStatus" => f.arg \in OrderStatus

\* The tables, the QR codes and the frames of the requests hold values of
\* their types; in particular confirmPaymentFromCallback never makes a fourth
\* attempt, and no request goes on without the row it is about to write.
TypeOK ==
    /\ order \in [Orders -> OrderRow]
    /\ tx \in [Txs -> TxRow]
    /\ credits \in [Orders -> [Origins -> Nat]]
    /\ wallet \in [Users -> WalletRow]
    /\ qr \in [Txs -> QrCode]
    /\ req \in [Workers -> Frame]
    /\ arrivals \in Nat
    /\ \A w \in Workers : FrameOK(req[w])

-----------------------------------------------------------------------------
(* Safety, whatever the interleaving *)

\* The order was paid through a provider of the mock strategy.
PaidByMock(o) ==
    \E t \in Txs : tx[t].order = o /\ tx[t].provider = "WAVE" /\ tx[t].status = "SUCCESS"

\* Restaurants are credited for an online payment only on a payment: of one of the
\* order's QR codes at Orange Money, whichever row the notification settled, of the
\* QR, perhaps of another order, that the client quoted to have his row verified, or
\* at the mock provider.  No verification error, no page loaded again, no late
\* notification or webhook without a status makes confirmPaymentFromCallback run
\* otherwise.  That one QR settles one order only is not so, and not claimed.
OnlineCreditBacked ==
    \A o \in Orders : credits[o]["online"] > 0 => PaidAtOrange(o) \/ PaidByMock(o)

\* Why it holds.  A row that exists belongs to an order; a QR was made for one;
\* a row and its QR agree on it, and only Orange Money rows have a QR ...
RowsAgree ==
    \A t \in Txs :
        /\ tx[t].status # "ABSENT" => tx[t].order \in Orders
        /\ qr[t].state # "ABSENT" => qr[t].order \in Orders
        /\ tx[t].status # "ABSENT" /\ qr[t].state # "ABSENT"
             => tx[t].order = qr[t].order /\ tx[t].provider = "ORANGE_MONEY"
        /\ tx[t].status = "PENDING" => qr[t].state # "ABSENT"

\* ... a request works on a row of the order it holds, which was about that very
\* QR if it verifies or fails the row, and it goes to settle the order only once
\* a QR was paid that the server accepts for it.
RequestBacked(f) ==
    /\ f.pc \in {"initPendingRow", "verify", "clientVerify", "markFailed"}
         => qr[f.t].state # "ABSENT" /\ qr[f.t].order = f.o
    /\ f.pc \in RowSteps \ {"initPendingRow"}
         => tx[f.t].status # "ABSENT" /\ tx[f.t].order = f.o
    /\ f.pc \in {"markSuccess", "confirmRead", "confirmCommit"} => PaidAtOrange(f.o)

\* The inductive invariant behind TypeOK and OnlineCreditBacked.
PaymentInv ==
    /\ TypeOK
    /\ RowsAgree
    /\ \A w \in Workers : RequestBacked(req[w])
    /\ OnlineCreditBacked

\* Rounds of credits the restaurants of the order got.
TotalCredits(o) ==
    credits[o]["online"] + credits[o]["wallet"] + credits[o]["cod"] + credits[o]["admin"]

\* paymentStatus is PAID exactly on the orders whose restaurants were credited,
\* over the five transactions that settle an order and the many writes that
\* move its status alone.
PaidMeansCredited ==
    \A o \in Orders : (order[o].paymentStatus = "PAID") <=> (TotalCredits(o) > 0)

\* Why it holds: an order that does not exist was never credited, and no row and
\* no request refers to one, so that Create finds nothing settled.
CreditInv ==
    /\ PaidMeansCredited
    /\ \A o \in Orders : order[o].status = "ABSENT" => TotalCredits(o) = 0
    /\ \A t \in Txs : tx[t].status # "ABSENT" => order[tx[t].order].status # "ABSENT"
    /\ \A w \in Workers : req[w].pc \in OrderSteps => order[req[w].o].status # "ABSENT"

\* payWithWallet and recharge overwrite the balance with a value computed from
\* an old one; even so it never becomes negative.
WalletNeverNegative == \A u \in Users : wallet[u].balance >= 0

\* Why it holds: the balance a request still carries was not negative when it
\* was read, and covered the order when that was checked.
WalletInv ==
    /\ WalletNeverNegative
    /\ \A w \in Workers :
         /\ req[w].pc = "rechargeCommit" => req[w].n >= 0
         /\ req[w].pc = "walletCommit" => req[w].n >= TotalAmount[req[w].o]

Stage(o) == IF order[o].status = "ABSENT" THEN "absent"
            ELSE IF order[o].paymentStatus = "PAID" THEN "settled" ELSE "due"

Life == INSTANCE PaymentLife WITH
    stage <- [o \in Orders |-> Stage(o)],
    taken <- {o \in Orders : PaidAtOrange(o) \/ PaidByMock(o)},
    account <- [u \in Users |-> wallet[u].ledger]

\* All the handlers, redirects, webhooks and validations, in any order and with
\* the statuses and rows they overwrite, implement the life of a payment that
\* PaymentLife describes: nothing undoes a settlement, none is half done, and none is
\* made online before a payment was accepted for the order.
ImplementsLife == Life!Spec

\* Why it holds, beside PaymentInv and CreditInv: a QR was made for an order that
\* exists and is quoted with success once it is paid, the mock provider's rows were
\* never anything but SUCCESS, and a request pays with the wallet of the client who
\* placed the order.
LifeInv ==
    /\ \A q \in Txs : qr[q].state # "ABSENT" => order[qr[q].order].status # "ABSENT"
    /\ \A q \in Txs : qr[q].quotedFor # {} => qr[q].state = "paid"
    /\ \A t \in Txs : tx[t].provider = "WAVE" => tx[t].status = "SUCCESS"
    /\ \A w \in Workers :
         req[w].pc \in {"walletReadOrder", "walletCommit"} => req[w].u = Owner[req[w].o]

-----------------------------------------------------------------------------
(* Safety when requests do not interleave *)

SuccessRows(o) == {t \in Txs : tx[t].order = o /\ tx[t].status = "SUCCESS"}

\* Reprocessing a payment does not credit twice: every online or admin credit of
\* an order has a SUCCESS row of its own, across redirects, webhooks, polls,
\* validations, crashes and retried confirmations.
CreditsCovered ==
    \A o \in Orders :
        credits[o]["online"] + credits[o]["admin"] <= Cardinality(SuccessRows(o))

\* The statuses initiatePayment accepts.
Payable == {"PENDING", "AWAITING_PAYMENT"}

\* Why CreditsCovered and PaidOrderNotReset hold: what the one request in flight has
\* read is still so.  It works on a row that is not settled, of an order that is not
\* PAID, and a confirmation has a row that nobody was credited for.
RequestAlone(f) ==
    /\ f.pc \in {"verify", "clientVerify", "settleTx", "markSuccess", "markFailed"}
         => tx[f.t].status = "PENDING"
    /\ f.pc \in {"adminRead", "adminCommit"} => tx[f.t].status # "SUCCESS"
    /\ f.pc = "initPendingRow" => tx[f.t].status = "ABSENT"
    /\ f.pc \in {"verify", "clientVerify", "markSuccess", "confirmCommit", "markFailed",
                 "resetOrder", "initCancelOld", "initGateway", "initPendingRow", "initOrder"}
         => order[f.o].status # "PAID"
    /\ f.pc \in {"confirmRead", "confirmCommit"} /\ order[f.o].status # "PAID"
         => credits[f.o]["online"] + credits[f.o]["admin"] + 1 <= Cardinality(SuccessRows(f.o))
    /\ f.pc = "updateStatus" => f.arg # "PENDING"
    /\ f.pc = "updateStatus" /\ f.arg \in Payable => order[f.o].status # "PAID"

\* The inductive invariant behind them, beside PaymentInv.
SerialInv == CreditsCovered /\ \A w \in Workers : RequestAlone(req[w])

\* The payments accepted for the order: QR codes paid, mock payments.
PaymentsReceived(o) ==
    Cardinality({q \in Txs : Accepted(q, o)})
    + Cardinality({t \in SuccessRows(o) : tx[t].provider = "WAVE"})

\* Notifications that repeat, overtake each other or come after a retry do not
\* credit the restaurants of an order more often than payments were accepted for it:
\* of its own QR codes, or of one of another order that its client quoted.
CreditedPerPayment ==
    \A o \in Orders : credits[o]["online"] <= PaymentsReceived(o)

\* The balance of a wallet is what its rows add up to: no recharge and no
\* payment is lost.
WalletLedger == \A u \in Users : wallet[u].balance = wallet[u].ledger

\* Why it holds: the balance the one request in flight has read is still there when it
\* overwrites it.
BalanceHolds(f) ==
    f.pc \in {"rechargeCommit", "walletReadOrder", "walletCommit"} => f.n = wallet[f.u].balance

\* The inductive invariant behind it, beside TypeOK.
LedgerInv == WalletLedger /\ \A w \in Workers : BalanceHolds(req[w])

\* The webhook, which names an order only, can mistake no row: an order has at
\* most one PENDING row.  A retry fails the old row before it creates its own.
OnePendingRow == \A o \in Orders : Cardinality(PendingTxs(o)) <= 1

\* Why OnePendingRow and CreditedPerPayment hold when no request dies either: the PENDING
\* row of an order is the one it awaits payment for, which a credit has settled; a
\* credited order is not payable, and there is no row left to reset it by.
OrderCalm(o) ==
    /\ \A s, t \in PendingTxs(o) : s = t
    /\ order[o].status \in {"ABSENT", "PENDING"} =>
         PendingTxs(o) = {} \/ \E w \in Workers : req[w].pc = "initOrder" /\ req[w].o = o
    /\ credits[o]["online"] > 0 =>
         /\ credits[o]["online"] = 1 /\ PendingTxs(o) = {}
         /\ order[o].status \notin Payable \cup {"ABSENT"}

RequestCalm(f) ==
    /\ f.pc \in {"initCancelOld", "initGateway", "initFailedRow", "initPendingRow", "initConfirm",
                 "initOrder"} => order[f.o].status \in Payable
    /\ f.pc \in {"initGateway", "initFailedRow", "initPendingRow", "initConfirm", "confirmRead",
                 "confirmCommit", "resetOrder"} => PendingTxs(f.o) = {}
    /\ \/ f.pc = "resetOrder"
       \/ f.pc \in {"confirmRead", "confirmCommit"} /\ order[f.o].status # "PAID"
       => credits[f.o]["online"] = 0
    /\ f.pc = "updateStatus" /\ f.arg = "AWAITING_PAYMENT" => order[f.o].status = "PENDING"

\* The inductive invariant behind them, beside PaymentInv and SerialInv.
CalmInv ==
    /\ \A o \in Orders : OrderCalm(o)
    /\ \A w \in Workers : RequestCalm(req[w])

\* A PAID order is never made payable again, neither PENDING nor AWAITING_PAYMENT,
\* when requests come one at a time: not by a cancel page that is loaded again, a
\* refusal that is notified late or of an older QR, a row that is verified after its
\* order was paid by another, or a request that died half-way and is made again.
PaidOrderNotReset ==
    [][\A o \in Orders : order[o].status = "PAID" => order'[o].status \notin Payable]_vars

-----------------------------------------------------------------------------
(* Liveness *)

\* Every request is answered: the confirmation is retried a bounded number of
\* times and then throws.
RequestsEnd == \A w \in Workers : req[w] # Idle ~> req[w] = Idle

\* The steps a request has left at most, if all that can go wrong does.
StepsLeft(f) ==
    CASE f.pc = "idle" -> 0
      [] f.pc = "confirmRead" -> 2 * (MAX_RETRIES - f.n) + 2
      [] f.pc = "confirmCommit" -> 2 * (MAX_RETRIES - f.n) + 1
      [] f.pc = "markSuccess" -> 2 * MAX_RETRIES + 1
      [] f.pc \in {"verify", "clientVerify"} -> 2 * MAX_RETRIES + 2
      [] f.pc = "initCancelOld" -> 4
      [] f.pc = "initGateway" -> 3
      [] f.pc \in {"initPendingRow", "markFailed", "walletReadOrder", "adminRead"} -> 2
      [] OTHER -> 1

\* Why requests end: every step leaves fewer of them, whatever the other requests do, so
\* that a notification is worked off in eight steps, its three attempts included.
StepsRunOut ==
    [][\A w \in Workers : Step(w) => StepsLeft(req'[w]) \in 0 .. StepsLeft(req[w]) - 1]_vars

-----------------------------------------------------------------------------
(* What documents and comments claim, and the code does not keep *)

\* "SUCCESS | PAID | Confirmé": once nobody works on its order any more, the order
\* of a SUCCESS payment is not still waiting to be paid, uncredited.
SuccessMeansCredited ==
    \A t \in Txs :
        tx[t].status = "SUCCESS" /\ (\A w \in Workers : req[w].o # tx[t].order)
            => order[tx[t].order].status \notin Payable \/ TotalCredits(tx[t].order) > 0

=============================================================================
