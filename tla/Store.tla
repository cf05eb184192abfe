------------------------------- MODULE Store -------------------------------
(***************************************************************************)
(* What the payment side of the backend shares: the PostgreSQL rows, the   *)
(* QR codes held by Orange Money, and the requests in flight.              *)
(*                                                                         *)
(* A request is an HTTP handler suspended at an await.  req[w] is the      *)
(* frame of the request in slot w: the step it takes next and the values   *)
(* it read earlier and still carries.  One slot is a server that handles   *)
(* one request at a time, two slots let any two requests interleave at     *)
(* every await.  PostgreSQL runs READ COMMITTED (the Prisma default): a    *)
(* single statement is one step, an interactive $transaction that reads a  *)
(* row is one step for the read and one for the commit of its writes.      *)
(***************************************************************************)
EXTENDS Integers, FiniteSets, OrderStatuses

CONSTANTS
    Orders,         \* order ids
    Txs,            \* ids of payment rows; row t carries the reference of QR t
    Users,          \* clients, each with one wallet
    Workers,        \* slots for requests in flight
    Owner,          \* Owner[o]: the client who placed order o
    TotalAmount,    \* TotalAmount[o]: what order o costs
    RechargeAmount, \* what one wallet recharge adds
    MaxRequests,    \* bound: requests that ever arrive
    Faulty,         \* whether requests may die between two awaits
    None            \* no value

\* WAVE stands for the two providers of the mock strategy, WAVE and FREE_MONEY.
PaymentMethod == {"ORANGE_MONEY", "WAVE", "CASH_ON_DELIVERY"}

ASSUME StoreAssumption ==
    /\ Owner \in [Orders -> Users]
    /\ TotalAmount \in [Orders -> Nat \ {0}]
    /\ RechargeAmount \in Nat \ {0}
    /\ MaxRequests \in Nat
    /\ Faulty \in BOOLEAN
    /\ None \notin Orders \cup Txs \cup Users \cup PaymentMethod

VARIABLES
    order,      \* table orders: status, paymentStatus, paymentMethod
    tx,         \* table transactions: the rows of client payments
    credits,    \* table transactions: rounds of restaurant CREDIT rows per order, by origin
    wallet,     \* tables wallets and wallet_transactions (RECHARGE less DEBIT_ORDER rows, summed)
    qr,         \* Orange Money's QR codes
    req,        \* requests in flight
    arrivals    \* requests that have arrived

vars == <<order, tx, credits, wallet, qr, req, arrivals>>

-----------------------------------------------------------------------------
(* Values *)

TransactionStatus == {"PENDING", "SUCCESS", "FAILED"}

\* "ABSENT": the row has not been inserted.
OrderRow == [status : OrderStatus \cup {"ABSENT"},
             paymentStatus : {"UNPAID", "COD", "PAID"},
             paymentMethod : PaymentMethod \cup {None}]

TxRow == [status : TransactionStatus \cup {"ABSENT"},
          order : Orders \cup {None},
          provider : PaymentMethod \cup {None}]

\* Which of the four crediting blocks wrote the restaurant rows (their notes differ).
Origins == {"online", "wallet", "cod", "admin"}

WalletRow == [balance : Int, ledger : Int]

\* "issued": Orange Money knows the QR but the client does not hold it yet.
QrCode == [state : {"ABSENT", "issued", "open", "paid", "cancelled", "expired"},
           order : Orders \cup {None},
           quotedFor : SUBSET Orders] \* history: other orders verified by quoting it

Steps == {"idle",
          "initCancelOld", "initGateway", "initFailedRow", "initPendingRow",
          "initOrder", "initConfirm",
          "verify", "clientVerify", "settleTx",
          "markSuccess", "confirmRead", "confirmCommit", "markFailed", "resetOrder",
          "updateStatus", "updateCod",
          "rechargeCommit", "walletReadOrder", "walletCommit",
          "adminRead", "adminCommit"}

Frame == [pc : Steps, o : Orders \cup {None}, t : Txs \cup {None}, u : Users \cup {None},
          n : Int,                                  \* balance read, or attempt number
          arg : OrderStatus \cup PaymentMethod \cup {None}] \* target status, or method

NewFrame(pc, o, t, u, n, arg) == [pc |-> pc, o |-> o, t |-> t, u |-> u, n |-> n, arg |-> arg]

Idle == NewFrame("idle", None, None, None, 0, None)

-----------------------------------------------------------------------------
(* Initial state: an empty database. *)

StoreInit ==
    /\ order = [o \in Orders |-> [status |-> "ABSENT", paymentStatus |-> "UNPAID",
                                  paymentMethod |-> None]]
    /\ tx = [t \in Txs |-> [status |-> "ABSENT", order |-> None, provider |-> None]]
    /\ credits = [o \in Orders |-> [origin \in Origins |-> 0]]
    /\ wallet = [u \in Users |-> [balance |-> 0, ledger |-> 0]]
    /\ qr = [t \in Txs |-> [state |-> "ABSENT", order |-> None, quotedFor |-> {}]]
    /\ req = [w \in Workers |-> Idle]
    /\ arrivals = 0

-----------------------------------------------------------------------------
(* Requests *)

\* A request arrives, runs to its first await and is left as frame f.
Begin(w, f) ==
    /\ req[w] = Idle
    /\ arrivals < MaxRequests
    /\ arrivals' = arrivals + 1
    /\ req' = [req EXCEPT ![w] = f]

\* The request in slot w moves on to step pc.
Goto(w, pc) ==
    /\ req' = [req EXCEPT ![w].pc = pc]
    /\ UNCHANGED arrivals

\* The request in slot w is over: it returned, or it threw.
Return(w) ==
    /\ req' = [req EXCEPT ![w] = Idle]
    /\ UNCHANGED arrivals

\* A request dies at an await: its database or network call failed, or the
\* process stopped (a restart is an Abort of every slot).  What it wrote stays.
Abort(w) ==
    /\ Faulty
    /\ req[w] # Idle
    /\ Return(w)
    /\ UNCHANGED <<order, tx, credits, wallet, qr>>

-----------------------------------------------------------------------------
(* Rows *)

\* A row id neither the database nor Orange Money knows.
Fresh(t) == tx[t].status = "ABSENT" /\ qr[t].state = "ABSENT"

\* manuallyValidateTransaction updates its row first and commits later: in
\* between PostgreSQL makes every other write to that row wait.
Unlocked(t) == \A w \in Workers : req[w].pc = "adminCommit" => req[w].t # t

\* The rows a findFirst on (orderId, PENDING) may return: it has no orderBy.
PendingTxs(o) == {t \in Txs : tx[t].order = o /\ tx[t].status = "PENDING"}

SetTxStatus(t, s) == Unlocked(t) /\ tx' = [tx EXCEPT ![t].status = s]

SetOrderStatus(o, s) == order' = [order EXCEPT ![o].status = s]

SetOrderPaid(o) == order' = [order EXCEPT ![o].status = "PAID", ![o].paymentStatus = "PAID"]

\* Every restaurant of the order is credited with its items' subtotals and
\* gets a CREDIT row, in the transaction that settles the order.
CreditRestaurants(o, origin) == credits' = [credits EXCEPT ![o][origin] = @ + 1]

=============================================================================
