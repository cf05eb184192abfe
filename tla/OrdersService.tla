--------------------------- MODULE OrdersService ---------------------------
(***************************************************************************)
(* OrdersService: a client places an order, a restaurant owner moves it    *)
(* along.  An order may hold items of several restaurants, whose owners    *)
(* all move the same status.                                               *)
(***************************************************************************)
EXTENDS Store

\* create: one insert.  Cash on delivery is chosen here, any other method
\* when the payment is initiated.
Create(o, method) ==
    /\ order[o].status = "ABSENT"
    /\ order' = [order EXCEPT ![o] =
         [status |-> "PENDING",
          paymentStatus |-> IF method = "CASH_ON_DELIVERY" THEN "COD" ELSE "UNPAID",
          paymentMethod |-> method]]
    /\ UNCHANGED <<tx, credits, wallet, qr, req, arrivals>>

\* updateStatus reads the order, and checks the transition against what it read.
UpdateStatus(w, o, status) ==
    /\ status \in VALID_TRANSITIONS(order[o].status)
    /\ Begin(w, NewFrame(IF /\ status = "DELIVERED"
                            /\ order[o].paymentMethod = "CASH_ON_DELIVERY"
                         THEN "updateCod" ELSE "updateStatus", o, None, None, 0, status))
    /\ UNCHANGED <<order, tx, credits, wallet, qr>>

\* The write, whatever the status has become.
WriteStatus(w) ==
    /\ req[w].pc = "updateStatus"
    /\ SetOrderStatus(req[w].o, req[w].arg)
    /\ Return(w)
    /\ UNCHANGED <<tx, credits, wallet, qr>>

\* Mutated form of DeliverCod: the restaurants are not credited.
DeliverCodUncredited(w) ==
    /\ req[w].pc = "updateCod"
    /\ order' = [order EXCEPT ![req[w].o].status = "DELIVERED",
                              ![req[w].o].paymentStatus = "PAID"]
    /\ Return(w)
    /\ UNCHANGED <<tx, credits, wallet, qr>>

\* The delivery of a cash order is its payment: one transaction.
DeliverCod(w) ==
    /\ req[w].pc = "updateCod"
    /\ order' = [order EXCEPT ![req[w].o].status = "DELIVERED",
                              ![req[w].o].paymentStatus = "PAID"]
    /\ CreditRestaurants(req[w].o, "cod")
    /\ Return(w)
    /\ UNCHANGED <<tx, wallet, qr>>

OrdersCreate == \E o \in Orders, method \in {"CASH_ON_DELIVERY", None} : Create(o, method)

OrdersBegin(w) == \E o \in Orders, status \in OrderStatus : UpdateStatus(w, o, status)

OrdersStep(w) == WriteStatus(w) \/ DeliverCod(w)

=============================================================================
