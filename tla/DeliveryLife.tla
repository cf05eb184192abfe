---------------------------- MODULE DeliveryLife ----------------------------
(***************************************************************************)
(* What DeliveryService promises: a delivery is offered to a courier who   *)
(* has none, taken back, carried and delivered; it is paid for once, when  *)
(* it is delivered, and a courier cashes out all he has.                   *)
(***************************************************************************)
EXTENDS Integers

CONSTANTS Deliveries, Couriers, CourierShare, MinCashout, None

VARIABLES
    stage,      \* status and courier of a delivery
    balance     \* what a courier has earned and not cashed out

Init ==
    /\ stage = [d \in Deliveries |-> [status |-> "ABSENT", courier |-> None]]
    /\ balance = [c \in Couriers |-> 0]

Carries(c, d) == stage[d].courier = c /\ stage[d].status \in {"ASSIGNED", "PICKED_UP"}

Open(d) ==
    /\ stage[d].status = "ABSENT"
    /\ stage' = [stage EXCEPT ![d].status = "SEARCHING"]
    /\ UNCHANGED balance

Offer(d, c) ==
    /\ stage[d].status = "SEARCHING"
    /\ \A e \in Deliveries : ~Carries(c, e)
    /\ stage' = [stage EXCEPT ![d] = [status |-> "ASSIGNED", courier |-> c]]
    /\ UNCHANGED balance

Withdraw(d) ==
    /\ stage[d].status = "ASSIGNED"
    /\ stage' = [stage EXCEPT ![d] = [status |-> "SEARCHING", courier |-> None]]
    /\ UNCHANGED balance

PickUp(d) ==
    /\ stage[d].status = "ASSIGNED"
    /\ stage' = [stage EXCEPT ![d].status = "PICKED_UP"]
    /\ UNCHANGED balance

Deliver(d) ==
    /\ stage[d].status = "PICKED_UP"
    /\ stage' = [stage EXCEPT ![d].status = "DELIVERED"]
    /\ balance' = [balance EXCEPT ![stage[d].courier] = @ + CourierShare]

CashOut(c) ==
    /\ balance[c] >= MinCashout
    /\ balance' = [balance EXCEPT ![c] = 0]
    /\ UNCHANGED stage

Next ==
    \/ \E d \in Deliveries : Open(d) \/ Withdraw(d) \/ PickUp(d) \/ Deliver(d)
    \/ \E d \in Deliveries, c \in Couriers : Offer(d, c)
    \/ \E c \in Couriers : CashOut(c)

Spec == Init /\ [][Next]_<<stage, balance>>

OneActiveDelivery ==
    \A c \in Couriers, d, e \in Deliveries : Carries(c, d) /\ Carries(c, e) => d = e

=============================================================================
