--------------------------- MODULE OrderStatuses ---------------------------
(***************************************************************************)
(* The status of an order: what an owner may make of it, and the statuses  *)
(* by which the owner's lists pick orders.  Payments, owners and couriers   *)
(* all write it, each knowing some of the statuses only.                   *)
(***************************************************************************)

OrderStatus == {"PENDING", "AWAITING_PAYMENT", "PAID", "PREPARING", "READY",
                "PICKED_UP", "IN_TRANSIT", "DELIVERED", "CANCELLED"}

\* The transitions an owner may ask for; a status that is missing allows none.
VALID_TRANSITIONS(status) ==
    CASE status = "PENDING"          -> {"AWAITING_PAYMENT", "PREPARING", "CANCELLED"}
      [] status = "AWAITING_PAYMENT" -> {"PAID", "CANCELLED"}
      [] status = "PAID"             -> {"PREPARING"}
      [] status = "PREPARING"        -> {"READY"}
      [] status = "READY"            -> {"DELIVERED"}
      [] OTHER                       -> {}

\* findRestaurantOrders: the owner's list of active orders, and his history.
ActiveList == {"PENDING", "AWAITING_PAYMENT", "PAID", "PREPARING", "READY"}

HistoryList == {"DELIVERED", "CANCELLED"}

=============================================================================
