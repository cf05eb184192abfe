SPECIFICATION Spec
CONSTANTS
    c1 = c1
    c2 = c2
    None = None
    Deliveries = {d1, d2}
    CashOrders = {d1}
    Couriers = {c1, c2}
    Onboarded = {c1, c2}
    Accepted = {"PREPARING", "READY"}
    Workers = {w1}
    CourierShare = 1
    MinCashout = 1
    MaxRequests = 5
    Faulty = TRUE
SYMMETRY Symmetry
INVARIANTS OneActiveDelivery CourierLedger OrderFollowsDelivery
PROPERTIES ImplementsLife RejectedNotReassigned
CHECK_DEADLOCK FALSE
