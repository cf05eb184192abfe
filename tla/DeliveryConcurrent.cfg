SPECIFICATION FairSpec
CONSTANTS
    c1 = c1
    c2 = c2
    None = None
    Deliveries = {d1}
    CashOrders = {d1}
    Couriers = {c1, c2}
    Onboarded = {c1}
    Accepted = {"PREPARING", "READY"}
    Workers = {w1, w2}
    CourierShare = 1
    MinCashout = 1
    MaxRequests = 5
    Faulty = TRUE
INVARIANTS TypeOK CouriersVetted DeliveredPaid
PROPERTIES RequestsEnd StepsRunOut
CHECK_DEADLOCK FALSE
