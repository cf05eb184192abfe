SPECIFICATION FairSpec
CONSTANTS
    c1 = c1
    c2 = c2
    None = None
    Deliveries = {d1}
    CashOrders = {d1}
    Couriers = {c1, c2}
    Onboarded = {c1, c2}
    Accepted = {"READY"}
    Workers = {w1, w2}
    CourierShare = 1
    MinCashout = 1
    MaxRequests = 3
    Faulty = FALSE
PROPERTY AcceptanceTimesOut
CHECK_DEADLOCK FALSE
