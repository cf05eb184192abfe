SPECIFICATION Spec
CONSTANTS
    o1 = o1
    o2 = o2
    u1 = u1
    None = None
    Orders = {o1, o2}
    Txs = {t1, t2, t3}
    Users = {u1}
    Workers = {w1}
    Owner <- MCOwner
    TotalAmount <- MCTotalAmount
    RechargeAmount = 1
    MaxRequests = 5
    Faulty = FALSE
SYMMETRY Symmetry
INVARIANTS OnePendingRow CreditedPerPayment
CHECK_DEADLOCK FALSE
