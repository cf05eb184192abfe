SPECIFICATION Spec
CONSTANTS
    o1 = o1
    o2 = o2
    u1 = u1
    None = None
    Orders = {o1}
    Txs = {t1, t2}
    Users = {u1}
    Workers = {w1}
    Owner <- MCOwner
    TotalAmount <- MCTotalAmount
    RechargeAmount = 1
    MaxRequests = 3
    Faulty = FALSE
INVARIANT SuccessMeansCredited
CHECK_DEADLOCK FALSE
