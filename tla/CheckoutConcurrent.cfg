SPECIFICATION FairSpec
CONSTANTS
    o1 = o1
    o2 = o2
    u1 = u1
    None = None
    Orders = {o1}
    Txs = {t1, t2}
    Users = {u1}
    Workers = {w1, w2}
    Owner <- MCOwner
    TotalAmount <- MCTotalAmount
    RechargeAmount = 1
    MaxRequests = 4
    Faulty = FALSE
INVARIANTS TypeOK OnlineCreditBacked PaidMeansCredited WalletNeverNegative
PROPERTIES RequestsEnd StepsRunOut ImplementsLife
CHECK_DEADLOCK FALSE
