SPECIFICATION Spec
CONSTANTS
    None = None
    Phones = {p1, p2}
    Tokens = {t1, t2, t3}
    Workers = {w1, w2}
    MaxRequests = 7
    Faulty = TRUE
SYMMETRY Symmetry
INVARIANTS TypeOK ActiveHasWallet
PROPERTIES RevokedNotRefreshed
CHECK_DEADLOCK FALSE
