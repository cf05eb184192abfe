SPECIFICATION Spec
CONSTANTS
    None = None
    Orders = {o1, o2, o3}
    Stars = {1, 4, 5}
    Workers = {w1, w2}
    MaxRequests = 5
SYMMETRY Symmetry
INVARIANTS TypeOK AveragesStandForRatings
CHECK_DEADLOCK FALSE
