SPECIFICATION FairSpec
CONSTANTS
    None = None
    a = a
    b = b
    r1 = r1
    r2 = r2
    r3 = r3
    d1 = d1
    d2 = d2
    f0 = f0
    mon = mon
    tue = tue
    Owners = {a, b}
    Restaurants = {r1, r2, r3}
    Dishes = {d1, d2}
    Home <- MCHome
    Founder <- MCFounder
    Served = {d1}
    FirstPhoto <- MCFirstPhoto
    FirstWeek <- MCFirstWeek
    Days = {mon, tue}
    Plans <- MCPlans
    Photos = {f0, f1, f2}
    Workers = {w1, w2}
    MaxRequests = 3
    Faulty = TRUE
INVARIANTS TypeOK MenuDishesOwned OrderedDishKept OneRestaurantPerOwner WeekOfOneSubmission PhotoMissingOnlyAfterFailure
PROPERTIES RequestsEnd StepsRunOut
CHECK_DEADLOCK FALSE
