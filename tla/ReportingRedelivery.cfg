SPECIFICATION Spec
CONSTANTS
    Order = {o1, o2}
    o1 = o1
    o2 = o2
    Item = {i1, i2}
    i1 = i1
    i2 = i2
    t1 = t1
    t2 = t2
    food = food
    drinks = drinks
    Waiter = {w1}
    None = None
    NoFact = NoFact
    Historic = {o2}
    Active = {o1}
    Amount <- MCAmount
    Quantity <- MCQuantity
    TableOf <- MCTableOf
    CategoryOf <- MCCategoryOf
    LastDay = 1
    BatchSize = 2
    MaxReceives = 2
    MaxAttempts = 2
    MaxFaults = 2
    MaxRequests = 1
    MaxRawRows = 1
CHECK_DEADLOCK FALSE
INVARIANT
    NoDoubleCount
