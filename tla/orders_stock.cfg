SPECIFICATION OrdersSpec
CONSTANTS
    Orders = {o1, o2}
    Products = {beat, disc}
    InitialStock = 2
    MaxStock = 2
    MaxQuantity = 2
    Ttl = 1
    MaxTime = 2
    LockWait = 1
SYMMETRY Interchangeable
INVARIANTS
    StockLedger
    StockFollowsPayment
PROPERTIES
    PromisesKept
CHECK_DEADLOCK FALSE
