SPECIFICATION FairSpec
CONSTANTS
    Orders = {o1}
    Products = {beat}
    InitialStock = 1
    MaxStock = 1
    MaxQuantity = 1
    Ttl = 1
    MaxTime = 1
    LockWait = 0
    Attempts = {a1}
    NoOrder = NoOrder
    Providers = {"STRIPE"}
    Evidence = {TRUE}
PROPERTIES
    UnpaidReservationsExpire
CHECK_DEADLOCK FALSE
