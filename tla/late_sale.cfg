SPECIFICATION Spec
CONSTANTS
    Orders = {o1}
    Products = {beat}
    InitialStock = 1
    MaxStock = 1
    MaxQuantity = 1
    Ttl = 1
    MaxTime = 2
    LockWait = 1
    Attempts = {a1}
    NoOrder = NoOrder
    Providers = {"STRIPE"}
    Evidence = {TRUE}
SYMMETRY Interchangeable
PROPERTIES
    ConfirmedOnTime
CHECK_DEADLOCK FALSE
