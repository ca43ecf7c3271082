SPECIFICATION Spec
CONSTANTS
    Orders = {o1}
    Products = {beat}
    InitialStock = 1
    MaxStock = 1
    MaxQuantity = 1
    Ttl = 1
    MaxTime = 1
    LockWait = 0
    Attempts = {a1, a2}
    NoOrder = NoOrder
    Providers = {"STRIPE", "PAYPAL"}
    Evidence = {TRUE, FALSE}
SYMMETRY Interchangeable
CONSTRAINT OneComplication
INVARIANTS
    OneWinnerPerOrder
    PaidOrderBacked
    WinnerSettlesOrder
    OneActivePerProvider
    CapturedMoneyAccounted
PROPERTIES
    PaidEvidenceKept
    KeepsSalePromise
CHECK_DEADLOCK FALSE
