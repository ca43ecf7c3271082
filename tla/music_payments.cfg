SPECIFICATION Spec
CONSTANTS
    MaxAttempts = 2
    Providers = {"STRIPE", "PAYPAL"}
    Prices = {low, high}
    NoPrice = NoPrice
    Evidence = {TRUE, FALSE}
INVARIANTS
    OneWinner
    MoneyAccounted
    PaypalAtCurrentPrice
SYMMETRY Interchangeable
CONSTRAINT TwoRequests
CHECK_DEADLOCK FALSE
