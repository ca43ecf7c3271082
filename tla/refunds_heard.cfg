SPECIFICATION RefundsHeard
CONSTANTS
    Requests = {r1}
    Corrections = {}
    Products = {beat}
    Basket <- TwoOfEach
    Price <- OneOfEach
    Shipping = 0
    Total = 2
    Files = {f1, f2}
    MaxUnits = 1
    Shippable = FALSE
    Correlations = {"MISSING"}
    MaxAnswers = 0
PROPERTIES
    RefundHeard
    FileRefundHeard
CHECK_DEADLOCK FALSE
