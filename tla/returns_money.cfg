SPECIFICATION AfterSalesSpec
CONSTANTS
    Requests = {r1}
    Corrections = {}
    Products = {beat}
    Basket <- OneOfEach
    Price <- OneOfEach
    Shipping = 1
    Total = 2
    Files = {f1}
    MaxUnits = 1
    Shippable = FALSE
    Correlations = {"MATCH"}
    MaxAnswers = 0
INVARIANTS
    MoneyBounded
    UnitsAccounted
PROPERTIES
    KeepsCancellation
CHECK_DEADLOCK FALSE
