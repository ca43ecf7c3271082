SPECIFICATION FilesOnly
CONSTANTS
    Requests = {}
    Corrections = {}
    Products = {beat}
    Basket <- TwoOfEach
    Price <- OneOfEach
    Shipping = 0
    Total = 2
    Files = {f1, f2}
    MaxUnits = 1
    Shippable = FALSE
    Correlations = {"MATCH"}
    MaxAnswers = 1
INVARIANTS
    FilesTypeOK
    RefundedAccounted
CONSTRAINT LookupsAlone
SYMMETRY Interchangeable
CHECK_DEADLOCK FALSE
