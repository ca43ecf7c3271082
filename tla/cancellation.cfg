SPECIFICATION Spec
CONSTANTS
    Requests = {r1, r2}
    Corrections = {c1}
    Products = {beat}
    Basket <- OneOfEach
    Total = 1
    Shippable = TRUE
    Correlations = {"MATCH", "MISSING", "MISMATCH"}
    MaxAnswers = 1
CONSTRAINT OneComplication
SYMMETRY Interchangeable
INVARIANTS
    CancellationWhole
    FailureProven
    NeverShippedAndRefunded
    AskedOnce
PROPERTIES
    ConfirmationKept
    ImplementsSettlement
CHECK_DEADLOCK FALSE
