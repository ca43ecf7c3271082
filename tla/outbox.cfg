SPECIFICATION FairSpec
CONSTANTS
    Notices = {n1}
    Recipients = {ann}
    To <- OneAddress
    Workers = {w1, w2}
    MaxAttempts = 2
    MaxEvents = 2
INVARIANTS
    TypeOK
    AtMostOneMail
    NoneLeftBehind
    SuppressionCurrent
PROPERTIES
    MovesForward
    SettledOrExhausted
CHECK_DEADLOCK FALSE
