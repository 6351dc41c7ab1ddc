SPECIFICATION Spec
CONSTANTS
    Callers = {c1, c2}
    MaxOrders = 2
    MaxDeaths = 2
SYMMETRY CallerSymmetry
INVARIANTS
    FeeIsAnswered
    OneRenewalAtATime
PROPERTIES
    RefundIsRight
    CompletionIsRight
CHECK_DEADLOCK FALSE
